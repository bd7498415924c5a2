SPECIFICATION Spec
CONSTANTS
  w1 = w1
  r1 = r1
  r2 = r2
  container = container
  worker = worker
  loop = loop
  client = client
  local = local
  nfs = nfs
  ceph = ceph
  None = None
  Vol <- MCVol
  DriverOf <- MCDriverOf
  VolumeFaults = {"provision"}
  StorageTypes <- OneType
  VolumesOf <- MCVolumesOf
  WId <- MCWId
  Rev <- OneRev
  WType <- OneType
  Registered <- OneType
  OpProc <- MCOpProc
  RecProc <- MCRecProc
  GetProc = {}
  Admission = {"ok"}
  RuntimeFaults = {}
  StoreFaults = FALSE
  Environment = {}
  MaxCrashes = 0
  MaxAttempts = 1
  InitialDelay = 0
  BackoffMultiplier = 2
  MaxDelay = 2
  OnlyRetryTransient = TRUE
INVARIANTS
  CreatedWithVolumes
