SPECIFICATION FairSpec
CONSTANTS
  w1 = w1
  r1 = r1
  r2 = r2
  container = container
  worker = worker
  loop = loop
  client = client
  local = local
  nfs = nfs
  ceph = ceph
  None = None
  Vol = {}
  DriverOf <- MCDriverOf
  VolumeFaults = {}
  StorageTypes <- OneType
  VolumesOf <- NoVolumes
  WId <- MCWId
  Rev <- OneRev
  WType <- OneType
  Registered <- OneType
  OpProc <- MCOpProc
  RecProc <- MCRecProc
  GetProc <- MCGetProc
  Admission = {"ok"}
  RuntimeFaults = {}
  StoreFaults = FALSE
  Environment = {"drift"}
  MaxCrashes = 0
  MaxAttempts = 1
  InitialDelay = 1
  BackoffMultiplier = 2
  MaxDelay = 2
  OnlyRetryTransient = TRUE
PROPERTIES
  SettlesWhilePolled
