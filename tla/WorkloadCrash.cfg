SPECIFICATION Spec
CONSTANTS
  w1 = w1
  r1 = r1
  r2 = r2
  container = container
  worker = worker
  loop = loop
  client = client
  local = local
  nfs = nfs
  ceph = ceph
  None = None
  Vol = {}
  DriverOf <- MCDriverOf
  VolumeFaults = {}
  StorageTypes <- OneType
  VolumesOf <- NoVolumes
  WId <- MCWId
  Rev <- TwoRevs
  WType <- OneType
  Registered <- OneType
  OpProc <- MCOpProc
  RecProc <- MCRecProc
  GetProc = {}
  Admission = {"ok", "full", "error"}
  RuntimeFaults = {"create", "start", "stop", "status"}
  StoreFaults = TRUE
  Environment = {"drift", "pending"}
  MaxCrashes = 2
  MaxAttempts = 1
  InitialDelay = 0
  BackoffMultiplier = 2
  MaxDelay = 2
  OnlyRetryTransient = TRUE
INVARIANTS
  ReconcileSeesStored
  EveryResourceRecorded
  
