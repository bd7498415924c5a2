SPECIFICATION Spec
CONSTANTS
  w1 = w1
  r1 = r1
  r2 = r2
  container = container
  worker = worker
  loop = loop
  client = client
  local = local
  nfs = nfs
  ceph = ceph
  None = None
  Vol <- MCVol
  DriverOf <- MCDriverOf
  VolumeFaults = {"provision", "attach"}
  StorageTypes <- OneType
  VolumesOf <- MCVolumesOf
  WId <- MCWId
  Rev <- TwoRevs
  WType <- OneType
  Registered <- OneType
  OpProc <- MCOpProc
  RecProc <- MCRecProc
  GetProc = {}
  Admission = {"ok"}
  RuntimeFaults = {"create", "start", "stop", "status"}
  StoreFaults = FALSE
  Environment = {"drift", "pending"}
  MaxCrashes = 1
  MaxAttempts = 1
  InitialDelay = 0
  BackoffMultiplier = 2
  MaxDelay = 2
  OnlyRetryTransient = TRUE
INVARIANTS
  
  
  AttachedVolumeExists
  AttachmentsRecorded
  NoStrayVolume
PROPERTIES
  RetainKept
  StartsOnlyDesired
