SPECIFICATION GCSpec
CONSTANTS
  w1 = w1
  r1 = r1
  container = container
  worker = worker
  None = None
  Vol = {}
  DriverOf <- MCDriverOf
  VolumeFaults = {}
  StorageTypes <- OneType
  VolumesOf <- NoVolumes
  WId <- MCWId
  Rev <- OneRev
  WType <- OneType
  Registered <- OneType
  OpProc <- MCOpProc
  RecProc = {}
  GetProc = {}
  Admission = {"ok"}
  RuntimeFaults = {"status"}
  StoreFaults = FALSE
  Environment = {}
  MaxCrashes = 0
  MaxAttempts = 1
  InitialDelay = 1
  BackoffMultiplier = 2
  MaxDelay = 2
  OnlyRetryTransient = TRUE
  OrphanTypes <- OneType
PROPERTIES
  DropsOnlyZombies
