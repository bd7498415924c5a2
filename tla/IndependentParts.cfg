SPECIFICATION Spec
CONSTANTS
  v1 = v1  v2 = v2  v3 = v3
  d1 = d1  d2 = d2  n1 = n1
  c1 = c1  c2 = c2  c3 = c3
  web = web  db = db  queue = queue
  p1 = p1  p2 = p2
  s1 = s1  s2 = s2
  VMRev = {v1, v2, v3}
  Disk = {d1, d2, n1}
  Network = {n1}
  DisksOf <- VMDisks
  SeedOf <- VMSeeds
  VMFaults = {"lookup", "state", "start", "shutdown", "destroy", "define", "undefine", "xml", "disk",
              "marker", "iso", "remove"}
  ComposeRev = {c1, c2, c3}
  Service = {web, db, queue}
  ServicesOf <- Services
  HasEnv = {c1}
  PayloadOf <- Payloads
  ComposeFaults = {"write", "up", "stop", "remove"}
  PoolName = {p1, p2}
  DiskID = {d1, d2}
  Workload = {v1}
  NoPool = NoPool
  NoDisk = NoDisk
  Detached = Detached
  SizeGB = {0, 1, 2, 3}
  Threshold = {0, 50}
  Config <- Configs
  Op = {1, 2, 3}
  Subject = {s1, s2}
  OpOf <- Requests
INVARIANTS
  NothingLeft StaysStopped
    
   
  ActionsAgree
PROPERTIES
   DisksOutliveGuest VMCallReturns
  PendingUntilDone 
