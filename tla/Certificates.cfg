\* One handshake at a time; both outages and two crashes.
SPECIFICATION FairSpec
CONSTANTS
  h1 = h1
  Reader <- OneReader
  Outages = {"disk", "vault"}
  MaxGen = 2
  MaxCrashes = 2
INVARIANTS
  CacheFresh
  ServesCurrent

  
