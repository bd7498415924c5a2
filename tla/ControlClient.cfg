SPECIFICATION FairSpec
CONSTANTS
  Intervals <- MCIntervals
  Leases <- MCLeases

  
PROPERTIES
  StaysRegistered
  ExpiryNoticed
  ReturnsWhenCancelled
