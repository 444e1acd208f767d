SPECIFICATION FairSpec
CONSTANTS
  c1 = c1
  c2 = c2
  l1 = l1
  l2 = l2
  None = None
  Caller = {c1, c2}
  Lease = {l1, l2}
  LeaseOf <- TwoLeases
  MaxQueue = 1
  MaxInd = 2
INVARIANTS
  NoIndicationLost
  
PROPERTIES
  OthersUndisturbed
  CallsEnd
CHECK_DEADLOCK FALSE
