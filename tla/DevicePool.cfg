SPECIFICATION FairSpec
CONSTANTS
  p1 = p1
  p2 = p2
  p3 = p3
  p4 = p4
  Proc = {p1, p2, p3, p4}
  MaxCalls = 1
  MaxEntries = 5
  ConnectsLease = TRUE
INVARIANTS
  OneConnection
  NotClosedUnderLease
PROPERTIES
  AcquireReturns
CHECK_DEADLOCK FALSE
