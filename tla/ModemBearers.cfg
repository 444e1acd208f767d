SPECIFICATION Spec
CONSTANTS
  c1 = c1
  c2 = c2
  Call = {c1, c2}
  Watched = {c1}
  MaxSessions = 2
  None = None
INVARIANTS
  SessionIDsExclusive
  SessionsOwned
  TableHoldsLiveBearers
PROPERTIES
  CloseReturns
CHECK_DEADLOCK FALSE
