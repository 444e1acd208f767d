SPECIFICATION FairSpec
CONSTANTS
  u1 = u1
  u2 = u2
  p1 = p1
  nas = nas
  wds = wds
  None = None
  User = {u1, u2}
  Session = {p1}
  Service = {nas, wds}
  ServiceOf <- OneService
  MaxCID = 2
  MaxResets = 1
  Misanswers = TRUE
INVARIANTS
  NoOrphanUnlessReset
  CloseReleasesAll
PROPERTIES
  CloseReturns
CHECK_DEADLOCK FALSE
