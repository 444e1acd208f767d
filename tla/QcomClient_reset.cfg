SPECIFICATION Spec
CONSTANTS
  u1 = u1
  u2 = u2
  p1 = p1
  nas = nas
  wds = wds
  None = None
  User = {u1, u2}
  Session = {}
  Service = {nas}
  ServiceOf <- OneService
  MaxCID = 2
  MaxResets = 1
  Misanswers = FALSE
INVARIANTS
  NoOrphan
CHECK_DEADLOCK FALSE
