SPECIFICATION Spec
CONSTANTS
  a1 = a1
  s1 = s1
  s2 = s2
  la = la
  lb = lb
  NoReq = NoReq
  Req <- MCPair
  Lease <- MCLease
  LeaseOf <- MCPairLeaseOf
  KindOf <- MCPairKindOf
  Timed <- MCTimed
  Shared = TRUE
  TxnMax = 2
INVARIANTS
  ZeroByteInterruptKeepsCore
CHECK_DEADLOCK FALSE
