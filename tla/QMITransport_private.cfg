SPECIFICATION FairSpec
CONSTANTS
  a1 = a1
  s1 = s1
  s2 = s2
  la = la
  lb = lb
  NoReq = NoReq
  Req <- MCSvc
  Lease <- MCOne
  LeaseOf <- MCOneLeaseOf
  KindOf <- MCOneKindOf
  Timed <- MCOneTimed
  Shared = FALSE
  TxnMax = 2
PROPERTIES
  RequestReturns
INVARIANTS
  NeverStranded
  NothingLeftBehind
  OwnResponse
  WriterOwnsDeadline
CHECK_DEADLOCK FALSE
