SPECIFICATION MCSpec
CONSTANTS
  s1 = s1
  l1 = l1
  l2 = l2
  t1 = t1
  t2 = t2
  Sub = {s1}
  Lease = {l1, l2}
  OwnerOf <- OneOwner
  Topic = {t1, t2}
  TopicOf <- OneTopic
  ChCap = 1
  MaxInd = 3
INVARIANTS
  InOrder
  AllAccountedFor
  DescriptorsOwned
  ClosedLeavesNothing
PROPERTIES
  StopReturns
  IndicationArrives
  BlockedIOReturns
  WatchEnds
CHECK_DEADLOCK FALSE
