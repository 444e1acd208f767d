SPECIFICATION MCSpec
CONSTANTS
  Calls <- MCCalls
  MaxCount = 3
INVARIANTS
  ReadsInside
  PrefixesTrue
  
  ClosedIsClosed
  WatchersRegistered
  OwnAnswers
  SessionsBacked
  CacheIsTrue
  QueueIsOfThisSession
PROPERTY
  EachServiceImplements
