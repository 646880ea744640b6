SPECIFICATION Spec
CONSTANTS
  Main = main
  Stopper = t2
  Thread = {main, t2}
  SymbolCounts <- ListLengths
  MaxStreams <- Limits
  MaxRequests = 4
  MaxFrames = 2
  Message <- RequestIds
  NoMessage = NoMessage
INVARIANTS
  TypeOK
  SubscriptionComplete
  NoSleepOnFrame
  DestructorJoins
PROPERTIES
  SubscribeReturns
  StopCompletes
  ImplementsUpdateStream
CHECK_DEADLOCK FALSE
