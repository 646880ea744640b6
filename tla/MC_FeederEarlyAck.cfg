SPECIFICATION Spec
CONSTANTS
  Main = main
  Stopper = main
  Thread = {main}
  SymbolCounts <- OneSymbol
  MaxStreams <- OneLimit
  MaxRequests = 1
  MaxFrames = 1
  Message <- RequestIds
  NoMessage = NoMessage
INVARIANTS
  ResponsesAreNotMarketData
CHECK_DEADLOCK FALSE
