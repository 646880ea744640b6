SPECIFICATION Spec
CONSTANTS
  Main = main
  Stopper = t2
  Thread = {main, t2}
  SymbolCounts <- OneSymbol
  MaxStreams <- OneLimit
  MaxRequests = 1
  MaxFrames = 1
  Message <- RequestIds
  NoMessage = NoMessage
PROPERTIES
  StoppedFeederReleases
CHECK_DEADLOCK FALSE
