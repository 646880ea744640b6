SPECIFICATION Spec
CONSTANTS
  MaxDouble = 100000
  Rounding <- AsIs
  FeeNum = 1
  FeeDen = 1000
  Main = main
  NoRequest = NoRequest
  NoReply = NoReply
  Refused = Refused
  Error = Error
  SymbolLists <- SmallMarkets
  StartingAssetName = "USDT"
  Balance = 2000
  Books <- SmallBooks
  MaxStreams = 4
  MaxRequests = 6
INVARIANTS
  TypeOK
  StaleOnlyIfMissed
  SignalAffordable
PROPERTIES
  PathsAreTriangles
  MarketDataNeverRegresses
  NoSignalOverlooked
CHECK_DEADLOCK FALSE
