SPECIFICATION Spec
CONSTANTS
  Main = main
  Symbol = {btc, eth}
  Requested = All
  All = All
  Header <- HeaderLine
  Fragile = {eth}
  MaxStreams = 4
  Second = 2
  StartTime = 3
  StopTime = 5
  MaxTime = 7
  MaxUpdates = 3
  MaxRuns = 2
INVARIANTS
  TypeOK
  UpdatesKept
  HeaderOnTopOnly
  CountersMatchFiles
  LostTail
  RecordsInItsDate
PROPERTIES
  UpdateEndsRun
CHECK_DEADLOCK FALSE
