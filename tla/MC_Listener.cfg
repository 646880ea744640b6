SPECIFICATION Spec
CONSTANTS
  Thread = {caller, t2}
  Caller = caller
  ListLengths <- Lengths
  Limits <- Quarters
  MaxRequests = 2
  Message <- Texts
  NoMessage = NoMessage
INVARIANTS
  WSTypeOK
  HandleBeforeFlag
  DroppedOnlyAfterClose
  EveryNameOnce
  PendingAccounted
PROPERTIES
  WritersReleased
  StoppedThreadExits
CHECK_DEADLOCK FALSE
