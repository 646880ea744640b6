SPECIFICATION Spec
CONSTANTS
  Thread = {main, t2}
  Main = main
  Message = {r1, r2}
  NoMessage = NoMessage
  Reply = {ok, err}
  NoReply = NoReply
  NotFound = NotFound
INVARIANTS
  TypeOK
  PendingOrStored
  NoSleepOnAnswer
  DestructorJoins
PROPERTIES
  StopCompletes
  ImplementsRequestReply
CHECK_DEADLOCK FALSE
