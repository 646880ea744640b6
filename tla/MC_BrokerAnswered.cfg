SPECIFICATION Spec
CONSTANTS
  Thread = {main}
  Main = main
  Message = {r1}
  NoMessage = NoMessage
  Reply = {ok}
  NoReply = NoReply
  NotFound = NotFound
PROPERTIES
  MadeRequestIsFound
CHECK_DEADLOCK FALSE
