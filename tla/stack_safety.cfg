CONSTANTS
  Client = Client
  Server = Server
  MaxSeq = 2
  MaxReady = 3
  MaxTimeouts = 1
  Photos = FALSE
  LongFrames = TRUE
  RequestShapes <- ShapesOne
  ReplyShapes <- ShapesTwo
  MaxRequests = 2
SPECIFICATION Spec
CONSTRAINT Intact
CHECK_DEADLOCK FALSE
INVARIANTS
  StopAndWait
  AckPopsNothing
  QueueUntouched
  InOrderArrival
  TimerCoversWindow
  MessagesMatch
