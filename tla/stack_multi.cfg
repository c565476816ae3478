CONSTANTS
  Client = Client
  Server = Server
  MaxSeq = 2
  MaxReady = 4
  MaxTimeouts = 0
  Photos = TRUE
  LongFrames = TRUE
  RequestShapes <- ShapesOne
  ReplyShapes <- ShapesMulti
  MaxRequests = 1
SPECIFICATION Spec
CHECK_DEADLOCK FALSE
INVARIANTS
  TypeOK
  EventBacked
  ReadyInOrder
  RefusedAckIsSecondary
PROPERTY
  ChannelSpec
