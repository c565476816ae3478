CONSTANTS
  Client = Client
  Server = Server
  MaxSeq = 2
  MaxReady = 3
  MaxTimeouts = 1
  Photos = FALSE
  LongFrames = FALSE
  RequestShapes <- ShapesOne
  ReplyShapes <- ShapesMulti
  MaxRequests = 1
SPECIFICATION Spec
INVARIANT
  MessageReconstructed
