CONSTANTS
  Client = Client
  Server = Server
  MaxSeq = 2
  MaxReady = 3
  MaxTimeouts = 0
  Photos = TRUE
  LongFrames = FALSE
  RequestShapes <- ShapesOne
  ReplyShapes <- ShapesLong
  MaxRequests = 1
SPECIFICATION FairSpec
PROPERTY
  StallHasCause
