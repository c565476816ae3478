CONSTANTS
  Messages <- AllMessages
  FrameSeqs <- Seqs
  Junk <- Memory
SPECIFICATION Spec
CHECK_DEADLOCK FALSE
INVARIANTS
  TypeOK
  RefusedForCheckByte
  FrameReadAsSent
  MergedReadAsAck
  OnlyRemnantsThrow
  PacketsReadAsSent
  TextReadAsSent
