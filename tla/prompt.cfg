CONSTANTS
  Text <- SomeText
  Lines <- SomeLines
  MaxDepth = 4
SPECIFICATION FairSpec
CHECK_DEADLOCK FALSE
INVARIANTS
  TypeOK
  RequestFitsOneFrame
  ServerReadsWritten
  ArgumentsMatch
PROPERTY
  LongLineFatal
