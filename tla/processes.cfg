CONSTANTS
  c1 = c1
  c2 = c2
  c3 = c3
  NoConn = NoConn
  Conn <- Three
  MaxFds = 2
  MaxProcs = 2
  MaxDB = 1
SPECIFICATION FairSpec
CHECK_DEADLOCK FALSE
INVARIANTS
  TypeOK
  LifetimeBound
  EndUnseen
PROPERTY
  WaitHasCause
