CONSTANTS
  s1 = s1  s2 = s2
  p1 = p1  p2 = p2  p3 = p3
  b1 = b1  b2 = b2
  n1 = n1  lake = lake  field = field
  boss = boss  clerk = clerk
  w1 = w1  w2 = w2
  NoName = NoName
  NoUser = NoUser
  NoRequest = NoRequest
  Session = {s1, s2}
  Limit = 1
  PublicID = {p1}
  BodyID = {b1}
  Name = {n1}
  Place = {lake}
  TextLength <- Lengths
  User = {boss, clerk}
  Password = {w1, w2}
  Requests <- AccountCommands
  FirstAccounts <- OneBoss
  MaxLosses = 1
SPECIFICATION FairSpec
INVARIANTS
  SignedInAsUser
PROPERTIES
  TablesSpec
  AnswersTell
  OnlyAdminsChange
  RequestAnswered
CHECK_DEADLOCK FALSE
