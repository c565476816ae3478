CONSTANTS
  s1 = s1  s2 = s2
  p1 = p1  p2 = p2  p3 = p3
  b1 = b1  b2 = b2
  n1 = n1  lake = lake  field = field
  boss = boss  clerk = clerk
  w1 = w1  w2 = w2  w3 = w3
  NoName = NoName
  NoUser = NoUser
  NoRequest = NoRequest
  Session = {s1, s2}
  Limit = 1
  PublicID = {p1, p2, p3}
  BodyID = {b1, b2}
  Name = {n1}
  Place = {lake, field}
  TextLength <- Lengths
  User = {boss}
  Password = {w1, w2, w3}
  Requests <- TableCommands
  FirstAccounts <- OneBoss
  MaxLosses = 1
SPECIFICATION Spec
INVARIANT
  RowLimit
CHECK_DEADLOCK FALSE
