---------------------------- MODULE SessionsProofs ----------------------------
(***************************************************************************)
(* Types, who may change what, the size of the tables, the truth of the    *)
(* answers, and that Sessions implements Tables: for any number of         *)
(* processes, any commands and any limit.                                  *)
(***************************************************************************)
EXTENDS Sessions, FiniteSetTheorems, WellFoundedInduction, TLAPS

\* What a step does to the place and the connection of a process has the right types.
LinksTyped ==
  link \in [Session -> BOOLEAN] /\ losses \in 0 .. MaxLosses /\ faulted \in [Session -> BOOLEAN]

LEMMA GoToTyped ==
  ASSUME RequestsTyped, NEW s \in Session, NEW p \in Phases,
         GoTo(s, p), request' = request, answer' = answer
  PROVE  RequestsTyped'
BY DEF RequestsTyped, GoTo

LEMMA ReplyTyped ==
  ASSUME RequestsTyped, NEW s \in Session, NEW a \in Answers, Reply(s, a)
  PROVE  RequestsTyped'
BY DEF RequestsTyped, Reply, GoTo, Phases

LEMMA CrashTyped ==
  ASSUME TypeOK, NEW s \in Session, Crash(s), TablesTyped', losses' \in 0 .. MaxLosses
  PROVE  TypeOK'
<1>1. RequestsTyped'
  BY DEF TypeOK, RequestsTyped, Crash, GoTo, Phases, Answers
<1> QED
  BY <1>1 DEF TypeOK, Crash

LEMMA ResultTyped == \A b \in BOOLEAN : Result(b) \in Answers
BY DEF Result, Answers

LEMMA ExecutedTyped ==
  ASSUME TypeOK, NEW s \in Session, NEW c \in BOOLEAN, NEW a \in Answers, Executed(s, c, a)
  PROVE  RequestsTyped' /\ LinksTyped' /\ did' \in [Session -> BOOLEAN]
<1>1. did' \in [Session -> BOOLEAN]
  BY DEF TypeOK, Executed
<1>2. RequestsTyped'
  BY ReplyTyped DEF TypeOK, Executed, Answers
<1>3. LinksTyped'
  <2>1. CASE UNCHANGED <<link, losses, faulted>>
    BY <2>1 DEF TypeOK, LinksTyped
  <2>2. CASE /\ losses < MaxLosses
             /\ losses'  = losses + 1
             /\ link'    = [link    EXCEPT ![s] = FALSE]
             /\ faulted' = [faulted EXCEPT ![s] = TRUE]
    <3>1. losses' \in 0 .. MaxLosses
      BY <2>2, LossesAssumption DEF TypeOK
    <3> QED
      BY <2>2, <3>1 DEF TypeOK, LinksTyped
  <2> QED
    BY <2>1, <2>2 DEF Executed
<1> QED
  BY <1>1, <1>2, <1>3

\* A step that executes a query and leaves alone who is signed in.
LEMMA QueryTyped ==
  ASSUME TypeOK, NEW s \in Session, NEW c \in BOOLEAN, NEW a \in Answers, Executed(s, c, a),
         TablesTyped', auth' \in [Session -> BOOLEAN], u' = u, blind' = blind
  PROVE  TypeOK'
BY ExecutedTyped DEF TypeOK, LinksTyped

\* A step of the connection or of handleMessage, with no query.
LEMMA PlaceTyped ==
  ASSUME TypeOK, RequestsTyped', UNCHANGED <<tables, losses, did>>,
         link' \in [Session -> BOOLEAN], faulted' \in [Session -> BOOLEAN],
         auth' \in [Session -> BOOLEAN], u' \in [Session -> User \cup {NoUser}],
         blind' \in [Session -> BOOLEAN]
  PROVE  TypeOK'
BY DEF TypeOK, TablesTyped, tables

-----------------------------------------------------------------------------
LEMMA HandleTyped ==
  ASSUME TypeOK, NEW s \in Session, HandleMessage(s)
  PROVE  TypeOK'
<1>1. PICK r \in Requests : Refused(s, r) \/ AlreadySignedIn(s, r) \/ Called(s, r)
  BY DEF HandleMessage
<1>2. r \in Request
  BY RequestsAssumption
<1>3. CASE Refused(s, r) \/ AlreadySignedIn(s, r)
  <2>1. RequestsTyped' /\ u' = u
    BY <1>3, ReplyTyped DEF Refused, AlreadySignedIn, Answers, TypeOK
  <2> QED
    BY <2>1 DEF HandleMessage, TypeOK, TablesTyped, tables
<1>4. CASE Called(s, r)
  <2>1. RequestsTyped'
    BY <1>2, <1>4 DEF Called, GoTo, RequestsTyped, TypeOK, Phases, Answers
  <2>2. r.op = "login" => r.user \in User
    BY <1>2 DEF Request
  <2>3. u' \in [Session -> User \cup {NoUser}]
    BY <1>4, <2>2 DEF Called, TypeOK
  <2> QED
    BY <2>1, <2>3 DEF HandleMessage, TypeOK, TablesTyped, tables
<1> QED
  BY <1>1, <1>3, <1>4

LEMMA ConnectionTyped ==
  ASSUME TypeOK, NEW s \in Session,
         Accept(s) \/ ClientLeaves(s) \/ LoseLink(s) \/ Ping(s) \/ PingFails(s) \/ QueryFails(s)
  PROVE  TypeOK'
<1>1. {"idle", "left", "count", "query", "update"} \subseteq Phases /\ {"ok", "err"} \subseteq Answers
  BY DEF Phases, Answers
<1>2. CASE Accept(s) \/ ClientLeaves(s)
  <2>1. RequestsTyped'
    BY <1>1, <1>2, GoToTyped DEF Accept, ClientLeaves, TypeOK
  <2> QED
    BY <1>2, <2>1 DEF Accept, ClientLeaves, TypeOK, TablesTyped, tables
<1>3. CASE LoseLink(s)
  <2>1. losses' \in 0 .. MaxLosses
    BY <1>3, LossesAssumption DEF LoseLink, TypeOK
  <2> QED
    BY <1>3, <2>1 DEF LoseLink, TypeOK, TablesTyped, RequestsTyped, tables
<1>4. CASE Ping(s)
  <2>1. RequestsTyped'
    BY <1>1, <1>4, GoToTyped DEF Ping, TypeOK
  <2> QED
    BY <1>4, <2>1 DEF Ping, TypeOK, TablesTyped, tables
<1>5. CASE PingFails(s)
  <2>1. RequestsTyped'
    BY <1>1, <1>5, GoToTyped, ReplyTyped DEF PingFails, TypeOK
  <2>2. auth' \in [Session -> BOOLEAN] /\ blind' \in [Session -> BOOLEAN]
    BY <1>5 DEF PingFails, TypeOK
  <2> QED
    BY <1>5, <2>1, <2>2 DEF PingFails, TypeOK, TablesTyped, tables
<1>6. CASE QueryFails(s)
  <2>1. RequestsTyped'
    BY <1>1, <1>6, ReplyTyped DEF QueryFails, TypeOK
  <2> QED
    BY <1>6, <2>1 DEF QueryFails, TypeOK, TablesTyped, tables
<1> QED
  BY <1>2, <1>3, <1>4, <1>5, <1>6

LEMMA ReadsTyped ==
  ASSUME TypeOK, NEW s \in Session,
         \/ QueryAdmin(s) \/ LocationsWithMissing(s) \/ Login(s) \/ AddPhoto(s) \/ GetPhoto(s)
         \/ Crashes(s) \/ ResultLost(s) \/ CheckPassword(s) \/ CountRows(s)
  PROVE  TypeOK'
<1>1. {"ok", "err"} \subseteq Answers /\ {"update", "insert"} \subseteq Phases
  BY DEF Answers, Phases
<1>2. UNCHANGED tables => TablesTyped'
  BY DEF TypeOK, TablesTyped, tables
<1>3. CASE QueryAdmin(s)
  <2>1. (\E b \in DOMAIN admin : admin[b].name = request[s].name) \in BOOLEAN
    OBVIOUS
  <2> QED
    BY <1>2, <1>3, <2>1, ResultTyped, QueryTyped DEF QueryAdmin, TypeOK
<1>4. CASE LocationsWithMissing(s) \/ AddPhoto(s) \/ GetPhoto(s)
  BY <1>1, <1>2, <1>4, QueryTyped DEF LocationsWithMissing, AddPhoto, GetPhoto, TypeOK
<1>5. CASE Login(s)
  <2>1. Valid(request[s].user, request[s].pw) \in BOOLEAN
    BY DEF Valid
  <2>2. auth' \in [Session -> BOOLEAN]
    BY <1>5 DEF Login, TypeOK
  <2> QED
    BY <1>2, <1>5, <2>1, <2>2, ResultTyped, QueryTyped DEF Login
<1>6. CASE Crashes(s) \/ ResultLost(s)
  <2>1. losses' \in 0 .. MaxLosses
    BY <1>6, LossesAssumption DEF Crashes, ResultLost, TypeOK
  <2> QED
    BY <1>2, <1>6, <2>1, CrashTyped DEF Crashes, ResultLost
<1>7. CASE CheckPassword(s)
  <2>1. RequestsTyped'
    BY <1>1, <1>7, GoToTyped, ReplyTyped DEF CheckPassword, TypeOK
  <2> QED
    BY <1>2, <1>7, <2>1 DEF CheckPassword, TypeOK
<1>8. CASE CountRows(s)
  <2>1. RequestsTyped'
    BY <1>1, <1>8, GoToTyped, ReplyTyped DEF CountRows, TypeOK
  <2> QED
    BY <1>2, <1>8, <2>1 DEF CountRows, TypeOK
<1> QED
  BY <1>3, <1>4, <1>5, <1>6, <1>7, <1>8

\* A request in hand is one of the commands, it was let through for an administrator
\* who is signed in still, and a login is for the name kept in `u'; a process at rest
\* has none in hand.
Busy == {"ping", "query", "count", "insert", "update"}

Working ==
  \A s \in Session :
    /\ phase[s] \in Busy =>
         /\ request[s] \in Requests
         /\ request[s].op \in AdminOps => auth[s]
         /\ request[s].op = "login" => u[s] = request[s].user
    /\ phase[s] \notin Busy => request[s] = NoRequest

LEMMA WritesTyped ==
  ASSUME TypeOK, Working, NEW s \in Session,
         \/ NewUser(s) \/ PositiveID(s) \/ RemoveFromPublic(s) \/ RemoveFromAdmin(s)
         \/ ChangePassword(s) \/ CreateMissing(s) \/ CreateMissingAdmin(s)
  PROVE  TypeOK'
<1>1. "err" \in Answers
  BY DEF Answers
<1>2. request[s] \in Request
  BY RequestsAssumption DEF Working, Busy, Querying, NewUser, PositiveID, RemoveFromPublic, RemoveFromAdmin,
         ChangePassword, CreateMissing, CreateMissingAdmin
<1>3. CASE NewUser(s)
  <2>1. request[s].op = "adduser"
    BY <1>3 DEF NewUser, Querying
  <2>2. request[s].user \in User /\ request[s].pw \in Password
    BY <1>2, <2>1 DEF Request
  <2>3. TablesTyped'
    <3>1. CASE request[s].user \notin DOMAIN accounts
      BY <1>3, <2>2, <3>1 DEF NewUser, TypeOK, TablesTyped
    <3>2. CASE request[s].user \in DOMAIN accounts
      BY <1>3, <3>2 DEF NewUser, TypeOK, TablesTyped
    <3> QED
      BY <3>1, <3>2
  <2>4. (request[s].user \notin DOMAIN accounts) \in BOOLEAN
    OBVIOUS
  <2> QED
    BY <1>3, <2>3, <2>4, ResultTyped, QueryTyped DEF NewUser, TypeOK
<1>4. CASE PositiveID(s)
  <2>1. request[s].op = "id"
    BY <1>4 DEF PositiveID, Querying
  <2>2. request[s].name \in Name
    BY <1>2, <2>1 DEF Request
  <2>3. TablesTyped'
    <3>1. \A b \in DOMAIN admin : [admin[b] EXCEPT !.name = request[s].name] \in Body
      BY <2>2 DEF TypeOK, TablesTyped, Body
    <3> QED
      BY <1>4, <3>1 DEF PositiveID, TypeOK, TablesTyped
  <2>4. (request[s].id \in DOMAIN admin /\ admin[request[s].id].name # request[s].name) \in BOOLEAN
    OBVIOUS
  <2> QED
    BY <1>4, <2>3, <2>4, ResultTyped, QueryTyped DEF PositiveID, TypeOK
<1>5. CASE RemoveFromPublic(s)
  <2>1. TablesTyped'
    BY <1>5 DEF RemoveFromPublic, TypeOK, TablesTyped
  <2>2. (request[s].id \in public) \in BOOLEAN
    OBVIOUS
  <2> QED
    BY <1>5, <2>1, <2>2, ResultTyped, QueryTyped DEF RemoveFromPublic, TypeOK
<1>6. CASE RemoveFromAdmin(s)
  <2>1. TablesTyped'
    BY <1>6 DEF RemoveFromAdmin, TypeOK, TablesTyped
  <2>2. (request[s].id \in DOMAIN admin) \in BOOLEAN
    OBVIOUS
  <2> QED
    BY <1>6, <2>1, <2>2, ResultTyped, QueryTyped DEF RemoveFromAdmin, TypeOK
<1>7. CASE ChangePassword(s)
  <2>1. request[s].op = "password"
    BY <1>7 DEF ChangePassword, Querying
  <2>2. request[s].pw \in Password
    BY <1>2, <2>1 DEF Request
  <2>3. TablesTyped'
    BY <1>7, <2>2 DEF ChangePassword, TypeOK, TablesTyped
  <2>4. (u[s] \in DOMAIN accounts /\ accounts[u[s]] # request[s].pw) \in BOOLEAN
    OBVIOUS
  <2> QED
    BY <1>7, <2>3, <2>4, ResultTyped, QueryTyped DEF ChangePassword, TypeOK
<1>8. CASE CreateMissing(s)
  <2>1. TablesTyped'
    BY <1>8 DEF CreateMissing, TypeOK, TablesTyped
  <2>2. CASE Crash(s) /\ losses' = losses
    BY <2>1, <2>2, CrashTyped DEF TypeOK
  <2>3. CASE Executed(s, TRUE, "err") /\ UNCHANGED <<auth, u, blind>>
    BY <1>1, <2>1, <2>3, QueryTyped DEF TypeOK
  <2> QED
    BY <1>8, <2>2, <2>3 DEF CreateMissing
<1>9. CASE CreateMissingAdmin(s)
  <2>1. request[s].op = "createbody"
    BY <1>9 DEF CreateMissingAdmin, Querying
  <2>2. request[s].id \in BodyID /\ [name |-> request[s].name, place |-> request[s].place] \in Body
    BY <1>2, <2>1 DEF Request, Body
  <2>3. TablesTyped'
    <3>1. CASE request[s].id \notin DOMAIN admin
      BY <1>9, <2>2, <3>1 DEF CreateMissingAdmin, TypeOK, TablesTyped
    <3>2. CASE request[s].id \in DOMAIN admin
      BY <1>9, <3>2 DEF CreateMissingAdmin, TypeOK, TablesTyped
    <3> QED
      BY <3>1, <3>2
  <2>4. (request[s].id \notin DOMAIN admin) \in BOOLEAN
    OBVIOUS
  <2> QED
    BY <1>9, <2>3, <2>4, ResultTyped, QueryTyped DEF CreateMissingAdmin, TypeOK
<1> QED
  BY <1>3, <1>4, <1>5, <1>6, <1>7, <1>8, <1>9

-----------------------------------------------------------------------------
(* Requests in hand.                                                       *)

\* The process s has no request in hand any more, and no other one is disturbed.
Settles(s) ==
  /\ \E p \in Phases \ Busy : phase' = [phase EXCEPT ![s] = p]
  /\ request'[s] = NoRequest
  /\ \A t \in Session \ {s} : request'[t] = request[t] /\ auth'[t] = auth[t] /\ u'[t] = u[t]

LEMMA SettlesWorking ==
  ASSUME TypeOK, Working, NEW s \in Session, Settles(s)
  PROVE  Working'
BY DEF TypeOK, RequestsTyped, Working, Settles, Phases, Busy

LEMMA ReplySettles ==
  ASSUME TypeOK, NEW s \in Session, NEW a, Reply(s, a),
         \A t \in Session \ {s} : auth'[t] = auth[t] /\ u'[t] = u[t]
  PROVE  Settles(s)
BY DEF TypeOK, RequestsTyped, Reply, GoTo, Settles, Phases, Busy

LEMMA CrashSettles ==
  ASSUME TypeOK, NEW s \in Session, Crash(s)
  PROVE  Settles(s)
BY DEF TypeOK, RequestsTyped, Crash, GoTo, Settles, Phases, Busy

LEMMA ExecutedSettles ==
  ASSUME TypeOK, NEW s \in Session, NEW c, NEW a, Executed(s, c, a),
         \A t \in Session \ {s} : auth'[t] = auth[t] /\ u'[t] = u[t]
  PROVE  Settles(s)
BY ReplySettles DEF Executed

LEMMA MovesWorking ==
  ASSUME TypeOK, Working, NEW s \in Session, NEW p \in Phases, phase[s] \in Busy <=> p \in Busy,
         GoTo(s, p), request' = request, auth' = auth, u' = u
  PROVE  Working'
BY DEF TypeOK, RequestsTyped, Working, GoTo

LEMMA StepWorking ==
  ASSUME TypeOK, Working, NEW s \in Session,
         Accept(s) \/ ClientLeaves(s) \/ HandleMessage(s) \/ LoseLink(s) \/ DbStep(s)
  PROVE  Working'
<1>1. {"count", "query", "update", "insert", "ping"} \subseteq Phases /\ {"idle", "left"} \subseteq Phases \ Busy
  BY DEF Phases, Busy
<1>2. {"count", "query", "update", "insert", "ping"} \subseteq Busy
  BY DEF Busy
<1>3. CASE Accept(s) \/ ClientLeaves(s)
  <2>1. phase[s] \notin Busy
    BY <1>3 DEF Accept, ClientLeaves, Busy
  <2> QED
    BY <1>1, <1>3, <2>1, MovesWorking DEF Accept, ClientLeaves
<1>4. CASE LoseLink(s)
  BY <1>4 DEF LoseLink, Working
<1>5. CASE HandleMessage(s)
  <2>1. PICK r \in Requests : Refused(s, r) \/ AlreadySignedIn(s, r) \/ Called(s, r)
    BY <1>5 DEF HandleMessage
  <2>2. CASE Refused(s, r) \/ AlreadySignedIn(s, r)
    BY <1>5, <2>2, ReplySettles, SettlesWorking DEF Refused, AlreadySignedIn, HandleMessage
  <2>3. CASE Called(s, r)
    <3>1. r.op \in AdminOps => auth[s]
      BY <2>3 DEF Called
    <3>2. /\ phase'[s] \in Busy /\ request'[s] = r /\ auth' = auth
          /\ r.op = "login" => u'[s] = r.user
      BY <1>5, <2>3 DEF Called, GoTo, HandleMessage, TypeOK, RequestsTyped, Busy
    <3>3. \A t \in Session \ {s} : phase'[t] = phase[t] /\ request'[t] = request[t] /\ u'[t] = u[t]
      BY <2>3 DEF Called, GoTo, TypeOK, RequestsTyped
    <3> QED
      BY <3>1, <3>2, <3>3 DEF Working
  <2> QED
    BY <2>1, <2>2, <2>3
<1>6. CASE Ping(s)
  <2>1. phase[s] \in Busy
    BY <1>2, <1>6 DEF Ping
  <2> QED
    BY <1>1, <1>2, <1>6, <2>1, MovesWorking DEF Ping
<1>7. CASE PingFails(s)
  <2>1. phase[s] \in Busy
    BY <1>2, <1>7 DEF PingFails
  <2>2. CASE request[s].op = "password" /\ GoTo(s, "update") /\ UNCHANGED <<request, answer, auth, blind>>
    BY <1>1, <1>2, <1>7, <2>1, <2>2, MovesWorking DEF PingFails
  <2>3. CASE request[s].op = "login" /\ auth' = [auth EXCEPT ![s] = TRUE] /\ Reply(s, "ok")
    BY <1>7, <2>3, ReplySettles, SettlesWorking DEF PingFails, TypeOK
  <2>4. CASE auth' = auth /\ \E a \in Answers : Reply(s, a)
    BY <1>7, <2>4, ReplySettles, SettlesWorking DEF PingFails
  <2> QED
    BY <1>7, <2>2, <2>3, <2>4 DEF PingFails, Answers
<1>8. CASE QueryFails(s)
  BY <1>8, ReplySettles, SettlesWorking DEF QueryFails
<1>9. CASE \/ QueryAdmin(s) \/ LocationsWithMissing(s) \/ NewUser(s) \/ PositiveID(s)
           \/ RemoveFromPublic(s) \/ RemoveFromAdmin(s) \/ AddPhoto(s) \/ GetPhoto(s)
           \/ ChangePassword(s) \/ CreateMissingAdmin(s)
  <2>1. Settles(s)
    BY <1>9, ExecutedSettles
    DEF QueryAdmin, LocationsWithMissing, NewUser, PositiveID, RemoveFromPublic,
        RemoveFromAdmin, AddPhoto, GetPhoto, ChangePassword, CreateMissingAdmin
  <2> QED
    BY <2>1, SettlesWorking
<1>10. CASE Login(s)
  <2>1. \A t \in Session \ {s} : auth'[t] = auth[t] /\ u'[t] = u[t]
    BY <1>10 DEF Login, TypeOK
  <2> QED
    BY <1>10, <2>1, ExecutedSettles, SettlesWorking DEF Login
<1>11. CASE Crashes(s) \/ ResultLost(s) \/ CreateMissing(s)
  BY <1>11, CrashSettles, ExecutedSettles, SettlesWorking DEF Crashes, ResultLost, CreateMissing
<1>12. CASE CheckPassword(s)
  <2>1. phase[s] \in Busy
    BY <1>2, <1>12 DEF CheckPassword, Querying
  <2> QED
    BY <1>1, <1>2, <1>12, <2>1, MovesWorking, ReplySettles, SettlesWorking DEF CheckPassword
<1>13. CASE CountRows(s)
  <2>1. phase[s] \in Busy
    BY <1>2, <1>13 DEF CountRows
  <2> QED
    BY <1>1, <1>2, <1>13, <2>1, MovesWorking, ReplySettles, SettlesWorking DEF CountRows
<1> QED
  BY <1>3, <1>4, <1>5, <1>6, <1>7, <1>8, <1>9, <1>10, <1>11, <1>12, <1>13 DEF DbStep

-----------------------------------------------------------------------------
(* Who is signed in.                                                       *)

\* Accounts are never taken away, and whoever stays signed in keeps the name.
LEMMA NamesKept ==
  ASSUME SignedInAsUser, DOMAIN accounts \subseteq DOMAIN accounts',
         \A t \in Session : auth'[t] /\ ~ blind'[t] => auth[t] /\ ~ blind[t] /\ u'[t] = u[t]
  PROVE  SignedInAsUser'
BY DEF SignedInAsUser

LEMMA StepSignedIn ==
  ASSUME TypeOK, Working, SignedInAsUser, NEW s \in Session,
         Accept(s) \/ ClientLeaves(s) \/ HandleMessage(s) \/ LoseLink(s) \/ DbStep(s)
  PROVE  SignedInAsUser'
<1>1. DOMAIN accounts \subseteq DOMAIN accounts'
  <2>1. CASE NewUser(s)
    BY <2>1 DEF NewUser
  <2>2. CASE ChangePassword(s)
    BY <2>2 DEF ChangePassword
  <2>3. CASE ~ NewUser(s) /\ ~ ChangePassword(s)
    BY <2>3 DEF Accept, ClientLeaves, HandleMessage, LoseLink, DbStep, Ping, PingFails, QueryFails,
                QueryAdmin, LocationsWithMissing, Login, PositiveID, RemoveFromPublic, RemoveFromAdmin,
                AddPhoto, GetPhoto, Crashes, ResultLost, CheckPassword, CountRows, CreateMissing,
                CreateMissingAdmin, tables
  <2> QED
    BY <2>1, <2>2, <2>3
<1>2. ASSUME auth' = auth, u' = u, blind' = blind PROVE SignedInAsUser'
  BY <1>1, <1>2, NamesKept
<1>3. ASSUME Crash(s) PROVE SignedInAsUser'
  BY <1>1, <1>3, NamesKept DEF Crash, TypeOK
<1>4. CASE HandleMessage(s)
  <2>1. auth' = auth /\ blind' = blind
    BY <1>4 DEF HandleMessage
  <2>2. \A t \in Session : auth[t] => u'[t] = u[t]
    BY <1>4 DEF HandleMessage, Refused, AlreadySignedIn, Called, TypeOK
  <2> QED
    BY <1>1, <2>1, <2>2, NamesKept
<1>5. CASE PingFails(s)
  BY <1>1, <1>5, NamesKept DEF PingFails, TypeOK
<1>6. CASE Login(s)
  <2>1. request[s].op = "login" /\ phase[s] \in Busy
    BY <1>6 DEF Login, Querying, Busy
  <2>2. u[s] = request[s].user
    BY <2>1 DEF Working
  <2>3. u' = u /\ blind' = blind /\ accounts' = accounts
    BY <1>6 DEF Login, tables
  <2>4. answer'[s] = "ok" => Valid(u[s], request[s].pw)
    BY <1>6, <2>2 DEF Login, Executed, Reply, Result, TypeOK, RequestsTyped
  <2>5. \A t \in Session : auth'[t] => auth[t] \/ (t = s /\ u[s] \in DOMAIN accounts)
    BY <1>6, <2>4 DEF Login, Valid, TypeOK
  <2> QED
    BY <2>3, <2>5 DEF SignedInAsUser
<1>7. CASE Crashes(s) \/ ResultLost(s) \/ CreateMissing(s)
  BY <1>2, <1>3, <1>7 DEF Crashes, ResultLost, CreateMissing
<1>8. CASE ~ (\/ HandleMessage(s) \/ PingFails(s) \/ Login(s)
              \/ Crashes(s) \/ ResultLost(s) \/ CreateMissing(s))
  <2>1. auth' = auth /\ u' = u /\ blind' = blind
    BY <1>8 DEF Accept, ClientLeaves, LoseLink, DbStep, Ping, QueryFails, QueryAdmin,
                LocationsWithMissing, NewUser, PositiveID, RemoveFromPublic, RemoveFromAdmin,
                AddPhoto, GetPhoto, CheckPassword, ChangePassword, CountRows, CreateMissingAdmin
  <2> QED
    BY <1>2, <2>1
<1> QED
  BY <1>4, <1>5, <1>6, <1>7, <1>8

-----------------------------------------------------------------------------
(* Who changes the tables.                                                 *)

LEMMA StepByAdmin ==
  ASSUME TypeOK, Working, NEW s \in Session,
         Accept(s) \/ ClientLeaves(s) \/ HandleMessage(s) \/ LoseLink(s) \/ DbStep(s)
  PROVE  ByAdmin
<1>1. ASSUME request[s].op \in AdminOps, phase[s] \in Busy, NEW c, NEW a, Executed(s, c, a),
             admin' # admin \/ accounts' # accounts \/ public \ public' # {} => c = TRUE
      PROVE  ByAdmin
  <2>1. auth[s]
    BY <1>1 DEF Working
  <2>2. phase'[s] = "idle" /\ did'[s] = c
    BY <1>1 DEF Executed, Reply, GoTo, TypeOK, RequestsTyped
  <2>3. phase'[s] # phase[s]
    BY <1>1, <2>2 DEF Busy
  <2> QED
    BY <1>1, <2>1, <2>2, <2>3 DEF ByAdmin
<1>2. CASE NewUser(s)
  <2>1. request[s].op \in AdminOps /\ phase[s] \in Busy
    BY <1>2 DEF NewUser, Querying, AdminOps, Busy
  <2>2. accounts' # accounts => request[s].user \notin DOMAIN accounts
    BY <1>2 DEF NewUser
  <2> QED
    BY <1>1, <1>2, <2>1, <2>2 DEF NewUser
<1>3. CASE PositiveID(s)
  <2>1. request[s].op \in AdminOps /\ phase[s] \in Busy
    BY <1>3 DEF PositiveID, Querying, AdminOps, Busy
  <2>2. admin' # admin => request[s].id \in DOMAIN admin /\ admin[request[s].id].name # request[s].name
    <3>1. \A b \in DOMAIN admin :
            admin[b].name = request[s].name => [admin[b] EXCEPT !.name = request[s].name] = admin[b]
      BY DEF TypeOK, TablesTyped, Body
    <3> QED
      BY <1>3, <3>1 DEF PositiveID, TypeOK, TablesTyped
  <2> QED
    BY <1>1, <1>3, <2>1, <2>2 DEF PositiveID
<1>4. CASE RemoveFromPublic(s)
  <2>1. request[s].op \in AdminOps /\ phase[s] \in Busy
    BY <1>4 DEF RemoveFromPublic, Querying, AdminOps, Busy
  <2>2. public \ public' # {} => request[s].id \in public
    BY <1>4 DEF RemoveFromPublic
  <2> QED
    BY <1>1, <1>4, <2>1, <2>2 DEF RemoveFromPublic
<1>5. CASE RemoveFromAdmin(s)
  <2>1. request[s].op \in AdminOps /\ phase[s] \in Busy
    BY <1>5 DEF RemoveFromAdmin, Querying, AdminOps, Busy
  <2>2. admin' # admin => request[s].id \in DOMAIN admin
    BY <1>5 DEF RemoveFromAdmin, TypeOK, TablesTyped
  <2>3. accounts' = accounts /\ public' = public
    BY <1>5 DEF RemoveFromAdmin
  <2>4. PICK c, a : c = (request[s].id \in DOMAIN admin) /\ Executed(s, c, a)
    BY <1>5 DEF RemoveFromAdmin
  <2> QED
    BY <1>1, <2>1, <2>2, <2>3, <2>4
<1>6. CASE ChangePassword(s)
  <2>1. request[s].op \in AdminOps /\ phase[s] \in Busy
    BY <1>6 DEF ChangePassword, Querying, AdminOps, Busy
  <2>2. accounts' # accounts => u[s] \in DOMAIN accounts /\ accounts[u[s]] # request[s].pw
    BY <1>6 DEF ChangePassword, TypeOK, TablesTyped
  <2> QED
    BY <1>1, <1>6, <2>1, <2>2 DEF ChangePassword
<1>7. CASE CreateMissingAdmin(s)
  <2>1. request[s].op \in AdminOps /\ phase[s] \in Busy
    BY <1>7 DEF CreateMissingAdmin, Querying, AdminOps, Busy
  <2>2. admin' # admin => request[s].id \notin DOMAIN admin
    BY <1>7 DEF CreateMissingAdmin
  <2> QED
    BY <1>1, <1>7, <2>1, <2>2 DEF CreateMissingAdmin
<1>8. CASE ~ (\/ NewUser(s) \/ PositiveID(s) \/ RemoveFromPublic(s) \/ RemoveFromAdmin(s)
              \/ ChangePassword(s) \/ CreateMissingAdmin(s))
  <2>1. admin' = admin /\ accounts' = accounts /\ public \subseteq public'
    BY <1>8 DEF Accept, ClientLeaves, HandleMessage, LoseLink, DbStep, Ping, PingFails, QueryFails,
                QueryAdmin, LocationsWithMissing, Login, AddPhoto, GetPhoto, Crashes, ResultLost,
                CheckPassword, CountRows, CreateMissing, tables
  <2> QED
    BY <2>1 DEF ByAdmin
<1> QED
  BY <1>2, <1>3, <1>4, <1>5, <1>6, <1>7, <1>8

-----------------------------------------------------------------------------
(* The theorems.                                                           *)

Inv == TypeOK /\ Working /\ SignedInAsUser

LEMMA InitInv == Init => Inv
<1> SUFFICES ASSUME Init PROVE Inv
  OBVIOUS
<1>1. TablesTyped
  BY AccountsAssumption DEF Init, TablesTyped
<1>2. RequestsTyped
  BY DEF Init, RequestsTyped, Phases, Answers
<1>3. TypeOK
  BY <1>1, <1>2, LossesAssumption DEF Init, TypeOK
<1>4. Working /\ SignedInAsUser
  BY DEF Init, Working, Busy, SignedInAsUser
<1> QED
  BY <1>3, <1>4 DEF Inv

LEMMA StepInv == Inv /\ [Next]_vars => Inv'
<1> SUFFICES ASSUME Inv, [Next]_vars PROVE Inv'
  OBVIOUS
<1>1. CASE UNCHANGED vars
  BY <1>1 DEF vars, tables, Inv, TypeOK, TablesTyped, RequestsTyped, Working, SignedInAsUser
<1>2. ASSUME NEW s \in Session,
             Accept(s) \/ ClientLeaves(s) \/ HandleMessage(s) \/ LoseLink(s) \/ DbStep(s)
      PROVE  Inv'
  <2>1. TypeOK'
    BY <1>2, HandleTyped, ConnectionTyped, ReadsTyped, WritesTyped DEF DbStep, Inv
  <2>2. Working' /\ SignedInAsUser'
    BY <1>2, StepWorking, StepSignedIn DEF Inv
  <2> QED
    BY <2>1, <2>2 DEF Inv
<1> QED
  BY <1>1, <1>2 DEF Next

\* Every variable of Sessions keeps its type, whatever the commands.
THEOREM SessionsTyped == Spec => []TypeOK
<1>1. Inv => TypeOK
  BY DEF Inv
<1> QED
  BY <1>1, InitInv, StepInv, PTL DEF Spec

\* Whoever is signed in is so under the name of a user, unless the login found the
\* MySQL connection down (server.cpp:145 assigns the name before the check).
THEOREM SignedIn == Spec => []SignedInAsUser
<1>1. Inv => SignedInAsUser
  BY DEF Inv
<1> QED
  BY <1>1, InitInv, StepInv, PTL DEF Spec

\* Bodies, accounts, and the removal of a missing person are changed by signed-in
\* processes only, between whatever queries of however many others.
THEOREM AdminsOnly == Spec => OnlyAdminsChange
<1>1. Inv /\ [Next]_vars => [ByAdmin]_vars
  BY StepByAdmin DEF Inv, Next
<1> QED
  BY <1>1, InitInv, StepInv, PTL DEF Spec, OnlyAdminsChange

-----------------------------------------------------------------------------
(* The size of the tables.                                                 *)

Creates == {"createmissing", "createbody"}

Rows(op) == IF op = "createmissing" THEN public ELSE DOMAIN admin

\* The processes that found room for a row and have not inserted it.
Inserting(op) == {s \in Session : phase[s] = "insert" /\ request[s].op = op}

\* The rows there are and those on their way in.
Bounded(op) ==
  /\ IsFiniteSet(Rows(op))
  /\ Cardinality(Rows(op)) + Cardinality(Inserting(op)) <= Limit + Cardinality(Session) - 1

Typed == phase \in [Session -> Phases] /\ request \in [Session -> Request \cup {NoRequest}]

RowsInv == Typed /\ \A op \in Creates : Bounded(op)

\* The process s goes on to anything but an INSERT of createMissing's kind.
Leaves(s) ==
  \E p \in Phases \ {"insert"}, r \in Request \cup {NoRequest} :
    phase' = [phase EXCEPT ![s] = p] /\ request' = [request EXCEPT ![s] = r]

-----------------------------------------------------------------------------
LEMMA SessionsCounted ==
  /\ Cardinality(Session) \in Nat /\ Cardinality(Session) >= 1
  /\ \A T \in SUBSET Session :
       IsFiniteSet(T) /\ Cardinality(T) \in Nat /\ Cardinality(T) <= Cardinality(Session)
<1>1. Cardinality(Session) \in Nat /\ Cardinality(Session) # 0
  BY SessionAssumption, FS_CardinalityType, FS_EmptySet
<1> QED
  BY <1>1, SessionAssumption, FS_Subset, FS_CardinalityType

\* Fewer rows and fewer processes about to insert one do no harm.
LEMMA ShrinkKeepsBound ==
  ASSUME NEW op, Bounded(op), Rows(op)' \subseteq Rows(op), Inserting(op)' \subseteq Inserting(op)
  PROVE  Bounded(op)'
<1>1. IsFiniteSet(Rows(op))
  BY DEF Bounded
<1>2. /\ IsFiniteSet(Rows(op)')
      /\ Cardinality(Rows(op)') \in Nat /\ Cardinality(Rows(op)) \in Nat
      /\ Cardinality(Rows(op)') <= Cardinality(Rows(op))
  BY <1>1, FS_Subset, FS_CardinalityType
<1>3. Inserting(op) \subseteq Session
  BY DEF Inserting
<1>4. /\ IsFiniteSet(Inserting(op))
      /\ Cardinality(Inserting(op)) \in Nat /\ Cardinality(Inserting(op)') \in Nat
      /\ Cardinality(Inserting(op)') <= Cardinality(Inserting(op))
  BY <1>3, SessionsCounted, FS_Subset, FS_CardinalityType
<1> QED
  BY <1>2, <1>4, SessionsCounted, LimitAssumption DEF Bounded

\* One row more, and one process less that is about to insert one.
LEMMA InsertKeepsBound ==
  ASSUME NEW op, Bounded(op), NEW x, Rows(op)' = Rows(op) \cup {x},
         NEW s \in Inserting(op), Inserting(op)' \subseteq Inserting(op) \ {s}
  PROVE  Bounded(op)'
<1>1. IsFiniteSet(Rows(op))
  BY DEF Bounded
<1>2. /\ IsFiniteSet(Rows(op)')
      /\ Cardinality(Rows(op)') \in Nat /\ Cardinality(Rows(op)) \in Nat
      /\ Cardinality(Rows(op)') <= Cardinality(Rows(op)) + 1
  <2>1. /\ IsFiniteSet(Rows(op) \cup {x})
        /\ \/ Cardinality(Rows(op) \cup {x}) = Cardinality(Rows(op))
           \/ Cardinality(Rows(op) \cup {x}) = Cardinality(Rows(op)) + 1
    BY <1>1, FS_AddElement
  <2>2. Cardinality(Rows(op)) \in Nat
    BY <1>1, FS_CardinalityType
  <2> QED
    BY <2>1, <2>2
<1>3. IsFiniteSet(Inserting(op)) /\ Cardinality(Inserting(op)) \in Nat
  BY SessionsCounted DEF Inserting
<1>4. /\ IsFiniteSet(Inserting(op) \ {s})
      /\ Cardinality(Inserting(op) \ {s}) = Cardinality(Inserting(op)) - 1
  BY <1>3, FS_RemoveElement
<1>5. /\ Cardinality(Inserting(op)') \in Nat
      /\ Cardinality(Inserting(op)') <= Cardinality(Inserting(op)) - 1
  BY <1>4, FS_Subset, FS_CardinalityType
<1> QED
  BY <1>2, <1>3, <1>5, SessionsCounted, LimitAssumption DEF Bounded

\* Where there is room, whoever inserts does not pass the bound.
LEMMA RoomKeepsBound ==
  ASSUME NEW op, Bounded(op), Room(op), Rows(op)' = Rows(op)
  PROVE  Bounded(op)'
<1>1. IsFiniteSet(Rows(op)) /\ Cardinality(Rows(op)) \in Nat
  BY FS_CardinalityType DEF Bounded
<1>2. Cardinality(Rows(op)) < Limit
  BY DEF Room, RowCount, Rows
<1>3. Inserting(op)' \subseteq Session
  BY DEF Inserting
<1> QED
  BY <1>1, <1>2, <1>3, SessionsCounted, LimitAssumption DEF Bounded

-----------------------------------------------------------------------------
(* Where the steps of a process lead.                                      *)

LEMMA LeavesTyped ==
  ASSUME Typed, NEW s \in Session, Leaves(s)
  PROVE  Typed' /\ \A op : Inserting(op)' \subseteq Inserting(op) \ {s}
<1>1. PICK p \in Phases \ {"insert"}, r \in Request \cup {NoRequest} :
        phase' = [phase EXCEPT ![s] = p] /\ request' = [request EXCEPT ![s] = r]
  BY DEF Leaves
<1>2. Typed'
  BY <1>1 DEF Typed
<1>3. ASSUME NEW op, NEW t \in Session, phase'[t] = "insert", request'[t].op = op
      PROVE  t # s /\ phase[t] = "insert" /\ request[t].op = op
  BY <1>1, <1>3 DEF Typed
<1> QED
  BY <1>2, <1>3 DEF Inserting

LEMMA MoveLeaves ==
  ASSUME Typed, NEW s \in Session, NEW p \in Phases \ {"insert"},
         GoTo(s, p), request' = request
  PROVE  Leaves(s)
<1>1. request[s] \in Request \cup {NoRequest} /\ request = [request EXCEPT ![s] = request[s]]
  BY DEF Typed
<1> QED
  BY <1>1 DEF Leaves, GoTo

LEMMA ReplyLeaves ==
  ASSUME NEW s \in Session, NEW a, Reply(s, a)
  PROVE  Leaves(s)
BY DEF Reply, GoTo, Leaves, Phases

LEMMA CrashLeaves ==
  ASSUME NEW s \in Session, Crash(s)
  PROVE  Leaves(s)
BY DEF Crash, GoTo, Leaves, Phases

LEMMA ExecutedLeaves ==
  ASSUME NEW s \in Session, NEW c, NEW a, Executed(s, c, a)
  PROVE  Leaves(s)
BY ReplyLeaves DEF Executed

\* A step that neither adds a row nor makes a process insert one.
LEMMA LeavingKeepsInv ==
  ASSUME RowsInv, NEW s \in Session, Leaves(s),
         public' \subseteq public, DOMAIN admin' \subseteq DOMAIN admin
  PROVE  RowsInv'
<1>1. Typed' /\ \A op : Inserting(op)' \subseteq Inserting(op)
  BY LeavesTyped DEF RowsInv
<1>2. \A op : Rows(op)' \subseteq Rows(op)
  BY DEF Rows
<1>3. ASSUME NEW op \in Creates PROVE Bounded(op)'
  BY <1>1, <1>2, ShrinkKeepsBound DEF RowsInv
<1> QED
  BY <1>1, <1>3 DEF RowsInv

-----------------------------------------------------------------------------
(* The actions.                                                            *)

LEMMA HandlingKeepsInv ==
  ASSUME RowsInv, NEW s \in Session, HandleMessage(s)
  PROVE  RowsInv'
<1>1. PICK r \in Requests : Refused(s, r) \/ AlreadySignedIn(s, r) \/ Called(s, r)
  BY DEF HandleMessage
<1>2. Called(s, r) => Leaves(s)
  BY RequestsAssumption DEF Called, GoTo, Leaves, Phases
<1>3. Leaves(s)
  BY <1>1, <1>2, ReplyLeaves DEF Refused, AlreadySignedIn
<1> QED
  BY <1>3, LeavingKeepsInv DEF HandleMessage, tables

LEMMA ConnectionKeepsInv ==
  ASSUME RowsInv, NEW s \in Session,
         \/ Accept(s) \/ ClientLeaves(s) \/ Ping(s) \/ PingFails(s) \/ QueryFails(s)
         \/ Crashes(s) \/ ResultLost(s)
  PROVE  RowsInv'
<1>1. Typed /\ {"idle", "left", "query", "count", "update"} \subseteq Phases \ {"insert"}
  BY DEF RowsInv, Phases
<1>2. Leaves(s)
  <2>1. CASE Accept(s) \/ ClientLeaves(s)
    BY <1>1, <2>1, MoveLeaves DEF Accept, ClientLeaves
  <2>2. CASE Ping(s)
    BY <1>1, <2>2, MoveLeaves DEF Ping
  <2>3. CASE PingFails(s)
    BY <1>1, <2>3, MoveLeaves, ReplyLeaves DEF PingFails
  <2>4. CASE QueryFails(s) \/ Crashes(s) \/ ResultLost(s)
    BY <2>4, ReplyLeaves, CrashLeaves DEF QueryFails, Crashes, ResultLost
  <2> QED
    BY <2>1, <2>2, <2>3, <2>4
<1>3. public' = public /\ admin' = admin
  BY DEF Accept, ClientLeaves, Ping, PingFails, QueryFails, Crashes, ResultLost, tables
<1> QED
  BY <1>2, <1>3, LeavingKeepsInv

LEMMA QueriesKeepInv ==
  ASSUME RowsInv, NEW s \in Session,
         \/ QueryAdmin(s) \/ LocationsWithMissing(s) \/ Login(s) \/ NewUser(s) \/ PositiveID(s)
         \/ RemoveFromPublic(s) \/ RemoveFromAdmin(s) \/ AddPhoto(s) \/ GetPhoto(s)
         \/ CheckPassword(s) \/ ChangePassword(s)
  PROVE  RowsInv'
<1>1. Leaves(s)
  <2>1. CASE CheckPassword(s)
    <3>1. Typed /\ "update" \in Phases \ {"insert"}
      BY DEF RowsInv, Phases
    <3> QED
      BY <2>1, <3>1, MoveLeaves, ReplyLeaves DEF CheckPassword
  <2>2. CASE ~ CheckPassword(s)
    BY <2>2, ExecutedLeaves
    DEF QueryAdmin, LocationsWithMissing, Login, NewUser, PositiveID, RemoveFromPublic,
        RemoveFromAdmin, AddPhoto, GetPhoto, ChangePassword
  <2> QED
    BY <2>1, <2>2
<1>2. public' \subseteq public
  BY DEF QueryAdmin, LocationsWithMissing, Login, NewUser, PositiveID, RemoveFromPublic,
         RemoveFromAdmin, AddPhoto, GetPhoto, CheckPassword, ChangePassword, tables
<1>3. DOMAIN admin' \subseteq DOMAIN admin
  <2>1. CASE PositiveID(s)
    BY <2>1 DEF PositiveID
  <2>2. CASE RemoveFromAdmin(s)
    BY <2>2 DEF RemoveFromAdmin
  <2>3. CASE ~ PositiveID(s) /\ ~ RemoveFromAdmin(s)
    BY <2>3
    DEF QueryAdmin, LocationsWithMissing, Login, NewUser, RemoveFromPublic,
        AddPhoto, GetPhoto, CheckPassword, ChangePassword, tables
  <2> QED
    BY <2>1, <2>2, <2>3
<1> QED
  BY <1>1, <1>2, <1>3, LeavingKeepsInv

LEMMA CountRowsKeepsInv ==
  ASSUME RowsInv, NEW s \in Session, CountRows(s)
  PROVE  RowsInv'
<1>1. CASE Room(request[s].op)
  <2>1. phase' = [phase EXCEPT ![s] = "insert"] /\ request' = request
    BY <1>1 DEF CountRows, GoTo
  <2>2. Typed'
    BY <2>1 DEF RowsInv, Typed, Phases
  <2>3. \A op : Rows(op)' = Rows(op)
    BY DEF CountRows, tables, Rows
  <2>4. ASSUME NEW op \in Creates, op = request[s].op PROVE Bounded(op)'
    BY <1>1, <2>3, <2>4, RoomKeepsBound DEF RowsInv
  <2>5. ASSUME NEW op \in Creates, op # request[s].op PROVE Bounded(op)'
    <3>1. Inserting(op)' \subseteq Inserting(op)
      BY <2>1, <2>5 DEF Inserting, RowsInv, Typed
    <3> QED
      BY <2>3, <3>1, ShrinkKeepsBound DEF RowsInv
  <2> QED
    BY <2>2, <2>4, <2>5 DEF RowsInv
<1>2. CASE ~ Room(request[s].op)
  BY <1>2, ReplyLeaves, LeavingKeepsInv DEF CountRows, tables
<1> QED
  BY <1>1, <1>2

LEMMA CreateMissingKeepsInv ==
  ASSUME RowsInv, NEW s \in Session, CreateMissing(s)
  PROVE  RowsInv'
<1>1. Leaves(s)
  BY CrashLeaves, ExecutedLeaves DEF CreateMissing
<1>2. Typed' /\ \A op : Inserting(op)' \subseteq Inserting(op) \ {s}
  BY <1>1, LeavesTyped DEF RowsInv
<1>3. s \in Inserting("createmissing")
  BY DEF CreateMissing, Querying, Inserting
<1>4. PICK i \in PublicID \ public : public' = public \cup {i}
  BY DEF CreateMissing
<1>5. Rows("createmissing")' = Rows("createmissing") \cup {i}
  BY <1>4 DEF Rows
<1>6. Bounded("createmissing")'
  BY <1>2, <1>3, <1>5, InsertKeepsBound DEF RowsInv, Creates
<1>7. Rows("createbody")' = Rows("createbody")
  BY DEF CreateMissing, Rows
<1>8. Bounded("createbody")'
  BY <1>2, <1>7, ShrinkKeepsBound DEF RowsInv, Creates
<1> QED
  BY <1>2, <1>6, <1>8 DEF RowsInv, Creates

LEMMA CreateMissingAdminKeepsInv ==
  ASSUME RowsInv, NEW s \in Session, CreateMissingAdmin(s)
  PROVE  RowsInv'
<1>1. Leaves(s)
  BY ExecutedLeaves DEF CreateMissingAdmin
<1>2. Typed' /\ \A op : Inserting(op)' \subseteq Inserting(op) \ {s}
  BY <1>1, LeavesTyped DEF RowsInv
<1>3. s \in Inserting("createbody")
  BY DEF CreateMissingAdmin, Querying, Inserting
<1>4. DOMAIN admin' = DOMAIN admin \cup {request[s].id}
  <2>1. CASE request[s].id \in DOMAIN admin
    BY <2>1 DEF CreateMissingAdmin
  <2>2. CASE request[s].id \notin DOMAIN admin
    BY <2>2 DEF CreateMissingAdmin
  <2> QED
    BY <2>1, <2>2
<1>5. Rows("createbody")' = Rows("createbody") \cup {request[s].id}
  BY <1>4 DEF Rows
<1>6. Bounded("createbody")'
  BY <1>2, <1>3, <1>5, InsertKeepsBound DEF RowsInv, Creates
<1>7. Rows("createmissing")' = Rows("createmissing")
  BY DEF CreateMissingAdmin, Rows
<1>8. Bounded("createmissing")'
  BY <1>2, <1>7, ShrinkKeepsBound DEF RowsInv, Creates
<1> QED
  BY <1>2, <1>6, <1>8 DEF RowsInv, Creates

-----------------------------------------------------------------------------
LEMMA InitRows == Init => RowsInv
<1> SUFFICES ASSUME Init PROVE RowsInv
  OBVIOUS
<1>1. Typed
  BY DEF Init, Typed, Phases
<1>2. ASSUME NEW op \in Creates PROVE Bounded(op)
  <2>1. Rows(op) = {} /\ Inserting(op) = {}
    BY DEF Init, Rows, Inserting
  <2> QED
    BY <2>1, FS_EmptySet, SessionsCounted, LimitAssumption DEF Bounded
<1> QED
  BY <1>1, <1>2 DEF RowsInv

LEMMA StepRows == RowsInv /\ [Next]_vars => RowsInv'
<1> SUFFICES ASSUME RowsInv, [Next]_vars PROVE RowsInv'
  OBVIOUS
<1>1. ASSUME phase' = phase, request' = request, public' = public, admin' = admin PROVE RowsInv'
  <2>1. Typed' /\ \A op : Rows(op)' = Rows(op) /\ Inserting(op)' = Inserting(op)
    BY <1>1 DEF RowsInv, Typed, Rows, Inserting
  <2> QED
    BY <2>1, ShrinkKeepsBound DEF RowsInv
<1>2. CASE UNCHANGED vars
  BY <1>1, <1>2 DEF vars, tables
<1>3. ASSUME NEW s \in Session, LoseLink(s) PROVE RowsInv'
  BY <1>1, <1>3 DEF LoseLink, tables
<1>4. ASSUME NEW s \in Session, Accept(s) \/ ClientLeaves(s) \/ HandleMessage(s) \/ DbStep(s)
      PROVE  RowsInv'
  BY <1>4, HandlingKeepsInv, ConnectionKeepsInv, QueriesKeepInv, CountRowsKeepsInv,
     CreateMissingKeepsInv, CreateMissingAdminKeepsInv DEF DbStep
<1> QED
  BY <1>2, <1>3, <1>4 DEF Next

\* However many processes serve clients at a time, and whatever the limit, a table
\* passes the limit by no more than one row for each process but one: every row
\* beyond it was counted as free by a process of its own (db.cpp:314-353, 384-441).
THEOREM Overshoot == Spec => []TablesBounded
<1>1. RowsInv => TablesBounded
  <2> SUFFICES ASSUME RowsInv PROVE TablesBounded
    OBVIOUS
  <2>1. ASSUME NEW op \in Creates
        PROVE  Cardinality(Rows(op)) <= Limit + Cardinality(Session) - 1
    <3>1. Cardinality(Rows(op)) \in Nat /\ Cardinality(Inserting(op)) \in Nat
      BY SessionsCounted, FS_CardinalityType DEF RowsInv, Bounded, Inserting
    <3> QED
      BY <3>1, SessionsCounted, LimitAssumption DEF RowsInv, Bounded
  <2>2. Rows("createmissing") = public /\ Rows("createbody") = DOMAIN admin
    BY DEF Rows
  <2> QED
    BY <2>1, <2>2 DEF TablesBounded, Creates
<1> QED
  BY <1>1, InitRows, StepRows, PTL DEF Spec

-----------------------------------------------------------------------------
(* How long the list of locations is.  The sum is a recursion over sets;   *)
(* induction over the natural numbers is used in this form.                *)

LEMMA NatSet ==
  ASSUME NEW S, 0 \in S, \A k \in Nat : k \in S => k + 1 \in S
  PROVE  \A k \in Nat : k \in S
<1> DEFINE T == Nat \ S
<1>1. SUFFICES ASSUME T # {} PROVE FALSE
  OBVIOUS
<1>2. PICK x \in T : \A y \in T : ~ (<<y, x>> \in OpToRel(<, Nat))
  <2>1. T \subseteq Nat
    OBVIOUS
  <2> HIDE DEF T
  <2> QED
    BY <1>1, <2>1, NatLessThanWellFounded, WFMin
<1>3. \A y \in Nat : y < x => y \in S
  BY <1>2 DEF OpToRel
<1>4. x \in Nat /\ x # 0
  OBVIOUS
<1>5. x - 1 \in Nat /\ x - 1 < x /\ (x - 1) + 1 = x
  BY <1>4
<1>6. x \in S
  BY <1>3, <1>5
<1> QED
  BY <1>6

First(T) == CHOOSE p \in T : TRUE

\* f[T] is the number of characters of the places in T.
Sums(f, D) ==
  f = [T \in D |-> IF T = {} THEN 0 ELSE TextLength[First(T)] + f[T \ {First(T)}]]

UpTo(S, k) == {T \in SUBSET S : Cardinality(T) <= k}

LEMMA FirstIn ==
  ASSUME NEW T, T # {}
  PROVE  First(T) \in T
BY DEF First

LEMMA SumsAt ==
  ASSUME NEW D, NEW f, Sums(f, D), NEW T \in D
  PROVE  f[T] = IF T = {} THEN 0 ELSE TextLength[First(T)] + f[T \ {First(T)}]
BY Zenon DEF Sums

LEMMA ChosenSums ==
  ASSUME NEW D, \E f : Sums(f, D)
  PROVE  Sums(CHOOSE f : Sums(f, D), D)
OBVIOUS

\* Without its first place a set is one smaller.
LEMMA OneLess ==
  ASSUME NEW S, IsFiniteSet(S), NEW k \in Nat, NEW T \in UpTo(S, k + 1), T # {}
  PROVE  T \ {First(T)} \in UpTo(S, k)
<1>1. IsFiniteSet(T) /\ Cardinality(T) \in Nat /\ T \in SUBSET S /\ Cardinality(T) <= k + 1
  BY FS_Subset, FS_CardinalityType DEF UpTo
<1>2. Cardinality(T \ {First(T)}) = Cardinality(T) - 1
  BY <1>1, FirstIn, FS_RemoveElement
<1> QED
  BY <1>1, <1>2 DEF UpTo

LEMMA OnlyEmpty ==
  ASSUME NEW S, IsFiniteSet(S), NEW T \in UpTo(S, 0)
  PROVE  T = {}
<1>1. IsFiniteSet(T) /\ Cardinality(T) \in Nat /\ Cardinality(T) <= 0
  BY FS_Subset, FS_CardinalityType DEF UpTo
<1> QED
  BY <1>1, FS_EmptySet

LEMMA SumsExist ==
  ASSUME NEW S, IsFiniteSet(S)
  PROVE  \A k \in Nat : \E f : Sums(f, UpTo(S, k))
<1> DEFINE G == {k \in Nat : \E f : Sums(f, UpTo(S, k))}
<1>1. 0 \in G
  <2> DEFINE f == [T \in UpTo(S, 0) |-> 0]
  <2>1. f = [T \in UpTo(S, 0) |-> IF T = {} THEN 0 ELSE TextLength[First(T)] + f[T \ {First(T)}]]
    BY OnlyEmpty
  <2> QED
    BY <2>1 DEF Sums
<1>2. ASSUME NEW k \in Nat, k \in G PROVE k + 1 \in G
  <2>1. PICK f : Sums(f, UpTo(S, k))
    BY <1>2
  <2> DEFINE D == UpTo(S, k + 1)
             g == [T \in D |-> IF T = {} THEN 0 ELSE TextLength[First(T)] + f[T \ {First(T)}]]
  <2>2. UpTo(S, k) \subseteq D
    <3> SUFFICES ASSUME NEW T \in UpTo(S, k) PROVE T \in D
      OBVIOUS
    <3>1. T \in SUBSET S /\ Cardinality(T) <= k /\ Cardinality(T) \in Nat
      BY FS_Subset, FS_CardinalityType DEF UpTo
    <3> QED
      BY <3>1 DEF UpTo
  <2>3. \A T \in UpTo(S, k) : g[T] = f[T]
    BY <2>1, <2>2, SumsAt
  <2>4. \A T \in D : T # {} => T \ {First(T)} \in UpTo(S, k)
    BY OneLess
  <2>5. g = [T \in D |-> IF T = {} THEN 0 ELSE TextLength[First(T)] + g[T \ {First(T)}]]
    <3> DEFINE h == [T \in D |-> IF T = {} THEN 0 ELSE TextLength[First(T)] + g[T \ {First(T)}]]
    <3>1. \A T \in D : g[T] = h[T]
      <4> SUFFICES ASSUME NEW T \in D PROVE g[T] = h[T]
        OBVIOUS
      <4>1. CASE T = {}
        BY <4>1
      <4>2. CASE T # {}
        <5>1. g[T \ {First(T)}] = f[T \ {First(T)}]
          BY <2>3, <2>4, <4>2
        <5>2. g[T] = TextLength[First(T)] + f[T \ {First(T)}]
          BY <4>2
        <5>3. h[T] = TextLength[First(T)] + g[T \ {First(T)}]
          BY <4>2
        <5> QED
          BY <5>1, <5>2, <5>3, Zenon
      <4> QED
        BY <4>1, <4>2
    <3>2. g = [T \in D |-> g[T]] /\ h = [T \in D |-> h[T]]
      OBVIOUS
    <3> HIDE DEF g, h
    <3>3. g = h
      BY <3>1, <3>2, Zenon
    <3> QED
      BY <3>3 DEF h
  <2> HIDE DEF g
  <2>6. Sums(g, UpTo(S, k + 1))
    BY <2>5 DEF Sums
  <2> QED
    BY <2>6
<1> HIDE DEF G
<1>3. \A k \in Nat : k \in G
  BY <1>1, <1>2, NatSet
<1> QED
  BY <1>3 DEF G

\* No place has more characters than all places together.
LEMMA SumsBound ==
  ASSUME NEW S \in SUBSET Place, IsFiniteSet(S), NEW f, Sums(f, SUBSET S)
  PROVE  f[S] \in Nat /\ \A p \in S : TextLength[p] <= f[S]
<1> DEFINE Good(T) == f[T] \in Nat /\ \A p \in T : TextLength[p] \in Nat /\ TextLength[p] <= f[T]
           G == {k \in Nat : \A T \in UpTo(S, k) : Good(T)}
<1>1. 0 \in G
  <2> SUFFICES ASSUME NEW T \in UpTo(S, 0) PROVE Good(T)
    OBVIOUS
  <2>1. T = {} /\ T \in SUBSET S
    BY OnlyEmpty
  <2>2. f[T] = 0
    BY <2>1, SumsAt
  <2> QED
    BY <2>1, <2>2
<1>2. ASSUME NEW k \in Nat, k \in G PROVE k + 1 \in G
  <2> SUFFICES ASSUME NEW T \in UpTo(S, k + 1) PROVE Good(T)
    OBVIOUS
  <2>1. T \in SUBSET S
    BY DEF UpTo
  <2>2. CASE T = {}
    <3>1. f[T] = 0
      BY <2>1, <2>2, SumsAt
    <3> QED
      BY <2>2, <3>1
  <2>3. CASE T # {}
    <3> DEFINE p == First(T)
               R == T \ {p}
    <3>1. p \in T
      BY <2>3, FirstIn
    <3>2. R \in UpTo(S, k)
      BY <2>3, OneLess
    <3>3. Good(R)
      BY <1>2, <3>2
    <3>4. TextLength[p] \in Nat
      BY <2>1, <3>1, PlaceAssumption
    <3>5. f[T] = TextLength[p] + f[R]
      BY <2>1, <2>3, SumsAt
    <3>6. \A x \in T : x = p \/ x \in R
      OBVIOUS
    <3> HIDE DEF p, R
    <3>7. \A m, n \in Nat : m + n \in Nat /\ m <= m + n /\ n <= m + n
      OBVIOUS
    <3>8. f[T] \in Nat /\ TextLength[p] <= f[T] /\ f[R] <= f[T]
      BY <3>3, <3>4, <3>5, <3>7
    <3>9. \A x \in R : TextLength[x] \in Nat /\ TextLength[x] <= f[T]
      BY <3>3, <3>8
    <3> QED
      BY <3>4, <3>6, <3>8, <3>9
  <2> QED
    BY <2>2, <2>3
<1>3. \A k \in Nat : k \in G
  <2> HIDE DEF G
  <2> QED
    BY <1>1, <1>2, NatSet
<1>4. Cardinality(S) \in Nat
  BY FS_CardinalityType
<1>5. S \in UpTo(S, Cardinality(S))
  BY <1>4 DEF UpTo
<1>6. Good(S)
  BY <1>3, <1>4, <1>5
<1> QED
  BY <1>6

\* locationsWithMissing's list is as long as each of its places, or longer.
LEMMA ListCoversPlaces ==
  ASSUME Locations \in SUBSET Place, IsFiniteSet(Locations), NEW p \in Locations
  PROVE  ListLength \in Nat /\ TextLength[p] \in Nat /\ TextLength[p] <= ListLength
<1> DEFINE f == CHOOSE f : Sums(f, SUBSET Locations)
           n == Cardinality(Locations)
           total == f[Locations]
<1>1. n \in Nat /\ n # 0
  BY FS_CardinalityType, FS_EmptySet
<1>2. UpTo(Locations, n) = SUBSET Locations
  <2> SUFFICES ASSUME NEW T \in SUBSET Locations PROVE Cardinality(T) <= n
    BY DEF UpTo
  <2> QED
    BY FS_Subset
<1>3. Sums(f, SUBSET Locations)
  <2>1. \E g : Sums(g, SUBSET Locations)
    <3>1. \A k \in Nat : \E g : Sums(g, UpTo(Locations, k))
      BY SumsExist, Zenon
    <3> QED
      BY <1>1, <1>2, <3>1, Zenon
  <2> QED
    BY <2>1, Zenon
<1>4. ListLength = total + n - 1
  BY DEF ListLength, MapThenSumSet, MapThenFoldSet, Sums, First
<1>5. total \in Nat /\ TextLength[p] <= total
  BY <1>3, SumsBound
<1>6. TextLength[p] \in Nat
  BY PlaceAssumption
<1> HIDE DEF total, n
<1> QED
  BY <1>1, <1>4, <1>5, <1>6

LEMMA LocationsKnown ==
  ASSUME TablesTyped, IsFiniteSet(DOMAIN admin)
  PROVE  Locations \in SUBSET Place /\ IsFiniteSet(Locations)
<1> DEFINE B == {b \in DOMAIN admin : admin[b].name = NoName}
           at == [b \in B |-> admin[b].place]
<1>1. Locations = {admin[b].place : b \in B}
  BY DEF Locations
<1>2. Locations \in SUBSET Place
  BY <1>1 DEF TablesTyped, Body
<1>3. IsFiniteSet(B)
  BY FS_Subset
<1>4. at \in Surjection(B, Locations)
  BY <1>1 DEF Surjection
<1> QED
  BY <1>2, <1>3, <1>4, FS_Surjection

-----------------------------------------------------------------------------
(* What an answer tells.                                                   *)

\* A request in hand has changed no row yet, a process whose connection is down
\* knows a fault of this request, and only what creates a row counts rows.
Honest ==
  \A s \in Session :
    phase[s] \in Busy =>
      /\ ~ did[s]
      /\ ~ link[s] => faulted[s]
      /\ phase[s] = "count" => request[s].op \in Creates

Aside(s) ==
  \A t \in Session \ {s} : /\ did'[t] = did[t] /\ link'[t] = link[t] /\ faulted'[t] = faulted[t]
                           /\ request'[t] = request[t] /\ phase'[t] = phase[t]

LEMMA RestHonest ==
  ASSUME Honest, NEW s \in Session, Aside(s), phase'[s] \notin Busy
  PROVE  Honest'
BY DEF Honest, Aside

LEMMA ReplyRests ==
  ASSUME TypeOK, NEW s \in Session, NEW a, Reply(s, a)
  PROVE  /\ phase'[s] = "idle" /\ phase'[s] \notin Busy /\ answer'[s] = a
         /\ \A t \in Session \ {s} : request'[t] = request[t] /\ phase'[t] = phase[t]
BY DEF TypeOK, RequestsTyped, Reply, GoTo, Busy

LEMMA ExecutedAside ==
  ASSUME TypeOK, NEW s \in Session, NEW c, NEW a, Executed(s, c, a)
  PROVE  Aside(s) /\ phase'[s] \notin Busy
<1>1. PICK b : Reply(s, b)
  BY DEF Executed
<1>2. \A t \in Session \ {s} : did'[t] = did[t] /\ link'[t] = link[t] /\ faulted'[t] = faulted[t]
  BY DEF TypeOK, Executed
<1> QED
  BY <1>1, <1>2, ReplyRests DEF Aside

LEMMA CrashAside ==
  ASSUME TypeOK, NEW s \in Session, Crash(s)
  PROVE  Aside(s) /\ phase'[s] = "closed" /\ phase'[s] \notin Busy
BY DEF TypeOK, RequestsTyped, Crash, GoTo, Busy, Aside

LEMMA StepHonest ==
  ASSUME TypeOK, Working, Honest, NEW s \in Session,
         Accept(s) \/ ClientLeaves(s) \/ HandleMessage(s) \/ LoseLink(s) \/ DbStep(s)
  PROVE  Honest'
<1>1. CASE Accept(s) \/ ClientLeaves(s)
  BY <1>1, RestHonest DEF Accept, ClientLeaves, GoTo, Aside, TypeOK, RequestsTyped, Busy
<1>2. CASE HandleMessage(s)
  <2>1. PICK r \in Requests : Refused(s, r) \/ AlreadySignedIn(s, r) \/ Called(s, r)
    BY <1>2 DEF HandleMessage
  <2>2. \A t \in Session \ {s} : did'[t] = did[t] /\ link'[t] = link[t] /\ faulted'[t] = faulted[t]
    BY <1>2 DEF HandleMessage, TypeOK
  <2>3. CASE Refused(s, r) \/ AlreadySignedIn(s, r)
    BY <2>2, <2>3, ReplyRests, RestHonest DEF Refused, AlreadySignedIn, Aside
  <2>4. CASE Called(s, r)
    <3>1. phase'[s] = "ping"
      BY <2>4 DEF Called, GoTo, TypeOK, RequestsTyped
    <3>2. \A t \in Session \ {s} : request'[t] = request[t] /\ phase'[t] = phase[t]
      BY <2>4 DEF Called, GoTo, TypeOK, RequestsTyped
    <3>3. ~ did'[s] /\ (~ link'[s] => faulted'[s])
      BY <1>2 DEF HandleMessage, TypeOK
    <3> QED
      BY <2>2, <3>1, <3>2, <3>3 DEF Honest
  <2> QED
    BY <2>1, <2>3, <2>4
<1>3. CASE LoseLink(s)
  BY <1>3 DEF LoseLink, Honest, TypeOK
<1>4. CASE Ping(s) \/ (CountRows(s) /\ Room(request[s].op))
  <2>1. phase[s] \in Busy /\ did' = did /\ faulted' = faulted /\ request' = request
    BY <1>4, Zenon DEF Ping, CountRows, Busy, Reply
  <2>2. link'[s] = TRUE /\ \A t \in Session \ {s} : link'[t] = link[t] /\ phase'[t] = phase[t]
    BY <1>4 DEF Ping, CountRows, GoTo, TypeOK, RequestsTyped
  <2>3. phase'[s] = "count" => request'[s].op \in Creates
    BY <1>4 DEF Ping, CountRows, GoTo, TypeOK, RequestsTyped, Creates
  <2> QED
    BY <2>1, <2>2, <2>3 DEF Honest
<1>5. CASE PingFails(s)
  <2>1. did' = did /\ link' = link /\ faulted' = faulted
    BY <1>5 DEF PingFails
  <2>2. CASE request[s].op = "password" /\ GoTo(s, "update") /\ UNCHANGED <<request, answer, auth, blind>>
    <3>1. phase[s] \in Busy /\ phase'[s] = "update" /\ \A t \in Session \ {s} : phase'[t] = phase[t]
      BY <1>5, <2>2 DEF PingFails, Busy, GoTo, TypeOK, RequestsTyped
    <3> QED
      BY <2>1, <2>2, <3>1 DEF Honest
  <2>3. CASE \E a \in Answers : Reply(s, a)
    BY <2>1, <2>3, ReplyRests, RestHonest DEF Aside
  <2> QED
    BY <1>5, <2>2, <2>3 DEF PingFails, Answers
<1>6. CASE QueryFails(s)
  <2>1. did' = did /\ link' = link /\ faulted' = faulted
    BY <1>6 DEF QueryFails
  <2> QED
    BY <1>6, <2>1, ReplyRests, RestHonest DEF Aside, QueryFails
<1>7. CASE \/ QueryAdmin(s) \/ LocationsWithMissing(s) \/ NewUser(s) \/ PositiveID(s)
           \/ RemoveFromPublic(s) \/ RemoveFromAdmin(s) \/ AddPhoto(s) \/ GetPhoto(s)
           \/ ChangePassword(s) \/ CreateMissingAdmin(s) \/ Login(s)
  <2>1. Aside(s) /\ phase'[s] \notin Busy
    BY <1>7, ExecutedAside
    DEF QueryAdmin, LocationsWithMissing, NewUser, PositiveID, RemoveFromPublic, Login,
        RemoveFromAdmin, AddPhoto, GetPhoto, ChangePassword, CreateMissingAdmin
  <2> QED
    BY <2>1, RestHonest
<1>8. CASE Crashes(s) \/ ResultLost(s) \/ CreateMissing(s)
  BY <1>8, CrashAside, ExecutedAside, RestHonest DEF Crashes, ResultLost, CreateMissing
<1>9. CASE CheckPassword(s)
  <2>1. did' = did /\ link' = link /\ faulted' = faulted /\ phase[s] \in Busy
    BY <1>9, Zenon DEF CheckPassword, Querying, Busy
  <2>2. CASE Reply(s, "err")
    BY <2>1, <2>2, ReplyRests, RestHonest DEF Aside
  <2>3. CASE GoTo(s, "update") /\ UNCHANGED <<request, answer>>
    <3>1. phase'[s] = "update" /\ \A t \in Session \ {s} : phase'[t] = phase[t]
      BY <2>3 DEF GoTo, TypeOK, RequestsTyped
    <3> QED
      BY <2>1, <2>3, <3>1 DEF Honest
  <2> QED
    BY <1>9, <2>2, <2>3 DEF CheckPassword
<1>10. CASE CountRows(s) /\ ~ Room(request[s].op)
  <2>1. Reply(s, "err") /\ did' = did /\ faulted' = faulted
    BY <1>10 DEF CountRows
  <2>2. \A t \in Session \ {s} : link'[t] = link[t]
    BY <1>10 DEF CountRows, TypeOK
  <2> QED
    BY <2>1, <2>2, ReplyRests, RestHonest DEF Aside
<1> QED
  BY <1>1, <1>2, <1>3, <1>4, <1>5, <1>6, <1>7, <1>8, <1>9, <1>10 DEF DbStep

\* The answer to s tells what became of its request.
Tells(s) ==
  LET r == request[s]
  IN  phase[s] \notin {"closed", "idle", "left"} /\ phase'[s] = "idle" =>
        /\ answer'[s] = "ok" /\ r.op \in Changing => did'[s]
        /\ faulted'[s] \/
             /\ answer'[s] = "err" => ~ did'[s]
             /\ answer'[s] = "ok" /\ r.op = "query" =>
                  \E b \in DOMAIN admin : admin[b].name = r.name
             /\ answer'[s] = "err" /\ r.op = "locations" =>
                  \A p \in Locations : TextLength[p] <= 8

\* The answer a says whether the query changed a row.
LEMMA ExecutedTells ==
  ASSUME TypeOK, NEW s \in Session, NEW c \in BOOLEAN, NEW a, Executed(s, c, a),
         a = "ok" /\ request[s].op \in Changing => c,
         a = "err" => ~ c \/ faulted'[s],
         a = "ok" /\ request[s].op = "query" =>
           \E b \in DOMAIN admin : admin[b].name = request[s].name,
         a = "err" /\ request[s].op = "locations" =>
           \A p \in Locations : TextLength[p] <= 8
  PROVE  Tells(s)
<1>1. did'[s] = c
  BY DEF Executed, TypeOK
<1>2. CASE Reply(s, a)
  <2>1. answer'[s] = a
    BY <1>2, ReplyRests
  <2> QED
    BY <1>1, <2>1, Zenon DEF Tells
<1>3. CASE Reply(s, "err") /\ faulted' = [faulted EXCEPT ![s] = TRUE]
  <2>1. answer'[s] = "err" /\ faulted'[s] = TRUE
    BY <1>3, ReplyRests DEF TypeOK
  <2> QED
    BY <2>1 DEF Tells
<1> QED
  BY <1>2, <1>3 DEF Executed

LEMMA ResultIs ==
  \A b \in BOOLEAN : (Result(b) = "ok" <=> b) /\ (Result(b) = "err" <=> ~ b)
BY DEF Result

LEMMA QueriesTell ==
  ASSUME TypeOK, Working, Honest, NEW s \in Session, IsFiniteSet(DOMAIN admin),
         \/ QueryAdmin(s) \/ LocationsWithMissing(s) \/ Login(s) \/ NewUser(s) \/ PositiveID(s)
         \/ RemoveFromPublic(s) \/ RemoveFromAdmin(s) \/ AddPhoto(s) \/ GetPhoto(s)
         \/ ChangePassword(s) \/ CreateMissingAdmin(s)
  PROVE  Tells(s)
<1>1. ASSUME NEW c \in BOOLEAN, Executed(s, c, Result(c)),
             request[s].op \notin {"query", "locations"}
      PROVE  Tells(s)
  BY <1>1, ResultIs, ExecutedTells
<1>2. CASE QueryAdmin(s)
  <2> DEFINE found == \E b \in DOMAIN admin : admin[b].name = request[s].name
  <2>1. Executed(s, FALSE, Result(found)) /\ request[s].op = "query"
    BY <1>2 DEF QueryAdmin, Querying
  <2>2. "query" \notin Changing /\ (Result(found) = "ok" => found)
    BY DEF Changing, Result
  <2> QED
    BY <2>1, <2>2, ExecutedTells
<1>3. CASE LocationsWithMissing(s)
  <2>1. PICK a \in {"ok", "err"} : /\ Locations # {} => a = Result(ListLength > 8)
                                   /\ Executed(s, FALSE, a)
    BY <1>3 DEF LocationsWithMissing
  <2>2. request[s].op = "locations" /\ "locations" \notin Changing
    BY <1>3 DEF LocationsWithMissing, Querying, Changing
  <2>3. Locations \in SUBSET Place /\ IsFiniteSet(Locations)
    BY LocationsKnown DEF TypeOK
  <2>4. a = "err" => \A p \in Locations : TextLength[p] <= 8
    <3> SUFFICES ASSUME a = "err", NEW p \in Locations PROVE TextLength[p] <= 8
      OBVIOUS
    <3>1. ListLength \in Nat /\ TextLength[p] \in Nat /\ TextLength[p] <= ListLength
      BY <2>3, ListCoversPlaces
    <3>2. ~ (ListLength > 8)
      BY <2>1 DEF Result
    <3> QED
      BY <3>1, <3>2
  <2> QED
    BY <2>1, <2>2, <2>4, ExecutedTells
<1>4. CASE Login(s)
  <2>1. PICK a \in {"ok", "err"} : Executed(s, FALSE, a)
    BY <1>4 DEF Login, Result
  <2>2. request[s].op = "login" /\ "login" \notin Changing
    BY <1>4 DEF Login, Querying, Changing
  <2> QED
    BY <2>1, <2>2, ExecutedTells
<1>5. CASE AddPhoto(s) \/ GetPhoto(s)
  <2>1. Executed(s, FALSE, "ok")
    BY <1>5 DEF AddPhoto, GetPhoto
  <2>2. request[s].op \notin Changing \cup {"query", "locations"}
    BY <1>5 DEF AddPhoto, GetPhoto, Querying, Changing
  <2> QED
    BY <2>1, <2>2, ExecutedTells
<1>6. CASE NewUser(s)
  BY <1>1, <1>6 DEF NewUser, Querying
<1>7. CASE PositiveID(s)
  BY <1>1, <1>7 DEF PositiveID, Querying
<1>8. CASE RemoveFromPublic(s)
  <2> DEFINE hit == request[s].id \in public
  <2>1. Executed(s, hit, Result(hit)) /\ request[s].op \notin {"query", "locations"}
    BY <1>8 DEF RemoveFromPublic, Querying
  <2>2. hit \in BOOLEAN
    OBVIOUS
  <2> HIDE DEF hit
  <2> QED
    BY <1>1, <2>1, <2>2
<1>9. CASE RemoveFromAdmin(s)
  <2> DEFINE hit == request[s].id \in DOMAIN admin
  <2>1. Executed(s, hit, Result(hit)) /\ request[s].op \notin {"query", "locations"}
    BY <1>9 DEF RemoveFromAdmin, Querying
  <2>2. hit \in BOOLEAN
    OBVIOUS
  <2> HIDE DEF hit
  <2> QED
    BY <1>1, <2>1, <2>2
<1>10. CASE ChangePassword(s)
  BY <1>1, <1>10 DEF ChangePassword, Querying
<1>11. CASE CreateMissingAdmin(s)
  BY <1>1, <1>11 DEF CreateMissingAdmin, Querying
<1> QED
  BY <1>2, <1>3, <1>4, <1>5, <1>6, <1>7, <1>8, <1>9, <1>10, <1>11

LEMMA StepTells ==
  ASSUME TypeOK, Working, Honest, NEW s \in Session, IsFiniteSet(DOMAIN admin),
         Accept(s) \/ ClientLeaves(s) \/ HandleMessage(s) \/ LoseLink(s) \/ DbStep(s)
  PROVE  Tells(s)
<1> SUFFICES ASSUME phase[s] \notin {"closed", "idle", "left"}, phase'[s] = "idle"
             PROVE  Tells(s)
  BY DEF Tells
<1>1. phase[s] \in Busy
  BY DEF TypeOK, RequestsTyped, Phases, Busy
<1>2. ~ did[s] /\ (~ link[s] => faulted[s])
  BY <1>1 DEF Honest
<1>3. DbStep(s) /\ ~ Ping(s)
  BY DEF Accept, ClientLeaves, HandleMessage, LoseLink, Ping, GoTo, TypeOK, RequestsTyped
<1>4. CASE PingFails(s)
  <2>1. faulted'[s]
    BY <1>2, <1>4 DEF PingFails
  <2>2. request[s].op \in Changing => answer'[s] # "ok"
    <3>1. ASSUME request[s].op \in Changing PROVE Reply(s, "err")
      BY <1>4, <3>1 DEF PingFails, Changing, GoTo, TypeOK, RequestsTyped
    <3> QED
      BY <3>1, ReplyRests
  <2> QED
    BY <2>1, <2>2 DEF Tells
<1>5. CASE QueryFails(s)
  <2>1. faulted'[s]
    BY <1>2, <1>5 DEF QueryFails
  <2>2. request[s].op \in Changing => answer'[s] # "ok"
    BY <1>5, ReplyRests DEF QueryFails, Changing
  <2> QED
    BY <2>1, <2>2 DEF Tells
<1>6. CASE Crashes(s) \/ ResultLost(s)
  BY <1>6, CrashAside DEF Crashes, ResultLost
<1>7. CASE CheckPassword(s) \/ CountRows(s)
  <2>1. Reply(s, "err") /\ did' = did
    BY <1>7 DEF CheckPassword, CountRows, GoTo, TypeOK, RequestsTyped
  <2>2. request[s].op \notin {"query", "locations"}
    BY <1>1, <1>7 DEF Honest, Creates, CheckPassword, Querying, CountRows
  <2>3. answer'[s] = "err"
    BY <2>1, ReplyRests
  <2> QED
    BY <1>2, <2>1, <2>2, <2>3 DEF Tells
<1>8. CASE CreateMissing(s)
  <2>1. request[s].op = "createmissing" /\ link[s]
    BY <1>8 DEF CreateMissing, Querying
  <2>2. ~ Crash(s)
    BY CrashAside
  <2>3. Executed(s, TRUE, "err") /\ ~ link'[s]
    BY <1>8, <2>2 DEF CreateMissing
  <2>4. faulted'[s] = TRUE
    BY <2>1, <2>3 DEF Executed, TypeOK
  <2> QED
    BY <2>1, <2>3, <2>4, ExecutedTells
<1> QED
  BY <1>3, <1>4, <1>5, <1>6, <1>7, <1>8, QueriesTell DEF DbStep

\* A step leaves the phase of every other process alone.
LEMMA StepAside ==
  ASSUME TypeOK, NEW s \in Session, NEW t \in Session \ {s},
         Accept(s) \/ ClientLeaves(s) \/ HandleMessage(s) \/ LoseLink(s) \/ DbStep(s)
  PROVE  phase'[t] = phase[t]
<1>1. phase' = phase \/ \E p : phase' = [phase EXCEPT ![s] = p]
  <2>1. CASE Accept(s) \/ ClientLeaves(s) \/ HandleMessage(s) \/ LoseLink(s)
    BY <2>1 DEF Accept, ClientLeaves, HandleMessage, LoseLink, Refused, AlreadySignedIn, Called,
                Reply, GoTo
  <2>2. CASE Ping(s) \/ PingFails(s) \/ QueryFails(s) \/ CheckPassword(s) \/ CountRows(s)
    BY <2>2 DEF Ping, PingFails, QueryFails, CheckPassword, CountRows, Reply, GoTo
  <2>3. ASSUME Crash(s) PROVE \E p : phase' = [phase EXCEPT ![s] = p]
    BY <2>3 DEF Crash, GoTo
  <2>4. ASSUME NEW c, NEW a, Executed(s, c, a) PROVE \E p : phase' = [phase EXCEPT ![s] = p]
    BY <2>4 DEF Executed, Reply, GoTo
  <2>5. CASE ~ (\/ Accept(s) \/ ClientLeaves(s) \/ HandleMessage(s) \/ LoseLink(s)
                \/ Ping(s) \/ PingFails(s) \/ QueryFails(s) \/ CheckPassword(s) \/ CountRows(s))
    BY <2>3, <2>4, <2>5
    DEF DbStep, QueryAdmin, LocationsWithMissing, Login, NewUser, PositiveID, RemoveFromPublic,
        RemoveFromAdmin, AddPhoto, GetPhoto, Crashes, ResultLost, ChangePassword, CreateMissing,
        CreateMissingAdmin
  <2> QED
    BY <2>1, <2>2, <2>5
<1> QED
  BY <1>1 DEF TypeOK, RequestsTyped

LEMMA InitHonest == Init => Honest
BY DEF Init, Honest, Busy

LEMMA StepsHonest == Inv /\ Honest /\ [Next]_vars => Honest'
<1> SUFFICES ASSUME Inv, Honest, [Next]_vars PROVE Honest'
  OBVIOUS
<1>1. CASE UNCHANGED vars
  BY <1>1 DEF vars, Honest
<1>2. CASE Next
  BY <1>2, StepHonest DEF Next, Inv
<1> QED
  BY <1>1, <1>2

Told == \A s \in Session : Tells(s)

LEMMA StepsTell == Inv /\ Honest /\ RowsInv /\ [Next]_vars => [Told]_vars
<1> SUFFICES ASSUME Inv, Honest, RowsInv, Next PROVE Told
  OBVIOUS
<1>1. IsFiniteSet(DOMAIN admin)
  BY DEF RowsInv, Bounded, Rows, Creates
<1>2. PICK s \in Session :
        Accept(s) \/ ClientLeaves(s) \/ HandleMessage(s) \/ LoseLink(s) \/ DbStep(s)
  BY DEF Next
<1>3. Tells(s)
  BY <1>1, <1>2, StepTells DEF Inv
<1>4. ASSUME NEW t \in Session \ {s} PROVE Tells(t)
  BY <1>2, <1>4, StepAside DEF Tells, Inv
<1> QED
  BY <1>3, <1>4 DEF Told

\* Whatever processes do between the queries of a command, its answer is true: done
\* means a row changed, failed means none did, found means found, and no locations
\* means only short ones, unless the MySQL connection was down for a while
\* (handleMessage's branches, mysql_affected_rows and -7 in db.cpp, db.cpp:501).
THEOREM AnswersAreTrue == Spec => AnswersTell
<1>1. Spec => [][Told]_vars
  BY InitInv, StepInv, InitHonest, StepsHonest, InitRows, StepRows, StepsTell, PTL DEF Spec
<1> QED
  BY <1>1, PTL DEF Told, Tells, AnswersTell

-----------------------------------------------------------------------------
(* Sessions implements Tables: a query that settles a command is the step   *)
(* in which the command takes effect, and all the queries before it are    *)
(* stuttering.                                                             *)

\* What the steps of s do to the commands in hand.
Keeps == Hand' = Hand

Settled(s) ==
  /\ Hand[s] # NoRequest /\ Hand[s].r = request[s] /\ Hand[s].by = u[s]
  /\ Hand' = [Hand EXCEPT ![s] = NoRequest]

-----------------------------------------------------------------------------
\* Tables brings a Cardinality of its own.
LEMMA SameCardinality == \A S : Abstract!Cardinality(S) = Cardinality(S)
BY DEF Cardinality, Abstract!Cardinality

LEMMA InHand ==
  ASSUME TypeOK, Working, NEW s \in Session, phase[s] \in Busy
  PROVE  /\ request[s] \in Requests /\ request[s] # NoRequest
         /\ Hand[s] = [r |-> request[s], by |-> u[s]]
         /\ Hand[s] # NoRequest
<1>1. request[s] \in Requests /\ request[s] # NoRequest
  BY RequestsAssumption DEF Working
<1>2. Hand[s] = [r |-> request[s], by |-> u[s]]
  BY <1>1 DEF Hand
<1>3. u[s] \in User \cup {NoUser}
  BY DEF TypeOK
<1>4. [r |-> request[s], by |-> u[s]] \in [r : Requests, by : User \cup {NoUser}]
  BY <1>1, <1>3
<1> QED
  BY <1>1, <1>2, <1>4, NullAssumption

LEMMA ClearSettles ==
  ASSUME TypeOK, Working, NEW s \in Session, phase[s] \in Busy,
         request' = [request EXCEPT ![s] = NoRequest],
         \A t \in Session \ {s} : u'[t] = u[t]
  PROVE  Settled(s)
<1>1. Hand[s] # NoRequest /\ Hand[s].r = request[s] /\ Hand[s].by = u[s]
  <2>1. Hand[s] # NoRequest /\ Hand[s] = [r |-> request[s], by |-> u[s]]
    BY InHand
  <2> QED
    BY <2>1
<1>2. request'[s] = NoRequest /\ \A t \in Session \ {s} : request'[t] = request[t]
  BY DEF TypeOK, RequestsTyped
<1>3. Hand' = [Hand EXCEPT ![s] = NoRequest]
  BY <1>2 DEF Hand
<1> QED
  BY <1>1, <1>3 DEF Settled

LEMMA ReplySettled ==
  ASSUME TypeOK, Working, NEW s \in Session, phase[s] \in Busy, NEW a, Reply(s, a),
         \A t \in Session \ {s} : u'[t] = u[t]
  PROVE  Settled(s)
BY ClearSettles DEF Reply

LEMMA CrashSettled ==
  ASSUME TypeOK, Working, NEW s \in Session, phase[s] \in Busy, Crash(s)
  PROVE  Settled(s)
<1>1. \A t \in Session \ {s} : u'[t] = u[t]
  BY DEF Crash, TypeOK
<1> QED
  BY <1>1, ClearSettles DEF Crash

LEMMA ExecutedSettled ==
  ASSUME TypeOK, Working, NEW s \in Session, phase[s] \in Busy, NEW c, NEW a,
         Executed(s, c, a), u' = u
  PROVE  Settled(s)
BY ReplySettled DEF Executed

LEMMA SameKeeps ==
  ASSUME UNCHANGED <<request, u>>
  PROVE  Keeps
BY DEF Keeps, Hand

-----------------------------------------------------------------------------
(* A command that changes no row is dropped.                               *)

LEMMA DropMapped ==
  ASSUME NEW s \in Session, Settled(s), UNCHANGED tables
  PROVE  Abstract!Next
BY DEF Settled, tables, Abstract!Drop, Abstract!Next

LEMMA StutterMapped ==
  ASSUME Keeps, UNCHANGED tables
  PROVE  UNCHANGED Abstract!vars
BY DEF Keeps, tables, Abstract!vars

LEMMA HandleMapped ==
  ASSUME TypeOK, Working, NEW s \in Session, HandleMessage(s)
  PROVE  [Abstract!Next]_Abstract!vars
<1>1. PICK r \in Requests : Refused(s, r) \/ AlreadySignedIn(s, r) \/ Called(s, r)
  BY DEF HandleMessage
<1>2. request[s] = NoRequest
  BY DEF HandleMessage, Working, Busy
<1>3. CASE Refused(s, r) \/ AlreadySignedIn(s, r)
  <2>1. request' = request /\ u' = u
    BY <1>2, <1>3 DEF Refused, AlreadySignedIn, Reply, TypeOK, RequestsTyped
  <2> QED
    BY <2>1, SameKeeps, StutterMapped DEF HandleMessage
<1>4. CASE Called(s, r)
  <2> DEFINE c == [r |-> r, by |-> u'[s]]
  <2>1. u' \in [Session -> User \cup {NoUser}] /\ \A t \in Session \ {s} : u'[t] = u[t]
    <3>1. r.op = "login" => r.user \in User
      BY RequestsAssumption DEF Request
    <3> QED
      BY <1>4, <3>1 DEF Called, TypeOK
  <2>2. c \in [r : Requests, by : User \cup {NoUser}]
    BY <2>1
  <2>3. request'[s] = r /\ \A t \in Session \ {s} : request'[t] = request[t]
    BY <1>4 DEF Called, TypeOK, RequestsTyped
  <2>4. r # NoRequest
    BY RequestsAssumption
  <2>5. Hand' = [Hand EXCEPT ![s] = c]
    BY <2>1, <2>3, <2>4 DEF Hand
  <2>6. Hand[s] = NoRequest
    BY <1>2 DEF Hand
  <2>7. Abstract!Take(s)
    BY <2>2, <2>5, <2>6 DEF HandleMessage, tables, Abstract!Take
  <2> QED
    BY <2>7 DEF Abstract!Next
<1> QED
  BY <1>1, <1>3, <1>4

LEMMA ConnectionMapped ==
  ASSUME TypeOK, Working, NEW s \in Session,
         Accept(s) \/ ClientLeaves(s) \/ LoseLink(s) \/ Ping(s) \/ PingFails(s) \/ QueryFails(s)
  PROVE  [Abstract!Next]_Abstract!vars
<1>1. UNCHANGED tables /\ u' = u
  BY DEF Accept, ClientLeaves, LoseLink, Ping, PingFails, QueryFails
<1>2. CASE request' = request
  BY <1>1, <1>2, SameKeeps, StutterMapped
<1>3. ASSUME NEW a, Reply(s, a), phase[s] \in Busy
      PROVE  [Abstract!Next]_Abstract!vars
  BY <1>1, <1>3, ReplySettled, DropMapped
<1>4. CASE PingFails(s)
  BY <1>2, <1>3, <1>4 DEF PingFails, Busy
<1>5. CASE QueryFails(s)
  BY <1>3, <1>5 DEF QueryFails, Busy
<1>6. CASE Accept(s) \/ ClientLeaves(s) \/ LoseLink(s) \/ Ping(s)
  BY <1>2, <1>6 DEF Accept, ClientLeaves, LoseLink, Ping
<1> QED
  BY <1>4, <1>5, <1>6

LEMMA ReadsMapped ==
  ASSUME TypeOK, Working, NEW s \in Session,
         \/ QueryAdmin(s) \/ LocationsWithMissing(s) \/ Login(s) \/ AddPhoto(s) \/ GetPhoto(s)
         \/ Crashes(s) \/ ResultLost(s) \/ CheckPassword(s) \/ CountRows(s)
  PROVE  [Abstract!Next]_Abstract!vars
<1>1. UNCHANGED tables
  BY DEF QueryAdmin, LocationsWithMissing, Login, AddPhoto, GetPhoto, Crashes, ResultLost,
         CheckPassword, CountRows
<1>2. phase[s] \in Busy
  BY DEF QueryAdmin, LocationsWithMissing, Login, AddPhoto, GetPhoto, Crashes, ResultLost,
         CheckPassword, CountRows, Querying, Busy
<1>3. CASE QueryAdmin(s) \/ LocationsWithMissing(s) \/ Login(s) \/ AddPhoto(s) \/ GetPhoto(s)
  BY <1>1, <1>2, <1>3, ExecutedSettled, DropMapped
  DEF QueryAdmin, LocationsWithMissing, Login, AddPhoto, GetPhoto
<1>4. CASE Crashes(s) \/ ResultLost(s)
  BY <1>1, <1>2, <1>4, CrashSettled, DropMapped DEF Crashes, ResultLost
<1>5. CASE CheckPassword(s) \/ CountRows(s)
  <2>1. u' = u /\ (request' = request \/ Reply(s, "err"))
    BY <1>5 DEF CheckPassword, CountRows
  <2> QED
    BY <1>1, <1>2, <2>1, ReplySettled, DropMapped, SameKeeps, StutterMapped
<1> QED
  BY <1>3, <1>4, <1>5

-----------------------------------------------------------------------------
(* A command that changes a row takes effect.                              *)

LEMMA WritesSettle ==
  ASSUME TypeOK, Working, NEW s \in Session,
         \/ NewUser(s) \/ PositiveID(s) \/ RemoveFromPublic(s) \/ RemoveFromAdmin(s)
         \/ ChangePassword(s) \/ CreateMissing(s) \/ CreateMissingAdmin(s)
  PROVE  Settled(s)
<1>1. phase[s] \in Busy
  BY DEF NewUser, PositiveID, RemoveFromPublic, RemoveFromAdmin, ChangePassword, CreateMissing,
         CreateMissingAdmin, Querying, Busy
<1>2. CASE CreateMissing(s)
  BY <1>1, <1>2, CrashSettled, ExecutedSettled DEF CreateMissing
<1>3. CASE ~ CreateMissing(s)
  BY <1>1, <1>3, ExecutedSettled
  DEF NewUser, PositiveID, RemoveFromPublic, RemoveFromAdmin, ChangePassword, CreateMissingAdmin
<1> QED
  BY <1>2, <1>3

LEMMA SettledIs ==
  ASSUME NEW s \in Session, NEW op, Settled(s), request[s].op = op
  PROVE  Abstract!Settle(s, op) /\ Hand[s].r = request[s] /\ Hand[s].by = u[s]
BY DEF Settled, Abstract!Settle

LEMMA AccountsMapped ==
  ASSUME TypeOK, Working, NEW s \in Session, NewUser(s) \/ ChangePassword(s)
  PROVE  Abstract!Next
<1>1. Settled(s)
  BY WritesSettle
<1>2. CASE NewUser(s)
  <2>1. request[s].op = "adduser" /\ public' = public /\ admin' = admin
    BY <1>2 DEF NewUser, Querying
  <2>2. CASE request[s].user \in DOMAIN accounts
    BY <1>1, <1>2, <2>1, <2>2, DropMapped DEF NewUser, tables
  <2>3. CASE request[s].user \notin DOMAIN accounts
    <3>1. accounts' = Abstract!Put(accounts, request[s].user, request[s].pw)
      BY <1>2, <2>3 DEF NewUser, Abstract!Put
    <3>2. Abstract!AddUser(s)
      BY <1>1, <2>1, <2>3, <3>1, SettledIs DEF Abstract!AddUser
    <3> QED
      BY <3>2 DEF Abstract!Next
  <2> QED
    BY <2>2, <2>3
<1>3. CASE ChangePassword(s)
  <2>1. request[s].op = "password" /\ public' = public /\ admin' = admin
    BY <1>3 DEF ChangePassword, Querying
  <2>2. CASE u[s] \in DOMAIN accounts
    <3>1. DOMAIN accounts \cup {u[s]} = DOMAIN accounts
      BY <2>2
    <3>2. accounts' = Abstract!Put(accounts, u[s], request[s].pw)
      BY <1>3, <3>1 DEF ChangePassword, Abstract!Put
    <3>3. Abstract!ReplacePassword(s)
      BY <1>1, <2>1, <2>2, <3>2, SettledIs DEF Abstract!ReplacePassword
    <3> QED
      BY <3>3 DEF Abstract!Next
  <2>3. CASE u[s] \notin DOMAIN accounts
    <3>1. accounts' = accounts
      BY <1>3, <2>3 DEF ChangePassword, TypeOK, TablesTyped
    <3> QED
      BY <1>1, <2>1, <3>1, DropMapped DEF tables
  <2> QED
    BY <2>2, <2>3
<1> QED
  BY <1>2, <1>3

LEMMA PublicMapped ==
  ASSUME TypeOK, Working, TablesBounded', NEW s \in Session, RemoveFromPublic(s) \/ CreateMissing(s)
  PROVE  Abstract!Next
<1>1. Settled(s)
  BY WritesSettle
<1>2. CASE RemoveFromPublic(s)
  <2>1. request[s].op = "removemissing" /\ admin' = admin /\ accounts' = accounts
    BY <1>2 DEF RemoveFromPublic, Querying
  <2>2. Abstract!RemovePerson(s)
    BY <1>1, <1>2, <2>1, SettledIs DEF RemoveFromPublic, Abstract!RemovePerson
  <2> QED
    BY <2>2 DEF Abstract!Next
<1>3. CASE CreateMissing(s)
  <2>1. request[s].op = "createmissing" /\ admin' = admin /\ accounts' = accounts
    BY <1>3 DEF CreateMissing, Querying
  <2>2. Abstract!Settle(s, "createmissing")
    BY <1>1, <2>1, SettledIs
  <2>3. PICK i \in PublicID \ public : public' = public \cup {i}
    BY <1>3 DEF CreateMissing
  <2>4. Abstract!Cardinality(public') <= Limit + Cardinality(Session) - 1
    BY SameCardinality DEF TablesBounded
  <2>5. Abstract!AddPerson(s)
    BY <2>1, <2>2, <2>3, <2>4 DEF Abstract!AddPerson
  <2> QED
    BY <2>5 DEF Abstract!Next
<1> QED
  BY <1>2, <1>3

LEMMA AdminMapped ==
  ASSUME TypeOK, Working, TablesBounded', NEW s \in Session,
         PositiveID(s) \/ RemoveFromAdmin(s) \/ CreateMissingAdmin(s)
  PROVE  Abstract!Next
<1> DEFINE r == request[s]
<1>1. Settled(s)
  BY WritesSettle
<1>2. public' = public /\ accounts' = accounts
  BY DEF PositiveID, RemoveFromAdmin, CreateMissingAdmin
<1>3. CASE RemoveFromAdmin(s)
  <2>1. Abstract!Settle(s, "removebody") /\ Hand[s].r = r
    BY <1>1, <1>3, SettledIs DEF RemoveFromAdmin, Querying
  <2>2. Abstract!RemoveBody(s)
    BY <1>2, <1>3, <2>1 DEF RemoveFromAdmin, Abstract!RemoveBody
  <2> QED
    BY <2>2 DEF Abstract!Next
<1>4. CASE PositiveID(s)
  <2>1. Abstract!Settle(s, "id") /\ Hand[s].r = r
    BY <1>1, <1>4, SettledIs DEF PositiveID, Querying
  <2>2. CASE r.id \in DOMAIN admin
    <3>1. DOMAIN admin \cup {r.id} = DOMAIN admin
      BY <2>2
    <3>2. admin' = Abstract!Put(admin, r.id, [admin[r.id] EXCEPT !.name = r.name])
      BY <1>4, <3>1 DEF PositiveID, Abstract!Put
    <3>3. Abstract!Identify(s)
      BY <1>2, <2>1, <2>2, <3>2 DEF Abstract!Identify
    <3> QED
      BY <3>3 DEF Abstract!Next
  <2>3. CASE r.id \notin DOMAIN admin
    <3>1. admin' = admin
      BY <1>4, <2>3 DEF PositiveID, TypeOK, TablesTyped
    <3> QED
      BY <1>1, <1>2, <3>1, DropMapped DEF tables
  <2> QED
    BY <2>2, <2>3
<1>5. CASE CreateMissingAdmin(s)
  <2>1. Abstract!Settle(s, "createbody") /\ Hand[s].r = r
    BY <1>1, <1>5, SettledIs DEF CreateMissingAdmin, Querying
  <2>2. CASE r.id \in DOMAIN admin
    BY <1>1, <1>2, <1>5, <2>2, DropMapped DEF CreateMissingAdmin, tables
  <2>3. CASE r.id \notin DOMAIN admin
    <3>1. admin' = Abstract!Put(admin, r.id, [name |-> r.name, place |-> r.place])
      BY <1>5, <2>3 DEF CreateMissingAdmin, Abstract!Put
    <3>2. Abstract!Cardinality(DOMAIN admin') <= Limit + Cardinality(Session) - 1
      BY SameCardinality DEF TablesBounded
    <3>3. Abstract!AddBody(s)
      BY <1>2, <2>1, <2>3, <3>1, <3>2 DEF Abstract!AddBody
    <3> QED
      BY <3>3 DEF Abstract!Next
  <2> QED
    BY <2>2, <2>3
<1> QED
  BY <1>3, <1>4, <1>5

-----------------------------------------------------------------------------
LEMMA InitMapped == Init => Abstract!Init
BY DEF Init, Hand, Abstract!Init

LEMMA StepMapped == Inv /\ TablesBounded' /\ [Next]_vars => [Abstract!Next]_Abstract!vars
<1> SUFFICES ASSUME Inv, TablesBounded', [Next]_vars PROVE [Abstract!Next]_Abstract!vars
  OBVIOUS
<1>1. CASE UNCHANGED vars
  BY <1>1, SameKeeps, StutterMapped DEF vars
<1>2. ASSUME NEW s \in Session,
             Accept(s) \/ ClientLeaves(s) \/ HandleMessage(s) \/ LoseLink(s) \/ DbStep(s)
      PROVE  [Abstract!Next]_Abstract!vars
  BY <1>2, HandleMapped, ConnectionMapped, ReadsMapped, AccountsMapped, PublicMapped, AdminMapped
  DEF DbStep, Inv
<1> QED
  BY <1>1, <1>2 DEF Next

\* For any processes, commands and limit: whatever queries of other processes come
\* between the queries of a command (db.cpp), it takes effect at one moment, once,
\* with the rows it was given, or not at all.
THEOREM ImplementsTables == Spec => TablesSpec
<1>1. Init => Abstract!Init
  BY InitMapped
<1>2. Spec => []TablesBounded
  BY Overshoot
<1>3. Spec => []Inv
  BY InitInv, StepInv, PTL DEF Spec
<1> QED
  BY <1>1, <1>2, <1>3, StepMapped, PTL DEF Spec, TablesSpec, Abstract!Spec
=============================================================================
