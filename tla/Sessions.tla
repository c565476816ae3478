-------------------------------- MODULE Sessions --------------------------------
(***************************************************************************)
(* server.cpp and db.cpp: the processes forked for the clients, each with  *)
(* a MySQL connection of its own, work on the same three tables.  A query  *)
(* is atomic; what a function of db.cpp does between its queries is not.   *)
(* phase is the place of a process:                                        *)
(*                                                                         *)
(*   closed   no process (yet, or it crashed)                              *)
(*   idle     waiting for a message                                        *)
(*   ping     in a function of db.cpp, before mysql_ping                   *)
(*   query    before the function's only query, or before authenticateUser's*)
(*   count    before getRowCountTbl, whose second mysql_ping included      *)
(*   insert   there was room: before the INSERT                            *)
(*   update   the old password was right: before the UPDATE                *)
(*   left     the client is gone and the process waits for ever            *)
(*                                                                         *)
(* A row is known by its key.  Photos are left out, and so are the names   *)
(* and locations in `public', which no query reads.  The schema is not in  *)
(* the repository: usernames and personIDs are taken to be unique, as the  *)
(* comments at db.cpp:178 and 606 expect, and each table to have an        *)
(* AUTO_INCREMENT column, as the tests of mysql_insert_id do.              *)
(***************************************************************************)
EXTENDS Integers, FiniteSets, FiniteSetsExt

CONSTANTS
  Session,                  \* how many processes there can be at a time
  Limit,                    \* 100: the rows a table may have
  PublicID, BodyID, Name,   \* keys of public, keys of admin, names of people
  Place, TextLength,        \* locations of bodies, and how many characters each has
  User, Password,
  NoName, NoUser, NoRequest,
  Requests,                 \* the commands of the run
  FirstAccounts,            \* the table users at the start
  MaxLosses                 \* bound on the losses of a MySQL connection, in all

Request ==
  [op : {"locations", "createmissing"}]
    \cup [op : {"query"}, name : Name]
    \cup [op : {"login", "adduser"}, user : User, pw : Password]
    \cup [op : {"password"}, old : Password, pw : Password]
    \cup [op : {"removemissing", "dlmissingphoto", "addphoto"}, id : PublicID]
    \cup [op : {"removebody", "addbodyphoto"}, id : BodyID]
    \cup [op : {"createbody"}, id : BodyID, name : Name \cup {NoName}, place : Place]
    \cup [op : {"id"}, id : BodyID, name : Name]

\* Mutant of AdminOps: two branches of handleMessage without `if(auth)'.
AdminOpsShort == {"id", "removebody", "password", "createbody", "dlmissingphoto", "addbodyphoto"}

\* The commands handleMessage refuses before login.
AdminOps == {"adduser", "id", "removemissing", "removebody", "password", "createbody",
             "dlmissingphoto", "addbodyphoto"}

ASSUME SessionAssumption  == IsFiniteSet(Session) /\ Session # {}
ASSUME LimitAssumption    == Limit \in Nat \ {0}
ASSUME PublicAssumption   == IsFiniteSet(PublicID)
ASSUME PlaceAssumption    == TextLength \in [Place -> Nat \ {0}]
ASSUME RequestsAssumption == Requests \subseteq Request /\ NoRequest \notin Request
ASSUME AccountsAssumption == /\ DOMAIN FirstAccounts \subseteq User
                             /\ FirstAccounts \in [DOMAIN FirstAccounts -> Password]
ASSUME NullAssumption     == /\ NoName \notin Name /\ NoUser \notin User
                             /\ NoRequest \notin [r : Requests, by : User \cup {NoUser}]
ASSUME LossesAssumption   == MaxLosses \in Nat

VARIABLES
  public, admin, accounts,   \* the tables: ids; personID -> name, place; username -> password
  phase, request, answer,
  auth, u,                   \* signed in? under which name (the last one tried)?
  link,                      \* is the MySQL connection up?
  losses,
  did,                       \* history: did the request change a row?
  faulted,                   \* history: was the connection down at some time of the request?
  blind                      \* history: was login answered without a query?

tables == <<public, admin, accounts>>
vars == <<tables, phase, request, answer, auth, u, link, losses, did, faulted, blind>>

Phases  == {"closed", "idle", "ping", "query", "count", "insert", "update", "left"}
Answers == {"none", "ok", "err", "nauth"}

Body == [name : Name \cup {NoName}, place : Place]

TablesTyped ==
  /\ public \subseteq PublicID
  /\ DOMAIN admin \subseteq BodyID /\ admin \in [DOMAIN admin -> Body]
  /\ DOMAIN accounts \subseteq User /\ accounts \in [DOMAIN accounts -> Password]

RequestsTyped ==
  /\ phase   \in [Session -> Phases]
  /\ request \in [Session -> Request \cup {NoRequest}]
  /\ answer  \in [Session -> Answers]

TypeOK ==
  /\ TablesTyped
  /\ RequestsTyped
  /\ auth    \in [Session -> BOOLEAN]
  /\ u       \in [Session -> User \cup {NoUser}]
  /\ link    \in [Session -> BOOLEAN]
  /\ losses  \in 0 .. MaxLosses
  /\ did     \in [Session -> BOOLEAN]
  /\ faulted \in [Session -> BOOLEAN]
  /\ blind   \in [Session -> BOOLEAN]

Init ==
  /\ public = {} /\ admin = [b \in {} |-> NoName] /\ accounts = FirstAccounts
  /\ phase   = [s \in Session |-> "closed"]
  /\ request = [s \in Session |-> NoRequest]
  /\ answer  = [s \in Session |-> "none"]
  /\ auth    = [s \in Session |-> FALSE]
  /\ u       = [s \in Session |-> NoUser]
  /\ link    = [s \in Session |-> TRUE]
  /\ losses  = 0
  /\ did     = [s \in Session |-> FALSE]
  /\ faulted = [s \in Session |-> FALSE]
  /\ blind   = [s \in Session |-> FALSE]

-----------------------------------------------------------------------------
(* The process.                                                            *)

GoTo(s, place) == phase' = [phase EXCEPT ![s] = place]

\* FromApplicationLayer with the answer; back to main's loop.
Reply(s, a) ==
  /\ GoTo(s, "idle")
  /\ request' = [request EXCEPT ![s] = NoRequest]
  /\ answer'  = [answer  EXCEPT ![s] = a]

\* A fault of memory ends the process, and with it the session.
Crash(s) ==
  /\ GoTo(s, "closed")
  /\ request' = [request EXCEPT ![s] = NoRequest]
  /\ answer'  = [answer  EXCEPT ![s] = "none"]
  /\ auth'    = [auth    EXCEPT ![s] = FALSE]
  /\ u'       = [u       EXCEPT ![s] = NoUser]
  /\ link'    = [link    EXCEPT ![s] = TRUE]
  /\ did'     = [did     EXCEPT ![s] = FALSE]
  /\ faulted' = [faulted EXCEPT ![s] = FALSE]
  /\ blind'   = [blind   EXCEPT ![s] = FALSE]

\* AcceptConn forks; a process that gets no MySQL connection ends at once.
Accept(s) ==
  /\ phase[s] = "closed"
  /\ GoTo(s, "idle")
  /\ UNCHANGED <<tables, request, answer, auth, u, link, losses, did, faulted, blind>>

\* The client closes its connection.  PhysicalLayer's thread ends; main's loop
\* looks at another `connected', which only the command quit clears, and the
\* client never sends that.  A process that is busy when its client goes notices
\* no sooner.
ClientLeaves(s) ==
  /\ phase[s] = "idle"
  /\ GoTo(s, "left")
  /\ UNCHANGED <<tables, request, answer, auth, u, link, losses, did, faulted, blind>>

-----------------------------------------------------------------------------
(* handleMessage, up to the call of a function of db.cpp.                  *)

Refused(s, r) ==
  /\ r.op \in AdminOps /\ ~ auth[s]
  /\ Reply(s, "nauth")
  /\ UNCHANGED u

AlreadySignedIn(s, r) ==
  /\ r.op = "login" /\ auth[s]
  /\ Reply(s, "err")
  /\ UNCHANGED u

\* Mutant of Called: a second login is not turned away.
CalledAgain(s, r) ==
  /\ r.op \in AdminOps => auth[s]
  /\ GoTo(s, "ping")
  /\ request' = [request EXCEPT ![s] = r]
  /\ answer'  = [answer  EXCEPT ![s] = "none"]
  /\ u' = IF r.op = "login" THEN [u EXCEPT ![s] = r.user] ELSE u

Called(s, r) ==
  /\ r.op \in AdminOps => auth[s]
  /\ r.op = "login" => ~ auth[s]
  /\ GoTo(s, "ping")
  /\ request' = [request EXCEPT ![s] = r]
  /\ answer'  = [answer  EXCEPT ![s] = "none"]
  /\ u' = IF r.op = "login" THEN [u EXCEPT ![s] = r.user] ELSE u

HandleMessage(s) ==
  /\ phase[s] = "idle"
  /\ \E r \in Requests : Refused(s, r) \/ AlreadySignedIn(s, r) \/ Called(s, r)
  /\ did'     = [did     EXCEPT ![s] = FALSE]
  /\ faulted' = [faulted EXCEPT ![s] = ~ link[s]]
  /\ UNCHANGED <<tables, auth, link, losses, blind>>

-----------------------------------------------------------------------------
(* The connection to MySQL.                                                *)

Open(s) == phase[s] \notin {"closed", "left"}

LoseLink(s) ==
  /\ Open(s) /\ link[s]
  /\ losses < MaxLosses
  /\ losses'  = losses + 1
  /\ link'    = [link    EXCEPT ![s] = FALSE]
  /\ faulted' = [faulted EXCEPT ![s] = TRUE]
  /\ UNCHANGED <<tables, phase, request, answer, auth, u, did, blind>>

\* mysql_ping finds the connection up, or brings it up again.
Ping(s) ==
  /\ phase[s] = "ping"
  /\ link' = [link EXCEPT ![s] = TRUE]
  /\ GoTo(s, IF request[s].op \in {"createmissing", "createbody"} THEN "count" ELSE "query")
  /\ UNCHANGED <<tables, request, answer, auth, u, losses, did, faulted, blind>>

\* mysql_ping fails.  authenticateUser and queryAdmin `return -7', which is true;
\* the UPDATE behind changePassword's authenticateUser then goes nowhere.
\* getPhoto returns no photo and no size (see Crashes for what else may happen).
PingFails(s) ==
  /\ phase[s] = "ping" /\ ~ link[s]
  /\ \/ /\ request[s].op = "login"
        /\ auth'  = [auth  EXCEPT ![s] = TRUE]
        /\ blind' = [blind EXCEPT ![s] = TRUE]
        /\ Reply(s, "ok")
     \/ /\ request[s].op \in {"query", "dlmissingphoto"}
        /\ Reply(s, "ok")
        /\ UNCHANGED <<auth, blind>>
     \/ /\ request[s].op = "password"
        /\ GoTo(s, "update")
        /\ UNCHANGED <<request, answer, auth, blind>>
     \/ /\ request[s].op \notin {"login", "query", "dlmissingphoto", "password"}
        /\ Reply(s, "err")
        /\ UNCHANGED <<auth, blind>>
  /\ UNCHANGED <<tables, u, link, losses, did, faulted>>

\* mysql_query fails, or getRowCountTbl's own ping: nothing reached the database.
QueryFails(s) ==
  /\ phase[s] \in {"query", "count", "insert", "update"} /\ ~ link[s]
  /\ Reply(s, IF request[s].op = "dlmissingphoto" THEN "ok" ELSE "err")
  /\ UNCHANGED <<tables, auth, u, link, losses, did, faulted, blind>>

\* The query in hand is one of these and can be sent.
Querying(s, place, ops) == phase[s] = place /\ request[s].op \in ops /\ link[s]

\* The query was executed.  What MySQL says of it reaches the process, or the
\* connection is lost with it, mysql_query fails and the function reports an error.
Executed(s, changed, a) ==
  /\ did' = [did EXCEPT ![s] = changed]
  /\ \/ Reply(s, a) /\ UNCHANGED <<link, losses, faulted>>
     \/ /\ losses < MaxLosses
        /\ losses'  = losses + 1
        /\ link'    = [link    EXCEPT ![s] = FALSE]
        /\ faulted' = [faulted EXCEPT ![s] = TRUE]
        /\ Reply(s, "err")

Result(b) == IF b THEN "ok" ELSE "err"

-----------------------------------------------------------------------------
(* The queries of db.cpp.                                                  *)

\* queryAdmin.
QueryAdmin(s) ==
  /\ Querying(s, "query", {"query"})
  /\ Executed(s, FALSE, Result(\E b \in DOMAIN admin : admin[b].name = request[s].name))
  /\ UNCHANGED <<tables, auth, u, blind>>

\* Where there are bodies without a name, and how long the list of these places is.
Locations  == {admin[b].place : b \in {d \in DOMAIN admin : admin[d].name = NoName}}
ListLength == MapThenSumSet(LAMBDA p : TextLength[p], Locations) + Cardinality(Locations) - 1

\* locationsWithMissing reports a list of up to 8 characters as no locations at
\* all ("err"); with no location it reads an uninitialized list.
LocationsWithMissing(s) ==
  /\ Querying(s, "query", {"locations"})
  /\ \E a \in {"ok", "err"} : /\ Locations # {} => a = Result(ListLength > 8)
                            /\ Executed(s, FALSE, a)
  /\ UNCHANGED <<tables, auth, u, blind>>

\* The user has this password.
Valid(a, pw) == a \in DOMAIN accounts /\ accounts[a] = pw

Login(s) ==
  /\ Querying(s, "query", {"login"})
  /\ Executed(s, FALSE, Result(Valid(request[s].user, request[s].pw)))
  /\ auth' = [auth EXCEPT ![s] = answer'[s] = "ok"]
  /\ UNCHANGED <<tables, u, blind>>

\* Mutant of NewUser: REPLACE instead of INSERT.
NewUserReplaces(s) ==
  LET r == request[s]
  IN  /\ Querying(s, "query", {"adduser"})
      /\ accounts' = [a \in DOMAIN accounts \cup {r.user} |->
                        IF a = r.user THEN r.pw ELSE accounts[a]]
      /\ Executed(s, TRUE, "ok")
      /\ UNCHANGED <<public, admin, auth, u, blind>>

NewUser(s) ==
  LET r == request[s]
      new == r.user \notin DOMAIN accounts
  IN  /\ Querying(s, "query", {"adduser"})
      /\ accounts' = IF new
                     THEN [a \in DOMAIN accounts \cup {r.user} |->
                             IF a = r.user THEN r.pw ELSE accounts[a]]
                     ELSE accounts
      /\ Executed(s, new, Result(new))
      /\ UNCHANGED <<public, admin, auth, u, blind>>

\* positiveID; a row that has that name already does not count as affected.
PositiveID(s) ==
  LET r == request[s]
      hit == r.id \in DOMAIN admin /\ admin[r.id].name # r.name
  IN  /\ Querying(s, "query", {"id"})
      /\ admin' = [b \in DOMAIN admin |-> IF b = r.id THEN [admin[b] EXCEPT !.name = r.name]
                                                 ELSE admin[b]]
      /\ Executed(s, hit, Result(hit))
      /\ UNCHANGED <<public, accounts, auth, u, blind>>

\* Mutant of RemoveFromPublic: mysql_affected_rows is not looked at.
RemoveFromPublicUnchecked(s) ==
  /\ Querying(s, "query", {"removemissing"})
  /\ public' = public \ {request[s].id}
  /\ Executed(s, request[s].id \in public, "ok")
  /\ UNCHANGED <<admin, accounts, auth, u, blind>>

RemoveFromPublic(s) ==
  LET hit == request[s].id \in public
  IN  /\ Querying(s, "query", {"removemissing"})
      /\ public' = public \ {request[s].id}
      /\ Executed(s, hit, Result(hit))
      /\ UNCHANGED <<admin, accounts, auth, u, blind>>

RemoveFromAdmin(s) ==
  LET hit == request[s].id \in DOMAIN admin
  IN  /\ Querying(s, "query", {"removebody"})
      /\ admin' = [b \in DOMAIN admin \ {request[s].id} |-> admin[b]]
      /\ Executed(s, hit, Result(hit))
      /\ UNCHANGED <<public, accounts, auth, u, blind>>

\* addPhoto reports success whether or not there is such a row.
AddPhoto(s) ==
  /\ Querying(s, "query", {"addphoto", "addbodyphoto"})
  /\ Executed(s, FALSE, "ok")
  /\ UNCHANGED <<tables, auth, u, blind>>

GetPhoto(s) ==
  /\ Querying(s, "query", {"dlmissingphoto"})
  /\ request[s].id \in public
  /\ Executed(s, FALSE, "ok") /\ answer'[s] = "ok"      \* otherwise QueryFails
  /\ UNCHANGED <<tables, auth, u, blind>>

\* Reads through a wild or freed pointer or writes past an allocation: the list of
\* locations, the row of getPhoto (which an empty result does not have, and which is
\* freed before it is used), and in setImg the photo of a getPhoto that failed.
Crashes(s) ==
  /\ \/ Querying(s, "query", {"locations", "dlmissingphoto"})
     \/ /\ phase[s] \in {"ping", "query"} /\ ~ link[s]
        /\ request[s].op = "dlmissingphoto"
  /\ Crash(s)
  /\ UNCHANGED <<tables, losses>>

\* mysql_query succeeded, and then the connection is lost before the rows are all
\* there: mysql_store_result returns NULL, of which the next call fetches a row
\* (db.cpp:97, 487, 608, 681, 745).
ResultLost(s) ==
  /\ \/ Querying(s, "query", {"query", "locations", "login", "password", "dlmissingphoto"})
     \/ phase[s] = "count"
  /\ losses < MaxLosses
  /\ losses' = losses + 1
  /\ Crash(s)
  /\ UNCHANGED tables

-----------------------------------------------------------------------------
(* The functions with two queries.                                         *)

\* authenticateUser, called by changePassword.
CheckPassword(s) ==
  /\ Querying(s, "query", {"password"})
  /\ IF Valid(u[s], request[s].old)
     THEN GoTo(s, "update") /\ UNCHANGED <<request, answer>>
     ELSE Reply(s, "err")
  /\ UNCHANGED <<tables, auth, u, link, losses, did, faulted, blind>>

\* Mutant of ChangePassword: mysql_affected_rows is not looked at.
ChangePasswordUnchecked(s) ==
  LET hit == u[s] \in DOMAIN accounts /\ accounts[u[s]] # request[s].pw
  IN  /\ Querying(s, "update", {"password"})
      /\ accounts' = [a \in DOMAIN accounts |->
                        IF a = u[s] THEN request[s].pw ELSE accounts[a]]
      /\ Executed(s, hit, "ok")
      /\ UNCHANGED <<public, admin, auth, u, blind>>

ChangePassword(s) ==
  LET hit == u[s] \in DOMAIN accounts /\ accounts[u[s]] # request[s].pw
  IN  /\ Querying(s, "update", {"password"})
      /\ accounts' = [a \in DOMAIN accounts |->
                        IF a = u[s] THEN request[s].pw ELSE accounts[a]]
      /\ Executed(s, hit, Result(hit))
      /\ UNCHANGED <<public, admin, auth, u, blind>>

RowCount(op) == IF op = "createmissing" THEN Cardinality(public) ELSE Cardinality(DOMAIN admin)

\* Mutant of Room: one row too many.
RoomForOneMore(op) == RowCount(op) <= Limit

\* db.cpp:318 and 388: is there room?
Room(op) == RowCount(op) < Limit

\* Mutant of CountRows: no answer when the table is full.
CountRowsSilent(s) ==
  /\ phase[s] = "count"
  /\ Room(request[s].op)
  /\ link' = [link EXCEPT ![s] = TRUE]
  /\ GoTo(s, "insert")
  /\ UNCHANGED <<tables, request, answer, auth, u, losses, did, faulted, blind>>

\* getRowCountTbl, which pings once more.
CountRows(s) ==
  /\ phase[s] = "count"
  /\ link' = [link EXCEPT ![s] = TRUE]
  /\ IF Room(request[s].op)
     THEN GoTo(s, "insert") /\ UNCHANGED <<request, answer>>
     ELSE Reply(s, "err")
  /\ UNCHANGED <<tables, auth, u, losses, did, faulted, blind>>

\* createMissing.  handleMessage takes the new id for the address of a string.
CreateMissing(s) ==
  /\ Querying(s, "insert", {"createmissing"})
  /\ \E i \in PublicID \ public : public' = public \cup {i}
  /\ \/ Crash(s) /\ UNCHANGED losses
     \/ /\ Executed(s, TRUE, "err")
        /\ ~ link'[s]
        /\ UNCHANGED <<auth, u, blind>>
  /\ UNCHANGED <<admin, accounts>>

\* Mutant of CreateMissingAdmin: REPLACE instead of INSERT.
CreateMissingAdminReplaces(s) ==
  LET r == request[s]
      row == [name |-> r.name, place |-> r.place]
  IN  /\ Querying(s, "insert", {"createbody"})
      /\ admin' = [b \in DOMAIN admin \cup {r.id} |-> IF b = r.id THEN row ELSE admin[b]]
      /\ Executed(s, TRUE, "ok")
      /\ UNCHANGED <<public, accounts, auth, u, blind>>

\* Mutant of CreateMissingAdmin: the columns in the wrong order.
CreateMissingAdminSwapped(s) ==
  LET r == request[s]
      new == r.id \notin DOMAIN admin
      row == [name |-> r.name, place |-> r.place]
  IN  /\ Querying(s, "insert", {"createbody"})
      /\ admin' = IF new
                  THEN [b \in DOMAIN admin \cup {r.name} |-> IF b = r.name THEN row ELSE admin[b]]
                  ELSE admin
      /\ Executed(s, new, Result(new))
      /\ UNCHANGED <<public, accounts, auth, u, blind>>

CreateMissingAdmin(s) ==
  LET r == request[s]
      new == r.id \notin DOMAIN admin
      row == [name |-> r.name, place |-> r.place]
  IN  /\ Querying(s, "insert", {"createbody"})
      /\ admin' = IF new
                  THEN [b \in DOMAIN admin \cup {r.id} |-> IF b = r.id THEN row ELSE admin[b]]
                  ELSE admin
      /\ Executed(s, new, Result(new))
      /\ UNCHANGED <<public, accounts, auth, u, blind>>

-----------------------------------------------------------------------------
\* What the process does once handleMessage has called a function of db.cpp.
DbStep(s) ==
  \/ Ping(s) \/ PingFails(s) \/ QueryFails(s)
  \/ QueryAdmin(s) \/ LocationsWithMissing(s) \/ Login(s) \/ NewUser(s) \/ PositiveID(s)
  \/ RemoveFromPublic(s) \/ RemoveFromAdmin(s) \/ AddPhoto(s) \/ GetPhoto(s)
  \/ Crashes(s) \/ ResultLost(s)
  \/ CheckPassword(s) \/ ChangePassword(s)
  \/ CountRows(s) \/ CreateMissing(s) \/ CreateMissingAdmin(s)

Next ==
  \E s \in Session :
    Accept(s) \/ ClientLeaves(s) \/ HandleMessage(s) \/ LoseLink(s) \/ DbStep(s)

Spec == Init /\ [][Next]_vars

\* A process that is not waiting for a message goes on.
FairSpec == Spec /\ \A s \in Session : WF_vars(DbStep(s))

-----------------------------------------------------------------------------
\* Count and INSERT are two queries (db.cpp:314-353 and 384-441), so the limit on
\* the rows of a table can be passed, but by no more than one row for each process
\* but one.
TablesBounded ==
  /\ Cardinality(public) <= Limit + Cardinality(Session) - 1
  /\ Cardinality(DOMAIN admin) <= Limit + Cardinality(Session) - 1

\* The commands whose success is the change of a row.
Changing == {"adduser", "id", "removemissing", "removebody", "password", "createbody"}

\* An answer tells what became of the request: a command that was refused changed
\* nothing, one reported as done changed its row, and one reported as failed
\* changed none.  A person reported as found is in a row.  Locations are reported
\* as none only where each has at most 8 characters (db.cpp:501).  All this unless
\* the MySQL connection was down for a while (handleMessage's branches, and
\* mysql_affected_rows and -7 in db.cpp).
AnswersTell ==
  [][\A s \in Session :
       LET r == request[s]
       IN  phase[s] \notin {"closed", "idle", "left"} /\ phase'[s] = "idle" =>
             /\ answer'[s] = "ok" /\ r.op \in Changing => did'[s]
             /\ faulted'[s] \/
                  /\ answer'[s] = "err" => ~ did'[s]
                  /\ answer'[s] = "ok" /\ r.op = "query" =>
                       \E b \in DOMAIN admin : admin[b].name = r.name
                  /\ answer'[s] = "err" /\ r.op = "locations" =>
                       \A p \in Locations : TextLength[p] <= 8]_vars

\* main's `u' is assigned before the password is checked (server.cpp:145), but a
\* process that is signed in is so under the name of a user, unless its login
\* found the MySQL connection down.
SignedInAsUser ==
  \A s \in Session : auth[s] /\ ~ blind[s] => u[s] \in DOMAIN accounts

ByAdmin ==
  admin' # admin \/ accounts' # accounts \/ public \ public' # {}
    => \E s \in Session : auth[s] /\ did'[s] /\ phase'[s] # phase[s]

\* What only administrators may change is changed only by a process that is signed
\* in at that moment, several queries after handleMessage looked.
OnlyAdminsChange == [][ByAdmin]_vars

\* Every command is answered, or ends the process that handles it.
RequestAnswered ==
  \A s \in Session : phase[s] \notin {"closed", "idle", "left"} ~> phase[s] \in {"closed", "idle"}

-----------------------------------------------------------------------------
(* What all this implements.                                               *)

\* A process has taken the command in hand, under the name its session has.
Hand ==
  [s \in Session |->
     IF request[s] = NoRequest THEN NoRequest ELSE [r |-> request[s], by |-> u[s]]]

Abstract == INSTANCE Tables
  WITH Most <- Limit + Cardinality(Session) - 1,
       Command <- [r : Requests, by : User \cup {NoUser}],
       NoCommand <- NoRequest,
       hand <- Hand

\* Whatever queries of other processes come between those of a command, the command
\* takes effect at once and at most once, with the rows it was given, or not at all.
TablesSpec == Abstract!Spec
=============================================================================
