------------------------------- MODULE Processes -------------------------------
(***************************************************************************)
(* The life of connections and processes: AcceptConn and main in           *)
(* server.cpp, which forks a process for each client and closes, waits for *)
(* and ends nothing; the physical layer's view of a connection that ends;  *)
(* and the client as far as others see it.  What is limited outside of the *)
(* program - file descriptors, processes, MySQL connections - has a limit. *)
(*                                                                         *)
(* child[c] is the process forked for the connection c:                    *)
(*                                                                         *)
(*   none      not forked (yet, or fork failed)                            *)
(*   starting  before connectToDB                                          *)
(*   serving   main polls for a message                                    *)
(*   busy      in handleMessage                                            *)
(*   left      the physical layer's thread has ended, main polls for ever  *)
(*   exited    main has returned                                           *)
(*   crashed   ended by a signal                                           *)
(***************************************************************************)
EXTENDS Integers, FiniteSets

CONSTANTS
  Conn,       \* the connections clients may make, one each
  NoConn,
  MaxFds,     \* how many sockets a process may have, besides the listening one
  MaxProcs,   \* how many children the parent may have that it has not waited for
  MaxDB       \* how many connections MySQL gives to this user

ASSUME ConnAssumption  == IsFiniteSet(Conn) /\ NoConn \notin Conn
ASSUME FdsAssumption   == MaxFds \in Nat \ {0}
ASSUME ProcsAssumption == MaxProcs \in Nat
ASSUME DBAssumption    == MaxDB \in Nat

VARIABLES
  parent,      \* "accept", "fork", "exited"
  newest,      \* the connection accepted last
  accepted,    \* connections whose sockets the parent holds
  child,
  sockets,     \* of each process: the connections whose sockets it holds
  database,    \* the processes with a MySQL connection
  client,      \* "off", "prompt", "waiting", "gone"
  backlog,     \* connections that were made and not accepted
  unread,      \* connections with a request that its process has not read
  answers,     \* connections with an answer that its client has not read
  deaf,        \* clients whose physical layer's thread has ended
  stalled      \* history: connections that lost a frame of a request or an answer

vars == <<parent, newest, accepted, child, sockets, database, client, backlog, unread, answers,
          deaf, stalled>>

ChildPlaces == {"none", "starting", "serving", "busy", "left", "exited", "crashed"}

Alive(c) == child[c] \in {"starting", "serving", "busy", "left"}

TypeOK ==
  /\ parent \in {"accept", "fork", "exited"}
  /\ newest \in Conn \cup {NoConn}
  /\ accepted \subseteq Conn
  /\ child \in [Conn -> ChildPlaces]
  /\ sockets \in [Conn -> SUBSET Conn]
  /\ database \subseteq {c \in Conn : Alive(c)}
  /\ client \in [Conn -> {"off", "prompt", "waiting", "gone"}]
  /\ backlog \subseteq Conn
  /\ unread \subseteq Conn /\ answers \subseteq Conn
  /\ deaf \subseteq Conn /\ stalled \subseteq Conn

Init ==
  /\ parent = "accept" /\ newest = NoConn
  /\ accepted = {}
  /\ child   = [c \in Conn |-> "none"]
  /\ sockets = [c \in Conn |-> {}]
  /\ database = {}
  /\ client  = [c \in Conn |-> "off"]
  /\ backlog = {} /\ unread = {} /\ answers = {} /\ deaf = {} /\ stalled = {}

\* Every process has a copy of the listening socket and of the sockets of all
\* connections accepted before it was forked; a connection ends when none is left.
Listening == parent # "exited" \/ \E d \in Conn : Alive(d)

Held(c) == \/ parent # "exited" /\ c \in accepted
           \/ \E d \in Conn : Alive(d) /\ c \in sockets[d]

StillOpen(c) == IF c \in backlog THEN Listening ELSE Held(c)

\* Mutant of End: its MySQL connection is kept.
EndKeepsDatabase(c, how) ==
  /\ child' = [child EXCEPT ![c] = how]
  /\ unread' = unread \ {c} /\ answers' = answers \ {c}
  /\ UNCHANGED database

\* A process ends: its sockets and its MySQL connection are closed for it.
End(c, how) ==
  /\ child' = [child EXCEPT ![c] = how]
  /\ database' = database \ {c}
  /\ unread' = unread \ {c} /\ answers' = answers \ {c}

-----------------------------------------------------------------------------
(* The parent.                                                             *)

\* accept; without a descriptor it fails, and AcceptConn calls exit.
Accept ==
  /\ parent = "accept"
  /\ \E c \in backlog :
       IF Cardinality(accepted) < MaxFds
       THEN /\ parent' = "fork" /\ newest' = c
            /\ accepted' = accepted \cup {c}
            /\ backlog' = backlog \ {c}
       ELSE parent' = "exited" /\ UNCHANGED <<newest, accepted, backlog>>
  /\ UNCHANGED <<child, sockets, database, client, unread, answers, deaf, stalled>>

Forked == {c \in Conn : child[c] # "none"}

\* Mutant of Fork: the parent closes its copy of the socket.
ForkCloses ==
  /\ parent = "fork"
  /\ parent' = "accept"
  /\ accepted' = accepted \ {newest}
  /\ IF Cardinality(Forked) < MaxProcs
     THEN /\ child'   = [child   EXCEPT ![newest] = "starting"]
          /\ sockets' = [sockets EXCEPT ![newest] = accepted]
     ELSE UNCHANGED <<child, sockets>>
  /\ UNCHANGED <<newest, database, client, backlog, unread, answers, deaf, stalled>>

\* fork; when it fails (-1) the parent goes on as after success.  Children that
\* have ended still count, for the parent does not wait for them.
Fork ==
  /\ parent = "fork"
  /\ parent' = "accept"
  /\ IF Cardinality(Forked) < MaxProcs
     THEN /\ child'   = [child   EXCEPT ![newest] = "starting"]
          /\ sockets' = [sockets EXCEPT ![newest] = accepted]
     ELSE UNCHANGED <<child, sockets>>
  /\ UNCHANGED <<newest, accepted, database, client, backlog, unread, answers, deaf,
                 stalled>>

-----------------------------------------------------------------------------
(* A process for one client.                                               *)

\* connectToDB needs a descriptor and one of MySQL's connections.
CanConnect(c) == Cardinality(sockets[c]) < MaxFds /\ Cardinality(database) < MaxDB

\* Mutant of Start: the descriptor for MySQL is not counted.
StartUncounted(c) ==
  /\ child[c] = "starting"
  /\ \/ /\ Cardinality(database) < MaxDB
        /\ child' = [child EXCEPT ![c] = "serving"]
        /\ database' = database \cup {c}
        /\ UNCHANGED <<unread, answers>>
     \/ End(c, "exited")
  /\ UNCHANGED <<parent, newest, accepted, sockets, client, backlog, deaf, stalled>>

\* main, lines 52-62: without MySQL the loop is never entered and main returns.
\* connectToDB may fail for other reasons too.
Start(c) ==
  /\ child[c] = "starting"
  /\ \/ /\ CanConnect(c)
        /\ child' = [child EXCEPT ![c] = "serving"]
        /\ database' = database \cup {c}
        /\ UNCHANGED <<unread, answers>>
     \/ End(c, "exited")
  /\ UNCHANGED <<parent, newest, accepted, sockets, client, backlog, deaf, stalled>>

Serve(c) ==
  /\ child[c] = "serving" /\ c \in unread
  /\ child' = [child EXCEPT ![c] = "busy"]
  /\ unread' = unread \ {c}
  /\ UNCHANGED <<parent, newest, accepted, sockets, database, client, backlog, answers, deaf,
                 stalled>>

\* Mutant of Answer: the answer is not sent.
AnswerSilent(c) ==
  /\ child[c] = "busy"
  /\ child' = [child EXCEPT ![c] = "serving"]
  /\ UNCHANGED <<parent, newest, accepted, sockets, database, client, backlog, unread, answers,
                 deaf, stalled>>

\* handleMessage hands its answer down, for a client that may have gone.
Answer(c) ==
  /\ child[c] = "busy"
  /\ child' = [child EXCEPT ![c] = "serving"]
  /\ answers' = answers \cup {c}
  /\ UNCHANGED <<parent, newest, accepted, sockets, database, client, backlog, unread, deaf,
                 stalled>>

\* A fault in handleMessage; SIGPIPE from sending to a client that has gone; or an
\* exception that the layers throw at bytes which are no frame, as in Stack.
Fault(c) ==
  /\ \/ child[c] = "busy"
     \/ child[c] = "serving" /\ c \in answers /\ client[c] = "gone"
     \/ child[c] = "serving" /\ c \in unread
  /\ End(c, "crashed")
  /\ UNCHANGED <<parent, newest, accepted, sockets, client, backlog, deaf, stalled>>

\* ReceiveFrames: recv returns 0 and the thread ends, which main does not notice;
\* or -1, for which FrameValid and Unserialize read whatever is in memory.
ClientHasGone(c) ==
  /\ child[c] = "serving" /\ client[c] = "gone" /\ c \notin unread
  /\ \/ child' = [child EXCEPT ![c] = "left"] /\ UNCHANGED <<database, unread, answers>>
     \/ End(c, "crashed")
  /\ UNCHANGED <<parent, newest, accepted, sockets, client, backlog, deaf, stalled>>

-----------------------------------------------------------------------------
(* The layers between a client and its process, which Stack has in full:   *)
(* they carry a request or an answer, or throw a frame of it away and then *)
(* carry nothing more.                                                     *)

Deliver(c) ==
  /\ client[c] = "waiting" /\ c \in answers /\ c \notin deaf
  /\ client' = [client EXCEPT ![c] = "prompt"]
  /\ answers' = answers \ {c}
  /\ UNCHANGED <<parent, newest, accepted, child, sockets, database, backlog, unread, deaf,
                 stalled>>

\* For any of the reasons in Queues' Causes.
LoseFrame(c) ==
  /\ c \in unread \cup answers
  /\ unread' = unread \ {c} /\ answers' = answers \ {c}
  /\ stalled' = stalled \cup {c}
  /\ UNCHANGED <<parent, newest, accepted, child, sockets, database, client, backlog, deaf>>

-----------------------------------------------------------------------------
(* The clients.                                                            *)

Connect(c) ==
  /\ client[c] = "off"
  /\ IF Listening
     THEN client' = [client EXCEPT ![c] = "prompt"] /\ backlog' = backlog \cup {c}
     ELSE client' = [client EXCEPT ![c] = "gone"] /\ UNCHANGED backlog
  /\ UNCHANGED <<parent, newest, accepted, child, sockets, database, unread, answers, deaf,
                 stalled>>

\* A command: sent if the physical layer's thread is there and the connection open.
Command(c) ==
  /\ client[c] = "prompt"
  /\ client' = [client EXCEPT ![c] = "waiting"]
  /\ unread' = IF c \notin deaf /\ StillOpen(c) THEN unread \cup {c} ELSE unread
  /\ UNCHANGED <<parent, newest, accepted, child, sockets, database, backlog, answers, deaf,
                 stalled>>

\* quit, the end of the input, or a signal at any time.
ClientEnds(c) ==
  /\ client[c] \in {"prompt", "waiting"}
  /\ client' = [client EXCEPT ![c] = "gone"]
  /\ UNCHANGED <<parent, newest, accepted, child, sockets, database, backlog, unread, answers,
                 deaf, stalled>>

\* The connection has ended: the thread ends and nobody else hears of it, or the
\* process does (recv returned -1, or SIGPIPE).
ConnectionEnds(c) ==
  /\ client[c] \in {"prompt", "waiting"} /\ c \notin deaf
  /\ ~ StillOpen(c)
  /\ \/ deaf' = deaf \cup {c} /\ UNCHANGED client
     \/ client' = [client EXCEPT ![c] = "gone"] /\ UNCHANGED deaf
  /\ UNCHANGED <<parent, newest, accepted, child, sockets, database, backlog, unread, answers,
                 stalled>>

ParentStep == Accept \/ Fork

ChildStep(c) == Start(c) \/ Serve(c) \/ Answer(c) \/ Fault(c) \/ ClientHasGone(c)

ClientStep(c) == Connect(c) \/ Command(c) \/ ClientEnds(c) \/ ConnectionEnds(c)

LayerStep(c) == Deliver(c) \/ LoseFrame(c)

Next == ParentStep \/ \E c \in Conn : ChildStep(c) \/ LayerStep(c) \/ ClientStep(c)

Spec == Init /\ [][Next]_vars

\* The operating system runs the processes of the server.  Which of the waiting
\* connections accept takes is its choice: none waits for ever (a queue).
FairSpec ==
  /\ Spec
  /\ WF_vars(ParentStep)
  /\ \A c \in Conn : /\ SF_vars(Accept /\ newest' = c)
                     /\ WF_vars(ChildStep(c))
                     /\ WF_vars(Deliver(c))

-----------------------------------------------------------------------------
\* Counted over the server's whole life, fewer clients than the parent may have
\* descriptors ever get to a process with a database, however many have left: the
\* parent closes no socket, and the last one's process has none left for MySQL.
\* (AcceptConn, connectToDB.)
Served == {c \in Conn : child[c] \in {"serving", "busy", "left", "crashed"}}

LifetimeBound == Cardinality(Served) < MaxFds

\* When a client's process ends, the client's connection does not, as long as the
\* parent or a process forked later is there: the client cannot tell.
EndUnseen ==
  \A c \in Conn :
    child[c] # "none" /\ (parent # "exited" \/ \E d \in Conn : Alive(d) /\ newest = d)
      => Held(c)

\* A client waits only for so long as its process needs, or else it was never
\* forked a process, or the process ended, or the parent did, or a frame of the
\* request or of the answer was thrown away.
WaitHasCause ==
  \A c \in Conn :
    client[c] = "waiting" ~>
      \/ client[c] # "waiting"
      \/ child[c] \in {"exited", "crashed"}
      \/ child[c] = "none" /\ parent = "accept" /\ c \in accepted
      \/ child[c] = "none" /\ parent = "exited"
      \/ c \in deaf
      \/ c \in stalled
=============================================================================
