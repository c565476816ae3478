----------------------------- MODULE ProcessesProofs -----------------------------
(***************************************************************************)
(* Processes' invariants, for any number of connections and any limits.    *)
(*                                                                         *)
(* Why the server serves so few clients in its life: a process's sockets   *)
(* are those of every connection accepted before it was forked, so that    *)
(* the processes' sets of sockets are nested, and among the processes that *)
(* got as far as a MySQL connection there is one whose set has all their   *)
(* connections in it.  That set had room for one more descriptor.          *)
(***************************************************************************)
EXTENDS Processes, TLAPS, FiniteSetTheorems

\* A connection is on its way, accepted, or neither; the last is so before connect.
OnTheWay ==
  /\ \A c \in Conn : client[c] = "off" => c \notin backlog /\ c \notin accepted
  /\ backlog \cap accepted = {}

\* Between accept and fork only the parent has the new socket.
Forking ==
  parent = "fork" =>
    /\ newest \in accepted /\ child[newest] = "none"
    /\ \A d \in Forked : newest \notin sockets[d]

Inherited == \A c \in Forked : c \in sockets[c] /\ sockets[c] \subseteq accepted

Nested ==
  \A c, d \in Forked :
    /\ c \in sockets[d] \/ d \in sockets[c]
    /\ c \in sockets[d] => sockets[c] \subseteq sockets[d]

\* The process forked last has the socket of every accepted connection.
Latest == newest \in Forked => sockets[newest] = accepted

Room == \A c \in Served : Cardinality(sockets[c]) < MaxFds

Largest == Served = {} \/ \E m \in Served : Served \subseteq sockets[m]

IInv == TypeOK /\ OnTheWay /\ Forking /\ Inherited /\ Nested /\ Latest /\ Room /\ Largest

-----------------------------------------------------------------------------
LEMMA InitIInv == Init => IInv
BY ConnAssumption DEF Init, IInv, TypeOK, OnTheWay, Forking, Inherited, Nested, Latest, Room,
   Largest, Forked, Served, ChildPlaces, Alive

LEMMA TypingStep == TypeOK /\ [Next]_vars => TypeOK'
<1> SUFFICES ASSUME TypeOK, [Next]_vars PROVE TypeOK'
  OBVIOUS
<1> USE DEF TypeOK, ChildPlaces, Alive
<1>1. CASE Accept
  BY <1>1 DEF Accept
<1>2. CASE Fork
  BY <1>2, ConnAssumption DEF Fork
<1>3. ASSUME NEW c \in Conn, ChildStep(c) PROVE TypeOK'
  <2>1. CASE Start(c)
    BY <2>1 DEF Start, End
  <2>2. CASE Serve(c)
    BY <2>2 DEF Serve
  <2>3. CASE Answer(c)
    BY <2>3 DEF Answer
  <2>4. CASE Fault(c)
    BY <2>4 DEF Fault, End
  <2>5. CASE ClientHasGone(c)
    BY <2>5 DEF ClientHasGone, End
  <2> QED BY <1>3, <2>1, <2>2, <2>3, <2>4, <2>5 DEF ChildStep
<1>4. ASSUME NEW c \in Conn, LayerStep(c) \/ ClientStep(c) PROVE TypeOK'
  BY <1>4 DEF LayerStep, Deliver, LoseFrame, ClientStep, Connect, Command, ClientEnds,
              ConnectionEnds
<1>5. CASE UNCHANGED vars
  BY <1>5 DEF vars
<1> QED BY <1>1, <1>2, <1>3, <1>4, <1>5 DEF Next, ParentStep

\* What every step but accept and fork leaves alone.
LEMMA Steady ==
  ASSUME NEW c \in Conn, IInv, ChildStep(c) \/ LayerStep(c) \/ ClientStep(c)
  PROVE  UNCHANGED <<parent, newest, accepted, sockets, Forked>>
<1> USE DEF IInv, TypeOK, Forked
<1>1. CASE LayerStep(c) \/ ClientStep(c)
  BY <1>1 DEF LayerStep, Deliver, LoseFrame, ClientStep, Connect, Command, ClientEnds,
              ConnectionEnds
<1>2. CASE ChildStep(c)
  <2>1. UNCHANGED <<parent, newest, accepted, sockets>> /\ child[c] # "none"
    BY <1>2 DEF ChildStep, Start, Serve, Answer, Fault, ClientHasGone
  <2>2. PICK how \in ChildPlaces \ {"none"} : child' = [child EXCEPT ![c] = how]
    BY <1>2 DEF ChildStep, Start, Serve, Answer, Fault, ClientHasGone, End, ChildPlaces
  <2> QED BY <2>1, <2>2
<1> QED BY <1>1, <1>2

\* Only the start of a process adds to Served, and it checks that there is room.
LEMMA ServedGrows ==
  ASSUME NEW c \in Conn, IInv, ChildStep(c) \/ LayerStep(c) \/ ClientStep(c)
  PROVE  \/ Served' = Served
         \/ Served' = Served \cup {c} /\ c \in Forked /\ Cardinality(sockets[c]) < MaxFds
<1> USE DEF IInv, TypeOK, Served
<1>1. CASE LayerStep(c) \/ ClientStep(c)
  BY <1>1 DEF LayerStep, Deliver, LoseFrame, ClientStep, Connect, Command, ClientEnds,
              ConnectionEnds
<1>2. CASE Start(c)
  BY <1>2 DEF Start, End, CanConnect, Forked
<1>3. CASE Serve(c) \/ Answer(c) \/ Fault(c) \/ ClientHasGone(c)
  BY <1>3 DEF Serve, Answer, Fault, ClientHasGone, End
<1> QED BY <1>1, <1>2, <1>3 DEF ChildStep

LEMMA OtherStep ==
  ASSUME NEW c \in Conn, IInv, ChildStep(c) \/ LayerStep(c) \/ ClientStep(c)
  PROVE  (Forking /\ Inherited /\ Nested /\ Latest /\ Room /\ Largest)'
<1>1. UNCHANGED <<parent, newest, accepted, sockets, Forked>>
  BY Steady
<1>2. Inherited' /\ Nested' /\ Latest'
  BY <1>1 DEF IInv, Inherited, Nested, Latest
<1>3. Forking'
  <2>1. ASSUME parent = "fork" PROVE child'[newest] = "none"
    BY <1>1, <2>1 DEF IInv, Forking, Forked, TypeOK
  <2> QED BY <1>1, <2>1 DEF IInv, Forking
<1>4. Room' /\ Largest'
  <2>1. CASE Served' = Served
    BY <1>1, <2>1 DEF IInv, Room, Largest
  <2>2. CASE Served' = Served \cup {c} /\ c \in Forked /\ Cardinality(sockets[c]) < MaxFds
    <3>1. Room'
      BY <1>1, <2>2 DEF IInv, Room
    <3>2. Largest'
      <4>1. CASE Served = {}
        BY <1>1, <2>2, <4>1 DEF IInv, Inherited, Largest
      <4>2. ASSUME NEW m \in Served, Served \subseteq sockets[m] PROVE Largest'
        <5>1. m \in Forked
          BY DEF Served, Forked
        <5>2. CASE c \in sockets[m]
          BY <1>1, <2>2, <4>2, <5>2 DEF Largest
        <5>3. CASE m \in sockets[c]
          <6>1. sockets[m] \subseteq sockets[c] /\ c \in sockets[c]
            BY <2>2, <5>1, <5>3 DEF IInv, Nested, Inherited
          <6> QED BY <1>1, <2>2, <4>2, <6>1 DEF Largest
        <5> QED BY <2>2, <5>1, <5>2, <5>3 DEF IInv, Nested
      <4> QED BY <4>1, <4>2 DEF IInv, Largest
    <3> QED BY <3>1, <3>2
  <2> QED BY <2>1, <2>2, ServedGrows
<1> QED BY <1>2, <1>3, <1>4

LEMMA OnTheWayStep == IInv /\ [Next]_vars => OnTheWay'
<1> SUFFICES ASSUME IInv, [Next]_vars PROVE OnTheWay'
  OBVIOUS
<1> USE DEF IInv, TypeOK, OnTheWay
<1>1. CASE Accept
  BY <1>1 DEF Accept
<1>2. CASE Fork
  BY <1>2 DEF Fork
<1>3. ASSUME NEW c \in Conn, ChildStep(c) PROVE OnTheWay'
  BY <1>3 DEF ChildStep, Start, Serve, Answer, Fault, ClientHasGone
<1>4. ASSUME NEW c \in Conn, LayerStep(c) \/ ClientStep(c) PROVE OnTheWay'
  BY <1>4 DEF LayerStep, Deliver, LoseFrame, ClientStep, Connect, Command, ClientEnds,
              ConnectionEnds
<1>5. CASE UNCHANGED vars
  BY <1>5 DEF vars
<1> QED BY <1>1, <1>2, <1>3, <1>4, <1>5 DEF Next, ParentStep

\* The accepted connection is new: no process has its socket.
LEMMA AcceptStep ==
  IInv /\ Accept => (Forking /\ Inherited /\ Nested /\ Latest /\ Room /\ Largest)'
<1> SUFFICES ASSUME IInv, Accept PROVE (Forking /\ Inherited /\ Nested /\ Latest /\ Room /\ Largest)'
  OBVIOUS
<1>1. UNCHANGED <<child, sockets, Forked, Served>>
  BY DEF Accept, Forked, Served
<1>2. Nested' /\ Room' /\ Largest'
  BY <1>1 DEF IInv, Nested, Room, Largest
<1>3. CASE parent' = "exited" /\ UNCHANGED <<newest, accepted>>
  BY <1>1, <1>2, <1>3 DEF IInv, Forking, Inherited, Latest
<1>4. CASE parent' = "fork" /\ newest' \in backlog /\ accepted' = accepted \cup {newest'}
  <2>1. newest' \in Conn /\ newest' \notin accepted
    BY <1>4 DEF IInv, TypeOK, OnTheWay
  <2>2. newest' \notin Forked /\ \A d \in Forked : newest' \notin sockets[d]
    BY <2>1 DEF IInv, Inherited
  <2>3. Forking' /\ Latest'
    BY <1>1, <1>4, <2>1, <2>2 DEF Forking, Latest, Forked
  <2>4. Inherited'
    BY <1>1, <1>4 DEF IInv, Inherited
  <2> QED BY <1>2, <2>3, <2>4
<1> QED BY <1>3, <1>4 DEF Accept

\* The new process's sockets are all that were accepted.
LEMMA ForkStep ==
  IInv /\ Fork => (Forking /\ Inherited /\ Nested /\ Latest /\ Room /\ Largest)'
<1> SUFFICES ASSUME IInv, Fork PROVE (Forking /\ Inherited /\ Nested /\ Latest /\ Room /\ Largest)'
  OBVIOUS
<1>1. parent = "fork" /\ parent' = "accept" /\ UNCHANGED <<newest, accepted>>
  BY DEF Fork
<1>2. newest \in accepted /\ newest \in Conn /\ newest \notin Forked
      /\ \A d \in Forked : newest \notin sockets[d]
  BY <1>1 DEF IInv, Forking, TypeOK, Forked
<1>3. CASE UNCHANGED <<child, sockets>>
  <2>1. UNCHANGED <<Forked, Served>>
    BY <1>3 DEF Forked, Served
  <2> QED BY <1>1, <1>3, <2>1 DEF IInv, Forking, Inherited, Nested, Latest, Room, Largest
<1>4. CASE /\ child'   = [child   EXCEPT ![newest] = "starting"]
           /\ sockets' = [sockets EXCEPT ![newest] = accepted]
  <2>1. Forked' = Forked \cup {newest} /\ Served' = Served
    BY <1>2, <1>4 DEF Forked, Served, IInv, TypeOK
  <2>2. sockets'[newest] = accepted /\ \A d \in Forked : sockets'[d] = sockets[d]
    BY <1>2, <1>4 DEF Forked, IInv, TypeOK
  <2>3. \A d \in Forked : d \in accepted /\ sockets[d] \subseteq accepted
    BY DEF IInv, Inherited
  <2>4. Forking' /\ Inherited' /\ Latest'
    BY <1>1, <1>2, <2>1, <2>2, <2>3 DEF IInv, Forking, Inherited, Latest
  <2>5. Nested'
    BY <1>2, <2>1, <2>2, <2>3 DEF IInv, Nested
  <2>6. \A d \in Served : sockets'[d] = sockets[d]
    BY <2>2 DEF Served, Forked
  <2>7. Room' /\ Largest'
    BY <2>1, <2>6 DEF IInv, Room, Largest
  <2> QED BY <2>4, <2>5, <2>7
<1> QED BY <1>3, <1>4 DEF Fork

LEMMA NextIInv == IInv /\ [Next]_vars => IInv'
<1> SUFFICES ASSUME IInv, [Next]_vars PROVE IInv'
  OBVIOUS
<1>1. TypeOK' /\ OnTheWay'
  BY TypingStep, OnTheWayStep DEF IInv
<1>2. CASE UNCHANGED vars
  BY <1>1, <1>2 DEF vars, IInv, Forking, Inherited, Nested, Latest, Room, Largest, Forked, Served
<1>3. CASE Next
  BY <1>1, <1>3, AcceptStep, ForkStep, OtherStep DEF Next, ParentStep, IInv
<1> QED BY <1>2, <1>3

THEOREM Inductive == Spec => []IInv
BY InitIInv, NextIInv, PTL DEF Spec

-----------------------------------------------------------------------------
\* Every variable keeps its type, and MySQL connections are those of processes that
\* live: the operating system closes what a process leaves behind.
THEOREM TypeCorrect == Spec => []TypeOK
BY Inductive, PTL DEF IInv

LEMMA BoundFollows == IInv => LifetimeBound
<1> SUFFICES ASSUME IInv PROVE Cardinality(Served) < MaxFds
  BY DEF LifetimeBound
<1>1. CASE Served = {}
  BY <1>1, FS_EmptySet, FdsAssumption
<1>2. CASE Served # {}
  <2>1. PICK m \in Served : Served \subseteq sockets[m]
    BY <1>2 DEF IInv, Largest
  <2>2. IsFiniteSet(sockets[m])
    BY <2>1, FS_Subset, ConnAssumption DEF IInv, TypeOK, Served
  <2>3. Cardinality(Served) <= Cardinality(sockets[m]) /\ IsFiniteSet(Served)
    BY <2>1, <2>2, FS_Subset
  <2>4. Cardinality(Served) \in Nat /\ Cardinality(sockets[m]) \in Nat
    BY <2>2, <2>3, FS_CardinalityType
  <2> QED BY <2>1, <2>3, <2>4, FdsAssumption DEF IInv, Room
<1> QED BY <1>1, <1>2

\* However long the server runs and whoever has left, fewer clients than a process
\* may have descriptors ever got to a process that serves them (AcceptConn).
THEOREM FewEverServed == Spec => []LifetimeBound
BY Inductive, BoundFollows, PTL

LEMMA UnseenFollows == IInv => EndUnseen
<1> SUFFICES ASSUME IInv, NEW c \in Conn, child[c] # "none",
                    parent # "exited" \/ \E d \in Conn : Alive(d) /\ newest = d
             PROVE  Held(c)
  BY DEF EndUnseen
<1>1. c \in accepted
  BY DEF IInv, Inherited, Forked
<1>2. CASE parent # "exited"
  BY <1>1, <1>2 DEF Held
<1>3. ASSUME NEW d \in Conn, Alive(d), newest = d PROVE Held(c)
  <2>1. sockets[d] = accepted
    BY <1>3 DEF IInv, Latest, Forked, Alive
  <2> QED BY <1>1, <1>3, <2>1 DEF Held
<1> QED BY <1>2, <1>3

\* The end of a process does not end its client's connection while the parent, or
\* the process forked last, still has the socket.
THEOREM EndsUnseen == Spec => []EndUnseen
BY Inductive, UnseenFollows, PTL
=============================================================================
