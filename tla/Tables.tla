--------------------------------- MODULE Tables ---------------------------------
(***************************************************************************)
(* What the server promises of the database: a process takes a command,    *)
(* and later the command takes effect, in one step, or is dropped.  It     *)
(* never takes effect twice, in part, or without having been taken.        *)
(* Sessions, where a command is several queries that other processes'      *)
(* queries come between, implements this.                                  *)
(*                                                                         *)
(* Two promises of the code's comments are weaker here, because it does    *)
(* not keep them: a table has up to Most rows, more than the limit, and    *)
(* a password is replaced whatever it was at that moment.                  *)
(***************************************************************************)
EXTENDS Integers, FiniteSets

CONSTANTS
  Session,            \* the processes
  PublicID,           \* keys of public
  Most,               \* the rows public or admin can have
  FirstAccounts,      \* the table users at the start
  Command, NoCommand  \* a command is [r |-> a request, by |-> a name]

VARIABLES
  public, admin, accounts,   \* the tables, as in Sessions
  hand                       \* the command a process has taken and not settled

vars == <<public, admin, accounts, hand>>

Init ==
  /\ public = {} /\ DOMAIN admin = {} /\ accounts = FirstAccounts
  /\ hand = [s \in Session |-> NoCommand]

Take(s) ==
  /\ hand[s] = NoCommand
  /\ \E c \in Command : hand' = [hand EXCEPT ![s] = c]
  /\ UNCHANGED <<public, admin, accounts>>

\* s settles a command of this kind.
Settle(s, op) ==
  /\ hand[s] # NoCommand /\ hand[s].r.op = op
  /\ hand' = [hand EXCEPT ![s] = NoCommand]

\* The row k of t is now v.
Put(t, k, v) == [x \in DOMAIN t \cup {k} |-> IF x = k THEN v ELSE t[x]]

AddPerson(s) ==
  /\ Settle(s, "createmissing")
  /\ \E i \in PublicID \ public : public' = public \cup {i}
  /\ Cardinality(public') <= Most
  /\ UNCHANGED <<admin, accounts>>

RemovePerson(s) ==
  /\ Settle(s, "removemissing")
  /\ public' = public \ {hand[s].r.id}
  /\ UNCHANGED <<admin, accounts>>

AddBody(s) ==
  LET r == hand[s].r
  IN  /\ Settle(s, "createbody")
      /\ r.id \notin DOMAIN admin
      /\ admin' = Put(admin, r.id, [name |-> r.name, place |-> r.place])
      /\ Cardinality(DOMAIN admin') <= Most
      /\ UNCHANGED <<public, accounts>>

RemoveBody(s) ==
  /\ Settle(s, "removebody")
  /\ admin' = [b \in DOMAIN admin \ {hand[s].r.id} |-> admin[b]]
  /\ UNCHANGED <<public, accounts>>

Identify(s) ==
  LET r == hand[s].r
  IN  /\ Settle(s, "id")
      /\ r.id \in DOMAIN admin
      /\ admin' = Put(admin, r.id, [admin[r.id] EXCEPT !.name = r.name])
      /\ UNCHANGED <<public, accounts>>

AddUser(s) ==
  LET r == hand[s].r
  IN  /\ Settle(s, "adduser")
      /\ r.user \notin DOMAIN accounts
      /\ accounts' = Put(accounts, r.user, r.pw)
      /\ UNCHANGED <<public, admin>>

\* The password of whoever gave the command, under the name it was given.
ReplacePassword(s) ==
  /\ Settle(s, "password")
  /\ hand[s].by \in DOMAIN accounts
  /\ accounts' = Put(accounts, hand[s].by, hand[s].r.pw)
  /\ UNCHANGED <<public, admin>>

\* A command that only reads, or was refused, or lost.
Drop(s) ==
  /\ hand[s] # NoCommand
  /\ hand' = [hand EXCEPT ![s] = NoCommand]
  /\ UNCHANGED <<public, admin, accounts>>

Next ==
  \E s \in Session :
    \/ Take(s) \/ Drop(s)
    \/ AddPerson(s) \/ RemovePerson(s) \/ AddBody(s) \/ RemoveBody(s) \/ Identify(s)
    \/ AddUser(s) \/ ReplacePassword(s)

Spec == Init /\ [][Next]_vars
=============================================================================
