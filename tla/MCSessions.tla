------------------------------ MODULE MCSessions ------------------------------
(* Small instances of Sessions for TLC. *)
EXTENDS Sessions, TLC

CONSTANTS
  s1, s2, p1, p2, p3, b1, b2, n1, lake, field, boss, clerk, w1, w2

OneBoss == boss :> w1

\* `lake' is a location too short for the list.
Lengths == lake :> 8 @@ [p \in Place \ {lake} |-> 9]

\* What is done to the tables public and admin, once signed in.
TableCommands ==
  {[op |-> "login", user |-> boss, pw |-> w1],
   [op |-> "createmissing"], [op |-> "removemissing", id |-> p1],
   [op |-> "createbody", id |-> b1, name |-> NoName, place |-> lake],
   [op |-> "createbody", id |-> b2, name |-> NoName, place |-> field],
   [op |-> "id", id |-> b1, name |-> n1],
   [op |-> "removebody", id |-> b1],
   [op |-> "query", name |-> n1], [op |-> "locations"],
   [op |-> "addphoto", id |-> p1], [op |-> "dlmissingphoto", id |-> p1]}

\* What is done to the accounts; and commands of each other way through db.cpp that
\* must be answered: one that fills a table, which may be full, and two that may
\* read what is not there.
AccountCommands ==
  {[op |-> "login", user |-> boss, pw |-> w1], [op |-> "login", user |-> clerk, pw |-> w1],
   [op |-> "adduser", user |-> clerk, pw |-> w1], [op |-> "password", old |-> w1, pw |-> w2],
   [op |-> "createbody", id |-> b1, name |-> NoName, place |-> lake],
   [op |-> "locations"], [op |-> "dlmissingphoto", id |-> p1]}
===============================================================================
