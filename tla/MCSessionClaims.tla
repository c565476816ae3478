---------------------------- MODULE MCSessionClaims ----------------------------
(***************************************************************************)
(* What comments in db.cpp say of the tables, and the code does not do.    *)
(* Each is checked by a run of its own, which TLC ends with a              *)
(* counterexample.                                                         *)
(***************************************************************************)
EXTENDS MCSessions

CONSTANT w3

TwoNewPasswords ==
  {[op |-> "login", user |-> boss, pw |-> w1],
   [op |-> "password", old |-> w1, pw |-> w2], [op |-> "password", old |-> w1, pw |-> w3]}

\* db.cpp:304, "if there's room (<= 100 entries)": a table never has more rows
\* than the limit.  Two processes count before either inserts.
RowLimit == Cardinality(public) <= Limit /\ Cardinality(DOMAIN admin) <= Limit

\* db.cpp:509, "first make sure that the user has provided the correct old
\* password": the password that changePassword replaces is the one that was
\* given.  Another process can change it between the check and the UPDATE.
OldPasswordReplaced ==
  [][\A s \in Session :
       phase[s] = "update" /\ accounts' # accounts /\ did'[s] /\ phase'[s] = "idle"
         => accounts[u[s]] = request[s].old]_vars
===============================================================================
