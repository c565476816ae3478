----------------------------- MODULE PacketChannel -----------------------------
(***************************************************************************)
(* What the network layer counts on: a channel in each direction that      *)
(* gives out packets in the order they were put in, each of them once and  *)
(* none before its predecessors.  It promises nothing about when, and the  *)
(* channel may break, once and for all: then it promises nothing at all.   *)
(***************************************************************************)
EXTENDS Sequences

CONSTANTS Node, Packet

VARIABLES
  chan,     \* chan[n]: packets n has put in and its peer has not taken out
  broken    \* has the channel broken?

vars == <<chan, broken>>

Init == chan = [n \in Node |-> <<>>] /\ broken = FALSE

Put(n) ==
  /\ ~ broken
  /\ \E p \in Packet : chan' = [chan EXCEPT ![n] = Append(@, p)]
  /\ UNCHANGED broken

Get(n) ==
  /\ ~ broken
  /\ chan[n] # <<>>
  /\ chan' = [chan EXCEPT ![n] = Tail(@)]
  /\ UNCHANGED broken

Break ==
  /\ ~ broken
  /\ broken' = TRUE
  /\ chan' = [n \in Node |-> <<>>]

Next == Break \/ \E n \in Node : Put(n) \/ Get(n)

Spec == Init /\ [][Next]_vars
=============================================================================
