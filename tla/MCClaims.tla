-------------------------------- MODULE MCClaims --------------------------------
(***************************************************************************)
(* What comments and messages in the source say of the stack, where the    *)
(* code does something else.  Each is checked by a run of its own, which   *)
(* TLC ends with a counterexample.                                         *)
(***************************************************************************)
EXTENDS MCStack

\* DataLink.cpp:56, "uses sliding window of 1, retransmissions and acks": a
\* timeout sends the frame in the window again, unless it is acknowledged first.
\* ToPhysicalLayer refuses the frame because it is in the window.
TimeoutRetransmits ==
  \A n \in Node :
    (frmTimeout[n] /\ window[n] # <<>>) ~> (window[n] = <<>> \/ dlPC[n] = "pushFrame")

\* NetworkLayer.cpp:118-120, FromDataLinkLayer's "get from shared buffer,
\* reconstruct": the message handed up is the message sent.  Assemble stops half
\* way through the packets.
MessageReconstructed ==
  \A n \in Node : \A k \in 1 .. Len(received[n]) : received[n][k] = sent[Peer(n)][k]
=============================================================================
