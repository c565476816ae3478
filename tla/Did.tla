--------------------------------- MODULE Did ---------------------------------
(***************************************************************************)
(* The data that travels through the stack: messages cut into packets      *)
(* (NetworkLayer.cpp), packets cut into one or two frames (DataLink.cpp),  *)
(* and the way back.  Contents are abstract: a packet is known by the      *)
(* message it belongs to and its number in it, and a serialized packet is  *)
(* the sequence of the one or two chunks that the frames carry.            *)
(***************************************************************************)
EXTENDS Integers, Sequences

CONSTANTS
  Client, Server,   \* the two ends of one TCP connection
  MaxSeq            \* MAX_SEQ: sequence numbers run over 0 .. MaxSeq

ASSUME NodeAssumption == Client # Server
ASSUME SeqAssumption  == MaxSeq \in Nat \ {0}

Node == {Client, Server}

Peer(n) == IF n = Client THEN Server ELSE Client

DATA == "DATA"
ACK  == "ACK"

\* The macro inc(k): count up to MAX_SEQ, then start again from 0.
Inc(k) == IF k < MaxSeq THEN k + 1 ELSE 0

SeqNo == 0 .. MaxSeq

-----------------------------------------------------------------------------
(* Packets.  `frames' stands for payloadLength: 1 when the serialized      *)
(* packet fits MAX_FRAME bytes and 2 otherwise (a packet of MAX_PACKET     *)
(* bytes never needs more).  msg = 0 marks bytes that are no packet.       *)

Packet == [msg : Nat, seq : SeqNo, end : BOOLEAN, frames : {1, 2}]

Garbled(e) == [msg |-> 0, seq |-> 0, end |-> e, frames |-> 1]

\* A message's shape is the frame count of each of its packets.  Packets that
\* are not the last hold MAX_PACKET bytes, so they take two frames each.
IsShape(sh) == /\ sh \in Seq({1, 2})
               /\ sh # <<>>
               /\ \A i \in 1 .. Len(sh) - 1 : sh[i] = 2

\* FromApplicationLayer: whole packets first, the leftover last, `end' on the
\* last one only.
Packetize(m, sh) ==
  [i \in 1 .. Len(sh) |->
     [msg |-> m, seq |-> (i - 1) % (MaxSeq + 1), end |-> i = Len(sh), frames |-> sh[i]]]

(* Assemble copies buildBuffer's front and pops it while i < size(), with  *)
(* the size read again each time round: the loop ends at the first i that  *)
(* is no longer below what is left in the queue.                           *)
Copied(len) == CHOOSE i \in 0 .. len :
                 /\ i >= len - i
                 /\ \A j \in 0 .. i - 1 : j < len - j

\* The places never copied keep what malloc returned.
Assemble(buf) ==
  [i \in 1 .. Len(buf) |-> IF i <= Copied(Len(buf)) THEN buf[i] ELSE Garbled(FALSE)]

-----------------------------------------------------------------------------
(* Frames.  An ack has payloadLength 0.                                    *)

Chunk == [pkt : Packet, part : {1, 2}]

DataFrame  == [type : {DATA}, seq : SeqNo, end : BOOLEAN, payload : Chunk]
AckFrame   == [type : {ACK},  seq : SeqNo, end : {TRUE}]
Frame      == DataFrame \cup AckFrame

\* SendAck's frame.
Ack(k) == [type |-> ACK, seq |-> k, end |-> TRUE]

\* MakeFrames: one frame, or two with consecutive numbers and `end' on the
\* second.  k is the value of nextSend.
MakeFrames(p, k) ==
  [i \in 1 .. p.frames |->
     [type    |-> DATA,
      seq     |-> IF i = 1 THEN k ELSE Inc(k),
      end     |-> i = p.frames,
      payload |-> [pkt |-> p, part |-> i]]]

\* Mutant of AfterFrames: the counter does not start again at MAX_SEQ.
AfterFramesNoWrap(p, k) == k + p.frames

AfterFrames(p, k) == IF p.frames = 1 THEN Inc(k) ELSE Inc(Inc(k))

\* What bytes that were never sent as a frame can be taken for.  Nobody reads the
\* number of an ack.  What is taken for a payload belongs to no packet.
MadeUp ==
  {Ack(0)} \cup [type : {DATA}, seq : SeqNo, end : BOOLEAN,
                 payload : {[pkt |-> Garbled(FALSE), part |-> 2]}]

\* Packet::Unserialize on the one or two chunks put together by ToNetworkLayer:
\* what it can return.  Without the packet's own chunks the contents are
\* garbage, and so is the end flag unless the first chunk brought the header; but
\* behind a made-up chunk without a byte the other one is read as if it were alone.
Complete(c) ==
  /\ c[1].part = 1
  /\ c[1].pkt.frames = 2 => Len(c) = 2 /\ c[2] = [pkt |-> c[1].pkt, part |-> 2]

Unserialize(c) ==
  IF Complete(c)
  THEN {c[1].pkt}
  ELSE {Garbled(e) : e \in IF c[1].part = 1 THEN {c[1].pkt.end} ELSE BOOLEAN}
         \cup {p \in {c[Len(c)].pkt} : c[1].pkt.msg = 0 /\ Complete(<<c[Len(c)]>>)}

\* std::queue's pop behind an empty() test.
PopFront(q) == IF q = <<>> THEN <<>> ELSE Tail(q)
=============================================================================
