------------------------------ MODULE StackWindow ------------------------------
(***************************************************************************)
(* Types, what the data link thread may rely on about its own queues and   *)
(* timer, and that Go-Back-1 is stop-and-wait: the frame in a node's       *)
(* window, or its ack, is in at most one place, until a remnant is taken   *)
(* for a frame.  The two unguarded looks at a queue rest on that.  For     *)
(* every value of the constants.                                           *)
(***************************************************************************)
EXTENDS Stack, SequenceTheorems, TLAPS

\* What a place in the code guarantees before a queue is read: ToNetworkLayer
\* is only called with a frame in reconstructFrames, ToPhysicalLayer with one in
\* ready, ToDataLinkLayer with a packet.
Pending ==
  \A n \in Node :
    /\ dlPC[n] \in {"up", "deliver"} => reconstructFrames[n] # <<>>
    /\ dlPC[n] = "pushFrame" => ready[n] # <<>>
    /\ appPC[n] = "down" => outgoing[n] # <<>>

TypeInv == TypeOK /\ Pending

-----------------------------------------------------------------------------
(* The operators of Did.                                                   *)

LEMMA PeerInNode == \A n \in Node : Peer(n) \in Node /\ Peer(Peer(n)) = n /\ Peer(n) # n
BY NodeAssumption DEF Node, Peer

LEMMA IncInSeqNo == \A k \in SeqNo : Inc(k) \in SeqNo
BY SeqAssumption DEF Inc, SeqNo

LEMMA GarbledInPacket == \A e \in BOOLEAN : Garbled(e) \in Packet
BY SeqAssumption DEF Garbled, Packet, SeqNo

LEMMA AckInFrame == \A k \in SeqNo : Ack(k) \in Frame
BY DEF Ack, Frame, AckFrame

LEMMA DataFrameFacts ==
  \A f \in Frame : f.type = DATA => f \in DataFrame
BY DEF Frame, AckFrame, DataFrame, ACK, DATA

LEMMA FunctionIsSeq ==
  ASSUME NEW S, NEW k \in Nat, NEW f \in [1 .. k -> S]
  PROVE  f \in Seq(S) /\ Len(f) = k /\ (k # 0 => f # <<>>)
<1>1. f \in Seq(S)
  BY SeqDef
<1>2. DOMAIN f = 1 .. k
  OBVIOUS
<1> QED
  BY <1>1, <1>2, LenProperties, EmptySeq

LEMMA LenCases ==
  ASSUME NEW S, NEW q \in Seq(S)
  PROVE  q = <<>> \/ Len(q) = 1 \/ Len(q) > 1
<1>1. \A k \in Nat : k = 0 \/ k = 1 \/ k > 1
  OBVIOUS
<1>2. q # <<>> => Len(q) \in Nat /\ Len(q) # 0
  BY EmptySeq, Zenon
<1> QED
  BY <1>1, <1>2, Zenon

LEMMA MakeFramesType ==
  ASSUME NEW p \in Packet, NEW k \in SeqNo
  PROVE  /\ MakeFrames(p, k) \in Seq(DataFrame)
         /\ MakeFrames(p, k) # <<>>
         /\ AfterFrames(p, k) \in SeqNo
<1>1. p.frames \in {1, 2}
  BY DEF Packet
<1>2. \A i \in 1 .. p.frames :
        /\ (IF i = 1 THEN k ELSE Inc(k)) \in SeqNo
        /\ i \in {1, 2}
  BY <1>1, IncInSeqNo
<1>3. MakeFrames(p, k) \in [1 .. p.frames -> DataFrame]
  BY <1>2 DEF MakeFrames, DataFrame, Chunk
<1>4. AfterFrames(p, k) \in SeqNo
  BY IncInSeqNo DEF AfterFrames
<1> QED
  BY <1>1, <1>3, <1>4, FunctionIsSeq

LEMMA UnserializeType ==
  ASSUME NEW c \in Seq(Chunk), c # <<>>
  PROVE  Unserialize(c) \subseteq Packet
<1>1. c[1] \in Chunk
  BY EmptySeq, ElementOfSeq
<1>2. c[1].pkt \in Packet /\ c[1].pkt.end \in BOOLEAN
  BY <1>1 DEF Chunk, Packet
<1>3. c[Len(c)].pkt \in Packet
  <2>1. Len(c) \in 1 .. Len(c)
    BY EmptySeq, LenProperties
  <2>2. c[Len(c)] \in Chunk
    BY <2>1, ElementOfSeq
  <2> QED
    BY <2>2 DEF Chunk
<1> QED
  BY <1>2, <1>3, GarbledInPacket DEF Unserialize

LEMMA RebuildType ==
  ASSUME NEW q \in Seq(DataFrame), q # <<>>
  PROVE  Rebuild(q) \subseteq Packet
<1>1. \A i \in 1 .. Len(q) : q[i].payload \in Chunk
  <2>1. \A i \in 1 .. Len(q) : q[i] \in DataFrame
    BY ElementOfSeq
  <2> QED
    BY <2>1 DEF DataFrame
<1>2. Len(q) = 1 \/ Len(q) > 1
  BY LenCases, EmptySeq, Zenon
<1>3. q[1].payload \in Chunk /\ (Len(q) # 1 => q[2].payload \in Chunk)
  BY <1>1, <1>2
<1> DEFINE c == IF Len(q) = 1 THEN <<q[1].payload>> ELSE <<q[1].payload, q[2].payload>>
<1>4. c \in Seq(Chunk) /\ c # <<>>
  BY <1>3
<1> QED
  BY <1>4, UnserializeType DEF Rebuild

LEMMA PacketizeType ==
  ASSUME NEW m \in Nat, NEW sh, IsShape(sh)
  PROVE  Packetize(m, sh) \in Seq(Packet) /\ Packetize(m, sh) # <<>>
<1>1. Len(sh) \in Nat \ {0} /\ \A i \in 1 .. Len(sh) : sh[i] \in {1, 2}
  BY EmptySeq, ElementOfSeq DEF IsShape
<1>2. \A i \in 1 .. Len(sh) : (i - 1) % (MaxSeq + 1) \in SeqNo
  BY <1>1, SeqAssumption DEF SeqNo
<1>3. Packetize(m, sh) \in [1 .. Len(sh) -> Packet]
  BY <1>1, <1>2 DEF Packetize, Packet
<1> QED
  BY <1>1, <1>3, FunctionIsSeq

LEMMA AssembleType ==
  ASSUME NEW buf \in Seq(Packet)
  PROVE  Assemble(buf) \in Seq(Packet)
<1>1. Len(buf) \in Nat /\ \A i \in 1 .. Len(buf) : buf[i] \in Packet
  BY LenProperties, ElementOfSeq
<1>2. Garbled(FALSE) \in Packet
  BY GarbledInPacket
<1>3. Assemble(buf) \in [1 .. Len(buf) -> Packet]
  BY <1>1, <1>2 DEF Assemble
<1> QED
  BY <1>1, <1>3, FunctionIsSeq

-----------------------------------------------------------------------------
(* Each thread keeps TypeInv.                                              *)

LEMMA PopFrontAt ==
  ASSUME NEW S, NEW f \in [Node -> Seq(S)], NEW n \in Node
  PROVE  [f EXCEPT ![n] = PopFront(@)] \in [Node -> Seq(S)]
BY DEF PopFront

LEMMA TailAt ==
  ASSUME NEW S, NEW f \in [Node -> Seq(S)], NEW n \in Node, f[n] # <<>>
  PROVE  [f EXCEPT ![n] = Tail(@)] \in [Node -> Seq(S)]
OBVIOUS

\* The form in which a step's conjunct uses the two lemmas.
LEMMA TailStep ==
  ASSUME NEW S, NEW f \in [Node -> Seq(S)], NEW n \in Node, f[n] # <<>>,
         NEW g, g = [f EXCEPT ![n] = Tail(@)]
  PROVE  g \in [Node -> Seq(S)]
OBVIOUS

LEMMA AppendStep ==
  ASSUME NEW S, NEW f \in [Node -> Seq(S)], NEW n \in Node, NEW e \in S,
         NEW g, g = [f EXCEPT ![n] = Append(@, e)]
  PROVE  g \in [Node -> Seq(S)]
OBVIOUS

LEMMA TailNonEmpty ==
  ASSUME NEW S, NEW q \in Seq(S), Len(q) > 1
  PROVE  Tail(q) # <<>>
<1>1. Len(<<>>) = 0 /\ q # <<>>
  OBVIOUS
<1>2. Len(Tail(q)) = Len(q) - 1
  BY <1>1, HeadTailProperties
<1>3. Len(q) \in Nat
  BY LenProperties
<1>4. \A k \in Nat : k > 1 => k - 1 # 0
  OBVIOUS
<1> QED
  BY <1>1, <1>2, <1>3, <1>4, Zenon

LEMMA AppendAt ==
  ASSUME NEW S, NEW f \in [Node -> Seq(S)], NEW n \in Node, NEW e \in S
  PROVE  /\ [f EXCEPT ![n] = Append(@, e)] \in [Node -> Seq(S)]
         /\ [f EXCEPT ![n] = Append(@, e)][n] # <<>>
OBVIOUS

LEMMA ConcatAt ==
  ASSUME NEW S, NEW f \in [Node -> Seq(S)], NEW n \in Node, NEW t \in Seq(S)
  PROVE  [f EXCEPT ![n] = @ \o t] \in [Node -> Seq(S)]
BY ConcatProperties

LEMMA LoseType ==
  ASSUME lost \in [Node -> SUBSET Causes], NEW n \in Node, NEW c \in Causes, Lose(n, c)
  PROVE  lost' \in [Node -> SUBSET Causes]
BY DEF Lose

LEMMA DLTyping ==
  ASSUME TypeInv, NEW n \in Node, DLThread(n)
  PROVE  TypeInv'
<1>a. SharedTypeOK /\ DLTypeOK /\ PLTypeOK /\ NLTypeOK /\ Pending
  BY DEF TypeInv, TypeOK
<1>b. PLTypeOK' /\ NLTypeOK' /\ UNCHANGED <<appPC, outgoing, ended>>
  BY <1>a DEF DLThread, Running, PLTypeOK, NLTypeOK, plVars, nlVars
<1>c. SUFFICES SharedTypeOK' /\ DLTypeOK' /\ Pending'
  BY <1>b DEF TypeInv, TypeOK
<1>1. CASE TimeoutEvent(n) \/ ArrivalEvent(n) \/ PacketEvent(n)
  <2>1. SharedTypeOK'
    BY <1>1, <1>a DEF TimeoutEvent, ArrivalEvent, PacketEvent, GoTo, sharedVars, SharedTypeOK, sharedVars
  <2>2. DLTypeOK'
    BY <1>1, <1>a DEF TimeoutEvent, ArrivalEvent, PacketEvent, GoTo, sharedVars, DLTypeOK, DLPlaces
  <2>3. Pending'
    BY <1>1, <1>a, <1>b DEF TimeoutEvent, ArrivalEvent, PacketEvent, GoTo, sharedVars, Pending, DLTypeOK
  <2> QED
    BY <2>1, <2>2, <2>3
<1>2. CASE ReceiveAck(n)
  <2>1. /\ recvFrames' \in [Node -> Seq(Frame)]
       /\ frmArrive' \in [Node -> BOOLEAN]
    BY <1>2, <1>a, TailAt DEF ReceiveAck, FromPhysicalLayer, SharedTypeOK, DLTypeOK
  <2>2. /\ ready' \in [Node -> Seq(DataFrame)]
       /\ window' \in [Node -> Seq(DataFrame)]
    BY <1>2, <1>a, PopFrontAt DEF ReceiveAck, DLTypeOK
  <2>3. SharedTypeOK'
    BY <1>2, <1>a, <2>1, <2>2 DEF ReceiveAck, GoTo, SharedTypeOK, sharedVars
  <2>4. DLTypeOK'
    BY <1>2, <1>a, <2>1, <2>2 DEF ReceiveAck, GoTo, DLTypeOK, DLPlaces
  <2>5. Pending'
    BY <1>2, <1>a, <1>b, <2>1, <2>2 DEF ReceiveAck, GoTo, Pending, DLTypeOK
  <2> QED
    BY <2>3, <2>4, <2>5
<1>3. CASE PopSendFrames(n)
  <2>1. sendFrames' \in [Node -> Seq(Frame)]
    BY <1>3, <1>a, PopFrontAt DEF PopSendFrames, SharedTypeOK
  <2>2. SharedTypeOK'
    BY <1>3, <1>a, <2>1 DEF PopSendFrames, GoTo, SharedTypeOK, sharedVars
  <2>3. DLTypeOK'
    BY <1>3, <1>a, <2>1 DEF PopSendFrames, GoTo, DLTypeOK, DLPlaces
  <2>4. Pending'
    BY <1>3, <1>a, <1>b, <2>1 DEF PopSendFrames, GoTo, Pending, DLTypeOK
  <2> QED
    BY <2>2, <2>3, <2>4
<1>4. CASE PopRecvFrames(n)
  <2>1. recvFrames' \in [Node -> Seq(Frame)]
    BY <1>4, <1>a, PopFrontAt DEF PopRecvFrames, SharedTypeOK
  <2>2. lost' \in [Node -> SUBSET Causes]
    BY <1>4, <1>a, LoseType DEF PopRecvFrames, SharedTypeOK, Causes
  <2>3. SharedTypeOK'
    BY <1>4, <1>a, <2>1, <2>2 DEF PopRecvFrames, GoTo, SharedTypeOK, sharedVars
  <2>4. DLTypeOK'
    BY <1>4, <1>a, <2>1, <2>2 DEF PopRecvFrames, GoTo, DLTypeOK, DLPlaces
  <2>5. Pending'
    BY <1>4, <1>a, <1>b, <2>1, <2>2 DEF PopRecvFrames, GoTo, Pending, DLTypeOK
  <2> QED
    BY <2>3, <2>4, <2>5
<1>5. CASE ReceiveData(n)
  <2>1. /\ recvFrames' \in [Node -> Seq(Frame)]
       /\ frmArrive' \in [Node -> BOOLEAN]
    BY <1>5, <1>a, TailAt DEF ReceiveData, FromPhysicalLayer, SharedTypeOK, DLTypeOK
  <2>2. Head(recvFrames[n]) \in DataFrame
    BY <1>5, <1>a, DataFrameFacts DEF ReceiveData, FromPhysicalLayer, SharedTypeOK
  <2>3. /\ reconstructFrames' \in [Node -> Seq(DataFrame)]
       /\ reconstructFrames'[n] # <<>>
    BY <1>5, <1>a, <2>2, AppendAt DEF ReceiveData, DLTypeOK
  <2>4. \E place \in {"fetch", "up", "sendAck"} : dlPC' = [dlPC EXCEPT ![n] = place]
    BY <1>5, <1>a DEF ReceiveData, GoTo
  <2>5. \A m \in Node \ {n} : reconstructFrames'[m] = reconstructFrames[m]
    BY <1>5, <1>a DEF ReceiveData, DLTypeOK
  <2>6. SharedTypeOK'
    BY <1>5, <1>a, <2>1, <2>2, <2>3, <2>4, <2>5 DEF ReceiveData, SharedTypeOK, sharedVars
  <2>7. DLTypeOK'
    BY <1>5, <1>a, <2>1, <2>2, <2>3, <2>4, <2>5 DEF ReceiveData, DLTypeOK, DLPlaces
  <2>8. Pending'
    BY <1>5, <1>a, <1>b, <2>1, <2>2, <2>3, <2>4, <2>5 DEF ReceiveData, Pending, DLTypeOK
  <2> QED
    BY <2>6, <2>7, <2>8
<1>6. CASE CheckRecvPackets(n)
  <2>1. lost' \in [Node -> SUBSET Causes]
    BY <1>6, <1>a, LoseType DEF CheckRecvPackets, SharedTypeOK, Causes
  <2>2. \E place \in {"sendAck", "deliver"} :
          dlPC' = [dlPC EXCEPT ![n] = place] /\ reconstructFrames[n] # <<>>
    BY <1>6, <1>a DEF CheckRecvPackets, GoTo, Pending
  <2>3. SharedTypeOK'
    BY <1>6, <1>a, <2>1, <2>2 DEF CheckRecvPackets, SharedTypeOK, sharedVars
  <2>4. DLTypeOK'
    BY <1>6, <1>a, <2>1, <2>2 DEF CheckRecvPackets, DLTypeOK, DLPlaces
  <2>5. Pending'
    BY <1>6, <1>a, <1>b, <2>1, <2>2 DEF CheckRecvPackets, Pending, DLTypeOK
  <2> QED
    BY <2>3, <2>4, <2>5
<1>7. CASE DeliverPacket(n)
  <2>1. reconstructFrames[n] \in Seq(DataFrame) /\ reconstructFrames[n] # <<>>
    BY <1>7, <1>a DEF DeliverPacket, DLTypeOK, Pending
  <2>2. Rebuild(reconstructFrames[n]) \subseteq Packet
    BY <1>7, <1>a, <2>1, RebuildType
  <2>3. recvPackets' \in [Node -> Seq(Packet)]
    BY <1>7, <1>a, <2>2, AppendAt DEF DeliverPacket, SharedTypeOK
  <2>4. /\ reconstructFrames' \in [Node -> Seq(DataFrame)]
       /\ \A m \in Node \ {n} : reconstructFrames'[m] = reconstructFrames[m]
    BY <1>7, <1>a, <2>1 DEF DeliverPacket, DLTypeOK, PopFront
  <2>5. SharedTypeOK'
    BY <1>7, <1>a, <2>1, <2>2, <2>3, <2>4 DEF DeliverPacket, GoTo, SharedTypeOK, sharedVars
  <2>6. DLTypeOK'
    BY <1>7, <1>a, <2>1, <2>2, <2>3, <2>4 DEF DeliverPacket, GoTo, DLTypeOK, DLPlaces
  <2>7. Pending'
    BY <1>7, <1>a, <1>b, <2>1, <2>2, <2>3, <2>4 DEF DeliverPacket, GoTo, Pending, DLTypeOK
  <2> QED
    BY <2>5, <2>6, <2>7
<1>8. CASE AckRefused(n) \/ AckNotLocked(n)
  <2>1. lost' \in [Node -> SUBSET Causes]
    BY <1>8, <1>a, LoseType DEF AckRefused, AckNotLocked, SharedTypeOK, Causes
  <2>2. frameExpect[n] \in SeqNo /\ Inc(frameExpect[n]) \in SeqNo
    BY <1>8, <1>a, IncInSeqNo DEF DLTypeOK
  <2>3. frameExpect' \in [Node -> SeqNo]
    BY <1>8, <1>a, <2>2 DEF AckRefused, AckNotLocked, DLTypeOK
  <2>4. SharedTypeOK'
    BY <1>8, <1>a, <2>1, <2>2, <2>3 DEF AckRefused, AckNotLocked, GoTo, SharedTypeOK, sharedVars
  <2>5. DLTypeOK'
    BY <1>8, <1>a, <2>1, <2>2, <2>3 DEF AckRefused, AckNotLocked, GoTo, DLTypeOK, DLPlaces
  <2>6. Pending'
    BY <1>8, <1>a, <1>b, <2>1, <2>2, <2>3 DEF AckRefused, AckNotLocked, GoTo, Pending, DLTypeOK
  <2> QED
    BY <2>4, <2>5, <2>6
<1>9. CASE AckLocked(n)
  <2>1. SharedTypeOK'
    BY <1>9, <1>a DEF AckLocked, GoTo, SharedTypeOK, sharedVars
  <2>2. DLTypeOK'
    BY <1>9, <1>a DEF AckLocked, GoTo, DLTypeOK, DLPlaces
  <2>3. Pending'
    BY <1>9, <1>a, <1>b DEF AckLocked, GoTo, Pending, DLTypeOK
  <2> QED
    BY <2>1, <2>2, <2>3
<1>10. CASE PushAck(n)
  <2>1. /\ Inc(frameExpect[n]) \in SeqNo
       /\ Ack(frameExpect[n]) \in Frame
    BY <1>10, <1>a, IncInSeqNo, AckInFrame DEF DLTypeOK
  <2>2. sendFrames' \in [Node -> Seq(Frame)]
    BY <1>10, <1>a, <2>1, AppendAt DEF PushAck, SharedTypeOK
  <2>3. SharedTypeOK'
    BY <1>10, <1>a, <2>1, <2>2 DEF PushAck, GoTo, SharedTypeOK, sharedVars
  <2>4. DLTypeOK'
    BY <1>10, <1>a, <2>1, <2>2 DEF PushAck, GoTo, DLTypeOK, DLPlaces
  <2>5. Pending'
    BY <1>10, <1>a, <1>b, <2>1, <2>2 DEF PushAck, GoTo, Pending, DLTypeOK
  <2> QED
    BY <2>3, <2>4, <2>5
<1>11. CASE Fetch(n) /\ MayFetch(n) /\ sendPackets[n] # <<>>
  <2>1. /\ Head(sendPackets[n]) \in Packet
       /\ nextSend[n] \in SeqNo
    BY <1>11, <1>a DEF SharedTypeOK, DLTypeOK
  <2>2. /\ MakeFrames(Head(sendPackets[n]), nextSend[n]) \in Seq(DataFrame)
       /\ AfterFrames(Head(sendPackets[n]), nextSend[n]) \in SeqNo
    BY <1>11, <1>a, <2>1, MakeFramesType
  <2>3. sendPackets' \in [Node -> Seq(Packet)]
    <3>1. sendPackets[n] # <<>> /\ sendPackets' = [sendPackets EXCEPT ![n] = Tail(@)]
      BY <1>11 DEF Fetch
    <3> QED
      BY <1>a, <3>1, TailStep DEF SharedTypeOK
  <2>4. ready' = [ready EXCEPT ![n] = @ \o MakeFrames(Head(sendPackets[n]), nextSend[n])]
    BY <1>11, <1>a DEF Fetch
  <2>5. ready' \in [Node -> Seq(DataFrame)]
    BY <1>11, <1>a, <2>2, <2>4, ConcatAt DEF DLTypeOK
  <2>6. nextSend' \in [Node -> SeqNo] /\ pktSend' \in [Node -> BOOLEAN]
    BY <1>11, <1>a, <2>2 DEF Fetch, DLTypeOK
  <2>7. \A m \in Node \ {n} : ready'[m] = ready[m]
    BY <1>11, <1>a DEF Fetch, DLTypeOK
  <2>8. SharedTypeOK'
    BY <1>11, <1>a, <2>1, <2>2, <2>3, <2>4, <2>5, <2>6, <2>7 DEF Fetch, GoTo, SharedTypeOK, sharedVars
  <2>9. DLTypeOK'
    BY <1>11, <1>a, <2>1, <2>2, <2>3, <2>4, <2>5, <2>6, <2>7 DEF Fetch, GoTo, DLTypeOK, DLPlaces
  <2>10. Pending'
    BY <1>11, <1>a, <1>b, <2>1, <2>2, <2>3, <2>4, <2>5, <2>6, <2>7 DEF Fetch, GoTo, Pending, DLTypeOK
  <2> QED
    BY <2>8, <2>9, <2>10
<1>12. CASE Fetch(n) /\ ~ (MayFetch(n) /\ sendPackets[n] # <<>>)
  <2>1. pktSend' \in [Node -> BOOLEAN]
    BY <1>12, <1>a DEF Fetch, DLTypeOK
  <2>2. SharedTypeOK'
    BY <1>12, <1>a, <2>1 DEF Fetch, GoTo, SharedTypeOK, sharedVars
  <2>3. DLTypeOK'
    BY <1>12, <1>a, <2>1 DEF Fetch, GoTo, DLTypeOK, DLPlaces
  <2>4. Pending'
    BY <1>12, <1>a, <1>b, <2>1 DEF Fetch, GoTo, Pending, DLTypeOK
  <2> QED
    BY <2>2, <2>3, <2>4
<1>13. CASE NothingReady(n)
  <2>1. SharedTypeOK'
    BY <1>13, <1>a DEF NothingReady, GoTo, sharedVars, SharedTypeOK, sharedVars
  <2>2. DLTypeOK'
    BY <1>13, <1>a DEF NothingReady, GoTo, sharedVars, DLTypeOK, DLPlaces
  <2>3. Pending'
    BY <1>13, <1>a, <1>b DEF NothingReady, GoTo, sharedVars, Pending, DLTypeOK
  <2> QED
    BY <2>1, <2>2, <2>3
<1>14. CASE FrameRefused(n)
  <2>1. SharedTypeOK'
    BY <1>14, <1>a DEF FrameRefused, GoTo, sharedVars, SharedTypeOK, sharedVars
  <2>2. DLTypeOK'
    BY <1>14, <1>a DEF FrameRefused, GoTo, sharedVars, DLTypeOK, DLPlaces
  <2>3. Pending'
    BY <1>14, <1>a, <1>b DEF FrameRefused, GoTo, sharedVars, Pending, DLTypeOK
  <2> QED
    BY <2>1, <2>2, <2>3
<1>15. CASE FrameNotLocked(n) \/ FrameLocked(n)
  <2>1. lost' \in [Node -> SUBSET Causes]
    BY <1>15, <1>a, LoseType DEF FrameNotLocked, FrameLocked, SharedTypeOK, Causes
  <2>2. ready[n] # <<>> /\ UNCHANGED ready /\ Head(ready[n]) \in DataFrame
    BY <1>15, <1>a DEF FrameNotLocked, FrameLocked, DLTypeOK
  <2>3. window' = [window EXCEPT ![n] = Append(@, Head(ready[n]))]
    BY <1>15, <1>a DEF FrameNotLocked, FrameLocked
  <2>4. window' \in [Node -> Seq(DataFrame)]
    BY <1>15, <1>a, <2>2, <2>3, AppendAt DEF DLTypeOK
  <2>5. SharedTypeOK'
    BY <1>15, <1>a, <2>1, <2>2, <2>3, <2>4 DEF FrameNotLocked, FrameLocked, GoTo, SharedTypeOK, sharedVars
  <2>6. DLTypeOK'
    BY <1>15, <1>a, <2>1, <2>2, <2>3, <2>4 DEF FrameNotLocked, FrameLocked, GoTo, DLTypeOK, DLPlaces
  <2>7. Pending'
    BY <1>15, <1>a, <1>b, <2>1, <2>2, <2>3, <2>4 DEF FrameNotLocked, FrameLocked, GoTo, Pending, DLTypeOK
  <2> QED
    BY <2>5, <2>6, <2>7
<1>16. CASE PushFrame(n)
  <2>1. Head(ready[n]) \in Frame
    BY <1>16, <1>a DEF PushFrame, DLTypeOK, Pending, Frame
  <2>2. sendFrames' \in [Node -> Seq(Frame)]
    BY <1>16, <1>a, <2>1, AppendAt DEF PushFrame, SharedTypeOK
  <2>3. SharedTypeOK'
    BY <1>16, <1>a, <2>1, <2>2 DEF PushFrame, GoTo, SharedTypeOK, sharedVars
  <2>4. DLTypeOK'
    BY <1>16, <1>a, <2>1, <2>2 DEF PushFrame, GoTo, DLTypeOK, DLPlaces
  <2>5. Pending'
    BY <1>16, <1>a, <1>b, <2>1, <2>2 DEF PushFrame, GoTo, Pending, DLTypeOK
  <2> QED
    BY <2>3, <2>4, <2>5
<1> QED
  BY <1>1, <1>2, <1>3, <1>4, <1>5, <1>6, <1>7, <1>8, <1>9, <1>10, <1>11, <1>12, <1>13, <1>14, <1>15, <1>16 DEF DLThread, DLStep

LEMMA DropType ==
  ASSUME NEW S, NEW q \in Seq(S), NEW k \in 0 .. Len(q)
  PROVE  SubSeq(q, k + 1, Len(q)) \in Seq(S)
<1>1. Len(q) \in Nat
  BY LenProperties
<1> QED
  BY <1>1, SubSeqProperties

LEMMA RemnantType ==
  ASSUME PLTypeOK, NEW n, NEW cut \in BOOLEAN, remnant' = [remnant EXCEPT ![n] = cut]
  PROVE  remnant' \in [Node -> BOOLEAN]
BY DEF PLTypeOK

LEMMA MadeUpFrames == MadeUp \subseteq Frame
<1>1. Ack(0) \in Frame
  BY AckInFrame, SeqAssumption DEF SeqNo
<1>2. [pkt |-> Garbled(FALSE), part |-> 2] \in Chunk
  BY GarbledInPacket DEF Chunk
<1>3. [type : {DATA}, seq : SeqNo, end : BOOLEAN,
       payload : {[pkt |-> Garbled(FALSE), part |-> 2]}] \subseteq DataFrame
  BY <1>2 DEF DataFrame
<1> QED
  BY <1>1, <1>3 DEF MadeUp, Frame

LEMMA PLTyping ==
  ASSUME TypeInv, NEW n \in Node, PLThread(n)
  PROVE  TypeInv'
<1>a. SharedTypeOK /\ DLTypeOK /\ PLTypeOK /\ NLTypeOK /\ Pending
  BY DEF TypeInv, TypeOK
<1>b. DLTypeOK' /\ NLTypeOK'
      /\ UNCHANGED <<dlPC, reconstructFrames, ready, appPC, outgoing, ended>>
  BY <1>a DEF PLThread, Running, DLTypeOK, NLTypeOK, dlVars, nlVars
<1>c. SUFFICES SharedTypeOK' /\ PLTypeOK' /\ Pending'
  BY <1>b DEF TypeInv, TypeOK
<1>1. CASE TryLockSendFrames(n) \/ CheckSendFrames(n) \/ Unlock(n)
  <2>1. SharedTypeOK'
    BY <1>1, <1>a DEF TryLockSendFrames, CheckSendFrames, Unlock, PLGoTo, SharedTypeOK, sharedVars
  <2>2. PLTypeOK'
    BY <1>1, <1>a DEF TryLockSendFrames, CheckSendFrames, Unlock, PLGoTo, PLTypeOK, PLPlaces
  <2>3. Pending'
    BY <1>1, <1>a, <1>b DEF TryLockSendFrames, CheckSendFrames, Unlock, PLGoTo, Pending, PLTypeOK
  <2> QED
    BY <2>1, <2>2, <2>3
<1>2. CASE SendAFrame(n)
  <2>1. \/ UNCHANGED <<wire, sendFrames>>
       \/ /\ sendFrames[n] # <<>> /\ Head(sendFrames[n]) \in Frame
          /\ wire' = [wire EXCEPT ![n] = Append(@, Head(sendFrames[n]))]
          /\ sendFrames' = [sendFrames EXCEPT ![n] = Tail(@)]
    BY <1>2, <1>a DEF SendAFrame, SharedTypeOK
  <2>2. wire' \in [Node -> Seq(Frame)]
    BY <1>a, <2>1, AppendStep DEF PLTypeOK
  <2>3. sendFrames' \in [Node -> Seq(Frame)]
    BY <1>a, <2>1, TailStep DEF SharedTypeOK
  <2>4. SharedTypeOK'
    BY <1>2, <1>a, <2>1, <2>2, <2>3 DEF SendAFrame, PLGoTo, SharedTypeOK, sharedVars
  <2>5. PLTypeOK'
    BY <1>2, <1>a, <2>1, <2>2, <2>3 DEF SendAFrame, PLGoTo, PLTypeOK, PLPlaces
  <2>6. Pending'
    BY <1>2, <1>a, <1>b, <2>1, <2>2, <2>3 DEF SendAFrame, PLGoTo, Pending, PLTypeOK
  <2> QED
    BY <2>4, <2>5, <2>6
<1>3. CASE ReceiveNothing(n)
  <2>1. SharedTypeOK'
    BY <1>3, <1>a DEF ReceiveNothing, PLGoTo, sharedVars, SharedTypeOK, sharedVars
  <2>2. PLTypeOK'
    BY <1>3, <1>a DEF ReceiveNothing, PLGoTo, sharedVars, PLTypeOK, PLPlaces
  <2>3. Pending'
    BY <1>3, <1>a, <1>b DEF ReceiveNothing, PLGoTo, sharedVars, Pending, PLTypeOK
  <2> QED
    BY <2>1, <2>2, <2>3
<1>4. CASE ReceiveOne(n)
  <2>1. /\ Peer(n) \in Node
       /\ Head(wire[Peer(n)]) \in Frame
    BY <1>4, <1>a, PeerInNode DEF ReceiveOne, PLTypeOK
  <2>2. wire' \in [Node -> Seq(Frame)]
    BY <1>4, <1>a, <2>1, TailAt DEF ReceiveOne, PLTypeOK
  <2>3. recvFrames' \in [Node -> Seq(Frame)]
    BY <1>4, <1>a, <2>1, AppendAt DEF ReceiveOne, SharedTypeOK
  <2>4. SharedTypeOK'
    BY <1>4, <1>a, <2>1, <2>2, <2>3 DEF ReceiveOne, PLGoTo, SharedTypeOK, sharedVars
  <2>5. PLTypeOK'
    BY <1>4, <1>a, <2>1, <2>2, <2>3 DEF ReceiveOne, PLGoTo, PLTypeOK, PLPlaces
  <2>6. Pending'
    BY <1>4, <1>a, <1>b, <2>1, <2>2, <2>3 DEF ReceiveOne, PLGoTo, Pending, PLTypeOK
  <2> QED
    BY <2>4, <2>5, <2>6
<1>5. CASE ReceiveInvalid(n)
  <2>1. wire' \in [Node -> Seq(Frame)]
    BY <1>5, <1>a, PeerInNode, TailAt DEF ReceiveInvalid, PLTypeOK
  <2>2. lost' \in [Node -> SUBSET Causes]
    BY <1>5, <1>a, LoseType DEF ReceiveInvalid, SharedTypeOK, Causes
  <2>3. SharedTypeOK'
    BY <1>5, <1>a, <2>1, <2>2 DEF ReceiveInvalid, PLGoTo, SharedTypeOK, sharedVars
  <2>4. PLTypeOK'
    BY <1>5, <1>a, <2>1, <2>2 DEF ReceiveInvalid, PLGoTo, PLTypeOK, PLPlaces
  <2>5. Pending'
    BY <1>5, <1>a, <1>b, <2>1, <2>2 DEF ReceiveInvalid, PLGoTo, Pending, PLTypeOK
  <2> QED
    BY <2>3, <2>4, <2>5
<1>6. CASE ReceiveMerged(n)
  <2> DEFINE w == wire[Peer(n)]
  <2>1. PICK k \in 2 .. Len(w) : wire' = [wire EXCEPT ![Peer(n)] = SubSeq(@, k + 1, Len(@))]
    BY <1>6 DEF ReceiveMerged
  <2>2. Peer(n) \in Node /\ w \in Seq(Frame)
    BY <1>a, PeerInNode DEF PLTypeOK
  <2>3. Len(w) > 0
    BY <2>1, <2>2
  <2>4. SubSeq(w, k + 1, Len(w)) \in Seq(Frame) /\ Head(w) \in Frame
    BY <2>1, <2>2, <2>3
  <2>5. wire' \in [Node -> Seq(Frame)]
    BY <1>a, <2>1, <2>2, <2>4 DEF PLTypeOK
  <2>r. \/ UNCHANGED recvFrames
        \/ recvFrames' = [recvFrames EXCEPT ![n] = Append(@, Head(w))]
    BY <1>6 DEF ReceiveMerged
  <2>6. recvFrames' \in [Node -> Seq(Frame)]
    BY <1>a, <2>4, <2>r, AppendStep DEF SharedTypeOK
  <2>7. lost' \in [Node -> SUBSET Causes]
    BY <1>6, <1>a, LoseType DEF ReceiveMerged, SharedTypeOK, Causes
  <2>8. SharedTypeOK'
    BY <1>6, <1>a, <2>6, <2>7 DEF ReceiveMerged, SharedTypeOK
  <2>9. PLTypeOK'
    BY <1>6, <1>a, <2>5, RemnantType DEF ReceiveMerged, PLGoTo, PLTypeOK, PLPlaces
  <2> QED
    BY <1>a, <1>b, <2>8, <2>9 DEF Pending
<1>7. CASE RemnantRefused(n) \/ RemnantAccepted(n)
  <2>1. ReadRemnant(n)
    BY <1>7 DEF RemnantRefused, RemnantAccepted
  <2>2. wire' \in [Node -> Seq(Frame)]
    <3>1. PICK k \in 0 .. Len(wire[Peer(n)]) :
            wire' = [wire EXCEPT ![Peer(n)] = SubSeq(@, k + 1, Len(@))]
      BY <2>1 DEF ReadRemnant
    <3>2. Peer(n) \in Node /\ wire[Peer(n)] \in Seq(Frame)
      BY <1>a, PeerInNode DEF PLTypeOK
    <3>3. SubSeq(wire[Peer(n)], k + 1, Len(wire[Peer(n)])) \in Seq(Frame)
      BY <3>1, <3>2, DropType
    <3> QED
      BY <1>a, <3>1, <3>2, <3>3 DEF PLTypeOK
  <2>3. PLTypeOK'
    BY <1>a, <2>1, <2>2, RemnantType DEF ReadRemnant, PLGoTo, PLTypeOK, PLPlaces
  <2>4. \/ UNCHANGED recvFrames
        \/ \E f \in Frame : recvFrames' = [recvFrames EXCEPT ![n] = Append(@, f)]
    BY <1>7, MadeUpFrames DEF RemnantRefused, RemnantAccepted
  <2>5. recvFrames' \in [Node -> Seq(Frame)]
    BY <1>a, <2>4, AppendStep DEF SharedTypeOK
  <2>6. lost' \in [Node -> SUBSET Causes]
    <3>1. Lose(n, "merged") \/ Lose(n, "remnant")
      BY <1>7 DEF RemnantRefused, RemnantAccepted
    <3> QED
      BY <1>a, <3>1, LoseType DEF SharedTypeOK, Causes
  <2>7. SharedTypeOK'
    BY <1>a, <2>1, <2>5, <2>6 DEF ReadRemnant, SharedTypeOK
  <2> QED
    BY <1>a, <1>b, <2>3, <2>7 DEF Pending
<1> QED
  BY <1>1, <1>2, <1>3, <1>4, <1>5, <1>6, <1>7 DEF PLThread, PLStep

LEMMA FromApplicationLayerTyping ==
  ASSUME TypeInv, NEW n \in Node, NEW sh, IsShape(sh), FromApplicationLayer(n, sh)
  PROVE  SharedTypeOK' /\ NLTypeOK' /\ (UNCHANGED <<dlPC, reconstructFrames, ready>> => Pending')
<1> DEFINE m == Packetize(Len(sent[n]) + 1, sh)
<1>1. SharedTypeOK /\ NLTypeOK /\ Pending
  BY DEF TypeInv, TypeOK
<1>2. Len(sent[n]) + 1 \in Nat
  BY <1>1 DEF NLTypeOK
<1>3. m \in Seq(Packet) /\ m # <<>>
  BY <1>2, PacketizeType
<1>4. /\ outgoing' = [outgoing EXCEPT ![n] = m]
      /\ sent' = [sent EXCEPT ![n] = Append(@, m)]
      /\ appPC' = [appPC EXCEPT ![n] = "down"]
      /\ UNCHANGED <<sharedVars, buildBuffer, received>>
  BY DEF FromApplicationLayer, AppGoTo
<1> HIDE DEF m
<1>5. sent' \in [Node -> Seq(Seq(Packet))]
  BY <1>1, <1>3, <1>4, AppendAt DEF NLTypeOK
<1>6. SharedTypeOK'
  BY <1>1, <1>4 DEF SharedTypeOK, sharedVars
<1>7. NLTypeOK'
  BY <1>1, <1>3, <1>4, <1>5 DEF NLTypeOK, AppPlaces
<1>8. UNCHANGED <<dlPC, reconstructFrames, ready>> => Pending'
  BY <1>1, <1>3, <1>4 DEF Pending, NLTypeOK
<1> QED
  BY <1>6, <1>7, <1>8

LEMMA AppTyping ==
  ASSUME TypeInv, NEW n \in Node, AppThread(n)
  PROVE  TypeInv'
<1>a. SharedTypeOK /\ DLTypeOK /\ PLTypeOK /\ NLTypeOK /\ Pending
  BY DEF TypeInv, TypeOK
<1>b. DLTypeOK' /\ PLTypeOK' /\ UNCHANGED <<dlPC, reconstructFrames, ready, ended>>
  BY <1>a DEF AppThread, Running, DLTypeOK, PLTypeOK, dlVars, plVars
<1>c. SUFFICES SharedTypeOK' /\ NLTypeOK' /\ Pending'
  BY <1>b DEF TypeInv, TypeOK
<1>1. CASE Command(n)
  BY <1>1, <1>a, <1>b, FromApplicationLayerTyping, ShapesAssumption DEF Command
<1>2. ASSUME NEW sh \in ReplyShapes, FromApplicationLayer(n, sh)
      PROVE  SharedTypeOK' /\ NLTypeOK' /\ Pending'
  BY <1>2, <1>a, <1>b, FromApplicationLayerTyping, ShapesAssumption
<1>3. CASE /\ HandleMessage(n)
          /\ ~ \E sh \in ReplyShapes : FromApplicationLayer(n, sh)
  <2>1. SharedTypeOK'
    BY <1>3, <1>a DEF HandleMessage, AppGoTo, sharedVars, SharedTypeOK, sharedVars
  <2>2. NLTypeOK'
    BY <1>3, <1>a DEF HandleMessage, AppGoTo, sharedVars, NLTypeOK, AppPlaces
  <2>3. Pending'
    BY <1>3, <1>a, <1>b DEF HandleMessage, AppGoTo, sharedVars, Pending, NLTypeOK
  <2> QED
    BY <2>1, <2>2, <2>3
<1>4. CASE ToDataLinkLayer(n)
  <2>1. outgoing[n] # <<>>
    BY <1>4, <1>a DEF ToDataLinkLayer, Pending
  <2>2. outgoing[n] \in Seq(Packet) /\ Head(outgoing[n]) \in Packet
    BY <1>4, <1>a, <2>1 DEF NLTypeOK
  <2>3. outgoing' \in [Node -> Seq(Packet)]
    BY <1>4, <1>a, <2>1, TailAt DEF ToDataLinkLayer, NLTypeOK
  <2>4. sendPackets' \in [Node -> Seq(Packet)]
    BY <1>4, <1>a, <2>2, AppendAt DEF ToDataLinkLayer, SharedTypeOK
  <2>5. appPC'[n] = "down" => Len(outgoing[n]) > 1
    BY <1>4, <1>a, <2>1, <2>2, LenCases DEF ToDataLinkLayer, AppGoTo, NLTypeOK
  <2>6. appPC'[n] = "down" => outgoing'[n] # <<>>
    <3>1. outgoing'[n] = Tail(outgoing[n])
      BY <1>4, <1>a DEF ToDataLinkLayer, NLTypeOK
    <3> QED
      BY <2>2, <2>5, <3>1, TailNonEmpty
  <2>7. \A m \in Node \ {n} : outgoing'[m] = outgoing[m]
    BY <1>4, <1>a DEF ToDataLinkLayer, NLTypeOK
  <2>8. \E place \in {"poll", "down"} : appPC' = [appPC EXCEPT ![n] = place]
    BY <1>4, <1>a DEF ToDataLinkLayer, AppGoTo
  <2>9. SharedTypeOK'
    BY <1>4, <1>a, <2>1, <2>2, <2>3, <2>4, <2>5, <2>6, <2>7, <2>8 DEF ToDataLinkLayer, SharedTypeOK, sharedVars
  <2>10. NLTypeOK'
    BY <1>4, <1>a, <2>1, <2>2, <2>3, <2>4, <2>5, <2>6, <2>7, <2>8 DEF ToDataLinkLayer, NLTypeOK, AppPlaces
  <2>11. Pending'
    BY <1>4, <1>a, <1>b, <2>1, <2>2, <2>3, <2>4, <2>5, <2>6, <2>7, <2>8 DEF ToDataLinkLayer, Pending, NLTypeOK
  <2> QED
    BY <2>9, <2>10, <2>11
<1>5. CASE LockRecvPackets(n) \/ NoPacket(n)
  <2>1. SharedTypeOK'
    BY <1>5, <1>a DEF LockRecvPackets, NoPacket, AppGoTo, SharedTypeOK, sharedVars
  <2>2. NLTypeOK'
    BY <1>5, <1>a DEF LockRecvPackets, NoPacket, AppGoTo, NLTypeOK, AppPlaces
  <2>3. Pending'
    BY <1>5, <1>a, <1>b DEF LockRecvPackets, NoPacket, AppGoTo, Pending, NLTypeOK
  <2> QED
    BY <2>1, <2>2, <2>3
<1>6. CASE ReceiveAPacket(n)
  <2>1. recvPackets' \in [Node -> Seq(Packet)]
    BY <1>6, <1>a, TailAt DEF ReceiveAPacket, SharedTypeOK
  <2>2. Append(buildBuffer[n], Head(recvPackets[n])) \in Seq(Packet)
    BY <1>6, <1>a DEF ReceiveAPacket, SharedTypeOK, NLTypeOK
  <2>3. Assemble(Append(buildBuffer[n], Head(recvPackets[n]))) \in Seq(Packet)
    BY <1>6, <1>a, <2>2, AssembleType
  <2>4. \/ UNCHANGED received
       \/ received' = [received EXCEPT
                          ![n] = Append(@, Assemble(Append(buildBuffer[n], Head(recvPackets[n]))))]
    <3>1. CASE Head(recvPackets[n]).end
      BY <1>6, <3>1 DEF ReceiveAPacket
    <3>2. CASE ~ Head(recvPackets[n]).end
      BY <1>6, <3>2 DEF ReceiveAPacket
    <3> QED
      BY <3>1, <3>2
  <2>5. received' \in [Node -> Seq(Seq(Packet))]
    <3> DEFINE m == Assemble(Append(buildBuffer[n], Head(recvPackets[n])))
    <3>1. received \in [Node -> Seq(Seq(Packet))]
      BY <1>a DEF NLTypeOK
    <3>2. m \in Seq(Packet)
      BY <2>3
    <3> HIDE DEF m
    <3>3. received' = received \/ received' = [received EXCEPT ![n] = Append(@, m)]
      BY <2>4 DEF m
    <3>4. CASE received' = [received EXCEPT ![n] = Append(@, m)]
      BY <3>1, <3>2, <3>4
    <3>5. CASE received' = received
      BY <3>1, <3>5
    <3> QED
      BY <3>3, <3>4, <3>5
  <2>6. buildBuffer' \in [Node -> Seq(Packet)]
    <3> DEFINE buf == Append(buildBuffer[n], Head(recvPackets[n]))
    <3>1. buildBuffer' = [buildBuffer EXCEPT ![n] = IF Head(recvPackets[n]).end THEN <<>> ELSE buf]
      <4>1. CASE Head(recvPackets[n]).end
        BY <1>6, <4>1 DEF ReceiveAPacket
      <4>2. CASE ~ Head(recvPackets[n]).end
        BY <1>6, <4>2 DEF ReceiveAPacket
      <4> QED
        BY <4>1, <4>2
    <3>2. buf \in Seq(Packet) /\ <<>> \in Seq(Packet)
      BY <2>2, EmptySeq
    <3> HIDE DEF buf
    <3> QED
      BY <1>a, <3>1, <3>2 DEF NLTypeOK
  <2>7. \E place \in {"prompt", "handle", "poll"} : appPC' = [appPC EXCEPT ![n] = place]
    BY <1>6, <1>a DEF ReceiveAPacket, AppGoTo
  <2>8. SharedTypeOK'
    BY <1>6, <1>a, <2>1, <2>2, <2>3, <2>4, <2>5, <2>6, <2>7 DEF ReceiveAPacket, SharedTypeOK, sharedVars
  <2>9. NLTypeOK'
    BY <1>6, <1>a, <2>1, <2>2, <2>3, <2>4, <2>5, <2>6, <2>7 DEF ReceiveAPacket, NLTypeOK, AppPlaces
  <2>10. Pending'
    BY <1>6, <1>a, <1>b, <2>1, <2>2, <2>3, <2>4, <2>5, <2>6, <2>7 DEF ReceiveAPacket, Pending, NLTypeOK
  <2> QED
    BY <2>8, <2>9, <2>10
<1> QED
  BY <1>1, <1>2, <1>3, <1>4, <1>5, <1>6 DEF AppThread, NLStep

LEMMA AlarmTyping ==
  ASSUME TypeInv, NEW n \in Node, Alarm(n)
  PROVE  TypeInv'
<1>a. SharedTypeOK /\ DLTypeOK /\ PLTypeOK /\ NLTypeOK /\ Pending
  BY DEF TypeInv, TypeOK
<1>1. SharedTypeOK' /\ PLTypeOK' /\ NLTypeOK' /\ UNCHANGED ended
  BY <1>a DEF Alarm, Running, TimerExpires, SharedTypeOK, PLTypeOK, NLTypeOK, sharedVars, plVars,
              nlVars
<1>2. DLTypeOK'
  BY <1>a, TimeoutsAssumption DEF Alarm, TimerExpires, DLTypeOK
<1>3. Pending'
  BY <1>a DEF Alarm, TimerExpires, Pending, nlVars
<1> QED
  BY <1>1, <1>2, <1>3 DEF TypeInv, TypeOK

-----------------------------------------------------------------------------
LEMMA InitTyping == Init => TypeInv
<1> SUFFICES ASSUME Init PROVE TypeInv
  OBVIOUS
<1>1. SharedTypeOK
  BY EmptySeq DEF Init, SharedInit, SharedTypeOK
<1>2. DLTypeOK
  BY EmptySeq, SeqAssumption, TimeoutsAssumption DEF Init, DLInit, DLTypeOK, DLPlaces, SeqNo
<1>3. PLTypeOK
  BY EmptySeq DEF Init, PLInit, PLTypeOK, PLPlaces
<1>4. NLTypeOK
  BY EmptySeq DEF Init, NLInit, NLTypeOK, AppPlaces
<1>5. Pending /\ ended \in [Node -> BOOLEAN]
  BY DEF Init, DLInit, NLInit, Pending
<1> QED
  BY <1>1, <1>2, <1>3, <1>4, <1>5 DEF TypeInv, TypeOK

\* Steps that change nothing but ended.
Idle == UNCHANGED vars \/ \E n \in Node : Terminate(n)

LEMMA IdleStep == Idle => UNCHANGED <<sharedVars, dlVars, plVars, nlVars>>
BY DEF Idle, Terminate, vars

LEMMA NextTyping == TypeInv /\ [Next]_vars => TypeInv'
<1> SUFFICES ASSUME TypeInv, [Next]_vars PROVE TypeInv'
  OBVIOUS
<1>1. ASSUME NEW n \in Node, DLThread(n) \/ PLThread(n) \/ AppThread(n) \/ Alarm(n)
      PROVE  TypeInv'
  BY <1>1, DLTyping, PLTyping, AppTyping, AlarmTyping
<1>2. CASE Idle
  <2>1. ended' \in [Node -> BOOLEAN]
    BY <1>2 DEF Idle, Terminate, vars, TypeInv, TypeOK
  <2>2. UNCHANGED <<sharedVars, dlVars, plVars, nlVars>>
    BY <1>2, IdleStep
  <2> QED
    BY <2>1, <2>2 DEF sharedVars, dlVars, plVars, nlVars, TypeInv, TypeOK, Pending,
                      SharedTypeOK, DLTypeOK, PLTypeOK, NLTypeOK
<1> QED
  BY <1>1, <1>2 DEF Next, Idle

\* Every variable of the stack keeps its type, and no thread ever reads the
\* front of a queue that may be empty (DataLink.cpp:295-311 and 105-107,
\* NetworkLayer.cpp:62-73).
THEOREM Typing == Spec => []TypeInv
<1>1. Init => TypeInv
  BY InitTyping
<1>2. TypeInv /\ [Next]_vars => TypeInv'
  BY NextTyping
<1> QED
  BY <1>1, <1>2, PTL DEF Spec

\* The type invariant the runs check.
THEOREM TypeCorrect == Spec => []TypeOK
<1>1. TypeInv => TypeOK
  BY DEF TypeInv
<1> QED
  BY <1>1, Typing, PTL

-----------------------------------------------------------------------------
(* Queues and timer.                                                       *)

OneInWindow == \A n \in Node : Len(window[n]) <= 1

\* The front of ready is what the window holds, so one ack pops the same frame
\* from both; without OneInWindow ReceiveAck would leave a frame behind.
QueueInv == EventBacked /\ ReadyInOrder /\ TimerCoversWindow /\ OneInWindow

\* ReadyInOrder's two middle parts, of any queue and the number that follows it.
InOrder(q, next) ==
  /\ \A i \in 1 .. Len(q) - 1 : q[i + 1].seq = Inc(q[i].seq)
  /\ q # <<>> => next = Inc(q[Len(q)].seq)

QueuesAt(n) ==
  /\ dlPC[n] = "receive" => frmArrive[n] /\ recvFrames[n] # <<>>
  /\ Len(ready[n]) < MaxReady
  /\ InOrder(ready[n], nextSend[n])
  /\ Len(window[n]) <= 1
  /\ window[n] # <<>> => ready[n] # <<>> /\ ready[n][1] = window[n][1]
  /\ dlPC[n] = "wait" /\ window[n] # <<>> => timer[n] \/ frmTimeout[n]

LEMMA QueueInvAt == QueueInv <=> \A n \in Node : QueuesAt(n)
BY DEF QueueInv, EventBacked, ReadyInOrder, TimerCoversWindow, OneInWindow, QueuesAt, InOrder

-----------------------------------------------------------------------------
(* Sequences.                                                              *)

LEMMA NonEmptyLen ==
  ASSUME NEW S, NEW q \in Seq(S)
  PROVE  Len(q) \in Nat /\ (q # <<>> <=> Len(q) > 0)
<1>1. Len(q) \in Nat
  BY LenProperties
<1>2. q = <<>> <=> Len(q) = 0
  BY EmptySeq, Zenon
<1> QED
  BY <1>1, <1>2

LEMMA TailFacts ==
  ASSUME NEW S, NEW q \in Seq(S), q # <<>>
  PROVE  /\ Tail(q) \in Seq(S)
         /\ Len(Tail(q)) = Len(q) - 1
         /\ \A i \in 1 .. Len(q) - 1 : Tail(q)[i] = q[i + 1]
BY HeadTailProperties

LEMMA TailInOrder ==
  ASSUME NEW S, NEW q \in Seq(S), NEW k, q # <<>>, InOrder(q, k)
  PROVE  InOrder(Tail(q), k)
<1>1. Len(q) \in Nat /\ Len(q) > 0
  BY NonEmptyLen
<1>2. Tail(q) \in Seq(S) /\ Len(Tail(q)) = Len(q) - 1
      /\ \A i \in 1 .. Len(q) - 1 : Tail(q)[i] = q[i + 1]
  BY TailFacts
<1>3. \A i \in 1 .. Len(Tail(q)) - 1 : Tail(q)[i + 1].seq = Inc(Tail(q)[i].seq)
  BY <1>1, <1>2 DEF InOrder
<1>4. Tail(q) # <<>> => Tail(q)[Len(Tail(q))] = q[Len(q)]
  <2>1. Tail(q) # <<>> => Len(q) - 1 > 0
    BY <1>2, NonEmptyLen
  <2> QED
    BY <1>1, <1>2, <2>1
<1> QED
  BY <1>3, <1>4 DEF InOrder

LEMMA MadeInOrder ==
  ASSUME NEW p \in Packet, NEW k \in SeqNo
  PROVE  /\ MakeFrames(p, k) \in Seq(DataFrame)
         /\ Len(MakeFrames(p, k)) \in {1, 2}
         /\ MakeFrames(p, k)[1].seq = k
         /\ InOrder(MakeFrames(p, k), AfterFrames(p, k))
<1>1. p.frames \in {1, 2}
  BY DEF Packet
<1>2. MakeFrames(p, k) \in Seq(DataFrame) /\ MakeFrames(p, k) # <<>>
  BY MakeFramesType
<1>3. DOMAIN MakeFrames(p, k) = 1 .. p.frames
  BY DEF MakeFrames
<1>4. Len(MakeFrames(p, k)) = p.frames
  BY <1>1, <1>2, <1>3, LenProperties
<1>5. \A i \in 1 .. p.frames : MakeFrames(p, k)[i].seq = IF i = 1 THEN k ELSE Inc(k)
  BY DEF MakeFrames
<1>6. InOrder(MakeFrames(p, k), AfterFrames(p, k))
  BY <1>1, <1>4, <1>5 DEF InOrder, AfterFrames
<1> QED
  BY <1>1, <1>2, <1>4, <1>5, <1>6

LEMMA ConcatInOrder ==
  ASSUME NEW S, NEW q \in Seq(S), NEW k, NEW t \in Seq(S), NEW m,
         t # <<>>, t[1].seq = k, InOrder(q, k), InOrder(t, m)
  PROVE  /\ InOrder(q \o t, m)
         /\ Len(q \o t) = Len(q) + Len(t)
         /\ q # <<>> => q \o t # <<>> /\ (q \o t)[1] = q[1]
<1> DEFINE c == q \o t
<1>1. Len(q) \in Nat /\ Len(t) \in Nat /\ Len(t) > 0 /\ (q # <<>> <=> Len(q) > 0)
  BY NonEmptyLen
<1>2. /\ c \in Seq(S) /\ Len(c) = Len(q) + Len(t)
      /\ \A i \in 1 .. Len(q) + Len(t) : c[i] = IF i <= Len(q) THEN q[i] ELSE t[i - Len(q)]
  BY ConcatProperties
<1> HIDE DEF c
<1>3. ASSUME NEW i \in 1 .. Len(c) - 1 PROVE c[i + 1].seq = Inc(c[i].seq)
  <2>1. CASE i < Len(q)
    <3>1. c[i] = q[i] /\ c[i + 1] = q[i + 1] /\ i \in 1 .. Len(q) - 1
      BY <1>1, <1>2, <2>1
    <3> QED
      BY <3>1 DEF InOrder
  <2>2. CASE i = Len(q)
    <3>1. c[i] = q[Len(q)] /\ c[i + 1] = t[1] /\ q # <<>>
      BY <1>1, <1>2, <2>2
    <3> QED
      BY <3>1 DEF InOrder
  <2>3. CASE i > Len(q)
    <3> DEFINE j == i - Len(q)
    <3>1. j \in 1 .. Len(t) - 1 /\ c[i] = t[j] /\ c[i + 1] = t[j + 1]
      BY <1>1, <1>2, <2>3
    <3> QED
      BY <3>1 DEF InOrder
  <2> QED
    BY <1>1, <1>2, <2>1, <2>2, <2>3
<1>4. c[Len(c)] = t[Len(t)]
  BY <1>1, <1>2
<1>5. InOrder(c, m)
  BY <1>3, <1>4 DEF InOrder
<1>6. q # <<>> => c # <<>> /\ c[1] = q[1]
  <2>1. Len(c) > 0
    BY <1>1, <1>2
  <2> QED
    BY <1>1, <1>2, <2>1, NonEmptyLen
<1> QED
  BY <1>2, <1>5, <1>6 DEF c

-----------------------------------------------------------------------------
(* Each thread keeps QueueInv.                                             *)

\* A step of a node's data link thread, timer or physical layer leaves alone
\* what QueuesAt says of the other node.
QueueVarsAt(n) ==
  <<dlPC[n], frmArrive[n], recvFrames[n], ready[n], nextSend[n], window[n], timer[n],
    frmTimeout[n]>>

LEMMA QueuesAtStable ==
  ASSUME NEW n, QueuesAt(n), UNCHANGED QueueVarsAt(n)
  PROVE  QueuesAt(n)'
BY DEF QueuesAt, QueueVarsAt, InOrder

LEMMA DLElsewhere ==
  ASSUME TypeInv, NEW n \in Node, DLThread(n), NEW m \in Node, m # n
  PROVE  UNCHANGED QueueVarsAt(m)
<1>a. SharedTypeOK /\ DLTypeOK
  BY DEF TypeInv, TypeOK
<1>1. CASE TimeoutEvent(n) \/ ArrivalEvent(n) \/ PacketEvent(n)
  BY <1>a, <1>1 DEF TimeoutEvent, ArrivalEvent, PacketEvent, QueueVarsAt, GoTo, SharedTypeOK,
                    DLTypeOK, sharedVars
<1>2. CASE ReceiveAck(n) \/ PopSendFrames(n) \/ PopRecvFrames(n)
  BY <1>a, <1>2 DEF ReceiveAck, FromPhysicalLayer, PopSendFrames, PopRecvFrames, QueueVarsAt,
                    GoTo, SharedTypeOK, DLTypeOK
<1>3. CASE ReceiveData(n) \/ CheckRecvPackets(n) \/ DeliverPacket(n)
  BY <1>a, <1>3 DEF ReceiveData, FromPhysicalLayer, CheckRecvPackets, DeliverPacket,
                    QueueVarsAt, GoTo, SharedTypeOK, DLTypeOK
<1>4. CASE AckRefused(n) \/ AckNotLocked(n) \/ AckLocked(n) \/ PushAck(n)
  BY <1>a, <1>4 DEF AckRefused, AckNotLocked, AckLocked, PushAck, QueueVarsAt, GoTo,
                    SharedTypeOK, DLTypeOK
<1>5. CASE Fetch(n)
  BY <1>a, <1>5 DEF Fetch, QueueVarsAt, GoTo, SharedTypeOK, DLTypeOK
<1>6. CASE NothingReady(n) \/ FrameRefused(n) \/ FrameNotLocked(n)
  BY <1>a, <1>6 DEF NothingReady, FrameRefused, FrameNotLocked, QueueVarsAt, GoTo,
                    SharedTypeOK, DLTypeOK, sharedVars
<1>7. CASE FrameLocked(n) \/ PushFrame(n)
  BY <1>a, <1>7 DEF FrameLocked, PushFrame, QueueVarsAt, GoTo, SharedTypeOK, DLTypeOK
<1> QED
  BY <1>1, <1>2, <1>3, <1>4, <1>5, <1>6, <1>7 DEF DLThread, DLStep

LEMMA DLQueues ==
  ASSUME TypeInv, NEW n \in Node, QueuesAt(n), DLThread(n)
  PROVE  QueuesAt(n)'
<1>a. SharedTypeOK /\ DLTypeOK
  BY DEF TypeInv, TypeOK
<1>q. /\ ready[n] \in Seq(DataFrame) /\ window[n] \in Seq(DataFrame)
      /\ recvFrames[n] \in Seq(Frame) /\ nextSend[n] \in SeqNo
  BY <1>a DEF SharedTypeOK, DLTypeOK
<1>l. /\ Len(ready[n]) \in Nat /\ (ready[n] # <<>> <=> Len(ready[n]) > 0)
      /\ Len(window[n]) \in Nat /\ (window[n] # <<>> <=> Len(window[n]) > 0)
  BY <1>q, NonEmptyLen
<1>1. CASE TimeoutEvent(n) \/ PacketEvent(n) \/ CheckRecvPackets(n) \/ DeliverPacket(n)
  <2>1. /\ dlPC'[n] \notin {"receive", "wait"}
        /\ UNCHANGED <<ready, nextSend, window>>
    BY <1>a, <1>1 DEF TimeoutEvent, PacketEvent, CheckRecvPackets, DeliverPacket, GoTo, DLTypeOK
  <2> QED
    BY <2>1 DEF QueuesAt, InOrder
<1>2. CASE ArrivalEvent(n)
  BY <1>a, <1>2 DEF ArrivalEvent, GoTo, QueuesAt, InOrder, DLTypeOK, sharedVars
<1>3. CASE ReceiveAck(n)
  <2>1. /\ dlPC'[n] = "ackSF" /\ UNCHANGED nextSend
        /\ ready'[n] = PopFront(ready[n])
        /\ window'[n] = PopFront(window[n])
    BY <1>a, <1>3 DEF ReceiveAck, GoTo, DLTypeOK
  <2>2. window'[n] = <<>>
    BY <1>q, <2>1, NonEmptyLen, TailFacts DEF QueuesAt, PopFront
  <2>3. InOrder(ready'[n], nextSend'[n]) /\ Len(ready'[n]) < MaxReady
    <3>1. CASE ready[n] = <<>>
      BY <2>1, <3>1 DEF QueuesAt, PopFront
    <3>2. CASE ready[n] # <<>>
      BY <1>q, <2>1, <3>2, TailInOrder, TailFacts, NonEmptyLen, ReadyAssumption
      DEF QueuesAt, PopFront
    <3> QED
      BY <3>1, <3>2
  <2> QED
    BY <2>1, <2>2, <2>3 DEF QueuesAt
<1>4. CASE PopSendFrames(n) \/ PopRecvFrames(n) \/ ReceiveData(n)
  <2>1. /\ dlPC'[n] \notin {"receive", "wait"}
        /\ UNCHANGED <<ready, nextSend, window>>
    BY <1>a, <1>4 DEF PopSendFrames, PopRecvFrames, ReceiveData, GoTo, DLTypeOK
  <2> QED
    BY <2>1 DEF QueuesAt, InOrder
<1>5. CASE AckRefused(n) \/ AckNotLocked(n) \/ AckLocked(n) \/ PushAck(n)
  <2>1. /\ dlPC'[n] \notin {"receive", "wait"}
        /\ UNCHANGED <<ready, nextSend, window>>
    BY <1>a, <1>5 DEF AckRefused, AckNotLocked, AckLocked, PushAck, GoTo, DLTypeOK
  <2> QED
    BY <2>1 DEF QueuesAt, InOrder
<1>6. CASE Fetch(n) /\ MayFetch(n) /\ sendPackets[n] # <<>>
  <2> DEFINE p == Head(sendPackets[n])
             t == MakeFrames(p, nextSend[n])
  <2>1. p \in Packet
    BY <1>a, <1>6 DEF SharedTypeOK
  <2>2. /\ dlPC'[n] = "send" /\ UNCHANGED window
        /\ ready'[n] = ready[n] \o t
        /\ nextSend'[n] = AfterFrames(p, nextSend[n])
    BY <1>a, <1>6 DEF Fetch, GoTo, DLTypeOK
  <2>3. /\ t \in Seq(DataFrame) /\ Len(t) \in {1, 2} /\ t[1].seq = nextSend[n]
        /\ InOrder(t, AfterFrames(p, nextSend[n])) /\ t # <<>>
    BY <1>q, <2>1, MadeInOrder, MakeFramesType
  <2> HIDE DEF p, t
  <2>4. /\ InOrder(ready'[n], nextSend'[n])
        /\ Len(ready'[n]) = Len(ready[n]) + Len(t)
        /\ ready[n] # <<>> => ready'[n] # <<>> /\ ready'[n][1] = ready[n][1]
    BY <1>q, <2>2, <2>3, ConcatInOrder DEF QueuesAt
  <2>5. Len(ready[n]) < MaxReady - 2
    BY <1>6 DEF MayFetch
  <2>6. Len(ready'[n]) < MaxReady
    <3>1. \A a \in Nat, b \in {1, 2}, max \in Nat : a < max - 2 => a + b < max
      OBVIOUS
    <3> QED
      BY <1>l, <2>3, <2>4, <2>5, <3>1, ReadyAssumption, Zenon
  <2> QED
    BY <2>2, <2>4, <2>6 DEF QueuesAt
<1>7. CASE Fetch(n) /\ ~ (MayFetch(n) /\ sendPackets[n] # <<>>)
  <2>1. /\ dlPC'[n] = "send"
        /\ UNCHANGED <<ready, nextSend, window>>
    BY <1>a, <1>7 DEF Fetch, GoTo, DLTypeOK
  <2> QED
    BY <2>1 DEF QueuesAt, InOrder
<1>8. CASE NothingReady(n) \/ FrameRefused(n)
  <2>1. /\ dlPC'[n] = "wait"
        /\ UNCHANGED <<ready, nextSend, window>>
        /\ ready[n] # <<>> => timer'[n]
    BY <1>a, <1>8 DEF NothingReady, FrameRefused, GoTo, DLTypeOK
  <2> QED
    BY <2>1 DEF QueuesAt, InOrder
<1>9. CASE FrameNotLocked(n) \/ FrameLocked(n)
  <2>1. /\ ready[n] # <<>> /\ Len(window[n]) # 1
        /\ UNCHANGED <<ready, nextSend>>
        /\ window'[n] = Append(window[n], Head(ready[n]))
        /\ dlPC'[n] = "pushFrame" \/ (dlPC'[n] = "wait" /\ timer'[n])
    BY <1>a, <1>9 DEF FrameNotLocked, FrameLocked, WindowFull, GoTo, DLTypeOK
  <2>2. window[n] = <<>>
    <3>1. \A k \in Nat : k <= 1 /\ k # 1 => ~ (k > 0)
      OBVIOUS
    <3> QED
      BY <1>l, <2>1, <3>1, Zenon DEF QueuesAt
  <2>3. Len(window'[n]) = 1 /\ window'[n][1] = ready[n][1]
    BY <1>q, <2>1, <2>2
  <2> QED
    BY <2>1, <2>3 DEF QueuesAt, InOrder
<1>10. CASE PushFrame(n)
  BY <1>a, <1>10 DEF PushFrame, GoTo, QueuesAt, InOrder, DLTypeOK
<1> QED
  BY <1>1, <1>2, <1>3, <1>4, <1>5, <1>6, <1>7, <1>8, <1>9, <1>10 DEF DLThread, DLStep

LEMMA PLQueues ==
  ASSUME TypeInv, NEW n \in Node, NEW m \in Node, QueuesAt(m), PLThread(n)
  PROVE  QueuesAt(m)'
<1>a. SharedTypeOK
  BY DEF TypeInv, TypeOK
<1>1. UNCHANGED <<dlPC, frmArrive, ready, nextSend, window, timer, frmTimeout>>
  BY DEF PLThread, dlVars
<1>2. recvFrames[m] # <<>> => recvFrames'[m] # <<>>
  <2>1. \/ UNCHANGED recvFrames
        \/ \E f \in Frame : recvFrames' = [recvFrames EXCEPT ![n] = Append(@, f)]
    <3>1. CASE TryLockSendFrames(n) \/ CheckSendFrames(n) \/ SendAFrame(n) \/ Unlock(n)
      BY <3>1 DEF TryLockSendFrames, CheckSendFrames, SendAFrame, Unlock
    <3>2. CASE ReceiveNothing(n) \/ ReceiveInvalid(n) \/ RemnantRefused(n)
      BY <3>2 DEF ReceiveNothing, ReceiveInvalid, RemnantRefused, sharedVars
    <3>3. CASE ReceiveOne(n)
      <4>1. wire[Peer(n)] # <<>> /\ wire[Peer(n)] \in Seq(Frame)
        BY <3>3, PeerInNode DEF ReceiveOne, TypeInv, TypeOK, PLTypeOK
      <4>2. Head(wire[Peer(n)]) \in Frame
        BY <4>1
      <4>3. recvFrames' = [recvFrames EXCEPT ![n] = Append(@, Head(wire[Peer(n)]))]
        BY <3>3 DEF ReceiveOne
      <4> QED
        BY <4>2, <4>3
    <3>4. CASE ReceiveMerged(n)
      <4>1. wire[Peer(n)] \in Seq(Frame)
        BY PeerInNode DEF TypeInv, TypeOK, PLTypeOK
      <4>2. \E k \in 2 .. Len(wire[Peer(n)]) : TRUE
        BY <3>4 DEF ReceiveMerged
      <4>3. Head(wire[Peer(n)]) \in Frame
        BY <4>1, <4>2
      <4>4. \/ UNCHANGED recvFrames
            \/ recvFrames' = [recvFrames EXCEPT ![n] = Append(@, Head(wire[Peer(n)]))]
        BY <3>4 DEF ReceiveMerged
      <4> QED
        BY <4>3, <4>4
    <3>5. CASE RemnantAccepted(n)
      BY <3>5, MadeUpFrames DEF RemnantAccepted
    <3> QED
      BY <3>1, <3>2, <3>3, <3>4, <3>5 DEF PLThread, PLStep
  <2>2. CASE \E f \in Frame : recvFrames' = [recvFrames EXCEPT ![n] = Append(@, f)]
    <3>1. PICK f \in Frame : recvFrames' = [recvFrames EXCEPT ![n] = Append(@, f)]
      BY <2>2
    <3>2. recvFrames'[n] # <<>>
      BY <1>a, <3>1, AppendAt DEF SharedTypeOK
    <3> QED
      BY <1>a, <3>1, <3>2 DEF SharedTypeOK
  <2> QED
    BY <2>1, <2>2
<1> QED
  BY <1>1, <1>2 DEF QueuesAt, InOrder

LEMMA AppQueues ==
  ASSUME NEW n \in Node, AppThread(n)
  PROVE  UNCHANGED <<dlVars, recvFrames>>
<1>1. UNCHANGED dlVars
  BY DEF AppThread
<1>2. UNCHANGED recvFrames
  BY DEF AppThread, NLStep, Command, HandleMessage, FromApplicationLayer, ToDataLinkLayer,
         LockRecvPackets, NoPacket, ReceiveAPacket, sharedVars
<1> QED
  BY <1>1, <1>2

LEMMA AlarmQueues ==
  ASSUME TypeInv, NEW n \in Node, NEW m \in Node, QueuesAt(m), Alarm(n)
  PROVE  QueuesAt(m)'
<1>1. frmTimeout'[n] /\ (m # n => timer'[m] = timer[m] /\ frmTimeout'[m] = frmTimeout[m])
  BY DEF Alarm, TimerExpires, TypeInv, TypeOK, DLTypeOK
<1>2. UNCHANGED <<dlPC, frmArrive, recvFrames, ready, nextSend, window>>
  BY DEF Alarm, TimerExpires, sharedVars
<1> QED
  BY <1>1, <1>2 DEF QueuesAt, InOrder

-----------------------------------------------------------------------------
LEMMA InitQueues == Init => QueueInv
<1> SUFFICES ASSUME Init, NEW n \in Node PROVE QueuesAt(n)
  BY QueueInvAt
<1>1. /\ dlPC[n] = "wait" /\ ready[n] = <<>> /\ window[n] = <<>>
      /\ Len(<<>>) = 0
  BY DEF Init, DLInit
<1> QED
  BY <1>1, ReadyAssumption DEF QueuesAt, InOrder

LEMMA NextQueues == TypeInv /\ QueueInv /\ [Next]_vars => QueueInv'
<1> SUFFICES ASSUME TypeInv, QueueInv, [Next]_vars, NEW m \in Node
             PROVE  QueuesAt(m)'
  BY QueueInvAt DEF QueueInv, EventBacked, ReadyInOrder, TimerCoversWindow, OneInWindow,
                    QueuesAt, InOrder
<1>0. QueuesAt(m)
  BY QueueInvAt
<1>1. ASSUME NEW n \in Node, DLThread(n) PROVE QueuesAt(m)'
  BY <1>0, <1>1, DLQueues, DLElsewhere, QueuesAtStable
<1>2. ASSUME NEW n \in Node, PLThread(n) PROVE QueuesAt(m)'
  BY <1>0, <1>2, PLQueues
<1>3. ASSUME NEW n \in Node, AppThread(n) PROVE QueuesAt(m)'
  <2>1. UNCHANGED QueueVarsAt(m)
    BY <1>3, AppQueues DEF dlVars, QueueVarsAt
  <2> QED
    BY <1>0, <2>1, QueuesAtStable
<1>4. ASSUME NEW n \in Node, Alarm(n) PROVE QueuesAt(m)'
  BY <1>0, <1>4, AlarmQueues
<1>5. CASE Idle
  <2>1. UNCHANGED QueueVarsAt(m)
    BY <1>5, IdleStep DEF sharedVars, dlVars, QueueVarsAt
  <2> QED
    BY <1>0, <2>1, QueuesAtStable
<1> QED
  BY <1>1, <1>2, <1>3, <1>4, <1>5 DEF Next, Idle

LEMMA QueuesHold == Spec => [](TypeInv /\ QueueInv)
<1>1. Init => QueueInv
  BY InitQueues
<1>2. TypeInv /\ QueueInv /\ [Next]_vars => QueueInv'
  BY NextQueues
<1> QED
  BY <1>1, <1>2, Typing, PTL DEF Spec

\* FromPhysicalLayer is called with an arrival behind it, whatever the physical
\* layer adds to recvFrames meanwhile (DataLink.cpp:71, 315-347).
THEOREM EventsAreBacked == Spec => []EventBacked
<1>1. QueueInv => EventBacked
  BY DEF QueueInv
<1> QED
  BY <1>1, QueuesHold, PTL

\* For every MAX_READY of at least three and every MAX_SEQ: ready stays below
\* its limit and holds consecutive numbers, the frame in the window first, so an
\* ack always pops one and the same frame from both (DataLink.cpp:79-83, 99-105).
THEOREM ReadyStaysInOrder == Spec => []ReadyInOrder
<1>1. QueueInv => ReadyInOrder
  BY DEF QueueInv
<1> QED
  BY <1>1, QueuesHold, PTL

\* While a frame waits for its ack, the timer of its node runs or has a timeout
\* to report (DataLink.cpp:105-108, 386-397).
THEOREM TimerCovers == Spec => []TimerCoversWindow
<1>1. QueueInv => TimerCoversWindow
  BY DEF QueueInv
<1> QED
  BY <1>1, QueuesHold, PTL

-----------------------------------------------------------------------------
(* What was thrown away stays on record.                                   *)

LEMMA LostGrows ==
  ASSUME TypeInv, [Next]_vars
  PROVE  \A m \in Node : lost[m] \subseteq lost'[m]
<1>1. UNCHANGED lost \/ \E n \in Node, c \in Causes : Lose(n, c)
  <2>1. CASE \E n \in Node : AppThread(n) \/ Alarm(n)
    BY <2>1 DEF AppThread, NLStep, Command, HandleMessage, FromApplicationLayer, ToDataLinkLayer,
                LockRecvPackets, NoPacket, ReceiveAPacket, Alarm, TimerExpires, sharedVars
  <2>2. CASE \E n \in Node : PLThread(n)
    BY <2>2 DEF PLThread, PLStep, TryLockSendFrames, CheckSendFrames, SendAFrame, Unlock,
                ReceiveNothing, ReceiveOne, ReceiveInvalid, ReceiveMerged, RemnantRefused,
                RemnantAccepted, sharedVars, Causes
  <2>3. CASE \E n \in Node : DLThread(n)
    <3>1. PICK n \in Node : DLStep(n)
      BY <2>3 DEF DLThread
    <3>2. CASE \/ TimeoutEvent(n) \/ ArrivalEvent(n) \/ PacketEvent(n) \/ ReceiveAck(n)
               \/ PopSendFrames(n) \/ ReceiveData(n) \/ DeliverPacket(n)
      BY <3>2 DEF TimeoutEvent, ArrivalEvent, PacketEvent, ReceiveAck, PopSendFrames,
                  ReceiveData, DeliverPacket, sharedVars
    <3>3. CASE \/ AckLocked(n) \/ PushAck(n) \/ Fetch(n) \/ NothingReady(n)
               \/ FrameRefused(n) \/ FrameLocked(n) \/ PushFrame(n)
      BY <3>3 DEF AckLocked, PushAck, Fetch, NothingReady, FrameRefused, FrameLocked, PushFrame,
                  sharedVars
    <3>4. CASE \/ PopRecvFrames(n) \/ CheckRecvPackets(n) \/ AckRefused(n)
               \/ AckNotLocked(n) \/ FrameNotLocked(n)
      BY <3>4 DEF PopRecvFrames, CheckRecvPackets, AckRefused, AckNotLocked, FrameNotLocked, Causes
    <3> QED
      BY <3>1, <3>2, <3>3, <3>4 DEF DLStep
  <2>4. CASE Idle
    BY <2>4, IdleStep DEF sharedVars
  <2> QED
    BY <2>1, <2>2, <2>3, <2>4 DEF Next, Idle
<1>2. lost \in [Node -> SUBSET Causes]
  BY DEF TypeInv, TypeOK, SharedTypeOK
<1> QED
  BY <1>1, <1>2 DEF Lose

\* A remnant that is taken for a frame is on record for ever.
LEMMA IntactBefore == TypeInv /\ [Next]_vars /\ Intact' => Intact
BY LostGrows DEF Intact

LEMMA AcceptedBreaks ==
  ASSUME TypeInv, NEW n \in Node, RemnantAccepted(n)
  PROVE  ~ Intact'
BY DEF RemnantAccepted, Lose, Intact, TypeInv, TypeOK, SharedTypeOK

-----------------------------------------------------------------------------
(* Go-Back-1 is stop-and-wait.                                             *)

(* The link from s to r: s's data frames on their way to r, and r's acks   *)
(* on their way back.                                                      *)

\* The ack of s's frame is on its way.
Answered(s, r) == HasAck(sendFrames[r]) \/ HasAck(wire[r]) \/ HasAck(recvFrames[s])

\* s's frame, or what became of it, has left wire[s]; has left sendFrames[s].
LeftWire(s, r)   == HasData(recvFrames[r]) \/ dlPC[r] \in Acking \/ Answered(s, r)
LeftSender(s, r) == HasData(wire[s]) \/ LeftWire(s, r)

\* InFlight, with the peer as a parameter.
Flying(s, r) ==
  One(dlPC[s] = "pushFrame") + One(HasData(sendFrames[s])) + One(HasData(wire[s]))
    + One(HasData(recvFrames[r])) + One(dlPC[r] \in Acking)
    + One(HasAck(sendFrames[r])) + One(HasAck(wire[r])) + One(HasAck(recvFrames[s]))

\* StopAndWait is not inductive.  A queue stays Short because an ack is pushed
\* only when the window is empty, so that it goes ahead of the data frame that
\* may follow it: what s's frame has left behind it is empty.  The last two
\* conjuncts are AckPopsNothing and QueueUntouched.
Link(s, r) ==
  /\ Flying(s, r) <= One(window[s] # <<>>)
  /\ Short(sendFrames[s]) /\ Short(wire[s]) /\ Short(recvFrames[s])
  /\ LeftSender(s, r) => sendFrames[s] = <<>>
  /\ LeftWire(s, r) => wire[s] = <<>>
  /\ dlPC[s] = "pushAck" => window[s] = <<>>
  /\ dlPC[s] = "ackSF" => sendFrames[s] = <<>>
  /\ plPC[s] = "pop" => sendFrames[s] # <<>>

WindowInv == \A s \in Node : Link(s, Peer(s))

LEMMA WindowInvImplies ==
  TypeInv /\ QueueInv /\ (Intact => WindowInv)
    => StopAndWait /\ AckPopsNothing /\ QueueUntouched
<1>0. CASE ~ Intact
  BY <1>0 DEF StopAndWait, AckPopsNothing, QueueUntouched
<1> SUFFICES ASSUME TypeInv, QueueInv, WindowInv
             PROVE  StopAndWait /\ AckPopsNothing /\ QueueUntouched
  BY <1>0
<1>1. ASSUME NEW s \in Node PROVE InFlight(s) <= Len(window[s]) /\ Len(window[s]) <= 1
  <2>1. /\ window[s] \in Seq(DataFrame) /\ Len(window[s]) <= 1
        /\ InFlight(s) = Flying(s, Peer(s)) /\ Flying(s, Peer(s)) <= One(window[s] # <<>>)
    BY DEF TypeInv, TypeOK, DLTypeOK, QueueInv, OneInWindow, WindowInv, Link, Flying, InFlight
  <2>2. Len(window[s]) \in Nat /\ (window[s] # <<>> <=> Len(window[s]) > 0)
    BY <2>1, NonEmptyLen
  <2>3. Flying(s, Peer(s)) \in Nat
    BY DEF Flying, One
  <2>4. \A k, l \in Nat : (l > 0 => k <= 1) /\ (~ (l > 0) => k <= 0) => k <= l
    OBVIOUS
  <2>5. (Len(window[s]) > 0 => Flying(s, Peer(s)) <= 1)
        /\ (~ (Len(window[s]) > 0) => Flying(s, Peer(s)) <= 0)
    BY <2>1, <2>2 DEF One
  <2> QED
    BY <2>1, <2>2, <2>3, <2>4, <2>5, Zenon
<1>2. StopAndWait
  BY <1>1 DEF StopAndWait, WindowInv, Link
<1> QED
  BY <1>2 DEF AckPopsNothing, QueueUntouched, WindowInv, Link

-----------------------------------------------------------------------------
(* Queues of at most an ack and a data frame.                              *)

LEMMA FrameTypes == \A f \in Frame : f.type = DATA <=> f.type # ACK
BY DEF Frame, DataFrame, AckFrame, DATA, ACK

LEMMA EmptyQueue == Short(<<>>) /\ ~ HasData(<<>>) /\ ~ HasAck(<<>>)
BY DEF Short, HasData, HasAck

LEMMA NoFrames ==
  ASSUME NEW q \in Seq(Frame), ~ HasData(q), ~ HasAck(q)
  PROVE  q = <<>>
<1>1. SUFFICES ASSUME q # <<>> PROVE FALSE
  OBVIOUS
<1>2. q[1] \in Frame /\ 1 \in 1 .. Len(q)
  BY <1>1
<1> QED
  BY <1>2, FrameTypes DEF HasData, HasAck

LEMMA ShortLen ==
  ASSUME NEW q \in Seq(Frame)
  PROVE  /\ Short(q) => Len(q) \in {0, 1, 2}
         /\ \A i \in 1 .. Len(q) : q[i] \in Frame
<1>1. Len(q) \in Nat /\ \A i \in 1 .. Len(q) : q[i] \in Frame
  BY LenProperties, ElementOfSeq
<1>2. \A k \in Nat : k <= 2 => k \in {0, 1, 2}
  OBVIOUS
<1>3. Short(q) => Len(q) <= 2
  BY DEF Short
<1> QED
  BY <1>1, <1>2, <1>3, Zenon

\* A data frame may follow an ack.
LEMMA AppendData ==
  ASSUME NEW q \in Seq(Frame), Short(q), ~ HasData(q), NEW f \in Frame, f.type = DATA
  PROVE  /\ Short(Append(q, f)) /\ HasData(Append(q, f))
         /\ HasAck(Append(q, f)) <=> HasAck(q)
         /\ Append(q, f) # <<>>
<1>1. Len(q) \in Nat /\ \A i \in 1 .. Len(q) : q[i] \in Frame
  BY LenProperties, ElementOfSeq
<1>2. /\ Len(Append(q, f)) = Len(q) + 1 /\ Append(q, f)[Len(q) + 1] = f
      /\ \A i \in 1 .. Len(q) : Append(q, f)[i] = q[i]
  BY AppendProperties
<1>3. Append(q, f) # <<>>
  BY <1>1, <1>2
<1>4. Len(q) \in {0, 1} /\ (Len(q) = 1 => q[1].type = ACK)
  <2>1. ~ (Len(q) = 2)
    BY DEF Short, HasData
  <2>2. Len(q) = 1 => q[1].type # DATA
    BY DEF HasData
  <2>3. Len(q) \in {0, 1}
    BY <2>1, ShortLen
  <2> QED
    BY <1>1, <2>2, <2>3, FrameTypes
<1>5. Short(Append(q, f))
  <2>1. CASE Len(q) = 0
    BY <1>2, <2>1 DEF Short
  <2>2. CASE Len(q) = 1
    <3>1. Append(q, f)[1].type = ACK /\ Append(q, f)[2] = f /\ Len(Append(q, f)) = 2
      BY <1>2, <1>4, <2>2
    <3> QED
      BY <3>1 DEF Short
  <2> QED
    BY <1>4, <2>1, <2>2
<1>6. HasData(Append(q, f))
  BY <1>1, <1>2 DEF HasData
<1>7. f.type # ACK
  BY FrameTypes
<1>8. HasAck(Append(q, f)) <=> HasAck(q)
  BY <1>1, <1>2, <1>7 DEF HasAck
<1> QED
  BY <1>3, <1>5, <1>6, <1>8

LEMMA AppendAck ==
  ASSUME NEW f \in Frame, f.type = ACK
  PROVE  /\ Short(Append(<<>>, f)) /\ HasAck(Append(<<>>, f)) /\ ~ HasData(Append(<<>>, f))
         /\ Append(<<>>, f) # <<>>
<1>1. Append(<<>>, f) = <<f>> /\ Len(<<f>>) = 1 /\ <<f>>[1] = f
  OBVIOUS
<1>2. f.type # DATA
  BY FrameTypes
<1> QED
  BY <1>1, <1>2 DEF Short, HasAck, HasData

LEMMA TakeData ==
  ASSUME NEW q \in Seq(Frame), Short(q), q # <<>>, Head(q).type = DATA
  PROVE  Tail(q) = <<>> /\ HasData(q) /\ ~ HasAck(q) /\ Head(q) \in Frame
<1>1. Len(q) \in Nat /\ Len(q) > 0 /\ Head(q) = q[1] /\ q[1] \in Frame
  BY NonEmptyLen, ElementOfSeq
<1>2. q[1].type # ACK
  BY <1>1, FrameTypes
<1>3. Len(q) = 1
  BY <1>1, <1>2, ShortLen DEF Short
<1>4. Tail(q) \in Seq(Frame) /\ Len(Tail(q)) = 0
  BY <1>3, TailFacts
<1>5. Tail(q) = <<>>
  BY <1>4, EmptySeq
<1> QED
  BY <1>1, <1>2, <1>3, <1>5 DEF HasData, HasAck

LEMMA TakeAck ==
  ASSUME NEW q \in Seq(Frame), Short(q), q # <<>>, Head(q).type = ACK
  PROVE  /\ Short(Tail(q)) /\ HasAck(q) /\ ~ HasAck(Tail(q))
         /\ HasData(Tail(q)) <=> HasData(q)
         /\ Head(q) \in Frame
<1>1. Len(q) \in Nat /\ Len(q) > 0 /\ Head(q) = q[1] /\ \A i \in 1 .. Len(q) : q[i] \in Frame
  BY NonEmptyLen, ElementOfSeq
<1>2. /\ Tail(q) \in Seq(Frame) /\ Len(Tail(q)) = Len(q) - 1
      /\ \A i \in 1 .. Len(q) - 1 : Tail(q)[i] = q[i + 1]
  BY TailFacts
<1>3. Len(q) \in {1, 2} /\ (Len(q) = 2 => q[2].type = DATA) /\ q[1].type # DATA
  <2>1. Len(q) \in {1, 2}
    BY <1>1, ShortLen
  <2>2. q[1].type # DATA
    BY <1>1, FrameTypes
  <2> QED
    BY <2>1, <2>2 DEF Short
<1>4. Short(Tail(q))
  BY <1>2, <1>3 DEF Short
<1>5. HasAck(q)
  BY <1>1 DEF HasAck
<1>6. ~ HasAck(Tail(q))
  BY <1>1, <1>2, <1>3, FrameTypes DEF HasAck
<1>7. HasData(Tail(q)) <=> HasData(q)
  BY <1>1, <1>2, <1>3 DEF HasData
<1> QED
  BY <1>1, <1>4, <1>5, <1>6, <1>7

LEMMA PopFrontShort ==
  ASSUME NEW q \in Seq(Frame), Short(q)
  PROVE  /\ Short(PopFront(q))
         /\ HasData(PopFront(q)) => HasData(q)
         /\ HasAck(PopFront(q)) => HasAck(q)
<1>1. CASE q = <<>>
  BY <1>1 DEF PopFront
<1>2. CASE q # <<>> /\ Head(q).type = DATA
  BY <1>2, TakeData, EmptyQueue DEF PopFront
<1>3. CASE q # <<>> /\ Head(q).type # DATA
  <2>1. Head(q) \in Frame
    BY <1>3
  <2>2. Head(q).type = ACK
    BY <1>3, <2>1, FrameTypes
  <2> QED
    BY <1>3, <2>2, TakeAck DEF PopFront
<1> QED
  BY <1>1, <1>2, <1>3

\* Several frames at once are the ack and the data frame, and no more.
LEMMA TakeSeveral ==
  ASSUME NEW q \in Seq(Frame), Short(q), NEW k \in 2 .. Len(q)
  PROVE  /\ SubSeq(q, k + 1, Len(q)) = <<>>
         /\ Head(q).type = ACK /\ Head(q) \in Frame /\ HasAck(q) /\ q # <<>>
<1>1. Len(q) = 2 /\ k = 2 /\ q[1].type = ACK /\ q[1] \in Frame
  <2>1. Len(q) \in {0, 1, 2}
    BY ShortLen
  <2>2. \A l \in {0, 1, 2} : \A j \in 2 .. l : l = 2 /\ j = 2
    OBVIOUS
  <2>3. Len(q) = 2 /\ k = 2
    BY <2>1, <2>2, Zenon
  <2> QED
    BY <2>3, ShortLen DEF Short
<1>2. SubSeq(q, 3, 2) = <<>>
  BY <1>1, SubSeqProperties, EmptySeq
<1>3. q # <<>> /\ HasAck(q)
  <2>1. 1 \in 1 .. 2 /\ 0 # 2
    OBVIOUS
  <2>2. 1 \in 1 .. Len(q) /\ q # <<>>
    BY <1>1, <2>1, EmptySeq, Zenon
  <2> QED
    BY <1>1, <2>2, Zenon DEF HasAck
<1>4. Head(q) = q[1] /\ SubSeq(q, k + 1, Len(q)) = SubSeq(q, 3, 2)
  BY <1>1, <1>3
<1> QED
  BY <1>1, <1>2, <1>3, <1>4

\* Whatever is left of a queue that was Short.
LEMMA DropShort ==
  ASSUME NEW q \in Seq(Frame), Short(q), NEW k \in 0 .. Len(q)
  PROVE  LET t == SubSeq(q, k + 1, Len(q))
         IN  /\ t \in Seq(Frame) /\ Short(t)
             /\ HasData(t) => HasData(q)
             /\ HasAck(t) => HasAck(q)
             /\ q = <<>> => t = <<>>
<1> DEFINE t == SubSeq(q, k + 1, Len(q))
<1>1. Len(q) \in Nat /\ k \in Nat /\ k <= Len(q) /\ (q = <<>> => Len(q) = 0)
  BY LenProperties, EmptySeq
<1>2. /\ t \in Seq(Frame) /\ Len(t) = Len(q) - k
      /\ \A i \in 1 .. Len(q) - k : t[i] = q[k + i]
  BY <1>1, SubSeqProperties
<1> HIDE DEF t
<1>3. \A i \in 1 .. Len(t) : k + i \in 1 .. Len(q) /\ t[i] = q[k + i]
  BY <1>1, <1>2
<1>4. Short(t)
  <2>1. Len(t) <= Len(q) /\ (Len(t) = Len(q) => k = 0)
    BY <1>1, <1>2
  <2>2. ASSUME Len(t) = 2 PROVE t[1].type = ACK /\ t[2].type = DATA
    <3> DEFINE l == Len(q)
    <3>1. l \in Nat /\ l <= 2 /\ (l = 2 => q[1].type = ACK /\ q[2].type = DATA)
      BY <1>1 DEF Short
    <3>2. l - k = 2 /\ k \in Nat
      BY <1>1, <1>2, <2>2
    <3> HIDE DEF l
    <3>3. l = 2 /\ k = 0
      BY <3>1, <3>2
    <3>4. \A i \in 1 .. 2 : t[i] = q[k + i]
      BY <1>3, <2>2
    <3>5. t[1] = q[1] /\ t[2] = q[2]
      BY <3>3, <3>4
    <3> QED
      BY <3>1, <3>3, <3>5
  <2>3. Len(t) <= 2
    BY <1>1, <1>2 DEF Short
  <2> QED
    BY <2>2, <2>3 DEF Short
<1>5. q = <<>> => t = <<>>
  <2>1. q = <<>> => Len(t) = 0
    BY <1>1, <1>2
  <2> QED
    BY <1>2, <2>1, EmptySeq
<1> QED
  BY <1>2, <1>3, <1>4, <1>5 DEF t, HasData, HasAck

-----------------------------------------------------------------------------
(* Steps.                                                                  *)

\* What Link(s, r) and Link(r, s) read of s.
LinkVars(s) ==
  <<dlPC[s], window[s], sendFrames[s], wire[s], recvFrames[s], plPC[s]>>

LEMMA PlaceChange ==
  ASSUME NEW s, NEW r, Link(s, r), Link(r, s),
         window'[s] = window[s] /\ window'[r] = window[r],
         sendFrames'[s] = sendFrames[s] /\ sendFrames'[r] = sendFrames[r],
         wire'[s] = wire[s] /\ wire'[r] = wire[r],
         recvFrames'[s] = recvFrames[s] /\ recvFrames'[r] = recvFrames[r],
         dlPC'[r] = dlPC[r], plPC'[r] = plPC[r],
         dlPC'[s] = "pushFrame" => dlPC[s] = "pushFrame",
         dlPC'[s] = "ackSF" => dlPC[s] = "ackSF",
         dlPC'[s] \in Acking => dlPC[s] \in Acking,
         dlPC'[s] = "pushAck" => window[s] = <<>>,
         plPC'[s] = "pop" => sendFrames[s] # <<>>
  PROVE  Link(s, r)' /\ Link(r, s)'
<1>1. Flying(s, r)' <= One(window[s] # <<>>)' /\ Flying(r, s)' <= One(window[r] # <<>>)'
  BY DEF Link, Flying, One
<1> QED
  BY <1>1 DEF Link, LeftSender, LeftWire, Answered, Acking

LEMMA WindowEmpty ==
  ASSUME TypeInv, QueueInv, NEW n \in Node
  PROVE  /\ WindowFull(n) <=> window[n] # <<>>
         /\ window[n] # <<>> => PopFront(window[n]) = <<>>
<1>1. window[n] \in Seq(DataFrame) /\ Len(window[n]) <= 1
  BY DEF TypeInv, TypeOK, DLTypeOK, QueueInv, OneInWindow
<1>2. Len(window[n]) \in Nat /\ (window[n] # <<>> <=> Len(window[n]) > 0)
  BY <1>1, NonEmptyLen
<1>3. \A k \in Nat : k <= 1 => (k = 1 <=> k > 0)
  OBVIOUS
<1>4. Len(window[n]) = 1 <=> window[n] # <<>>
  BY <1>1, <1>2, <1>3, Zenon
<1>5. window[n] # <<>> => Tail(window[n]) = <<>>
  <2>1. \A k : k = 1 => k - 1 = 0
    OBVIOUS
  <2>2. window[n] # <<>> => Tail(window[n]) \in Seq(DataFrame) /\ Len(Tail(window[n])) = 0
    BY <1>1, <1>4, <2>1, TailFacts
  <2> QED
    BY <2>2, EmptySeq
<1> QED
  BY <1>4, <1>5 DEF WindowFull, PopFront

LEMMA DLWindow ==
  ASSUME TypeInv, QueueInv, NEW n \in Node, NEW r \in Node, r = Peer(n), Link(n, r), Link(r, n),
         DLThread(n)
  PROVE  Link(n, r)' /\ Link(r, n)'
<1>a. SharedTypeOK /\ DLTypeOK /\ PLTypeOK
  BY DEF TypeInv, TypeOK
<1>p. r \in Node /\ r # n /\ n = Peer(r)
  BY PeerInNode
<1>c. UNCHANGED <<wire, plPC>>
  BY DEF DLThread, plVars
<1>q. /\ sendFrames[n] \in Seq(Frame) /\ recvFrames[n] \in Seq(Frame)
      /\ dlPC[n] \in DLPlaces
  BY <1>a DEF SharedTypeOK, DLTypeOK
<1>1. CASE \/ TimeoutEvent(n) \/ ArrivalEvent(n) \/ PacketEvent(n)
          \/ NothingReady(n) \/ FrameRefused(n)
  <2>1. /\ dlPC'[n] \in {"receive", "fetch", "wait"} /\ dlPC'[r] = dlPC[r]
        /\ UNCHANGED <<window, sendFrames, recvFrames>>
    BY <1>a, <1>p, <1>1 DEF TimeoutEvent, ArrivalEvent, PacketEvent, NothingReady, FrameRefused,
                            GoTo, DLTypeOK, sharedVars
  <2> QED
    BY <1>c, <2>1, PlaceChange DEF Acking, Link
<1>2. CASE CheckRecvPackets(n) \/ DeliverPacket(n) \/ AckRefused(n) \/ AckNotLocked(n) \/ Fetch(n)
  <2>1. /\ dlPC'[n] \in {"sendAck", "deliver", "fetch", "send"} /\ dlPC'[r] = dlPC[r]
        /\ dlPC'[n] \in Acking => dlPC[n] \in Acking
        /\ UNCHANGED <<window, sendFrames, recvFrames>>
    BY <1>a, <1>p, <1>2 DEF CheckRecvPackets, DeliverPacket, AckRefused, AckNotLocked, Fetch,
                            GoTo, DLTypeOK, Acking
  <2> QED
    BY <1>c, <2>1, PlaceChange DEF Link
<1>3. CASE AckLocked(n)
  <2>1. /\ dlPC[n] = "sendAck" /\ dlPC'[n] = "pushAck" /\ dlPC'[r] = dlPC[r]
        /\ window[n] = <<>>
        /\ UNCHANGED <<window, sendFrames, recvFrames>>
    BY <1>a, <1>p, <1>3, WindowEmpty DEF AckLocked, GoTo, DLTypeOK
  <2> QED
    BY <1>c, <2>1, PlaceChange DEF Link, Acking
<1>4. CASE PopSendFrames(n)
  <2>1. /\ dlPC[n] = "ackSF" /\ dlPC'[n] = "ackRF" /\ dlPC'[r] = dlPC[r]
        /\ sendFrames'[n] = PopFront(sendFrames[n]) /\ sendFrames'[r] = sendFrames[r]
        /\ UNCHANGED <<window, recvFrames>>
    BY <1>a, <1>p, <1>4 DEF PopSendFrames, GoTo, DLTypeOK, SharedTypeOK
  <2>2. sendFrames'[n] = sendFrames[n]
    BY <2>1 DEF Link, PopFront
  <2> QED
    BY <1>c, <2>1, <2>2, PlaceChange DEF Link, Acking
<1>5. CASE PopRecvFrames(n)
  <2>1. /\ dlPC'[n] = "fetch" /\ dlPC'[r] = dlPC[r]
        /\ recvFrames'[n] = PopFront(recvFrames[n]) /\ recvFrames'[r] = recvFrames[r]
        /\ UNCHANGED <<window, sendFrames>>
    BY <1>a, <1>p, <1>5 DEF PopRecvFrames, GoTo, DLTypeOK, SharedTypeOK
  <2>2. /\ Short(recvFrames'[n])
        /\ HasData(recvFrames'[n]) => HasData(recvFrames[n])
        /\ HasAck(recvFrames'[n]) => HasAck(recvFrames[n])
    BY <1>q, <2>1, PopFrontShort DEF Link
  <2>3. Flying(n, r)' <= One(window[n] # <<>>)' /\ Flying(r, n)' <= One(window[r] # <<>>)'
    BY <1>c, <2>1, <2>2 DEF Link, Flying, One, Acking
  <2> QED
    BY <1>c, <2>1, <2>2, <2>3 DEF Link, LeftSender, LeftWire, Answered, Acking
<1>6. CASE ReceiveAck(n)
  <2>1. /\ dlPC[n] = "receive" /\ dlPC'[n] = "ackSF" /\ dlPC'[r] = dlPC[r]
        /\ recvFrames[n] # <<>> /\ Head(recvFrames[n]).type = ACK
        /\ recvFrames'[n] = Tail(recvFrames[n]) /\ recvFrames'[r] = recvFrames[r]
        /\ window'[n] = PopFront(window[n]) /\ window'[r] = window[r]
        /\ UNCHANGED sendFrames
    BY <1>a, <1>p, <1>6 DEF ReceiveAck, FromPhysicalLayer, GoTo, DLTypeOK, SharedTypeOK
  <2>2. /\ Short(recvFrames'[n])
        /\ HasAck(recvFrames[n]) /\ ~ HasAck(recvFrames'[n])
        /\ HasData(recvFrames'[n]) <=> HasData(recvFrames[n])
    BY <1>q, <2>1, TakeAck DEF Link
  <2>3. window[n] # <<>> /\ window'[n] = <<>>
    <3>1. window[n] # <<>>
      BY <2>2 DEF Link, Flying, One
    <3> QED
      BY <2>1, <3>1, WindowEmpty
  <2>4. sendFrames[n] = <<>>
    BY <2>2 DEF Link, LeftSender, LeftWire, Answered
  <2>5. Flying(n, r)' <= One(window[n] # <<>>)' /\ Flying(r, n)' <= One(window[r] # <<>>)'
    BY <1>c, <2>1, <2>2, <2>3 DEF Link, Flying, One, Acking
  <2> QED
    BY <1>c, <2>1, <2>2, <2>3, <2>4, <2>5 DEF Link, LeftSender, LeftWire, Answered, Acking
<1>7. CASE ReceiveData(n)
  <2>1. /\ dlPC[n] = "receive" /\ dlPC'[n] \in {"fetch", "up", "sendAck"} /\ dlPC'[r] = dlPC[r]
        /\ recvFrames[n] # <<>> /\ Head(recvFrames[n]).type = DATA
        /\ recvFrames'[n] = Tail(recvFrames[n]) /\ recvFrames'[r] = recvFrames[r]
        /\ UNCHANGED <<window, sendFrames>>
    BY <1>a, <1>p, <1>7 DEF ReceiveData, FromPhysicalLayer, GoTo, DLTypeOK, SharedTypeOK
  <2>2. HasData(recvFrames[n]) /\ ~ HasAck(recvFrames[n]) /\ recvFrames'[n] = <<>>
    BY <1>q, <2>1, TakeData DEF Link
  <2>3. Flying(n, r)' <= One(window[n] # <<>>)' /\ Flying(r, n)' <= One(window[r] # <<>>)'
    BY <1>c, <2>1, <2>2, EmptyQueue DEF Link, Flying, One, Acking
  <2> QED
    BY <1>c, <2>1, <2>2, <2>3, EmptyQueue DEF Link, LeftSender, LeftWire, Answered, Acking
<1>8. CASE PushAck(n)
  <2> DEFINE a == Ack(frameExpect[n])
  <2>1. /\ dlPC[n] = "pushAck" /\ dlPC'[n] = "fetch" /\ dlPC'[r] = dlPC[r]
        /\ sendFrames'[n] = Append(sendFrames[n], a) /\ sendFrames'[r] = sendFrames[r]
        /\ UNCHANGED <<window, recvFrames>>
    BY <1>a, <1>p, <1>8 DEF PushAck, GoTo, DLTypeOK, SharedTypeOK
  <2>2. a \in Frame /\ a.type = ACK
    BY <1>a, AckInFrame DEF DLTypeOK, Ack
  <2> HIDE DEF a
  <2>3. ~ HasData(sendFrames[n]) /\ ~ HasAck(sendFrames[n])
    BY <2>1 DEF Link, Flying, One, Acking
  <2>4. sendFrames[n] = <<>>
    BY <1>q, <2>3, NoFrames
  <2>5. /\ Short(sendFrames'[n]) /\ HasAck(sendFrames'[n]) /\ ~ HasData(sendFrames'[n])
        /\ sendFrames'[n] # <<>>
    BY <2>1, <2>2, <2>4, AppendAck
  <2>6. Flying(n, r)' <= One(window[n] # <<>>)' /\ Flying(r, n)' <= One(window[r] # <<>>)'
    BY <1>c, <2>1, <2>3, <2>5 DEF Link, Flying, One, Acking
  <2>7. ~ LeftSender(n, r)
    BY <2>1 DEF Link, Flying, One, LeftSender, LeftWire, Answered
  <2> QED
    BY <1>c, <2>1, <2>3, <2>5, <2>6, <2>7 DEF Link, LeftSender, LeftWire, Answered, Acking
<1>9. CASE FrameNotLocked(n) \/ FrameLocked(n)
  <2>1. /\ dlPC[n] = "send" /\ dlPC'[n] \in {"wait", "pushFrame"} /\ dlPC'[r] = dlPC[r]
        /\ window[n] = <<>> /\ window'[n] # <<>> /\ window'[r] = window[r]
        /\ UNCHANGED <<sendFrames, recvFrames>>
    <3>1. /\ ~ WindowFull(n) /\ window' = [window EXCEPT ![n] = Append(@, Head(ready[n]))]
          /\ dlPC[n] = "send" /\ UNCHANGED <<sendFrames, recvFrames>>
          /\ dlPC' = [dlPC EXCEPT ![n] = "wait"] \/ dlPC' = [dlPC EXCEPT ![n] = "pushFrame"]
      BY <1>9 DEF FrameNotLocked, FrameLocked, GoTo
    <3>2. window[n] = <<>>
      BY <3>1, WindowEmpty
    <3>3. window'[n] # <<>>
      BY <1>a, <3>1, <3>2 DEF DLTypeOK
    <3> QED
      BY <1>a, <1>p, <3>1, <3>2, <3>3 DEF DLTypeOK
  <2>2. Flying(n, r)' <= One(window[n] # <<>>)' /\ Flying(r, n)' <= One(window[r] # <<>>)'
    BY <1>c, <2>1 DEF Link, Flying, One, Acking
  <2> QED
    BY <1>c, <2>1, <2>2 DEF Link, LeftSender, LeftWire, Answered, Acking
<1>10. CASE PushFrame(n)
  <2> DEFINE f == Head(ready[n])
  <2>1. /\ dlPC[n] = "pushFrame" /\ dlPC'[n] = "wait" /\ dlPC'[r] = dlPC[r]
        /\ sendFrames'[n] = Append(sendFrames[n], f) /\ sendFrames'[r] = sendFrames[r]
        /\ UNCHANGED <<window, recvFrames>>
    BY <1>a, <1>p, <1>10 DEF PushFrame, GoTo, DLTypeOK, SharedTypeOK
  <2>2. f \in Frame /\ f.type = DATA
    <3>1. ready[n] # <<>> /\ ready[n] \in Seq(DataFrame)
      BY <1>a, <2>1 DEF TypeInv, Pending, DLTypeOK
    <3>2. f \in DataFrame
      BY <3>1
    <3> QED
      BY <3>2 DEF Frame, DataFrame
  <2> HIDE DEF f
  <2>3. ~ HasData(sendFrames[n]) /\ ~ LeftSender(n, r)
    BY <2>1 DEF Link, Flying, One, LeftSender, LeftWire, Answered
  <2>4. /\ Short(sendFrames'[n]) /\ HasData(sendFrames'[n])
        /\ HasAck(sendFrames'[n]) <=> HasAck(sendFrames[n])
        /\ sendFrames'[n] # <<>>
    BY <1>q, <2>1, <2>2, <2>3, AppendData DEF Link
  <2>5. Flying(n, r)' <= One(window[n] # <<>>)' /\ Flying(r, n)' <= One(window[r] # <<>>)'
    BY <1>c, <2>1, <2>3, <2>4 DEF Link, Flying, One, Acking
  <2> QED
    BY <1>c, <2>1, <2>3, <2>4, <2>5 DEF Link, LeftSender, LeftWire, Answered, Acking
<1> QED
  BY <1>1, <1>2, <1>3, <1>4, <1>5, <1>6, <1>7, <1>8, <1>9, <1>10 DEF DLThread, DLStep

LEMMA PLWindow ==
  ASSUME TypeInv, NEW n \in Node, NEW r \in Node, r = Peer(n), Link(n, r), Link(r, n), PLThread(n),
         Intact'
  PROVE  Link(n, r)' /\ Link(r, n)'
<1>a. SharedTypeOK /\ PLTypeOK
  BY DEF TypeInv, TypeOK
<1>p. r \in Node /\ r # n /\ n = Peer(r)
  BY PeerInNode
<1>c. UNCHANGED <<dlPC, window>>
  BY DEF PLThread, dlVars
<1>q. /\ sendFrames[n] \in Seq(Frame) /\ recvFrames[n] \in Seq(Frame)
      /\ wire[n] \in Seq(Frame) /\ wire[r] \in Seq(Frame)
  BY <1>a, <1>p DEF SharedTypeOK, PLTypeOK
<1>1. CASE TryLockSendFrames(n) \/ CheckSendFrames(n) \/ Unlock(n) \/ ReceiveNothing(n)
  <2>1. /\ plPC'[n] = "pop" => sendFrames[n] # <<>>
        /\ plPC'[r] = plPC[r]
        /\ UNCHANGED <<sendFrames, recvFrames, wire>>
    BY <1>a, <1>p, <1>1 DEF TryLockSendFrames, CheckSendFrames, Unlock, ReceiveNothing, PLGoTo,
                            PLTypeOK, sharedVars
  <2> QED
    BY <1>c, <2>1, PlaceChange DEF Link
<1>2. CASE SendAFrame(n)
  <2> DEFINE f == Head(sendFrames[n])
  <2>1. /\ plPC[n] = "pop" /\ plPC'[n] = "relock" /\ plPC'[r] = plPC[r]
        /\ sendFrames[n] # <<>>
        /\ sendFrames'[n] = Tail(sendFrames[n]) /\ sendFrames'[r] = sendFrames[r]
        /\ wire'[n] = Append(wire[n], f) /\ wire'[r] = wire[r]
        /\ UNCHANGED recvFrames
    <3>1. plPC[n] = "pop" /\ sendFrames[n] # <<>>
      BY <1>2 DEF SendAFrame, Link
    <3> QED
      BY <1>a, <1>p, <1>2, <3>1 DEF SendAFrame, PLGoTo, SharedTypeOK, PLTypeOK
  <2>2. ~ LeftSender(n, r)
    BY <2>1 DEF Link
  <2>3. CASE f.type = DATA
    <3>1. /\ HasData(sendFrames[n]) /\ ~ HasAck(sendFrames[n]) /\ sendFrames'[n] = <<>>
          /\ f \in Frame
      BY <1>q, <2>1, <2>3, TakeData DEF Link
    <3> HIDE DEF f
    <3>2. /\ Short(wire'[n]) /\ HasData(wire'[n])
          /\ HasAck(wire'[n]) <=> HasAck(wire[n])
      BY <1>q, <2>1, <2>2, <2>3, <3>1, AppendData DEF Link, LeftSender
    <3>3. Flying(n, r)' <= One(window[n] # <<>>)' /\ Flying(r, n)' <= One(window[r] # <<>>)'
      BY <1>c, <2>1, <3>1, <3>2, EmptyQueue DEF Link, Flying, One, Acking
    <3> QED
      BY <1>c, <2>1, <2>2, <3>1, <3>2, <3>3, EmptyQueue
      DEF Link, LeftSender, LeftWire, Answered, Acking
  <2>4. CASE f.type = ACK
    <3>1. /\ HasAck(sendFrames[n]) /\ ~ HasAck(sendFrames'[n])
          /\ HasData(sendFrames'[n]) <=> HasData(sendFrames[n])
          /\ Short(sendFrames'[n])
          /\ f \in Frame
      BY <1>q, <2>1, <2>4, TakeAck DEF Link
    <3> HIDE DEF f
    <3>2. ~ HasData(wire[n]) /\ ~ HasAck(wire[n])
      BY <2>2, <3>1 DEF LeftSender, Link, Flying, One, Acking
    <3>3. wire[n] = <<>>
      BY <1>q, <3>2, NoFrames
    <3>4. Short(wire'[n]) /\ HasAck(wire'[n]) /\ ~ HasData(wire'[n])
      BY <2>1, <2>4, <3>1, <3>3, AppendAck
    <3>5. Flying(n, r)' <= One(window[n] # <<>>)' /\ Flying(r, n)' <= One(window[r] # <<>>)'
      BY <1>c, <2>1, <3>1, <3>2, <3>4 DEF Link, Flying, One, Acking
    <3> QED
      BY <1>c, <2>1, <2>2, <3>1, <3>2, <3>4, <3>5
      DEF Link, LeftSender, LeftWire, Answered, Acking
  <2> QED
    <3>1. f \in Frame
      BY <1>q, <2>1
    <3> QED
      BY <2>3, <2>4, <3>1, FrameTypes
<1>3. CASE ReceiveOne(n)
  <2> DEFINE f == Head(wire[r])
  <2>1. /\ plPC[n] = "recv" /\ plPC'[n] = "top" /\ plPC'[r] = plPC[r]
        /\ wire[r] # <<>>
        /\ wire'[r] = Tail(wire[r]) /\ wire'[n] = wire[n]
        /\ recvFrames'[n] = Append(recvFrames[n], f) /\ recvFrames'[r] = recvFrames[r]
        /\ UNCHANGED sendFrames
    BY <1>a, <1>p, <1>3 DEF ReceiveOne, PLGoTo, SharedTypeOK, PLTypeOK
  <2>2. ~ LeftWire(r, n)
    BY <2>1 DEF Link
  <2>3. CASE f.type = DATA
    <3>1. /\ HasData(wire[r]) /\ ~ HasAck(wire[r]) /\ wire'[r] = <<>>
          /\ f \in Frame
      BY <1>q, <2>1, <2>3, TakeData DEF Link
    <3> HIDE DEF f
    <3>2. /\ Short(recvFrames'[n]) /\ HasData(recvFrames'[n])
          /\ HasAck(recvFrames'[n]) <=> HasAck(recvFrames[n])
      BY <1>q, <2>1, <2>2, <2>3, <3>1, AppendData DEF Link, LeftWire
    <3>3. Flying(n, r)' <= One(window[n] # <<>>)' /\ Flying(r, n)' <= One(window[r] # <<>>)'
      BY <1>c, <2>1, <3>1, <3>2, EmptyQueue DEF Link, Flying, One, Acking
    <3> QED
      BY <1>c, <2>1, <2>2, <3>1, <3>2, <3>3, EmptyQueue
      DEF Link, LeftSender, LeftWire, Answered, Acking
  <2>4. CASE f.type = ACK
    <3>1. /\ HasAck(wire[r]) /\ ~ HasAck(wire'[r])
          /\ HasData(wire'[r]) <=> HasData(wire[r])
          /\ Short(wire'[r])
          /\ f \in Frame
      BY <1>q, <2>1, <2>4, TakeAck DEF Link
    <3> HIDE DEF f
    <3>2. ~ HasData(recvFrames[n]) /\ ~ HasAck(recvFrames[n])
      BY <2>2, <3>1 DEF LeftWire, Link, Flying, One, Acking
    <3>3. recvFrames[n] = <<>>
      BY <1>q, <3>2, NoFrames
    <3>4. Short(recvFrames'[n]) /\ HasAck(recvFrames'[n]) /\ ~ HasData(recvFrames'[n])
      BY <2>1, <2>4, <3>1, <3>3, AppendAck
    <3>5. Flying(n, r)' <= One(window[n] # <<>>)' /\ Flying(r, n)' <= One(window[r] # <<>>)'
      BY <1>c, <2>1, <3>1, <3>2, <3>4 DEF Link, Flying, One, Acking
    <3> QED
      BY <1>c, <2>1, <2>2, <3>1, <3>2, <3>4, <3>5
      DEF Link, LeftSender, LeftWire, Answered, Acking
  <2> QED
    <3>1. f \in Frame
      BY <1>q, <2>1
    <3> QED
      BY <2>3, <2>4, <3>1, FrameTypes
<1>4. CASE ReceiveInvalid(n)
  <2>1. /\ plPC'[n] = "top" /\ plPC'[r] = plPC[r]
        /\ wire[r] # <<>> /\ Head(wire[r]).type = DATA
        /\ wire'[r] = Tail(wire[r]) /\ wire'[n] = wire[n]
        /\ UNCHANGED <<sendFrames, recvFrames>>
    BY <1>a, <1>p, <1>4 DEF ReceiveInvalid, PLGoTo, PLTypeOK
  <2>2. HasData(wire[r]) /\ ~ HasAck(wire[r]) /\ wire'[r] = <<>>
    BY <1>q, <2>1, TakeData DEF Link
  <2>3. Flying(n, r)' <= One(window[n] # <<>>)' /\ Flying(r, n)' <= One(window[r] # <<>>)'
    BY <1>c, <2>1, <2>2, EmptyQueue DEF Link, Flying, One, Acking
  <2> QED
    BY <1>c, <2>1, <2>2, <2>3, EmptyQueue DEF Link, LeftSender, LeftWire, Answered, Acking
<1>5. CASE ReceiveMerged(n)
  <2> DEFINE f == Head(wire[r])
  <2>1. PICK k \in 2 .. Len(wire[r]) : wire' = [wire EXCEPT ![r] = SubSeq(@, k + 1, Len(@))]
    BY <1>5 DEF ReceiveMerged
  <2>2. /\ SubSeq(wire[r], k + 1, Len(wire[r])) = <<>>
        /\ f.type = ACK /\ f \in Frame /\ HasAck(wire[r]) /\ wire[r] # <<>>
    BY <1>q, <2>1, TakeSeveral DEF Link
  <2>3. wire'[r] = <<>> /\ wire'[n] = wire[n]
    BY <1>a, <1>p, <2>1, <2>2 DEF PLTypeOK
  <2>4. /\ plPC'[n] = "top" /\ plPC'[r] = plPC[r]
        /\ UNCHANGED sendFrames
    BY <1>a, <1>p, <1>5 DEF ReceiveMerged, PLGoTo, PLTypeOK
  <2>5. \/ recvFrames' = [recvFrames EXCEPT ![n] = Append(@, f)]
        \/ UNCHANGED recvFrames
    BY <1>5 DEF ReceiveMerged
  <2>6. recvFrames'[r] = recvFrames[r]
    BY <1>a, <1>p, <2>5 DEF SharedTypeOK
  <2> HIDE DEF f
  <2>7. ~ LeftWire(r, n)
    BY <2>2 DEF Link
  <2>8. ~ HasData(recvFrames[n]) /\ ~ HasAck(recvFrames[n])
    BY <2>2, <2>7 DEF LeftWire, Link, Flying, One, Acking
  <2>9. recvFrames[n] = <<>>
    BY <1>q, <2>8, NoFrames
  <2>10. Short(recvFrames'[n]) /\ ~ HasData(recvFrames'[n])
    <3>1. CASE UNCHANGED recvFrames
      BY <2>8, <3>1 DEF Link
    <3>2. CASE recvFrames' = [recvFrames EXCEPT ![n] = Append(@, f)]
      <4>1. recvFrames'[n] = Append(<<>>, f)
        BY <1>a, <2>9, <3>2 DEF SharedTypeOK
      <4> QED
        BY <2>2, <4>1, AppendAck
    <3> QED
      BY <2>5, <3>1, <3>2
  <2>11. Flying(n, r)' <= One(window[n] # <<>>)' /\ Flying(r, n)' <= One(window[r] # <<>>)'
    BY <1>c, <2>2, <2>3, <2>4, <2>6, <2>8, <2>10, EmptyQueue DEF Link, Flying, One, Acking
  <2>12. LeftSender(n, r)' => sendFrames'[n] = <<>>
    BY <1>c, <2>2, <2>3, <2>4, <2>6, <2>8, <2>10 DEF Link, LeftSender, LeftWire, Answered
  <2> QED
    BY <1>c, <2>2, <2>3, <2>4, <2>6, <2>7, <2>8, <2>10, <2>11, <2>12, EmptyQueue
    DEF Link, LeftSender, LeftWire, Answered, Acking
<1>6. CASE RemnantRefused(n)
  <2>1. PICK k \in 0 .. Len(wire[r]) : wire' = [wire EXCEPT ![r] = SubSeq(@, k + 1, Len(@))]
    BY <1>6 DEF RemnantRefused, ReadRemnant
  <2>2. /\ plPC'[n] = "top" /\ plPC'[r] = plPC[r]
        /\ wire'[r] = SubSeq(wire[r], k + 1, Len(wire[r])) /\ wire'[n] = wire[n]
        /\ UNCHANGED <<sendFrames, recvFrames>>
    BY <1>a, <1>p, <1>6, <2>1 DEF RemnantRefused, ReadRemnant, PLGoTo, PLTypeOK
  <2>3. /\ Short(wire'[r])
        /\ HasData(wire'[r]) => HasData(wire[r])
        /\ HasAck(wire'[r]) => HasAck(wire[r])
        /\ wire[r] = <<>> => wire'[r] = <<>>
    BY <1>q, <2>1, <2>2, DropShort DEF Link
  <2>4. Flying(n, r)' <= One(window[n] # <<>>)' /\ Flying(r, n)' <= One(window[r] # <<>>)'
    BY <1>c, <2>2, <2>3 DEF Link, Flying, One, Acking
  <2> QED
    BY <1>c, <2>2, <2>3, <2>4 DEF Link, LeftSender, LeftWire, Answered, Acking
<1> QED
  BY <1>1, <1>2, <1>3, <1>4, <1>5, <1>6, AcceptedBreaks DEF PLThread, PLStep

-----------------------------------------------------------------------------
LEMMA InitWindow == Init => WindowInv
<1> SUFFICES ASSUME Init, NEW s \in Node PROVE Link(s, Peer(s))
  BY DEF WindowInv
<1> DEFINE r == Peer(s)
<1>1. r \in Node
  BY PeerInNode
<1> HIDE DEF r
<1>2. /\ sendFrames[s] = <<>> /\ sendFrames[r] = <<>>
      /\ recvFrames[s] = <<>> /\ recvFrames[r] = <<>>
      /\ wire[s] = <<>> /\ wire[r] = <<>> /\ window[s] = <<>>
      /\ dlPC[s] = "wait" /\ dlPC[r] = "wait" /\ plPC[s] = "top"
  BY <1>1 DEF Init, SharedInit, DLInit, PLInit
<1> QED
  BY <1>2, EmptyQueue DEF r, Link, Flying, One, Acking, LeftSender, LeftWire, Answered

LEMMA NextWindow == TypeInv /\ QueueInv /\ WindowInv /\ [Next]_vars /\ Intact' => WindowInv'
<1> SUFFICES ASSUME TypeInv, QueueInv, WindowInv, [Next]_vars, Intact', NEW s \in Node
             PROVE  Link(s, Peer(s))'
  BY DEF WindowInv
<1>1. ASSUME NEW n \in Node
      PROVE  /\ Link(n, Peer(n)) /\ Link(Peer(n), n)
             /\ s = n \/ (s = Peer(n) /\ Peer(s) = n)
  BY PeerInNode DEF WindowInv, Node, Peer
<1>2. ASSUME NEW n \in Node, Link(n, Peer(n))' /\ Link(Peer(n), n)' PROVE Link(s, Peer(s))'
  BY <1>1, <1>2, PeerInNode
<1>3. ASSUME NEW n \in Node, DLThread(n) PROVE Link(s, Peer(s))'
  <2>1. Link(n, Peer(n))' /\ Link(Peer(n), n)'
    BY <1>1, <1>3, PeerInNode, DLWindow
  <2> QED
    BY <1>2, <1>3, <2>1
<1>4. ASSUME NEW n \in Node, PLThread(n) PROVE Link(s, Peer(s))'
  <2>1. Link(n, Peer(n))' /\ Link(Peer(n), n)'
    BY <1>1, <1>4, PeerInNode, PLWindow
  <2> QED
    BY <1>2, <1>4, <2>1
<1>5. CASE \/ \E n \in Node : AppThread(n) \/ Alarm(n)
          \/ Idle
  <2>1. UNCHANGED <<window, sendFrames, recvFrames, wire, dlPC, plPC>>
    BY <1>5, IdleStep
    DEF AppThread, NLStep, Command, HandleMessage, FromApplicationLayer, ToDataLinkLayer,
        LockRecvPackets, NoPacket, ReceiveAPacket, Alarm, TimerExpires, sharedVars, dlVars, plVars
  <2>2. Link(s, Peer(s))
    BY DEF WindowInv
  <2> QED
    BY <2>1, <2>2 DEF Link, Flying, LeftSender, LeftWire, Answered
<1> QED
  BY <1>3, <1>4, <1>5 DEF Next, Idle

LEMMA WindowHolds == Spec => [](TypeInv /\ QueueInv /\ (Intact => WindowInv))
<1>1. Init => WindowInv
  BY InitWindow
<1>2. TypeInv /\ QueueInv /\ (Intact => WindowInv) /\ [Next]_vars => (Intact => WindowInv)'
  BY IntactBefore, NextWindow
<1> QED
  BY <1>1, <1>2, QueuesHold, PTL DEF Spec

\* GoBack1 keeps one frame or its ack on the way, in one place, and no queue
\* fills up, whatever is lost, as long as the physical layer makes no frame up
\* (DataLink.cpp:60-109, 349-379; PhysicalLayer.cpp:128-148).
THEOREM StopsAndWaits == Spec => []StopAndWait
<1> QED
  BY WindowInvImplies, WindowHolds, PTL

\* The pop of sendFrames without mutSF takes nothing, although the physical
\* layer may be sending, as long as the ack was sent (DataLink.cpp:84-85).
THEOREM AcksPopNothing == Spec => []AckPopsNothing
<1> QED
  BY WindowInvImplies, WindowHolds, PTL

\* The frame that the physical layer saw is still there when it takes it,
\* although the data link thread pops the queue as well, when an ack that was
\* sent comes in (PhysicalLayer.cpp:76-95).
THEOREM QueueStaysUntouched == Spec => []QueueUntouched
<1> QED
  BY WindowInvImplies, WindowHolds, PTL

-----------------------------------------------------------------------------
(* Sequence numbers.                                                       *)

\* The number of the first frame of ready, or of the next one to be made.
NextNo(s) == IF ready[s] = <<>> THEN nextSend[s] ELSE ready[s][1].seq

\* No data frame of q has another number than k.
Numbered(q, k) == \A i \in 1 .. Len(q) : q[i].type = DATA => q[i].seq = k

\* s's first frame is not sent, or not acknowledged.
Unanswered(s, r) ==
  \/ window[s] = <<>> \/ dlPC[s] = "pushFrame" \/ dlPC[r] \in Acking
  \/ HasData(sendFrames[s]) \/ HasData(wire[s]) \/ HasData(recvFrames[r])

\* The two ends agree on the next number, or differ by the frame whose ack is on
\* its way.  When a frame or an ack is lost, neither Unanswered nor Answered
\* holds any more: s waits for ever.
Numbers(s, r) ==
  /\ Numbered(sendFrames[s], frameExpect[r])
  /\ Numbered(wire[s], frameExpect[r])
  /\ Numbered(recvFrames[r], frameExpect[r])
  /\ Unanswered(s, r) => NextNo(s) = frameExpect[r]
  /\ Answered(s, r) => Inc(NextNo(s)) = frameExpect[r]

NumberInv == \A s \in Node : Numbers(s, Peer(s))

LEMMA NoDataNumbered ==
  ASSUME NEW q, ~ HasData(q), NEW k
  PROVE  Numbered(q, k)
BY DEF HasData, Numbered

LEMMA TakeAny ==
  ASSUME NEW q \in Seq(Frame), q # <<>>
  PROVE  /\ Head(q) \in Frame
         /\ HasData(Tail(q)) => HasData(q)
         /\ HasAck(Tail(q)) => HasAck(q)
         /\ Head(q).type = DATA => HasData(q)
         /\ Head(q).type = ACK => HasAck(q)
         /\ \A k : Numbered(q, k) =>
                   Numbered(Tail(q), k) /\ (Head(q).type = DATA => Head(q).seq = k)
<1>1. Len(q) \in Nat /\ Len(q) > 0 /\ Head(q) = q[1] /\ q[1] \in Frame
  BY NonEmptyLen, ElementOfSeq
<1>2. /\ Tail(q) \in Seq(Frame) /\ Len(Tail(q)) = Len(q) - 1
      /\ \A i \in 1 .. Len(q) - 1 : Tail(q)[i] = q[i + 1]
  BY TailFacts
<1>3. \A i \in 1 .. Len(Tail(q)) : i + 1 \in 1 .. Len(q) /\ Tail(q)[i] = q[i + 1]
  BY <1>1, <1>2
<1>4. 1 \in 1 .. Len(q)
  BY <1>1
<1> QED
  BY <1>1, <1>3, <1>4 DEF HasData, HasAck, Numbered

LEMMA PutAny ==
  ASSUME NEW q \in Seq(Frame), NEW f \in Frame
  PROVE  /\ HasData(Append(q, f)) => HasData(q) \/ f.type = DATA
         /\ HasAck(Append(q, f)) => HasAck(q) \/ f.type = ACK
         /\ \A k : Numbered(q, k) /\ (f.type = DATA => f.seq = k) => Numbered(Append(q, f), k)
<1>1. Len(q) \in Nat
  BY LenProperties
<1>2. /\ Len(Append(q, f)) = Len(q) + 1 /\ Append(q, f)[Len(q) + 1] = f
      /\ \A i \in 1 .. Len(q) : Append(q, f)[i] = q[i]
  BY AppendProperties
<1>3. \A i \in 1 .. Len(Append(q, f)) :
        \/ i \in 1 .. Len(q) /\ Append(q, f)[i] = q[i]
        \/ Append(q, f)[i] = f
  BY <1>1, <1>2
<1> QED
  BY <1>3 DEF HasData, HasAck, Numbered

LEMMA DropSeveral ==
  ASSUME NEW q \in Seq(Frame), NEW k \in 0 .. Len(q)
  PROVE  /\ HasData(SubSeq(q, k + 1, Len(q))) => HasData(q)
         /\ HasAck(SubSeq(q, k + 1, Len(q))) => HasAck(q)
         /\ \A l : Numbered(q, l) => Numbered(SubSeq(q, k + 1, Len(q)), l)
<1> DEFINE t == SubSeq(q, k + 1, Len(q))
<1>1. Len(q) \in Nat /\ k \in Nat /\ k <= Len(q)
  BY LenProperties
<1>2. /\ Len(t) = Len(q) - k
      /\ \A i \in 1 .. Len(q) - k : t[i] = q[k + i]
  BY <1>1
<1> HIDE DEF t
<1>3. \A i \in 1 .. Len(t) : k + i \in 1 .. Len(q) /\ t[i] = q[k + i]
  BY <1>1, <1>2
<1> QED
  BY <1>3 DEF t, HasData, HasAck, Numbered

\* Steps that only go on to another place, and Fetch.
LEMMA NumbersPlace ==
  ASSUME NEW s, NEW r, Numbers(s, r), Numbers(r, s),
         window'[s] = window[s] /\ window'[r] = window[r],
         sendFrames'[s] = sendFrames[s] /\ sendFrames'[r] = sendFrames[r],
         wire'[s] = wire[s] /\ wire'[r] = wire[r],
         recvFrames'[s] = recvFrames[s] /\ recvFrames'[r] = recvFrames[r],
         frameExpect'[s] = frameExpect[s] /\ frameExpect'[r] = frameExpect[r],
         NextNo(s)' = NextNo(s), NextNo(r)' = NextNo(r), dlPC'[r] = dlPC[r],
         dlPC'[s] = "pushFrame" => dlPC[s] = "pushFrame",
         dlPC'[s] \in Acking => dlPC[s] \in Acking
  PROVE  Numbers(s, r)' /\ Numbers(r, s)'
BY DEF Numbers, Unanswered, Answered, Acking

LEMMA ConcatFirst ==
  ASSUME NEW S, NEW q \in Seq(S), NEW t \in Seq(S), q # <<>>
  PROVE  q \o t # <<>> /\ (q \o t)[1] = q[1]
<1>1. Len(q) \in Nat /\ Len(q) > 0 /\ Len(t) \in Nat
  BY NonEmptyLen
<1>2. /\ q \o t \in Seq(S) /\ Len(q \o t) = Len(q) + Len(t)
      /\ \A i \in 1 .. Len(q) + Len(t) :
           (q \o t)[i] = IF i <= Len(q) THEN q[i] ELSE t[i - Len(q)]
  BY ConcatProperties
<1>3. 1 \in 1 .. Len(q) + Len(t) /\ 1 <= Len(q) /\ Len(q) + Len(t) > 0
  BY <1>1
<1> QED
  BY <1>2, <1>3, NonEmptyLen

\* The ack pops the front of ready, and the next frame has the next number.
LEMMA PopNextNo ==
  ASSUME TypeInv, QueueInv, NEW n \in Node, window[n] # <<>>,
         ready'[n] = PopFront(ready[n]), nextSend'[n] = nextSend[n]
  PROVE  NextNo(n)' = Inc(NextNo(n))
<1>1. ready[n] # <<>> /\ ready[n] \in Seq(DataFrame) /\ InOrder(ready[n], nextSend[n])
  BY QueueInvAt DEF QueuesAt, TypeInv, TypeOK, DLTypeOK
<1>2. Len(ready[n]) \in Nat /\ Len(ready[n]) > 0
  BY <1>1, NonEmptyLen
<1>3. /\ ready'[n] = Tail(ready[n]) /\ Tail(ready[n]) \in Seq(DataFrame)
      /\ Len(Tail(ready[n])) = Len(ready[n]) - 1
      /\ \A i \in 1 .. Len(ready[n]) - 1 : Tail(ready[n])[i] = ready[n][i + 1]
  BY <1>1, TailFacts DEF PopFront
<1>k. \/ Len(ready[n]) = 1 /\ Len(ready[n]) - 1 = 0
      \/ Len(ready[n]) > 1 /\ 1 \in 1 .. Len(ready[n]) - 1
  <2>1. \A k \in Nat : k > 0 => k = 1 \/ k > 1
    OBVIOUS
  <2>2. \A k \in Nat : k > 1 => 1 \in 1 .. k - 1
    OBVIOUS
  <2>3. 1 - 1 = 0
    OBVIOUS
  <2> QED
    BY <1>2, <2>1, <2>2, <2>3, Zenon
<1>4. CASE Len(ready[n]) = 1 /\ Len(ready[n]) - 1 = 0
  <2>1. Len(ready'[n]) = 0 /\ ready'[n] \in Seq(DataFrame)
    BY <1>3, <1>4, Zenon
  <2>2. ready'[n] = <<>>
    BY <2>1, EmptySeq, Zenon
  <2> QED
    BY <1>1, <1>4, <2>2 DEF InOrder, NextNo
<1>5. CASE Len(ready[n]) > 1 /\ 1 \in 1 .. Len(ready[n]) - 1
  <2>1. ready'[n] # <<>> /\ ready'[n][1] = ready[n][1 + 1]
    BY <1>1, <1>3, <1>5, TailNonEmpty, Zenon
  <2>2. ready[n][1 + 1].seq = Inc(ready[n][1].seq)
    BY <1>1, <1>5, Zenon DEF InOrder
  <2> QED
    BY <1>1, <2>1, <2>2 DEF NextNo
<1> QED
  BY <1>k, <1>4, <1>5

LEMMA FetchNextNo ==
  ASSUME TypeInv, NEW n \in Node, Fetch(n)
  PROVE  NextNo(n)' = NextNo(n)
<1>a. SharedTypeOK /\ DLTypeOK
  BY DEF TypeInv, TypeOK
<1>1. CASE MayFetch(n) /\ sendPackets[n] # <<>>
  <2> DEFINE p == Head(sendPackets[n])
             t == MakeFrames(p, nextSend[n])
  <2>1. p \in Packet /\ nextSend[n] \in SeqNo /\ ready[n] \in Seq(DataFrame)
    BY <1>a, <1>1 DEF SharedTypeOK, DLTypeOK
  <2>2. ready'[n] = ready[n] \o t
    BY <1>a, <1>1 DEF Fetch, DLTypeOK
  <2>3. t \in Seq(DataFrame) /\ t # <<>> /\ t[1].seq = nextSend[n]
    BY <2>1, MadeInOrder, MakeFramesType
  <2> HIDE DEF p, t
  <2>4. CASE ready[n] = <<>>
    BY <2>2, <2>3, <2>4, ConcatProperties DEF NextNo
  <2>5. CASE ready[n] # <<>>
    <3>1. ready'[n] # <<>> /\ ready'[n][1] = ready[n][1]
      BY <2>1, <2>2, <2>3, <2>5, ConcatFirst
    <3> QED
      BY <2>5, <3>1 DEF NextNo
  <2> QED
    BY <2>4, <2>5
<1>2. CASE ~ (MayFetch(n) /\ sendPackets[n] # <<>>)
  BY <1>2 DEF Fetch, NextNo
<1> QED
  BY <1>1, <1>2

LEMMA DLNumbers ==
  ASSUME TypeInv, QueueInv, NEW n \in Node, NEW r \in Node, r = Peer(n),
         Link(n, r), Link(r, n), Numbers(n, r), Numbers(r, n), DLThread(n)
  PROVE  Numbers(n, r)' /\ Numbers(r, n)'
<1>a. SharedTypeOK /\ DLTypeOK
  BY DEF TypeInv, TypeOK
<1>p. r # n
  BY PeerInNode
<1>c. UNCHANGED wire
  BY DEF DLThread, plVars
<1>q. /\ sendFrames[n] \in Seq(Frame) /\ recvFrames[n] \in Seq(Frame)
      /\ ready[n] \in Seq(DataFrame) /\ frameExpect[n] \in SeqNo
  BY <1>a DEF SharedTypeOK, DLTypeOK
<1>1. CASE \/ TimeoutEvent(n) \/ ArrivalEvent(n) \/ PacketEvent(n)
          \/ NothingReady(n) \/ FrameRefused(n)
  <2>1. /\ dlPC'[n] \in {"receive", "fetch", "wait"} /\ dlPC'[r] = dlPC[r]
        /\ UNCHANGED <<window, sendFrames, recvFrames, ready, nextSend, frameExpect>>
    BY <1>a, <1>p, <1>1 DEF TimeoutEvent, ArrivalEvent, PacketEvent, NothingReady, FrameRefused,
                            GoTo, DLTypeOK, sharedVars
  <2>2. NextNo(n)' = NextNo(n) /\ NextNo(r)' = NextNo(r)
    BY <2>1 DEF NextNo
  <2> QED
    BY <1>c, <2>1, <2>2, NumbersPlace DEF Acking
<1>2. CASE CheckRecvPackets(n) \/ DeliverPacket(n) \/ AckLocked(n)
  <2>1. /\ dlPC'[n] # "pushFrame" /\ dlPC[n] \in Acking /\ dlPC'[r] = dlPC[r]
        /\ UNCHANGED <<window, sendFrames, recvFrames, ready, nextSend, frameExpect>>
    BY <1>a, <1>p, <1>2 DEF CheckRecvPackets, DeliverPacket, AckLocked, GoTo, DLTypeOK, Acking
  <2>2. NextNo(n)' = NextNo(n) /\ NextNo(r)' = NextNo(r)
    BY <2>1 DEF NextNo
  <2> QED
    BY <1>c, <2>1, <2>2, NumbersPlace
<1>3. CASE Fetch(n)
  <2>1. /\ dlPC'[n] = "send" /\ dlPC'[r] = dlPC[r]
        /\ ready'[r] = ready[r] /\ nextSend'[r] = nextSend[r]
        /\ UNCHANGED <<window, sendFrames, recvFrames, frameExpect>>
    BY <1>a, <1>p, <1>3 DEF Fetch, GoTo, DLTypeOK
  <2>2. NextNo(n)' = NextNo(n) /\ NextNo(r)' = NextNo(r)
    BY <1>3, <2>1, FetchNextNo DEF NextNo
  <2> QED
    BY <1>c, <2>1, <2>2, NumbersPlace DEF Acking
<1>4. CASE PopSendFrames(n)
  <2>1. /\ dlPC[n] = "ackSF" /\ dlPC'[n] = "ackRF" /\ dlPC'[r] = dlPC[r]
        /\ sendFrames'[n] = PopFront(sendFrames[n]) /\ sendFrames'[r] = sendFrames[r]
        /\ UNCHANGED <<window, recvFrames, ready, nextSend, frameExpect>>
    BY <1>a, <1>p, <1>4 DEF PopSendFrames, GoTo, DLTypeOK, SharedTypeOK
  <2>2. sendFrames'[n] = sendFrames[n]
    BY <2>1 DEF Link, PopFront
  <2>3. NextNo(n)' = NextNo(n) /\ NextNo(r)' = NextNo(r)
    BY <2>1 DEF NextNo
  <2> QED
    BY <1>c, <2>1, <2>2, <2>3, NumbersPlace DEF Acking
<1>5. CASE PopRecvFrames(n)
  <2>1. /\ dlPC'[n] = "fetch" /\ dlPC'[r] = dlPC[r]
        /\ recvFrames'[n] = PopFront(recvFrames[n]) /\ recvFrames'[r] = recvFrames[r]
        /\ UNCHANGED <<window, sendFrames, ready, nextSend, frameExpect>>
    BY <1>a, <1>p, <1>5 DEF PopRecvFrames, GoTo, DLTypeOK, SharedTypeOK
  <2>2. /\ HasData(recvFrames'[n]) => HasData(recvFrames[n])
        /\ HasAck(recvFrames'[n]) => HasAck(recvFrames[n])
        /\ Numbered(recvFrames'[n], frameExpect[n])
    BY <1>q, <2>1, TakeAny DEF PopFront, Numbers
  <2>3. NextNo(n)' = NextNo(n) /\ NextNo(r)' = NextNo(r)
    BY <2>1 DEF NextNo
  <2> QED
    BY <1>c, <2>1, <2>2, <2>3 DEF Numbers, Unanswered, Answered, Acking
<1>6. CASE ReceiveAck(n)
  <2>1. /\ dlPC[n] = "receive" /\ dlPC'[n] = "ackSF" /\ dlPC'[r] = dlPC[r]
        /\ recvFrames[n] # <<>> /\ Head(recvFrames[n]).type = ACK
        /\ recvFrames'[n] = Tail(recvFrames[n]) /\ recvFrames'[r] = recvFrames[r]
        /\ window'[n] = PopFront(window[n]) /\ window'[r] = window[r]
        /\ ready'[n] = PopFront(ready[n]) /\ ready'[r] = ready[r]
        /\ UNCHANGED <<sendFrames, nextSend, frameExpect>>
    BY <1>a, <1>p, <1>6 DEF ReceiveAck, FromPhysicalLayer, GoTo, DLTypeOK, SharedTypeOK
  <2>2. /\ HasAck(recvFrames[n]) /\ ~ HasAck(recvFrames'[n])
        /\ HasData(recvFrames'[n]) <=> HasData(recvFrames[n])
        /\ Numbered(recvFrames'[n], frameExpect[n])
    BY <1>q, <2>1, TakeAck, TakeAny DEF Link, Numbers
  <2>3. window[n] # <<>>
    BY <2>2 DEF Link, Flying, One
  <2>4. ~ Answered(n, r)'
    BY <1>c, <2>1, <2>2 DEF Link, Flying, One, Answered
  <2>5. NextNo(n)' = Inc(NextNo(n))
    BY <1>q, <2>1, <2>3, PopNextNo
  <2>6. NextNo(r)' = NextNo(r)
    BY <2>1 DEF NextNo
  <2>7. Numbers(n, r)'
    BY <1>c, <2>1, <2>2, <2>4, <2>5 DEF Numbers, Answered
  <2>8. Numbers(r, n)'
    BY <1>c, <2>1, <2>2, <2>6 DEF Numbers, Unanswered, Answered, Acking
  <2> QED
    BY <2>7, <2>8
<1>7. CASE ReceiveData(n)
  <2>1. /\ dlPC'[n] \in {"fetch", "up", "sendAck"} /\ dlPC'[r] = dlPC[r]
        /\ recvFrames[n] # <<>> /\ Head(recvFrames[n]).type = DATA
        /\ recvFrames'[n] = Tail(recvFrames[n]) /\ recvFrames'[r] = recvFrames[r]
        /\ UNCHANGED <<window, sendFrames, ready, nextSend, frameExpect>>
    BY <1>a, <1>p, <1>7 DEF ReceiveData, FromPhysicalLayer, GoTo, DLTypeOK, SharedTypeOK
  <2>2. /\ HasData(recvFrames[n])
        /\ HasAck(recvFrames'[n]) => HasAck(recvFrames[n])
        /\ Numbered(recvFrames'[n], frameExpect[n])
    BY <1>q, <2>1, TakeAny DEF Numbers
  <2>3. NextNo(n)' = NextNo(n) /\ NextNo(r)' = NextNo(r)
    BY <2>1 DEF NextNo
  <2>4. Unanswered(r, n)
    BY <2>2 DEF Unanswered
  <2> QED
    BY <1>c, <2>1, <2>2, <2>3, <2>4 DEF Numbers, Unanswered, Answered, Acking
<1>8. CASE AckRefused(n) \/ AckNotLocked(n)
  <2>1. /\ dlPC[n] \in Acking /\ dlPC'[n] = "fetch" /\ dlPC'[r] = dlPC[r]
        /\ frameExpect'[r] = frameExpect[r]
        /\ UNCHANGED <<window, sendFrames, recvFrames, ready, nextSend>>
    BY <1>a, <1>p, <1>8 DEF AckRefused, AckNotLocked, GoTo, DLTypeOK, Acking
  <2>2. ~ HasData(sendFrames[r]) /\ ~ HasData(wire[r]) /\ ~ HasData(recvFrames[n])
        /\ ~ Answered(r, n) /\ window[r] # <<>> /\ dlPC[r] # "pushFrame"
    BY <2>1 DEF Link, Flying, One, Answered
  <2>3. NextNo(n)' = NextNo(n)
    BY <2>1 DEF NextNo
  <2>4. Numbers(n, r)'
    BY <1>c, <2>1, <2>3 DEF Numbers, Unanswered, Answered, Acking
  <2>5. Numbers(r, n)'
    BY <1>c, <2>1, <2>2, NoDataNumbered DEF Numbers, Unanswered, Answered, Acking
  <2> QED
    BY <2>4, <2>5
<1>9. CASE PushAck(n)
  <2> DEFINE a == Ack(frameExpect[n])
  <2>1. /\ dlPC[n] \in Acking /\ dlPC'[n] = "fetch" /\ dlPC'[r] = dlPC[r]
        /\ frameExpect'[n] = Inc(frameExpect[n]) /\ frameExpect'[r] = frameExpect[r]
        /\ sendFrames'[n] = Append(sendFrames[n], a) /\ sendFrames'[r] = sendFrames[r]
        /\ UNCHANGED <<window, recvFrames, ready, nextSend>>
    BY <1>a, <1>p, <1>9 DEF PushAck, GoTo, DLTypeOK, SharedTypeOK, Acking
  <2>2. a \in Frame /\ a.type # DATA
    BY <1>q, AckInFrame DEF Ack, ACK, DATA
  <2> HIDE DEF a
  <2>3. /\ HasData(sendFrames'[n]) => HasData(sendFrames[n])
        /\ Numbered(sendFrames'[n], frameExpect[r])
    BY <1>q, <2>1, <2>2, PutAny DEF Numbers
  <2>4. ~ HasData(sendFrames[r]) /\ ~ HasData(wire[r]) /\ ~ HasData(recvFrames[n])
        /\ window[r] # <<>> /\ dlPC[r] # "pushFrame"
    BY <2>1 DEF Link, Flying, One
  <2>5. NextNo(n)' = NextNo(n) /\ NextNo(r)' = NextNo(r)
    BY <2>1 DEF NextNo
  <2>6. Numbers(n, r)'
    BY <1>c, <2>1, <2>3, <2>5 DEF Numbers, Unanswered, Answered, Acking
  <2>7. NextNo(r) = frameExpect[n]
    BY <2>1 DEF Numbers, Unanswered
  <2>8. Numbers(r, n)'
    BY <1>c, <2>1, <2>4, <2>5, <2>7, NoDataNumbered DEF Numbers, Unanswered, Acking
  <2> QED
    BY <2>6, <2>8
<1>10. CASE FrameNotLocked(n) \/ FrameLocked(n)
  <2>1. /\ dlPC'[n] \in {"wait", "pushFrame"} /\ dlPC'[r] = dlPC[r]
        /\ ~ WindowFull(n) /\ window'[r] = window[r]
        /\ UNCHANGED <<sendFrames, recvFrames, ready, nextSend, frameExpect>>
    BY <1>a, <1>p, <1>10 DEF FrameNotLocked, FrameLocked, GoTo, DLTypeOK
  <2>2. window[n] = <<>>
    BY <2>1, WindowEmpty
  <2>3. NextNo(n)' = NextNo(n) /\ NextNo(r)' = NextNo(r)
    BY <2>1 DEF NextNo
  <2> QED
    BY <1>c, <2>1, <2>2, <2>3 DEF Numbers, Unanswered, Answered, Acking
<1>11. CASE PushFrame(n)
  <2> DEFINE f == Head(ready[n])
  <2>1. /\ dlPC[n] = "pushFrame" /\ dlPC'[n] = "wait" /\ dlPC'[r] = dlPC[r]
        /\ sendFrames'[n] = Append(sendFrames[n], f) /\ sendFrames'[r] = sendFrames[r]
        /\ UNCHANGED <<window, recvFrames, ready, nextSend, frameExpect>>
    BY <1>a, <1>p, <1>11 DEF PushFrame, GoTo, DLTypeOK, SharedTypeOK
  <2>2. f \in Frame /\ f.type = DATA /\ f.seq = NextNo(n)
    <3>1. ready[n] # <<>>
      BY <2>1 DEF TypeInv, Pending
    <3>2. f \in DataFrame /\ f = ready[n][1]
      BY <1>q, <3>1
    <3> QED
      BY <3>1, <3>2 DEF Frame, DataFrame, NextNo
  <2> HIDE DEF f
  <2>3. NextNo(n) = frameExpect[r]
    BY <2>1 DEF Numbers, Unanswered
  <2>4. /\ HasAck(sendFrames'[n]) => HasAck(sendFrames[n])
        /\ Numbered(sendFrames'[n], frameExpect[r])
    <3>1. f.type # ACK
      BY <2>2, FrameTypes
    <3> QED
      BY <1>q, <2>1, <2>2, <2>3, <3>1, PutAny DEF Numbers
  <2>5. NextNo(n)' = NextNo(n) /\ NextNo(r)' = NextNo(r)
    BY <2>1 DEF NextNo
  <2>6. Numbers(n, r)'
    BY <1>c, <2>1, <2>3, <2>4, <2>5 DEF Numbers, Answered
  <2>7. Numbers(r, n)'
    BY <1>c, <2>1, <2>4, <2>5 DEF Numbers, Unanswered, Answered, Acking
  <2> QED
    BY <2>6, <2>7
<1> QED
  BY <1>1, <1>2, <1>3, <1>4, <1>5, <1>6, <1>7, <1>8, <1>9, <1>10, <1>11 DEF DLThread, DLStep

\* A frame moves on: what holds of the places it leaves and reaches together.
LEMMA PLNumbers ==
  ASSUME TypeInv, NEW n \in Node, NEW r \in Node, r = Peer(n),
         Numbers(n, r), Numbers(r, n), PLThread(n), Intact'
  PROVE  Numbers(n, r)' /\ Numbers(r, n)'
<1>a. SharedTypeOK /\ PLTypeOK
  BY DEF TypeInv, TypeOK
<1>p. r # n
  BY PeerInNode
<1>c. /\ UNCHANGED <<dlPC, window, frameExpect>>
      /\ NextNo(n)' = NextNo(n) /\ NextNo(r)' = NextNo(r)
  BY DEF PLThread, dlVars, NextNo
<1>q. /\ sendFrames[n] \in Seq(Frame) /\ recvFrames[n] \in Seq(Frame)
      /\ wire[n] \in Seq(Frame) /\ wire[r] \in Seq(Frame)
  BY <1>a DEF SharedTypeOK, PLTypeOK
<1>f. \A f \in Frame : f.type = DATA <=> f.type # ACK
  BY FrameTypes
<1>1. CASE UNCHANGED <<sendFrames, recvFrames, wire>>
  BY <1>c, <1>1 DEF Numbers, Unanswered, Answered
<1>2. CASE SendAFrame(n) /\ sendFrames[n] # <<>>
  <2> DEFINE f == Head(sendFrames[n])
  <2>1. /\ sendFrames'[n] = Tail(sendFrames[n]) /\ sendFrames'[r] = sendFrames[r]
        /\ wire'[n] = Append(wire[n], f) /\ wire'[r] = wire[r]
        /\ UNCHANGED recvFrames
    BY <1>a, <1>p, <1>2 DEF SendAFrame, SharedTypeOK, PLTypeOK
  <2>2. /\ f \in Frame
        /\ f.type = DATA => HasData(sendFrames[n])
        /\ f.type = ACK => HasAck(sendFrames[n])
        /\ HasData(sendFrames'[n]) => HasData(sendFrames[n])
        /\ HasAck(sendFrames'[n]) => HasAck(sendFrames[n])
        /\ Numbered(sendFrames'[n], frameExpect[r])
        /\ f.type = DATA => f.seq = frameExpect[r]
    BY <1>q, <1>2, <2>1, TakeAny DEF Numbers
  <2> HIDE DEF f
  <2>3. /\ HasData(wire'[n]) => HasData(wire[n]) \/ HasData(sendFrames[n])
        /\ HasAck(wire'[n]) => HasAck(wire[n]) \/ HasAck(sendFrames[n])
        /\ Numbered(wire'[n], frameExpect[r])
    BY <1>q, <2>1, <2>2, PutAny DEF Numbers
  <2> QED
    BY <1>c, <2>1, <2>2, <2>3 DEF Numbers, Unanswered, Answered
<1>3. CASE /\ wire[r] # <<>> /\ wire' = [wire EXCEPT ![r] = Tail(@)]
           /\ UNCHANGED sendFrames
           /\ \/ UNCHANGED recvFrames
              \/ recvFrames' = [recvFrames EXCEPT ![n] = Append(@, Head(wire[r]))]
  <2> DEFINE f == Head(wire[r])
  <2>1. /\ wire'[r] = Tail(wire[r]) /\ wire'[n] = wire[n]
        /\ recvFrames'[n] = recvFrames[n] \/ recvFrames'[n] = Append(recvFrames[n], f)
        /\ recvFrames'[r] = recvFrames[r]
    BY <1>a, <1>p, <1>3 DEF SharedTypeOK, PLTypeOK
  <2>2. /\ f \in Frame
        /\ f.type = DATA => HasData(wire[r])
        /\ f.type = ACK => HasAck(wire[r])
        /\ HasData(wire'[r]) => HasData(wire[r])
        /\ HasAck(wire'[r]) => HasAck(wire[r])
        /\ Numbered(wire'[r], frameExpect[n])
        /\ f.type = DATA => f.seq = frameExpect[n]
    BY <1>q, <1>3, <2>1, TakeAny DEF Numbers
  <2> HIDE DEF f
  <2>3. /\ HasData(recvFrames'[n]) => HasData(recvFrames[n]) \/ HasData(wire[r])
        /\ HasAck(recvFrames'[n]) => HasAck(recvFrames[n]) \/ HasAck(wire[r])
        /\ Numbered(recvFrames'[n], frameExpect[n])
    BY <1>q, <2>1, <2>2, PutAny DEF Numbers
  <2> QED
    BY <1>c, <1>3, <2>1, <2>2, <2>3 DEF Numbers, Unanswered, Answered
<1>4. CASE ReceiveMerged(n)
  <2> DEFINE f == Head(wire[r])
  <2>1. PICK k \in 2 .. Len(wire[r]) : wire' = [wire EXCEPT ![r] = SubSeq(@, k + 1, Len(@))]
    BY <1>4 DEF ReceiveMerged
  <2>2. wire[r] # <<>>
    <3>1. \A l : (\E i \in 2 .. l : TRUE) => l # 0
      OBVIOUS
    <3> QED
      BY <2>1, <3>1, EmptySeq, Zenon
  <2>3. /\ wire'[r] = SubSeq(wire[r], k + 1, Len(wire[r])) /\ wire'[n] = wire[n]
        /\ UNCHANGED sendFrames
        /\ recvFrames'[n] = recvFrames[n] \/ recvFrames'[n] = Append(recvFrames[n], f)
        /\ recvFrames'[r] = recvFrames[r]
    <3>1. \/ recvFrames' = [recvFrames EXCEPT ![n] = Append(@, f)]
          \/ UNCHANGED recvFrames
      BY <1>4 DEF ReceiveMerged
    <3> QED
      BY <1>a, <1>p, <1>4, <2>1, <3>1 DEF ReceiveMerged, SharedTypeOK, PLTypeOK
  <2>4. /\ f \in Frame
        /\ f.type = DATA => HasData(wire[r])
        /\ f.type = ACK => HasAck(wire[r])
        /\ f.type = DATA => f.seq = frameExpect[n]
    BY <1>q, <2>2, TakeAny DEF Numbers
  <2>5. /\ HasData(wire'[r]) => HasData(wire[r])
        /\ HasAck(wire'[r]) => HasAck(wire[r])
        /\ Numbered(wire'[r], frameExpect[n])
    <3>1. k \in 0 .. Len(wire[r])
      BY <2>1
    <3> QED
      BY <1>q, <2>3, <3>1, DropSeveral DEF Numbers
  <2> HIDE DEF f
  <2>6. /\ HasData(recvFrames'[n]) => HasData(recvFrames[n]) \/ HasData(wire[r])
        /\ HasAck(recvFrames'[n]) => HasAck(recvFrames[n]) \/ HasAck(wire[r])
        /\ Numbered(recvFrames'[n], frameExpect[n])
    BY <1>q, <2>3, <2>4, PutAny DEF Numbers
  <2> QED
    BY <1>c, <2>3, <2>4, <2>5, <2>6 DEF Numbers, Unanswered, Answered
<1>5. CASE TryLockSendFrames(n) \/ CheckSendFrames(n) \/ Unlock(n) \/ ReceiveNothing(n)
  BY <1>1, <1>5 DEF TryLockSendFrames, CheckSendFrames, Unlock, ReceiveNothing, sharedVars
<1>6. CASE SendAFrame(n) /\ sendFrames[n] = <<>>
  BY <1>1, <1>6 DEF SendAFrame
<1>7. CASE ReceiveOne(n) \/ ReceiveInvalid(n)
  BY <1>3, <1>7 DEF ReceiveOne, ReceiveInvalid
<1>8. CASE RemnantRefused(n)
  <2>1. PICK k \in 0 .. Len(wire[r]) : wire' = [wire EXCEPT ![r] = SubSeq(@, k + 1, Len(@))]
    BY <1>8 DEF RemnantRefused, ReadRemnant
  <2>2. /\ wire'[r] = SubSeq(wire[r], k + 1, Len(wire[r])) /\ wire'[n] = wire[n]
        /\ UNCHANGED <<sendFrames, recvFrames>>
    BY <1>a, <1>p, <1>8, <2>1 DEF RemnantRefused, ReadRemnant, PLTypeOK
  <2>3. /\ HasData(wire'[r]) => HasData(wire[r])
        /\ HasAck(wire'[r]) => HasAck(wire[r])
        /\ Numbered(wire'[r], frameExpect[n])
    BY <1>q, <2>1, <2>2, DropSeveral DEF Numbers
  <2> QED
    BY <1>c, <2>2, <2>3 DEF Numbers, Unanswered, Answered
<1> QED
  BY <1>2, <1>4, <1>5, <1>6, <1>7, <1>8, AcceptedBreaks DEF PLThread, PLStep

LEMMA InitNumbers == Init => NumberInv
<1> SUFFICES ASSUME Init, NEW s \in Node PROVE Numbers(s, Peer(s))
  BY DEF NumberInv
<1> DEFINE r == Peer(s)
<1>1. r \in Node
  BY PeerInNode
<1> HIDE DEF r
<1>2. /\ sendFrames[s] = <<>> /\ sendFrames[r] = <<>>
      /\ recvFrames[s] = <<>> /\ recvFrames[r] = <<>>
      /\ wire[s] = <<>> /\ wire[r] = <<>> /\ ready[s] = <<>>
      /\ nextSend[s] = 0 /\ frameExpect[r] = 0
  BY <1>1 DEF Init, SharedInit, DLInit, PLInit
<1> QED
  BY <1>2, EmptyQueue, NoDataNumbered DEF r, Numbers, NextNo, Answered

LEMMA NextNumbers ==
  TypeInv /\ QueueInv /\ WindowInv /\ NumberInv /\ [Next]_vars /\ Intact' => NumberInv'
<1> SUFFICES ASSUME TypeInv, QueueInv, WindowInv, NumberInv, [Next]_vars, Intact', NEW s \in Node
             PROVE  Numbers(s, Peer(s))'
  BY DEF NumberInv
<1>1. ASSUME NEW n \in Node
      PROVE  /\ Link(n, Peer(n)) /\ Link(Peer(n), n)
             /\ Numbers(n, Peer(n)) /\ Numbers(Peer(n), n)
             /\ s = n \/ (s = Peer(n) /\ Peer(s) = n)
  BY PeerInNode DEF WindowInv, NumberInv, Node, Peer
<1>2. ASSUME NEW n \in Node, Numbers(n, Peer(n))' /\ Numbers(Peer(n), n)'
      PROVE  Numbers(s, Peer(s))'
  BY <1>1, <1>2, PeerInNode
<1>3. ASSUME NEW n \in Node, DLThread(n) PROVE Numbers(s, Peer(s))'
  <2>1. Numbers(n, Peer(n))' /\ Numbers(Peer(n), n)'
    BY <1>1, <1>3, PeerInNode, DLNumbers
  <2> QED
    BY <1>2, <1>3, <2>1
<1>4. ASSUME NEW n \in Node, PLThread(n) PROVE Numbers(s, Peer(s))'
  <2>1. Numbers(n, Peer(n))' /\ Numbers(Peer(n), n)'
    BY <1>1, <1>4, PeerInNode, PLNumbers
  <2> QED
    BY <1>2, <1>4, <2>1
<1>5. CASE \/ \E n \in Node : AppThread(n) \/ Alarm(n)
          \/ Idle
  <2>1. UNCHANGED <<window, ready, nextSend, frameExpect, sendFrames, recvFrames, wire, dlPC>>
    BY <1>5, IdleStep
    DEF AppThread, NLStep, Command, HandleMessage, FromApplicationLayer, ToDataLinkLayer,
        LockRecvPackets, NoPacket, ReceiveAPacket, Alarm, TimerExpires, sharedVars, dlVars, plVars
  <2>2. Numbers(s, Peer(s))
    BY DEF NumberInv
  <2> QED
    BY <2>1, <2>2 DEF Numbers, Unanswered, Answered, NextNo
<1> QED
  BY <1>3, <1>4, <1>5 DEF Next, Idle

\* As long as every frame was sent, all of it holds.
Sound == Intact => WindowInv /\ NumberInv

LEMMA NumbersHold == Spec => [](TypeInv /\ QueueInv /\ Sound)
<1>1. Init => Sound
  BY InitWindow, InitNumbers DEF Sound
<1>2. TypeInv /\ QueueInv /\ Sound /\ [Next]_vars => Sound'
  BY IntactBefore, NextWindow, NextNumbers DEF Sound
<1> QED
  BY <1>1, <1>2, QueuesHold, PTL DEF Spec

\* For every MAX_SEQ: a data frame that arrives is the one its receiver waits
\* for, so GoBack1 never drops one for its number (DataLink.cpp:89), until the
\* physical layer makes one up.
THEOREM ArrivesInOrder == Spec => []InOrderArrival
<1>1. TypeInv /\ Sound => InOrderArrival
  <2> SUFFICES ASSUME TypeInv, NumberInv, NEW n \in Node, recvFrames[n] # <<>>,
                      Head(recvFrames[n]).type = DATA
               PROVE  Head(recvFrames[n]).seq = frameExpect[n]
    BY DEF InOrderArrival, Sound
  <2>1. Numbered(recvFrames[n], frameExpect[n])
    BY PeerInNode DEF NumberInv, Numbers
  <2>2. recvFrames[n] \in Seq(Frame)
    BY DEF TypeInv, TypeOK, SharedTypeOK
  <2> QED
    BY <2>1, <2>2, TakeAny
<1> QED
  BY <1>1, NumbersHold, PTL
=============================================================================
