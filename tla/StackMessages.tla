------------------------------ MODULE StackMessages ------------------------------
(***************************************************************************)
(* What the main threads see of the whole stack, for every value of the    *)
(* constants: messages arrive as they were sent, the layers below the      *)
(* network layers are a packet channel, and ToPhysicalLayer refuses an ack *)
(* only after a frame or an ack was thrown away.                           *)
(***************************************************************************)
EXTENDS StackFrames

\* What the receiver has of the message on its way, and what is behind it.
Journey(s, r) == buildBuffer[r] \o Contents(s, r) \o outgoing[s]

\* The message on its way from s to r, if there is one.
Due(s, r) == IF Len(received[r]) = Len(sent[s]) THEN <<>> ELSE sent[s][Len(sent[s])]

Shapes == RequestShapes \cup ReplyShapes

\* One message at a time, in order, whole.
Messages(s, r) ==
  /\ Len(received[r]) <= Len(sent[s]) /\ Len(sent[s]) <= Len(received[r]) + 1
  /\ \A k \in 1 .. Len(sent[s]) : \E sh \in Shapes : sent[s][k] = Packetize(k, sh)
  /\ \A k \in 1 .. Len(received[r]) : received[r][k] = Assemble(sent[s][k])
  /\ Journey(s, r) = Due(s, r)

\* The client asks only when it has its answer, the server answers only what it
\* was asked.
Turns ==
  /\ appPC[Client] # "handle" /\ appPC[Server] # "prompt"
  /\ Len(sent[Client]) = Len(received[Client]) + One(appPC[Client] # "prompt")
  /\ Len(sent[Server]) + One(appPC[Server] = "handle") <= Len(received[Server])
  /\ Len(sent[Client]) <= MaxRequests

MessageInv ==
  /\ Turns
  /\ \A s \in Node : Frames(s, Peer(s)) /\ Messages(s, Peer(s))

WellMade(m) ==
  /\ m # <<>>
  /\ \A i \in 1 .. Len(m) : m[i].end <=> i = Len(m)
  /\ Long(m)

-----------------------------------------------------------------------------
(* Sequences.                                                              *)

LEMMA PacketizeMade ==
  ASSUME NEW k \in Nat, NEW sh \in Shapes
  PROVE  /\ WellMade(Packetize(k, sh)) /\ Packetize(k, sh) \in Seq(Packet)
         /\ Len(Packetize(k, sh)) = Len(sh)
<1>1. IsShape(sh) /\ sh \in Seq({1, 2})
  BY ShapesAssumption DEF Shapes, IsShape
<1>2. Len(sh) \in Nat /\ Len(sh) > 0
  BY <1>1, NonEmptyLen DEF IsShape
<1> DEFINE m == Packetize(k, sh)
<1>3. m \in Seq(Packet)
  BY <1>1, PacketizeType
<1>4. Len(m) = Len(sh)
  BY <1>2 DEF Packetize
<1>5. ASSUME NEW i \in 1 .. Len(sh) PROVE (m[i].end <=> i = Len(sh)) /\ m[i].frames = sh[i]
  <2>1. m[i] = [msg |-> k, seq |-> (i - 1) % (MaxSeq + 1), end |-> i = Len(sh), frames |-> sh[i]]
    BY DEF Packetize
  <2> HIDE DEF m
  <2>2. m[i].end = (i = Len(sh))
    BY <2>1
  <2>3. m[i].frames = sh[i]
    BY <2>1
  <2> QED
    BY <2>2, <2>3
<1> HIDE DEF m
<1>6. m # <<>>
  BY <1>2, <1>3, <1>4, NonEmptyLen
<1>7. Long(m)
  <2> SUFFICES ASSUME NEW i \in 1 .. Len(m) - 1 PROVE m[i].frames = 2
    BY DEF Long
  <2>1. i \in 1 .. Len(sh) /\ sh[i] = 2
    BY <1>1, <1>2, <1>4 DEF IsShape
  <2> QED
    BY <1>5, <2>1
<1> QED
  BY <1>3, <1>4, <1>5, <1>6, <1>7 DEF m, WellMade

LEMMA ConcatParts ==
  ASSUME NEW S, NEW a \in Seq(S), NEW b \in Seq(S)
  PROVE  /\ a \o b \in Seq(S) /\ Len(a \o b) = Len(a) + Len(b)
         /\ Len(a) \in Nat /\ Len(b) \in Nat
         /\ \A i \in 1 .. Len(a) : (a \o b)[i] = a[i]
         /\ \A i \in 1 .. Len(b) : (a \o b)[Len(a) + i] = b[i]
BY ConcatProperties

LEMMA ThreeEmpty ==
  ASSUME NEW S, NEW a \in Seq(S), NEW b \in Seq(S), NEW c \in Seq(S), (a \o b) \o c = <<>>
  PROVE  a = <<>> /\ b = <<>> /\ c = <<>>
<1>1. a \o b \in Seq(S) /\ Len(a \o b) = Len(a) + Len(b)
  BY ConcatProperties
<1>2. Len((a \o b) \o c) = Len(a \o b) + Len(c)
  BY <1>1, ConcatProperties
<1>3. Len(a) \in Nat /\ Len(b) \in Nat /\ Len(c) \in Nat /\ Len(<<>>) = 0
  OBVIOUS
<1>4. Len(a) = 0 /\ Len(b) = 0 /\ Len(c) = 0
  BY <1>1, <1>2, <1>3
<1> QED
  BY <1>4, EmptySeq, Zenon

\* A part of a message that ends with its last packet is the whole message.
LEMMA EndsMessage ==
  ASSUME NEW S, NEW a \in Seq(S), NEW b \in Seq(S), NEW c \in Seq(S),
         WellMade((a \o b) \o c), a # <<>>, a[Len(a)].end
  PROVE  b = <<>> /\ c = <<>> /\ (a \o b) \o c = a
<1> DEFINE ab == a \o b
           m == ab \o c
<1>1. /\ ab \in Seq(S) /\ Len(ab) = Len(a) + Len(b)
      /\ \A i \in 1 .. Len(a) : ab[i] = a[i]
      /\ Len(a) \in Nat /\ Len(a) > 0 /\ Len(b) \in Nat /\ Len(c) \in Nat
  BY ConcatParts, NonEmptyLen
<1> HIDE DEF ab
<1>2. /\ m \in Seq(S) /\ Len(m) = Len(ab) + Len(c)
      /\ \A i \in 1 .. Len(ab) : m[i] = ab[i]
  <2>1. ab \in Seq(S) /\ c \in Seq(S)
    BY <1>1
  <2> QED
    BY <2>1, ConcatParts
<1>w. WellMade(m)
  BY DEF ab
<1> HIDE DEF m
<1>3. Len(a) \in 1 .. Len(m) /\ m[Len(a)] = a[Len(a)]
  <2>1. \A i, j, k \in Nat : i > 0 => i \in 1 .. i /\ i \in 1 .. i + j /\ i \in 1 .. (i + j) + k
    OBVIOUS
  <2>2. /\ Len(a) \in 1 .. Len(a) /\ Len(a) \in 1 .. Len(a) + Len(b)
        /\ Len(a) \in 1 .. (Len(a) + Len(b)) + Len(c)
    BY <1>1, <2>1, Zenon
  <2> QED
    BY <1>1, <1>2, <2>2, Zenon
<1>4. Len(a) = Len(m)
  BY <1>3, <1>w DEF WellMade
<1>5. Len(b) = 0 /\ Len(c) = 0
  BY <1>1, <1>2, <1>4
<1>6. b = <<>> /\ c = <<>>
  BY <1>5, EmptySeq, Zenon
<1>7. ab = a
  BY <1>6, ConcatEmptySeq DEF ab
<1>8. m = a
  BY <1>1, <1>6, <1>7, ConcatEmptySeq DEF m
<1> QED
  BY <1>6, <1>8 DEF m, ab

LEMMA ContentsType ==
  ASSUME TypeInv, NEW s \in Node, NEW r \in Node
  PROVE  /\ Contents(s, r) \in Seq(Packet) /\ buildBuffer[r] \in Seq(Packet)
         /\ outgoing[s] \in Seq(Packet)
<1> DEFINE a == recvPackets[r]
           b == Packets(Incoming(s, r))
           c == sendPackets[s]
<1>1. a \in Seq(Packet) /\ b \in Seq(Packet) /\ c \in Seq(Packet)
  BY IncomingType
<1>2. Contents(s, r) = (a \o b) \o c
  BY DEF Contents
<1> HIDE DEF a, b, c
<1>3. Contents(s, r) \in Seq(Packet)
  BY <1>1, <1>2, ConcatProperties
<1> QED
  BY <1>3 DEF TypeInv, TypeOK, NLTypeOK

\* What is left of a message is long as the message is.
LEMMA LongContents ==
  ASSUME TypeInv, NEW s \in Node, NEW r \in Node, Messages(s, r)
  PROVE  Long(Contents(s, r))
<1> DEFINE a == buildBuffer[r]
           b == Contents(s, r)
           c == outgoing[s]
           ab == a \o b
           m == Due(s, r)
<1>1. a \in Seq(Packet) /\ b \in Seq(Packet) /\ c \in Seq(Packet)
  BY ContentsType
<1>2. m = ab \o c
  BY DEF Messages, Journey
<1>3. m = <<>> \/ Long(m)
  <2>1. CASE Len(received[r]) = Len(sent[s])
    BY <2>1 DEF Due
  <2>2. CASE Len(received[r]) # Len(sent[s])
    <3>1. Len(sent[s]) \in Nat /\ Len(received[r]) \in Nat
      BY DEF TypeInv, TypeOK, NLTypeOK
    <3>2. Len(sent[s]) \in 1 .. Len(sent[s])
      BY <2>2, <3>1 DEF Messages
    <3>3. PICK sh \in Shapes : sent[s][Len(sent[s])] = Packetize(Len(sent[s]), sh)
      BY <3>2 DEF Messages
    <3>4. WellMade(m)
      BY <2>2, <3>1, <3>3, PacketizeMade DEF Due
    <3> QED
      BY <3>4 DEF WellMade
  <2> QED
    BY <2>1, <2>2
<1> HIDE DEF a, b, c, m
<1>4. CASE m = <<>>
  <2>1. b = <<>>
    BY <1>1, <1>2, <1>4, ThreeEmpty
  <2> QED
    BY <2>1 DEF b, Long
<1>5. CASE Long(m)
  <2>1. /\ ab \in Seq(Packet) /\ Len(ab) = Len(a) + Len(b)
        /\ \A i \in 1 .. Len(b) : ab[Len(a) + i] = b[i]
        /\ Len(a) \in Nat /\ Len(b) \in Nat /\ Len(c) \in Nat
    BY <1>1, ConcatParts
  <2> HIDE DEF ab
  <2>2. /\ Len(m) = Len(ab) + Len(c)
        /\ \A i \in 1 .. Len(ab) : m[i] = ab[i]
    <3>1. ab \in Seq(Packet) /\ c \in Seq(Packet)
      BY <1>1, <2>1
    <3> QED
      BY <1>2, <3>1, ConcatParts
  <2>3. ASSUME NEW i \in 1 .. Len(b) - 1 PROVE b[i].frames = 2
    <3>1. Len(a) + i \in 1 .. Len(m) - 1 /\ m[Len(a) + i] = b[i]
      <4>1. \A x, y, z \in Nat : \A j \in 1 .. y - 1 :
              j \in 1 .. y /\ x + j \in 1 .. x + y /\ x + j \in 1 .. ((x + y) + z) - 1
        OBVIOUS
      <4>2. /\ i \in 1 .. Len(b) /\ Len(a) + i \in 1 .. Len(a) + Len(b)
            /\ Len(a) + i \in 1 .. ((Len(a) + Len(b)) + Len(c)) - 1
        BY <2>1, <4>1, Zenon
      <4> QED
        BY <2>1, <2>2, <4>2, Zenon
    <3> QED
      BY <1>5, <3>1 DEF Long
  <2> QED
    BY <2>3 DEF Long, b
<1> QED
  BY <1>3, <1>4, <1>5

-----------------------------------------------------------------------------
(* Steps below the network layers.                                         *)

LEMMA BelowMessages ==
  ASSUME NEW s, NEW r, Messages(s, r), Contents(s, r)' = Contents(s, r), UNCHANGED nlVars
  PROVE  Messages(s, r)'
<1>1. Journey(s, r)' = Journey(s, r) /\ Due(s, r)' = Due(s, r)
  BY DEF Journey, Due, nlVars
<1> QED
  BY <1>1 DEF Messages, nlVars

LEMMA BelowTurns ==
  ASSUME Turns, UNCHANGED nlVars
  PROVE  Turns'
BY DEF Turns, nlVars, One

Below(n) == DLThread(n) \/ PLThread(n) \/ Alarm(n)

LEMMA BelowStep ==
  ASSUME TypeInv, QueueInv, WindowInv, NumberInv, MessageInv, NEW n \in Node, Below(n),
         Intact', NEW s \in Node
  PROVE  /\ Frames(s, Peer(s))' /\ Messages(s, Peer(s))'
         /\ Contents(s, Peer(s))' = Contents(s, Peer(s))
<1> DEFINE r == Peer(n)
<1>1. /\ r \in Node /\ n = Peer(r) /\ r = Peer(n)
      /\ Link(n, r) /\ Link(r, n) /\ Numbers(n, r) /\ Numbers(r, n)
      /\ Frames(n, r) /\ Frames(r, n) /\ Messages(n, r) /\ Messages(r, n)
      /\ s = n \/ s = r
  BY PeerInNode DEF WindowInv, NumberInv, MessageInv, Node, Peer
<1> HIDE DEF r
<1>2. /\ Frames(n, r)' /\ Contents(n, r)' = Contents(n, r)
      /\ Frames(r, n)' /\ Contents(r, n)' = Contents(r, n)
  <2>1. CASE DLThread(n)
    <3>1. Frames(n, r)' /\ Contents(n, r)' = Contents(n, r)
      BY <1>1, <2>1, LongContents, SenderFrames
    <3>2. Frames(r, n)' /\ Contents(r, n)' = Contents(r, n)
      BY <1>1, <2>1, ReceiverFrames
    <3> QED
      BY <3>1, <3>2
  <2>2. CASE PLThread(n)
    BY <1>1, <2>2, PLFrames
  <2>3. CASE Alarm(n)
    <3>1. UNCHANGED <<sharedVars, plVars, ready, reconstructFrames, dlPC, frameExpect>>
      BY <2>3 DEF Alarm, TimerExpires
    <3>2. ASSUME NEW d \in Node, NEW e \in Node, Frames(d, e)
          PROVE  Frames(d, e)' /\ Contents(d, e)' = Contents(d, e)
      <4>1. Arrived(d, e)' <=> Arrived(d, e)
        BY <3>1 DEF Arrived
      <4>2. Frames(d, e)' /\ Incoming(d, e)' = Incoming(d, e)
        BY <3>1, <3>2, <4>1, FramesStable DEF Frames, sharedVars, plVars
      <4>3. Packets(Incoming(d, e))' = Packets(Incoming(d, e))
        BY <4>2
      <4> QED
        BY <3>1, <4>2, <4>3 DEF Contents, sharedVars
    <3> QED
      BY <1>1, <3>2
  <2> QED
    BY <2>1, <2>2, <2>3 DEF Below
<1>3. UNCHANGED nlVars
  BY DEF Below, DLThread, PLThread, Alarm
<1>4. Messages(n, r)' /\ Messages(r, n)'
  BY <1>1, <1>2, <1>3, BelowMessages
<1> QED
  BY <1>1, <1>2, <1>4

-----------------------------------------------------------------------------
(* Steps of the network layers.                                            *)

\* What Contents reads beside the two queues of packets.
ContentsVars(s, r) == <<ready[s], reconstructFrames[r], dlPC[r], frameExpect[r]>>

LEMMA SameIncoming ==
  ASSUME NEW s, NEW r, UNCHANGED ContentsVars(s, r)
  PROVE  Packets(Incoming(s, r))' = Packets(Incoming(s, r))
<1>1. Incoming(s, r)' = Incoming(s, r)
  BY DEF Incoming, Rest, Arrived, ContentsVars
<1> QED
  BY <1>1

LEMMA ContentsPut ==
  ASSUME TypeInv, NEW s \in Node, NEW r \in Node, UNCHANGED ContentsVars(s, r), NEW p \in Packet,
         recvPackets'[r] = recvPackets[r], sendPackets'[s] = Append(sendPackets[s], p)
  PROVE  /\ Contents(s, r)' = Append(Contents(s, r), p)
         /\ Contents(s, r)' = Contents(s, r) \o <<p>>
<1> DEFINE a == recvPackets[r]
           b == Packets(Incoming(s, r))
           c == sendPackets[s]
           ab == a \o b
           d == <<p>>
<1>1. a \in Seq(Packet) /\ b \in Seq(Packet) /\ c \in Seq(Packet) /\ d \in Seq(Packet)
  BY IncomingType
<1>2. Packets(Incoming(s, r))' = b
  BY SameIncoming
<1>3. Contents(s, r) = ab \o c /\ Contents(s, r)' = ab \o Append(c, p)
  BY <1>2 DEF Contents
<1> HIDE DEF a, b, c
<1>4. Append(c, p) = c \o d
  BY <1>1, AppendIsConcat
<1>5. ab \in Seq(Packet)
  BY <1>1, ConcatProperties
<1> HIDE DEF ab, d
<1>6. Contents(s, r)' = (ab \o c) \o d
  BY <1>1, <1>3, <1>4, <1>5, ConcatThree
<1>7. ab \o c \in Seq(Packet)
  BY <1>1, <1>5, ConcatProperties
<1>8. Append(ab \o c, p) = (ab \o c) \o d
  BY <1>7, AppendIsConcat DEF d
<1> QED
  BY <1>3, <1>6, <1>8 DEF d

LEMMA ContentsGet ==
  ASSUME TypeInv, NEW s \in Node, NEW r \in Node, UNCHANGED ContentsVars(s, r),
         recvPackets[r] # <<>>,
         recvPackets'[r] = Tail(recvPackets[r]), sendPackets'[s] = sendPackets[s]
  PROVE  /\ Contents(s, r) = <<Head(recvPackets[r])>> \o Contents(s, r)'
         /\ Contents(s, r)' \in Seq(Packet)
<1> DEFINE a == recvPackets[r]
           b == Packets(Incoming(s, r))
           c == sendPackets[s]
           h == <<Head(a)>>
           t == Tail(a)
<1>1. a \in Seq(Packet) /\ b \in Seq(Packet) /\ c \in Seq(Packet)
  BY IncomingType
<1>2. Packets(Incoming(s, r))' = b
  BY SameIncoming
<1>3. Contents(s, r) = (a \o b) \o c /\ Contents(s, r)' = (t \o b) \o c
  BY <1>2 DEF Contents
<1>4. h \in Seq(Packet) /\ t \in Seq(Packet) /\ a = h \o t
  <2>1. a # <<>>
    OBVIOUS
  <2> HIDE DEF a
  <2> QED
    BY <1>1, <2>1, HeadThenTail, TailFacts
<1> HIDE DEF a, b, c, h, t
<1>5. a \o b = h \o (t \o b)
  BY <1>1, <1>4, ConcatThree
<1>6. t \o b \in Seq(Packet)
  BY <1>1, <1>4, ConcatProperties
<1> DEFINE tb == t \o b
<1> HIDE DEF tb
<1>7. (h \o tb) \o c = h \o (tb \o c) /\ tb \o c \in Seq(Packet)
  BY <1>1, <1>4, <1>6, ConcatThree, ConcatProperties DEF tb
<1> QED
  BY <1>3, <1>5, <1>7 DEF tb, a, h

LEMMA CommandMessages ==
  ASSUME TypeInv, NEW s \in Node, NEW r \in Node, Messages(s, r),
         Len(sent[s]) = Len(received[r]), NEW sh \in Shapes,
         outgoing'[s] = Packetize(Len(sent[s]) + 1, sh),
         sent'[s] = Append(sent[s], Packetize(Len(sent[s]) + 1, sh)),
         Contents(s, r)' = Contents(s, r), buildBuffer'[r] = buildBuffer[r],
         received'[r] = received[r]
  PROVE  Messages(s, r)'
<1> DEFINE l == Len(sent[s])
           m == Packetize(l + 1, sh)
           ms == sent[s]
<1>1. ms \in Seq(Seq(Packet)) /\ l \in Nat /\ received[r] \in Seq(Seq(Packet))
  BY DEF TypeInv, TypeOK, NLTypeOK
<1>2. m \in Seq(Packet) /\ WellMade(m)
  BY <1>1, PacketizeMade
<1>3. buildBuffer[r] = <<>> /\ Contents(s, r) = <<>>
  <2>1. Journey(s, r) = <<>>
    BY DEF Messages, Due
  <2> QED
    BY <2>1, ContentsType, ThreeEmpty DEF Journey
<1>m. sent'[s] = Append(ms, m) /\ outgoing'[s] = m
  OBVIOUS
<1> HIDE DEF m
<1>4. /\ Len(sent'[s]) = l + 1 /\ sent'[s][l + 1] = m
      /\ \A k \in 1 .. l : sent'[s][k] = ms[k]
  <2> HIDE DEF ms
  <2> QED
    BY <1>1, <1>2, <1>m, AppendProperties DEF ms
<1>5. Journey(s, r)' = m
  <2>1. <<>> \o <<>> = <<>> /\ <<>> \o m = m
    BY <1>2, ConcatEmptySeq
  <2> QED
    BY <1>3, <1>m, <2>1 DEF Journey
<1>6. Due(s, r)' = m
  BY <1>1, <1>4 DEF Due
<1>7. \A k \in 1 .. Len(sent'[s]) : \E z \in Shapes : sent'[s][k] = Packetize(k, z)
  <2> SUFFICES ASSUME NEW k \in 1 .. l + 1 PROVE \E z \in Shapes : sent'[s][k] = Packetize(k, z)
    BY <1>4
  <2>1. CASE k = l + 1
    BY <1>4, <2>1 DEF m
  <2>2. CASE k # l + 1
    <3>1. k \in 1 .. l
      BY <1>1, <2>2
    <3> QED
      BY <1>4, <3>1 DEF Messages
  <2> QED
    BY <2>1, <2>2
<1>8. \A k \in 1 .. Len(received'[r]) : received'[r][k] = Assemble(sent'[s][k])
  BY <1>4 DEF Messages
<1>9. Len(received'[r]) <= Len(sent'[s]) /\ Len(sent'[s]) <= Len(received'[r]) + 1
  BY <1>1, <1>4
<1>10. Journey(s, r)' = Due(s, r)'
  BY <1>5, <1>6
<1> QED
  BY <1>7, <1>8, <1>9, <1>10 DEF Messages, Shapes

\* The packet goes from the end of the journey to the middle.
LEMMA DownMessages ==
  ASSUME TypeInv, NEW s \in Node, NEW r \in Node, Messages(s, r), outgoing[s] # <<>>,
         Contents(s, r)' = Contents(s, r) \o <<Head(outgoing[s])>>,
         outgoing'[s] = Tail(outgoing[s]), buildBuffer'[r] = buildBuffer[r],
         sent'[s] = sent[s], received'[r] = received[r]
  PROVE  Messages(s, r)'
<1> DEFINE bb == buildBuffer[r]
           ct == Contents(s, r)
           hd == <<Head(outgoing[s])>>
           tl == Tail(outgoing[s])
<1>1. bb \in Seq(Packet) /\ ct \in Seq(Packet) /\ outgoing[s] \in Seq(Packet)
  BY ContentsType
<1>2. hd \in Seq(Packet) /\ tl \in Seq(Packet) /\ outgoing[s] = hd \o tl
  BY <1>1, HeadThenTail, TailFacts
<1>3. Journey(s, r) = (bb \o ct) \o (hd \o tl) /\ Journey(s, r)' = (bb \o (ct \o hd)) \o tl
  BY <1>2 DEF Journey
<1> HIDE DEF bb, ct, hd, tl
<1>4. Journey(s, r)' = Journey(s, r)
  <2> DEFINE ab == bb \o ct
  <2>1. bb \in Seq(Packet) /\ ct \in Seq(Packet) /\ hd \in Seq(Packet) /\ tl \in Seq(Packet)
    BY <1>1, <1>2
  <2>2. bb \o (ct \o hd) = ab \o hd
    BY <2>1, ConcatThree
  <2>3. ab \in Seq(Packet)
    BY <2>1, ConcatProperties
  <2> HIDE DEF ab
  <2>4. ab \o (hd \o tl) = (ab \o hd) \o tl
    BY <2>1, <2>3, ConcatThree
  <2> QED
    BY <1>3, <2>2, <2>4 DEF ab
<1>5. Due(s, r)' = Due(s, r)
  BY DEF Due
<1> QED
  BY <1>4, <1>5 DEF Messages, Shapes

\* The packet goes to buildBuffer, and with the last one the message is complete.
LEMMA UpMessages ==
  ASSUME TypeInv, NEW s \in Node, NEW r \in Node, Messages(s, r), NEW p \in Packet,
         Contents(s, r) = <<p>> \o Contents(s, r)', Contents(s, r)' \in Seq(Packet),
         outgoing'[s] = outgoing[s], sent'[s] = sent[s],
         \/ /\ ~ p.end
            /\ buildBuffer'[r] = Append(buildBuffer[r], p) /\ received'[r] = received[r]
         \/ /\ p.end
            /\ buildBuffer'[r] = <<>>
            /\ received'[r] = Append(received[r], Assemble(Append(buildBuffer[r], p)))
  PROVE  Messages(s, r)'
<1> DEFINE a == buildBuffer[r]
           b == Contents(s, r)'
           c == outgoing[s]
           h == <<p>>
           buf == Append(a, p)
           m == Due(s, r)
<1>1. a \in Seq(Packet) /\ b \in Seq(Packet) /\ c \in Seq(Packet) /\ h \in Seq(Packet)
  BY ContentsType
<1>2. m = (a \o (h \o b)) \o c
  BY DEF Messages, Journey
<1>3. /\ buf \in Seq(Packet) /\ buf = a \o h /\ buf # <<>> /\ buf[Len(buf)] = p
  <2> HIDE DEF a
  <2> QED
    BY <1>1, AppendIsConcat, AppendProperties
<1>4. m = (buf \o b) \o c
  <2> HIDE DEF a, b, h, m
  <2>1. a \o (h \o b) = (a \o h) \o b
    <3>1. a \in Seq(Packet) /\ h \in Seq(Packet) /\ b \in Seq(Packet)
      BY <1>1
    <3> QED
      BY <3>1, ConcatThree
  <2> QED
    BY <1>2, <1>3, <2>1
<1>5. CASE ~ p.end
  <2>1. Journey(s, r)' = m
    BY <1>4, <1>5 DEF Journey
  <2>2. Due(s, r)' = Due(s, r)
    BY <1>5 DEF Due
  <2> QED
    BY <1>5, <2>1, <2>2 DEF Messages, Shapes
<1>6. CASE p.end
  <2> DEFINE ms == received[r]
             l == Len(ms)
             x == Assemble(buf)
  <2>1. received'[r] = Append(ms, x) /\ buildBuffer'[r] = <<>>
    BY <1>6
  <2>2. /\ ms \in Seq(Seq(Packet)) /\ l \in Nat /\ sent[s] \in Seq(Seq(Packet))
        /\ Len(sent[s]) \in Nat
    BY DEF TypeInv, TypeOK, NLTypeOK
  <2>3. m # <<>>
    <3> HIDE DEF b, c, buf, m
    <3>1. (buf \o b) \o c = <<>> => buf = <<>>
      BY <1>1, <1>3, ThreeEmpty
    <3> QED
      BY <1>3, <1>4, <3>1
  <2>4. l # Len(sent[s]) /\ m = sent[s][Len(sent[s])]
    BY <2>3 DEF Due
  <2>5. Len(sent[s]) = l + 1 /\ l + 1 \in 1 .. Len(sent[s])
    BY <2>2, <2>4 DEF Messages
  <2>6. WellMade(m)
    <3>1. PICK sh \in Shapes : sent[s][l + 1] = Packetize(l + 1, sh)
      BY <2>5 DEF Messages
    <3> QED
      BY <2>2, <2>4, <2>5, <3>1, PacketizeMade
  <2>7. b = <<>> /\ c = <<>> /\ m = buf
    <3> HIDE DEF b, c, buf, m
    <3>1. WellMade((buf \o b) \o c) /\ buf[Len(buf)].end
      BY <1>3, <1>4, <1>6, <2>6
    <3> QED
      BY <1>1, <1>3, <1>4, <3>1, EndsMessage
  <2>8. x \in Seq(Packet)
    BY <1>3, AssembleType
  <2> HIDE DEF x
  <2>9. /\ Len(received'[r]) = l + 1 /\ received'[r][l + 1] = x
        /\ \A k \in 1 .. l : received'[r][k] = ms[k]
    <3> HIDE DEF ms
    <3> QED
      BY <2>1, <2>2, <2>8, AppendProperties DEF ms
  <2>10. Journey(s, r)' = <<>> /\ Due(s, r)' = <<>>
    <3>1. Due(s, r)' = <<>>
      BY <2>5, <2>9 DEF Due
    <3>2. <<>> \o <<>> = <<>>
      BY ConcatEmptySeq
    <3>3. Journey(s, r)' = (<<>> \o b) \o c
      BY <2>1 DEF Journey
    <3>4. Journey(s, r)' = (<<>> \o <<>>) \o <<>>
      BY <2>7, <3>3
    <3> QED
      BY <3>1, <3>2, <3>4
  <2>11. \A k \in 1 .. Len(received'[r]) : received'[r][k] = Assemble(sent'[s][k])
    <3> SUFFICES ASSUME NEW k \in 1 .. l + 1 PROVE received'[r][k] = Assemble(sent[s][k])
      BY <2>9
    <3>1. CASE k = l + 1
      BY <2>4, <2>5, <2>7, <2>9, <3>1 DEF x
    <3>2. CASE k # l + 1
      <4>1. k \in 1 .. l
        <5> HIDE DEF l
        <5> QED
          BY <2>2, <3>2
      <4> QED
        BY <2>9, <4>1 DEF Messages
    <3> QED
      BY <3>1, <3>2
  <2>12. Len(received'[r]) <= Len(sent'[s]) /\ Len(sent'[s]) <= Len(received'[r]) + 1
    BY <2>2, <2>5, <2>9
  <2>13. Journey(s, r)' = Due(s, r)'
    BY <2>10
  <2> QED
    BY <2>11, <2>12, <2>13 DEF Messages, Shapes
<1> QED
  BY <1>5, <1>6

LEMMA NodeCases ==
  /\ Client \in Node /\ Server \in Node /\ Client # Server
  /\ Peer(Client) = Server /\ Peer(Server) = Client
  /\ \A n \in Node : n = Client \/ n = Server
BY NodeAssumption DEF Node, Peer

LEMMA HistoryLengths ==
  ASSUME TypeInv
  PROVE  /\ Len(sent[Client]) \in Nat /\ Len(sent[Server]) \in Nat
         /\ Len(received[Client]) \in Nat /\ Len(received[Server]) \in Nat
BY NodeCases DEF TypeInv, TypeOK, NLTypeOK

\* Nothing is on its way to the one who is not waiting.
LEMMA NoneDue ==
  ASSUME TypeInv, MessageInv
  PROVE  /\ appPC[Client] = "prompt" => Len(sent[Client]) = Len(received[Server])
         /\ appPC[Server] = "handle" =>
              Len(sent[Server]) = Len(received[Client]) /\ Len(sent[Server]) < MaxRequests
<1> DEFINE a == Len(sent[Client])
           b == Len(sent[Server])
           c == Len(received[Client])
           d == Len(received[Server])
<1>1. a \in Nat /\ b \in Nat /\ c \in Nat /\ d \in Nat /\ MaxRequests \in Nat
  BY HistoryLengths, RequestsAssumption
<1>2. d <= a /\ c <= b
  BY NodeCases DEF MessageInv, Messages
<1>3. /\ a = c + (IF appPC[Client] # "prompt" THEN 1 ELSE 0)
      /\ b + (IF appPC[Server] = "handle" THEN 1 ELSE 0) <= d
      /\ a <= MaxRequests
  BY DEF MessageInv, Turns, One
<1> HIDE DEF a, b, c, d
<1>4. appPC[Client] = "prompt" => a = d
  BY <1>1, <1>2, <1>3
<1>5. appPC[Server] = "handle" => b = c /\ b < MaxRequests
  BY <1>1, <1>2, <1>3
<1> QED
  BY <1>4, <1>5 DEF a, b, c, d

-----------------------------------------------------------------------------
(* The turns of the two main threads.                                      *)

LEMMA TurnsCommand ==
  ASSUME TypeInv, Turns, appPC[Client] = "prompt", appPC'[Client] = "down",
         appPC'[Server] = appPC[Server], Len(sent'[Client]) = Len(sent[Client]) + 1,
         Len(sent[Client]) < MaxRequests, sent'[Server] = sent[Server], received' = received
  PROVE  Turns'
<1> DEFINE a == Len(sent[Client])
           b == Len(sent[Server])
           c == Len(received[Client])
           d == Len(received[Server])
           a1 == Len(sent'[Client])
<1>1. a \in Nat /\ b \in Nat /\ c \in Nat /\ d \in Nat /\ MaxRequests \in Nat
  BY HistoryLengths, RequestsAssumption
<1>2. /\ appPC[Server] # "prompt" /\ a = c
      /\ b + One(appPC[Server] = "handle") <= d
  <2>1. a = c + 0
    BY DEF Turns, One
  <2> QED
    BY <1>1, <2>1 DEF Turns
<1>3. a1 = c + 1 /\ a1 <= MaxRequests
  <2>1. a1 = a + 1 /\ a < MaxRequests
    OBVIOUS
  <2> HIDE DEF a, c, a1
  <2> QED
    BY <1>1, <1>2, <2>1
<1>4. /\ Len(sent'[Server]) = b /\ Len(received'[Client]) = c /\ Len(received'[Server]) = d
      /\ One(appPC'[Client] # "prompt") = 1
      /\ One(appPC'[Server] = "handle") = One(appPC[Server] = "handle")
  BY DEF One
<1> HIDE DEF a, b, c, d
<1> QED
  BY <1>2, <1>3, <1>4 DEF Turns

LEMMA TurnsReply ==
  ASSUME TypeInv, Turns, appPC[Server] = "handle", appPC'[Server] = "down",
         appPC'[Client] = appPC[Client], Len(sent'[Server]) = Len(sent[Server]) + 1,
         sent'[Client] = sent[Client], received' = received
  PROVE  Turns'
<1> DEFINE b == Len(sent[Server])
           d == Len(received[Server])
           b1 == Len(sent'[Server])
<1>1. b \in Nat /\ d \in Nat
  BY HistoryLengths
<1>2. b + 1 <= d
  BY DEF Turns, One
<1>3. b1 + 0 <= d
  <2>1. b1 = b + 1
    OBVIOUS
  <2> HIDE DEF b, d, b1
  <2> QED
    BY <1>1, <1>2, <2>1
<1>4. Len(received'[Server]) = d /\ One(appPC'[Server] = "handle") = 0
  BY DEF One
<1>5. /\ Len(sent'[Client]) = Len(sent[Client])
      /\ Len(received'[Client]) = Len(received[Client])
  OBVIOUS
<1> HIDE DEF d
<1> QED
  BY <1>3, <1>4, <1>5 DEF Turns

LEMMA TurnsNoReply ==
  ASSUME TypeInv, Turns, appPC[Server] = "handle", appPC'[Server] \in {"poll", "down"},
         appPC'[Client] = appPC[Client], sent' = sent, received' = received
  PROVE  Turns'
<1> DEFINE b == Len(sent[Server])
           d == Len(received[Server])
<1>1. b \in Nat /\ d \in Nat
  BY HistoryLengths
<1>2. b + 1 <= d
  BY DEF Turns, One
<1>3. b + 0 <= d
  <2> HIDE DEF b, d
  <2> QED
    BY <1>1, <1>2
<1>4. /\ Len(sent'[Server]) = b /\ Len(received'[Server]) = d
      /\ One(appPC'[Server] = "handle") = 0
  BY DEF One
<1> HIDE DEF b, d
<1> QED
  BY <1>3, <1>4 DEF Turns

LEMMA TurnsReceive ==
  ASSUME TypeInv, Turns, NEW n \in Node, NEW r \in Node,
         <<n, r>> \in {<<Client, Server>>, <<Server, Client>>}, Client # Server,
         appPC[n] = "hold", appPC'[n] = IF n = Client THEN "prompt" ELSE "handle",
         appPC'[r] = appPC[r], sent' = sent, received'[r] = received[r],
         Len(received'[n]) = Len(received[n]) + 1
  PROVE  Turns'
<1> DEFINE a == Len(sent[Client])
           b == Len(sent[Server])
           c == Len(received[Client])
           d == Len(received[Server])
           c1 == Len(received'[Client])
           d1 == Len(received'[Server])
<1>1. a \in Nat /\ b \in Nat /\ c \in Nat /\ d \in Nat
  BY HistoryLengths
<1>2. /\ appPC[Client] # "handle" /\ appPC[Server] # "prompt" /\ a <= MaxRequests
      /\ a = c + One(appPC[Client] # "prompt") /\ b + One(appPC[Server] = "handle") <= d
  BY DEF Turns
<1>3. Len(sent'[Client]) = a /\ Len(sent'[Server]) = b
  OBVIOUS
<1>4. CASE n = Client
  <2>1. /\ c1 = c + 1 /\ d1 = d /\ a = c + 1
        /\ appPC'[Client] = "prompt" /\ appPC'[Server] = appPC[Server]
    BY <1>2, <1>4 DEF One
  <2>2. a = c1 + One(appPC'[Client] # "prompt")
    <3>1. One(appPC'[Client] # "prompt") = 0
      BY <2>1 DEF One
    <3> HIDE DEF a, c, c1
    <3> QED
      BY <1>1, <2>1, <3>1
  <2> HIDE DEF a, b, c, d
  <2> QED
    BY <1>2, <1>3, <2>1, <2>2 DEF Turns
<1>5. CASE n = Server
  <2>1. /\ d1 = d + 1 /\ c1 = c
        /\ appPC'[Server] = "handle" /\ appPC'[Client] = appPC[Client]
    BY <1>5
  <2>2. b + One(appPC'[Server] = "handle") <= d1
    <3>1. One(appPC'[Server] = "handle") = 1 /\ b + 0 <= d
      BY <1>2, <1>5, <2>1 DEF One
    <3> HIDE DEF b, d, d1
    <3> QED
      BY <1>1, <2>1, <3>1
  <2> HIDE DEF a, b, c, d
  <2> QED
    BY <1>2, <1>3, <2>1, <2>2 DEF Turns
<1> QED
  BY <1>4, <1>5

LEMMA AppFrames ==
  ASSUME NEW n \in Node, AppThread(n), NEW s \in Node, NEW r \in Node, Frames(s, r)
  PROVE  Frames(s, r)'
<1>1. UNCHANGED <<sendFrames, recvFrames, wire, ready, reconstructFrames, dlPC, frameExpect>>
  BY DEF AppThread, NLStep, Command, HandleMessage, FromApplicationLayer, ToDataLinkLayer,
         LockRecvPackets, NoPacket, ReceiveAPacket, dlVars, plVars, sharedVars
<1>2. Arrived(s, r)' <=> Arrived(s, r)
  BY <1>1 DEF Arrived
<1> QED
  BY <1>1, <1>2, FramesStable DEF Frames

\* A direction that the step leaves alone.
LEMMA AppElsewhere ==
  ASSUME NEW s \in Node, NEW r \in Node, UNCHANGED ContentsVars(s, r), Messages(s, r),
         recvPackets'[r] = recvPackets[r], sendPackets'[s] = sendPackets[s],
         outgoing'[s] = outgoing[s], sent'[s] = sent[s],
         buildBuffer'[r] = buildBuffer[r], received'[r] = received[r]
  PROVE  Messages(s, r)' /\ Contents(s, r)' = Contents(s, r)
<1>1. Contents(s, r)' = Contents(s, r)
  BY SameIncoming DEF Contents
<1>2. Journey(s, r)' = Journey(s, r) /\ Due(s, r)' = Due(s, r)
  BY <1>1 DEF Journey, Due
<1> QED
  BY <1>1, <1>2 DEF Messages

\* What a step does to the packets between s and r.
Putting(s, r) ==
  /\ appPC[s] = "down"
  /\ Contents(s, r)' = Append(Contents(s, r), Head(outgoing[s]))

Getting(s, r) ==
  /\ Contents(s, r)' \in Seq(Packet)
  /\ \E p \in Packet : Contents(s, r) = <<p>> \o Contents(s, r)'

LEMMA AppStep ==
  ASSUME TypeInv, MessageInv, NEW n \in Node, NEW r \in Node, r = Peer(n), AppThread(n)
  PROVE  /\ Messages(n, r)' /\ Messages(r, n)' /\ Turns'
         /\ \/ Contents(n, r)' = Contents(n, r) /\ Contents(r, n)' = Contents(r, n)
            \/ Putting(n, r) /\ Contents(r, n)' = Contents(r, n)
            \/ Getting(r, n) /\ Contents(n, r)' = Contents(n, r)
<1>a. SharedTypeOK /\ NLTypeOK
  BY DEF TypeInv, TypeOK
<1>p. /\ n # r /\ n = Peer(r)
      /\ Messages(n, r) /\ Messages(r, n) /\ Turns
  BY PeerInNode DEF MessageInv
<1>c. UNCHANGED ContentsVars(n, r) /\ UNCHANGED ContentsVars(r, n)
  BY DEF AppThread, ContentsVars, dlVars
<1>n. /\ \/ n = Client /\ r = Server
         \/ n = Server /\ r = Client
      /\ Client # Server
  <2>1. n = Client \/ n = Server
    BY NodeCases
  <2> QED
    BY <2>1, NodeCases, Zenon
<1>l. /\ Len(sent[Client]) \in Nat /\ Len(sent[Server]) \in Nat
      /\ Len(received[Client]) \in Nat /\ Len(received[Server]) \in Nat
  BY HistoryLengths
<1>1. CASE Command(n)
  <2>1. appPC[n] = "prompt" /\ Len(sent[n]) < MaxRequests
    BY <1>1 DEF Command
  <2>2. n = Client /\ r = Server
    BY <1>n, <1>p, <2>1 DEF Turns
  <2>3. PICK sh \in RequestShapes : FromApplicationLayer(n, sh)
    BY <1>1 DEF Command
  <2>4. Len(sent[n]) = Len(received[r])
    BY <2>1, <2>2, NoneDue
  <2>5. /\ outgoing'[n] = Packetize(Len(sent[n]) + 1, sh) /\ outgoing'[r] = outgoing[r]
        /\ sent'[n] = Append(sent[n], Packetize(Len(sent[n]) + 1, sh)) /\ sent'[r] = sent[r]
        /\ appPC'[n] = "down" /\ appPC'[r] = appPC[r]
        /\ UNCHANGED <<sendPackets, recvPackets, buildBuffer, received>>
    BY <1>a, <1>p, <2>3 DEF FromApplicationLayer, AppGoTo, NLTypeOK, sharedVars
  <2>6. Contents(n, r)' = Contents(n, r)
    BY <1>c, <2>5, SameIncoming DEF Contents
  <2>7. Messages(n, r)'
    BY <1>p, <2>4, <2>5, <2>6, CommandMessages DEF Shapes
  <2>8. Messages(r, n)' /\ Contents(r, n)' = Contents(r, n)
    BY <1>c, <1>p, <2>5, AppElsewhere
  <2>9. Turns'
    <3>1. Len(sent'[n]) = Len(sent[n]) + 1
      <4> DEFINE m == Packetize(Len(sent[n]) + 1, sh)
      <4>1. m \in Seq(Packet) /\ sent[n] \in Seq(Seq(Packet))
        BY <1>a, <1>l, <2>2, PacketizeMade DEF Shapes, NLTypeOK
      <4> HIDE DEF m
      <4> QED
        BY <2>5, <4>1 DEF m
    <3>2. /\ appPC[Client] = "prompt" /\ appPC'[Client] = "down"
          /\ appPC'[Server] = appPC[Server]
          /\ Len(sent'[Client]) = Len(sent[Client]) + 1 /\ Len(sent[Client]) < MaxRequests
          /\ sent'[Server] = sent[Server] /\ received' = received
      BY <2>1, <2>2, <2>5, <3>1
    <3> QED
      BY <1>p, <3>2, TurnsCommand
  <2> QED
    BY <2>6, <2>7, <2>8, <2>9
<1>2. CASE HandleMessage(n) /\ UNCHANGED <<sharedVars, outgoing, buildBuffer, received, sent>>
  <2>1. appPC[n] = "handle" /\ (appPC'[n] = "poll" \/ appPC'[n] = "down") /\ appPC'[r] = appPC[r]
    BY <1>a, <1>p, <1>2 DEF HandleMessage, FromApplicationLayer, AppGoTo, NLTypeOK
  <2>2. /\ Messages(n, r)' /\ Contents(n, r)' = Contents(n, r)
        /\ Messages(r, n)' /\ Contents(r, n)' = Contents(r, n)
    BY <1>2, <1>c, <1>p, AppElsewhere DEF sharedVars
  <2>3. n = Server /\ r = Client
    BY <1>n, <1>p, <2>1 DEF Turns
  <2>4. Turns'
    <3>1. /\ appPC[Server] = "handle" /\ appPC'[Server] \in {"poll", "down"}
          /\ appPC'[Client] = appPC[Client] /\ sent' = sent /\ received' = received
      BY <1>2, <2>1, <2>3
    <3> QED
      BY <1>p, <3>1, TurnsNoReply
  <2> QED
    BY <2>2, <2>4
<1>3. CASE HandleMessage(n) /\ \E sh \in ReplyShapes : FromApplicationLayer(n, sh)
  <2>1. appPC[n] = "handle"
    BY <1>3 DEF HandleMessage
  <2>2. n = Server /\ r = Client
    BY <1>n, <1>p, <2>1 DEF Turns
  <2>3. PICK sh \in ReplyShapes : FromApplicationLayer(n, sh)
    BY <1>3
  <2>4. Len(sent[n]) = Len(received[r])
    BY <2>1, <2>2, NoneDue
  <2>5. /\ outgoing'[n] = Packetize(Len(sent[n]) + 1, sh) /\ outgoing'[r] = outgoing[r]
        /\ sent'[n] = Append(sent[n], Packetize(Len(sent[n]) + 1, sh)) /\ sent'[r] = sent[r]
        /\ appPC'[n] = "down" /\ appPC'[r] = appPC[r]
        /\ UNCHANGED <<sendPackets, recvPackets, buildBuffer, received>>
    BY <1>a, <1>p, <2>3 DEF FromApplicationLayer, AppGoTo, NLTypeOK, sharedVars
  <2>6. Contents(n, r)' = Contents(n, r)
    BY <1>c, <2>5, SameIncoming DEF Contents
  <2>7. Messages(n, r)'
    BY <1>p, <2>4, <2>5, <2>6, CommandMessages DEF Shapes
  <2>8. Messages(r, n)' /\ Contents(r, n)' = Contents(r, n)
    BY <1>c, <1>p, <2>5, AppElsewhere
  <2>9. Turns'
    <3>1. Len(sent'[n]) = Len(sent[n]) + 1
      <4> DEFINE m == Packetize(Len(sent[n]) + 1, sh)
      <4>1. m \in Seq(Packet) /\ sent[n] \in Seq(Seq(Packet))
        BY <1>a, <1>l, <2>2, PacketizeMade DEF Shapes, NLTypeOK
      <4> HIDE DEF m
      <4> QED
        BY <2>5, <4>1 DEF m
    <3>2. /\ appPC[Server] = "handle" /\ appPC'[Server] = "down"
          /\ appPC'[Client] = appPC[Client]
          /\ Len(sent'[Server]) = Len(sent[Server]) + 1
          /\ sent'[Client] = sent[Client] /\ received' = received
      BY <2>1, <2>2, <2>5, <3>1
    <3> QED
      BY <1>p, <3>2, TurnsReply
  <2> QED
    BY <2>6, <2>7, <2>8, <2>9
<1>4. CASE ToDataLinkLayer(n)
  <2> DEFINE p == Head(outgoing[n])
  <2>1. /\ appPC[n] = "down" /\ appPC'[n] \in {"poll", "down"} /\ appPC'[r] = appPC[r]
        /\ sendPackets'[n] = Append(sendPackets[n], p) /\ sendPackets'[r] = sendPackets[r]
        /\ outgoing'[n] = Tail(outgoing[n]) /\ outgoing'[r] = outgoing[r]
        /\ UNCHANGED <<recvPackets, buildBuffer, received, sent>>
    BY <1>a, <1>p, <1>4 DEF ToDataLinkLayer, AppGoTo, NLTypeOK, SharedTypeOK
  <2>2. outgoing[n] # <<>> /\ p \in Packet
    <3>1. outgoing[n] # <<>> /\ outgoing[n] \in Seq(Packet)
      BY <1>a, <2>1 DEF TypeInv, Pending, NLTypeOK
    <3> QED
      BY <3>1, HeadThenTail
  <2>3. /\ Contents(n, r)' = Append(Contents(n, r), p)
        /\ Contents(n, r)' = Contents(n, r) \o <<p>>
    <3> HIDE DEF p
    <3> QED
      BY <1>c, <2>1, <2>2, ContentsPut
  <2>4. Messages(n, r)'
    BY <1>p, <2>1, <2>2, <2>3, DownMessages
  <2>5. Messages(r, n)' /\ Contents(r, n)' = Contents(r, n)
    BY <1>c, <1>p, <2>1, AppElsewhere
  <2>6. Turns'
    BY <1>n, <1>p, <2>1 DEF Turns, One
  <2> QED
    BY <2>1, <2>3, <2>4, <2>5, <2>6 DEF Putting
<1>5. CASE LockRecvPackets(n) \/ NoPacket(n)
  <2>1. /\ appPC[n] \in {"poll", "hold"} /\ appPC'[n] \in {"poll", "hold"} /\ appPC'[r] = appPC[r]
        /\ UNCHANGED <<sendPackets, recvPackets, outgoing, buildBuffer, received, sent>>
    BY <1>a, <1>p, <1>5 DEF LockRecvPackets, NoPacket, AppGoTo, NLTypeOK
  <2>2. /\ Messages(n, r)' /\ Contents(n, r)' = Contents(n, r)
        /\ Messages(r, n)' /\ Contents(r, n)' = Contents(r, n)
    BY <1>c, <1>p, <2>1, AppElsewhere
  <2>3. Turns'
    BY <1>n, <1>p, <2>1 DEF Turns, One
  <2> QED
    BY <2>2, <2>3
<1>6. CASE ReceiveAPacket(n)
  <2> DEFINE p == Head(recvPackets[n])
             x == Assemble(Append(buildBuffer[n], p))
  <2>1. /\ appPC[n] = "hold" /\ appPC'[r] = appPC[r] /\ recvPackets[n] # <<>>
        /\ recvPackets'[n] = Tail(recvPackets[n]) /\ recvPackets'[r] = recvPackets[r]
        /\ UNCHANGED <<sendPackets, outgoing, sent>>
        /\ buildBuffer'[r] = buildBuffer[r] /\ received'[r] = received[r]
    BY <1>a, <1>p, <1>6 DEF ReceiveAPacket, AppGoTo, NLTypeOK, SharedTypeOK
  <2>2. \/ /\ ~ p.end
           /\ buildBuffer'[n] = Append(buildBuffer[n], p) /\ received'[n] = received[n]
           /\ appPC'[n] = "poll"
        \/ /\ p.end
           /\ buildBuffer'[n] = <<>> /\ received'[n] = Append(received[n], x)
           /\ appPC'[n] = IF n = Client THEN "prompt" ELSE "handle"
    BY <1>a, <1>6 DEF ReceiveAPacket, AppGoTo, NLTypeOK
  <2>3. p \in Packet
    BY <1>a, <2>1, HeadThenTail DEF SharedTypeOK
  <2>4. Contents(r, n) = <<p>> \o Contents(r, n)' /\ Contents(r, n)' \in Seq(Packet)
    BY <1>c, <2>1, ContentsGet
  <2>5. x \in Seq(Packet)
    <3> HIDE DEF p
    <3>1. Append(buildBuffer[n], p) \in Seq(Packet)
      BY <1>a, <2>3 DEF NLTypeOK
    <3> QED
      BY <3>1, AssembleType
  <2>6. Messages(r, n)'
    <3> HIDE DEF p
    <3> QED
      BY <1>p, <2>1, <2>2, <2>3, <2>4, UpMessages
  <2>7. Messages(n, r)' /\ Contents(n, r)' = Contents(n, r)
    BY <1>c, <1>p, <2>1, AppElsewhere
  <2>8. Turns'
    <3> HIDE DEF p, x
    <3>1. CASE ~ p.end
      BY <1>n, <1>p, <2>1, <2>2, <3>1 DEF Turns, One
    <3>2. CASE p.end
      <4>1. Len(received'[n]) = Len(received[n]) + 1
        BY <1>a, <2>2, <2>5, <3>2 DEF NLTypeOK
      <4>2. /\ appPC[n] = "hold" /\ appPC'[n] = (IF n = Client THEN "prompt" ELSE "handle")
            /\ appPC'[r] = appPC[r] /\ sent' = sent /\ received'[r] = received[r]
        BY <2>1, <2>2, <3>2
      <4>3. <<n, r>> \in {<<Client, Server>>, <<Server, Client>>} /\ Client # Server
        BY <1>n, Zenon
      <4>4. r \in Node
        OBVIOUS
      <4> QED
        BY <1>p, <4>1, <4>2, <4>3, <4>4, TurnsReceive
    <3> QED
      BY <3>1, <3>2
  <2>9. Getting(r, n)
    BY <2>3, <2>4 DEF Getting
  <2> QED
    BY <2>6, <2>7, <2>8, <2>9
<1>7. HandleMessage(n) =>
        \/ UNCHANGED <<sharedVars, outgoing, buildBuffer, received, sent>>
        \/ \E sh \in ReplyShapes : FromApplicationLayer(n, sh)
  BY DEF HandleMessage
<1> QED
  BY <1>1, <1>2, <1>3, <1>4, <1>5, <1>6, <1>7 DEF AppThread, NLStep

-----------------------------------------------------------------------------
(* The invariant.                                                          *)

LEMMA InitMessages == Init => MessageInv /\ \A s \in Node : Contents(s, Peer(s)) = <<>>
<1> SUFFICES ASSUME Init
             PROVE  MessageInv /\ \A s \in Node : Contents(s, Peer(s)) = <<>>
  OBVIOUS
<1>1. ASSUME NEW s \in Node, NEW r \in Node
      PROVE  Frames(s, r) /\ Messages(s, r) /\ Contents(s, r) = <<>>
  <2>1. /\ sendFrames[s] = <<>> /\ recvFrames[r] = <<>> /\ wire[s] = <<>>
        /\ sendPackets[s] = <<>> /\ recvPackets[r] = <<>>
        /\ ready[s] = <<>> /\ reconstructFrames[r] = <<>> /\ dlPC[r] = "wait"
        /\ outgoing[s] = <<>> /\ buildBuffer[r] = <<>> /\ sent[s] = <<>> /\ received[r] = <<>>
    BY DEF Init, SharedInit, DLInit, PLInit, NLInit
  <2>2. <<>> \o <<>> = <<>> /\ Len(<<>>) = 0
    BY ConcatEmptySeq
  <2>3. Incoming(s, r) = <<>>
    BY <2>1, <2>2 DEF Incoming, Rest, Arrived
  <2>4. Packets(<<>>) = <<>>
    BY PacketsEmpty
  <2>5. Contents(s, r) = <<>>
    BY <2>1, <2>2, <2>3, <2>4 DEF Contents
  <2>6. Frames(s, r)
    BY <2>1, <2>2, <2>3, StreamEmpty DEF Frames, Carried
  <2>7. Journey(s, r) = <<>> /\ Due(s, r) = <<>>
    BY <2>1, <2>2, <2>5 DEF Journey, Due
  <2>8. Messages(s, r)
    BY <2>1, <2>2, <2>7 DEF Messages
  <2> QED
    BY <2>5, <2>6, <2>8
<1>2. Turns
  <2>1. /\ appPC[Client] = "prompt" /\ appPC[Server] = "poll"
        /\ sent[Client] = <<>> /\ sent[Server] = <<>>
        /\ received[Client] = <<>> /\ received[Server] = <<>>
    BY NodeCases DEF Init, NLInit
  <2>2. Len(<<>>) = 0
    OBVIOUS
  <2> QED
    BY <2>1, <2>2, RequestsAssumption DEF Turns, One
<1> QED
  BY <1>1, <1>2, PeerInNode DEF MessageInv

\* What a step does to the packets between the two ends: it leaves them alone,
\* or one network layer puts a packet in or takes one out.
ChannelStep ==
  \/ \A s \in Node : Contents(s, Peer(s))' = Contents(s, Peer(s))
  \/ \E n \in Node :
       /\ Putting(n, Peer(n)) \/ Getting(n, Peer(n))
       /\ \A s \in Node \ {n} : Contents(s, Peer(s))' = Contents(s, Peer(s))

LEMMA NextMessages ==
  TypeInv /\ QueueInv /\ WindowInv /\ NumberInv /\ MessageInv /\ [Next]_vars /\ Intact'
    => MessageInv' /\ ChannelStep
<1> SUFFICES ASSUME TypeInv, QueueInv, WindowInv, NumberInv, MessageInv, [Next]_vars, Intact'
             PROVE  MessageInv' /\ ChannelStep
  OBVIOUS
<1>1. CASE \E n \in Node : Below(n)
  <2>1. PICK n \in Node : Below(n)
    BY <1>1
  <2>2. \A s \in Node : /\ Frames(s, Peer(s))' /\ Messages(s, Peer(s))'
                       /\ Contents(s, Peer(s))' = Contents(s, Peer(s))
    BY <2>1, BelowStep
  <2>3. Turns'
    BY <2>1, BelowTurns DEF MessageInv, Below, DLThread, PLThread, Alarm
  <2> QED
    BY <2>2, <2>3 DEF MessageInv, ChannelStep
<1>2. CASE \E n \in Node : AppThread(n)
  <2>1. PICK n \in Node : AppThread(n)
    BY <1>2
  <2>2. PICK r \in Node : r = Peer(n) /\ n = Peer(r) /\ n # r
    BY PeerInNode
  <2>3. \A s \in Node : s = n \/ s = r
    BY <2>2, NodeCases
  <2>4. /\ Messages(n, r)' /\ Messages(r, n)' /\ Turns'
        /\ \/ Contents(n, r)' = Contents(n, r) /\ Contents(r, n)' = Contents(r, n)
           \/ Putting(n, r) /\ Contents(r, n)' = Contents(r, n)
           \/ Getting(r, n) /\ Contents(n, r)' = Contents(n, r)
    BY <2>1, <2>2, AppStep
  <2>5. Frames(n, r)' /\ Frames(r, n)'
    BY <2>1, <2>2, AppFrames DEF MessageInv
  <2>6. MessageInv'
    BY <2>2, <2>3, <2>4, <2>5 DEF MessageInv
  <2>7. ChannelStep
    BY <2>2, <2>3, <2>4 DEF ChannelStep
  <2> QED
    BY <2>6, <2>7
<1>3. CASE Idle
  <2> USE IdleStep
  <2>1. ASSUME NEW s \in Node, NEW r \in Node, Frames(s, r), Messages(s, r)
        PROVE  /\ Frames(s, r)' /\ Messages(s, r)' /\ Contents(s, r)' = Contents(s, r)
    <3>1. Arrived(s, r)' <=> Arrived(s, r)
      BY <1>3 DEF Arrived, dlVars
    <3>2. Frames(s, r)' /\ Incoming(s, r)' = Incoming(s, r)
      BY <1>3, <2>1, <3>1, FramesStable DEF Frames, sharedVars, plVars, dlVars
    <3>3. Packets(Incoming(s, r))' = Packets(Incoming(s, r))
      BY <3>2
    <3>4. Contents(s, r)' = Contents(s, r)
      BY <1>3, <3>3 DEF Contents, sharedVars
    <3>5. Messages(s, r)'
      BY <1>3, <2>1, <3>4, BelowMessages
    <3> QED
      BY <3>2, <3>4, <3>5
  <2>2. Turns'
    BY <1>3, BelowTurns DEF MessageInv
  <2> QED
    BY <2>1, <2>2, PeerInNode DEF MessageInv, ChannelStep
<1> QED
  BY <1>1, <1>2, <1>3 DEF Next, Idle, Below

\* As long as every frame was sent.
Delivered == Intact => MessageInv

LEMMA MessagesHold == Spec => [](TypeInv /\ QueueInv /\ Sound /\ Delivered)
<1>1. Init => Delivered
  BY InitMessages DEF Delivered
<1>2. TypeInv /\ QueueInv /\ Sound /\ Delivered /\ [Next]_vars => Delivered'
  BY IntactBefore, NextMessages DEF Sound, Delivered
<1> QED
  BY <1>1, <1>2, NumbersHold, PTL DEF Spec

\* For every message length, every limit and whatever is lost: the main threads
\* get the messages of the other end whole, in order and once each
\* (NetworkLayer.cpp:60-155 over DataLink.cpp and PhysicalLayer.cpp), until a
\* remnant is taken for a frame.
THEOREM MessagesArrive == Spec => []MessagesMatch
<1>1. Delivered => MessagesMatch
  BY PeerInNode DEF Delivered, MessageInv, Messages, MessagesMatch
<1> QED
  BY <1>1, MessagesHold, PTL

-----------------------------------------------------------------------------
(* The layers below are a packet channel.                                  *)

SameChannel == \A s \in Node : InChannel(s) = Contents(s, Peer(s))

LEMMA ChannelIs == TypeInv => SameChannel
<1> SUFFICES ASSUME TypeInv, NEW s \in Node PROVE InChannel(s) = Contents(s, Peer(s))
  BY DEF SameChannel
<1> DEFINE r == Peer(s)
           a == recvPackets[r]
           b == reconstructFrames[r]
           c == Rest(s, r)
           d == sendPackets[s]
<1>1. r \in Node
  BY PeerInNode
<1>2. /\ a \in Seq(Packet) /\ b \in Seq(DataFrame) /\ c \in Seq(DataFrame)
      /\ d \in Seq(Packet)
  BY <1>1, IncomingType
<1>3. InChannel(s) = ((a \o Packets(b)) \o Packets(c)) \o d
  BY DEF InChannel, FrontArrived, Rest, Arrived
<1>4. Contents(s, r) = (a \o Packets(b \o c)) \o d
  BY DEF Contents, Incoming
<1> HIDE DEF a, b, c, d
<1>5. Packets(b \o c) = Packets(b) \o Packets(c)
  BY <1>2, PacketsConcat
<1>6. Packets(b) \in Seq(Packet) /\ Packets(c) \in Seq(Packet)
  BY <1>2, PacketsType
<1>7. (a \o Packets(b)) \o Packets(c) = a \o (Packets(b) \o Packets(c))
  BY <1>2, <1>6, ConcatThree
<1> QED
  BY <1>3, <1>4, <1>5, <1>7

\* What is not handed down yet is part of the last message.
LEMMA OutgoingMade ==
  ASSUME TypeInv, NEW s \in Node, NEW r \in Node, Messages(s, r), outgoing[s] # <<>>,
         Len(sent[s]) <= MaxRequests
  PROVE  Head(outgoing[s]) \in RunPackets
<1> DEFINE a == buildBuffer[r]
           b == Contents(s, r)
           c == outgoing[s]
           ab == a \o b
           k == Len(sent[s])
           m == Due(s, r)
<1>1. a \in Seq(Packet) /\ b \in Seq(Packet) /\ c \in Seq(Packet) /\ k \in Nat /\ c # <<>>
  <2>1. sent[s] \in Seq(Seq(Packet))
    BY DEF TypeInv, TypeOK, NLTypeOK
  <2> QED
    BY <2>1, ContentsType
<1>2. m = ab \o c
  BY DEF Messages, Journey
<1>3. m = <<>> \/ m = sent[s][k]
  BY DEF Due
<1>4. k <= MaxRequests /\ \A i \in 1 .. k : \E sh \in Shapes : sent[s][i] = Packetize(i, sh)
  BY DEF Messages
<1>5. m = sent[s][k] => k \in 1 .. k \/ k = 0
  BY <1>1
<1>6. k = 0 => m = <<>>
  <2>1. Len(received[r]) \in Nat /\ Len(received[r]) <= k
    BY DEF TypeInv, TypeOK, NLTypeOK, Messages
  <2> HIDE DEF k
  <2>2. k = 0 => Len(received[r]) = k
    BY <2>1
  <2> QED
    BY <2>2 DEF Due, k
<1>h. Head(outgoing[s]) = Head(c)
  OBVIOUS
<1> HIDE DEF a, b, c, k, m
<1>7. ab \in Seq(Packet)
  BY <1>1, ConcatParts
<1> HIDE DEF ab
<1>8. /\ Len(m) = Len(ab) + Len(c) /\ Len(ab) \in Nat /\ Len(c) \in Nat
      /\ \A i \in 1 .. Len(c) : m[Len(ab) + i] = c[i]
  BY <1>1, <1>2, <1>7, ConcatParts
<1>9. Len(c) > 0 /\ Head(c) = c[1]
  BY <1>1, NonEmptyLen
<1> DEFINE i == Len(ab) + 1
<1>10. i \in 1 .. Len(m) /\ m[i] = Head(c)
  BY <1>8, <1>9
<1> HIDE DEF i
<1>11. m # <<>>
  BY <1>8, <1>9
<1>12. PICK sh \in Shapes : m = Packetize(k, sh)
  BY <1>3, <1>4, <1>5, <1>6, <1>11
<1>13. k \in 1 .. MaxRequests
  BY <1>1, <1>4, <1>6, <1>11, RequestsAssumption
<1>14. Len(m) = Len(sh)
  BY <1>1, <1>12, PacketizeMade
<1> DEFINE Of(l, z) == {Packetize(l, z)[j] : j \in 1 .. Len(z)}
<1>15. Head(c) \in Of(k, sh)
  <2>1. i \in 1 .. Len(sh) /\ Packetize(k, sh)[i] = Head(c)
    BY <1>10, <1>12, <1>14
  <2> QED
    BY <2>1
<1>16. RunPackets = UNION {Of(l, z) : l \in 1 .. MaxRequests, z \in Shapes}
  BY DEF RunPackets, Shapes
<1> HIDE DEF Of
<1>17. Head(c) \in RunPackets
  <2>1. Of(k, sh) \in {Of(l, z) : l \in 1 .. MaxRequests, z \in Shapes}
    BY <1>13
  <2> QED
    BY <1>15, <1>16, <2>1
<1> QED
  BY <1>17, <1>h

LEMMA SentBound ==
  ASSUME TypeInv, MessageInv, NEW s \in Node
  PROVE  Len(sent[s]) <= MaxRequests
<1> DEFINE a == Len(sent[Client])
           b == Len(sent[Server])
           d == Len(received[Server])
           o == One(appPC[Server] = "handle")
<1>1. a \in Nat /\ b \in Nat /\ d \in Nat /\ o \in Nat /\ MaxRequests \in Nat
  BY HistoryLengths, RequestsAssumption DEF One
<1>2. d <= a /\ b + o <= d /\ a <= MaxRequests
  BY NodeCases DEF MessageInv, Messages, Turns
<1>3. s = Client \/ s = Server
  BY NodeCases
<1> HIDE DEF a, b, d, o
<1>4. b <= MaxRequests
  BY <1>1, <1>2
<1> QED
  BY <1>2, <1>3, <1>4 DEF a, b

\* The channel of the refinement.
Chan == [s \in Node |-> IF Intact THEN InChannel(s) ELSE <<>>]

LEMMA StepMapped ==
  ASSUME TypeInv, Intact, Intact', MessageInv, SameChannel, SameChannel', ChannelStep
  PROVE  [Channel!Next]_(Channel!vars)
<1>1. \A s \in Node : /\ Chan[s] = Contents(s, Peer(s))
                     /\ Chan'[s] = Contents(s, Peer(s))'
  BY DEF SameChannel, Chan
<1>c. Chan = [s \in Node |-> Chan[s]] /\ Chan' = [s \in Node |-> Chan'[s]]
  BY DEF Chan
<1>2. CASE \A s \in Node : Contents(s, Peer(s))' = Contents(s, Peer(s))
  <2>1. Chan' = Chan
    <3>1. \A s \in Node : Chan'[s] = Chan[s]
      BY <1>1, <1>2
    <3> QED
      BY <1>c, <3>1
  <2> QED
    BY <2>1 DEF Channel!vars, Chan
<1>3. CASE \E n \in Node :
             /\ Putting(n, Peer(n)) \/ Getting(n, Peer(n))
             /\ \A s \in Node \ {n} : Contents(s, Peer(s))' = Contents(s, Peer(s))
  <2>1. PICK n \in Node :
             /\ Putting(n, Peer(n)) \/ Getting(n, Peer(n))
             /\ \A s \in Node \ {n} : Contents(s, Peer(s))' = Contents(s, Peer(s))
    BY <1>3
  <2>c. ASSUME NEW e, Chan'[n] = e PROVE Chan' = [Chan EXCEPT ![n] = e]
    <3>1. \A s \in Node : Chan'[s] = IF s = n THEN e ELSE Chan[s]
      BY <1>1, <2>1, <2>c
    <3> QED
      BY <1>c, <3>1
  <2>2. CASE Putting(n, Peer(n))
    <3> DEFINE p == Head(outgoing[n])
    <3>1. p \in RunPackets
      <4>1. outgoing[n] # <<>>
        BY <2>2 DEF Putting, TypeInv, Pending
      <4> QED
        BY <4>1, OutgoingMade, SentBound, PeerInNode DEF MessageInv
    <3> HIDE DEF p
    <3>2. Chan' = [Chan EXCEPT ![n] = Append(@, p)]
      <4>1. Chan'[n] = Append(Chan[n], p)
        BY <1>1, <2>2 DEF Putting, p
      <4>2. Chan' = [Chan EXCEPT ![n] = Append(Chan[n], p)]
        BY <2>c, <4>1
      <4> QED
        BY <4>2
    <3>3. Channel!Put(n)
      BY <3>1, <3>2 DEF Channel!Put, Chan
    <3> QED
      BY <3>3 DEF Channel!Next
  <2>3. CASE Getting(n, Peer(n))
    <3>1. PICK p \in Packet : Contents(n, Peer(n)) = <<p>> \o Contents(n, Peer(n))'
      BY <2>3 DEF Getting
    <3>2. Chan'[n] \in Seq(Packet) /\ Chan[n] = <<p>> \o Chan'[n]
      BY <1>1, <2>3, <3>1 DEF Getting
    <3> DEFINE a == Chan[n]
               b == Chan'[n]
    <3>3. a # <<>> /\ b = Tail(a)
      <4> HIDE DEF a, b
      <4> QED
        BY <3>2 DEF a, b
    <3>4. Chan' = [Chan EXCEPT ![n] = Tail(@)]
      <4>1. Chan' = [Chan EXCEPT ![n] = Tail(Chan[n])]
        BY <2>c, <3>3
      <4> QED
        BY <4>1
    <3>5. Channel!Get(n)
      BY <3>3, <3>4 DEF Channel!Get, Chan
    <3> QED
      BY <3>5 DEF Channel!Next
  <2> QED
    BY <2>1, <2>2, <2>3
<1> QED
  BY <1>2, <1>3 DEF ChannelStep

\* The step that takes a remnant for a frame breaks the channel; after that
\* nothing happens to it.
LEMMA BreakMapped ==
  ASSUME ~ Intact', Intact \/ ~ Intact
  PROVE  [Channel!Next]_(Channel!vars)
<1>1. CASE Intact
  BY <1>1 DEF Channel!Next, Channel!Break
<1>2. CASE ~ Intact
  BY <1>2 DEF Channel!vars
<1> QED
  BY <1>1, <1>2

LEMMA InitMapped == Init => Channel!Init
<1> SUFFICES ASSUME Init PROVE Channel!Init
  OBVIOUS
<1>1. TypeInv
  BY InitTyping
<1>2. Intact
  BY DEF Intact, Init, SharedInit
<1> QED
  BY <1>1, <1>2, ChannelIs, InitMessages DEF SameChannel, Channel!Init

\* For every message length, every limit and whatever is lost: what the network
\* layers hand down and take out are the steps of a packet channel, and the
\* threads below them never change what is in it (DataLink.cpp:50-310); the step
\* that takes a remnant for a frame, and no other, breaks the channel.
THEOREM ImplementsChannel == Spec => ChannelSpec
<1>1. Init => Channel!Init
  BY InitMapped
<1>2. TypeInv => SameChannel
  BY ChannelIs
<1>3. /\ TypeInv /\ QueueInv /\ Sound /\ Delivered /\ [Next]_vars
      /\ SameChannel /\ SameChannel'
      => [Channel!Next]_(Channel!vars)
  <2>1. TypeInv /\ QueueInv /\ Sound /\ Delivered /\ [Next]_vars /\ Intact'
          => Intact /\ MessageInv /\ ChannelStep
    BY IntactBefore, NextMessages DEF Sound, Delivered
  <2> QED
    BY <2>1, StepMapped, BreakMapped
<1> QED
  BY <1>1, <1>2, <1>3, MessagesHold, PTL DEF Spec, ChannelSpec, Channel!Spec

-----------------------------------------------------------------------------
(* Nothing is lost first by an ack that meets a full window.               *)

NoLoss == \A m \in Node : lost[m] \subseteq {"ackWindow"}

\* s's frame is with s, on its way, or on its way back as an ack.
Alive(s, r) == dlPC[s] = "pushFrame" \/ HasData(sendFrames[s]) \/ LeftSender(s, r)

\* A frame in the window is alive, and none is in the window of a node that is to
\* acknowledge one.
Lossless(s, r) ==
  /\ window[s] # <<>> => Alive(s, r)
  /\ dlPC[s] \in Acking => window[s] = <<>>
  /\ "ackWindow" \notin lost[s]

LossInv == NoLoss => \A s \in Node : Lossless(s, Peer(s))

\* A data frame of s is before r.
Outbound(s, r) == HasData(sendFrames[s]) \/ HasData(wire[s]) \/ HasData(recvFrames[r])

\* Only one end has packets on their way.
LEMMA OneWay ==
  ASSUME TypeInv, MessageInv, NEW s \in Node
  PROVE  Contents(s, Peer(s)) = <<>> \/ Contents(Peer(s), s) = <<>>
<1> DEFINE a == Len(sent[Client])
           b == Len(sent[Server])
           c == Len(received[Client])
           d == Len(received[Server])
           o == One(appPC[Client] # "prompt")
           h == One(appPC[Server] = "handle")
<1>1. /\ a \in Nat /\ b \in Nat /\ c \in Nat /\ d \in Nat
      /\ o \in {0, 1} /\ h \in {0, 1}
  BY HistoryLengths DEF One
<1>2. /\ d <= a /\ c <= b /\ a = c + o /\ b + h <= d
  BY NodeCases DEF MessageInv, Messages, Turns
<1>3. /\ Journey(Client, Server) = Due(Client, Server)
      /\ Journey(Server, Client) = Due(Server, Client)
  BY NodeCases DEF MessageInv, Messages
<1>4. d = a => Due(Client, Server) = <<>>
  BY DEF Due
<1>5. c = b => Due(Server, Client) = <<>>
  BY DEF Due
<1> HIDE DEF a, b, c, d, o, h
<1>6. d = a \/ c = b
  BY <1>1, <1>2
<1>7. ASSUME NEW p \in Node, NEW q \in Node, Journey(p, q) = <<>>
      PROVE  Contents(p, q) = <<>>
  BY <1>7, ContentsType, ThreeEmpty DEF Journey
<1>8. Contents(Client, Server) = <<>> \/ Contents(Server, Client) = <<>>
  BY <1>3, <1>4, <1>5, <1>6, <1>7, NodeCases
<1> QED
  BY <1>8, NodeCases

\* A data frame on its way is part of a packet on its way.
LEMMA OutboundContents ==
  ASSUME TypeInv, NEW s \in Node, NEW r \in Node, Link(s, r), Numbers(s, r), Frames(s, r),
         Outbound(s, r)
  PROVE  Contents(s, r) # <<>>
<1>1. ready[s] # <<>>
  BY DEF Frames, Carried, Outbound, HasData
<1>2. dlPC[r] \notin Acking
  BY DEF Link, Flying, One, Outbound
<1>3. ready[s][1].seq = frameExpect[r]
  BY <1>1 DEF Numbers, Unanswered, Outbound, NextNo
<1>4. Rest(s, r) = ready[s]
  BY <1>2, <1>3 DEF Rest, Arrived
<1> DEFINE a == recvPackets[r]
           b == Packets(Incoming(s, r))
           c == sendPackets[s]
<1>5. Incoming(s, r) # <<>>
  <2> DEFINE x == reconstructFrames[r]
             y == ready[s]
  <2>1. x \in Seq(DataFrame) /\ y \in Seq(DataFrame) /\ y # <<>>
    BY <1>1, IncomingType
  <2>2. Incoming(s, r) = x \o y
    BY <1>4 DEF Incoming
  <2> HIDE DEF x, y
  <2>3. Len(x \o y) = Len(x) + Len(y) /\ Len(x) \in Nat /\ Len(y) \in Nat /\ Len(y) > 0
    BY <2>1, ConcatParts, NonEmptyLen
  <2>4. Len(x \o y) # 0
    BY <2>3
  <2> QED
    BY <2>2, <2>4
<1>6. b # <<>>
  BY <1>5, IncomingType, StreamLast DEF Frames
<1>7. a \in Seq(Packet) /\ b \in Seq(Packet) /\ c \in Seq(Packet)
  BY IncomingType
<1>8. Contents(s, r) = (a \o b) \o c
  BY DEF Contents
<1> HIDE DEF a, b, c
<1>9. (a \o b) \o c # <<>>
  BY <1>6, <1>7, ThreeEmpty
<1> QED
  BY <1>8, <1>9

LEMMA NotBothWays ==
  ASSUME TypeInv, WindowInv, NumberInv, MessageInv, NEW s \in Node
  PROVE  ~ (Outbound(s, Peer(s)) /\ Outbound(Peer(s), s))
<1>1. /\ Peer(s) \in Node /\ Peer(Peer(s)) = s
      /\ Link(s, Peer(s)) /\ Link(Peer(s), s) /\ Numbers(s, Peer(s)) /\ Numbers(Peer(s), s)
      /\ Frames(s, Peer(s)) /\ Frames(Peer(s), s)
  BY PeerInNode DEF WindowInv, NumberInv, MessageInv
<1> QED
  BY <1>1, OneWay, OutboundContents

LEMMA PutKeeps ==
  ASSUME NEW q \in Seq(Frame), NEW f \in Frame
  PROVE  /\ HasData(q) \/ f.type = DATA => HasData(Append(q, f))
         /\ HasAck(q) \/ f.type = ACK => HasAck(Append(q, f))
<1>1. /\ Len(Append(q, f)) = Len(q) + 1 /\ Append(q, f)[Len(q) + 1] = f
      /\ \A i \in 1 .. Len(q) : Append(q, f)[i] = q[i]
      /\ Len(q) \in Nat
  BY AppendProperties, LenProperties
<1>2. /\ Len(q) + 1 \in 1 .. Len(Append(q, f))
      /\ \A i \in 1 .. Len(q) : i \in 1 .. Len(Append(q, f))
  BY <1>1
<1> QED
  BY <1>1, <1>2 DEF HasData, HasAck

LEMMA LosesMore ==
  ASSUME TypeInv, NoLoss', NEW n \in Node, NEW c, Lose(n, c)
  PROVE  c = "ackWindow" /\ \A m \in Node : lost'[m] \in {lost[m], lost[m] \cup {c}}
<1>1. lost \in [Node -> SUBSET Causes]
  BY DEF TypeInv, TypeOK, SharedTypeOK
<1>2. \A m \in Node : lost'[m] = IF m = n THEN lost[m] \cup {c} ELSE lost[m]
  BY <1>1 DEF Lose
<1> QED
  BY <1>2 DEF NoLoss

\* The frame that arrives finds the receiver with an empty window: its own frame,
\* if it has one, would be on its way as well, or its ack behind this frame.
LEMMA ArrivalsMeetNone ==
  ASSUME TypeInv, NEW n \in Node, NEW r \in Node, Link(n, r), Link(r, n),
         Lossless(n, r), Lossless(r, n), ~ (Outbound(n, r) /\ Outbound(r, n)),
         dlPC[n] = "receive", recvFrames[n] # <<>>, Head(recvFrames[n]).type = DATA
  PROVE  window[n] = <<>>
<1>1. HasData(recvFrames[n]) /\ ~ HasAck(recvFrames[n])
  BY TakeData DEF TypeInv, TypeOK, SharedTypeOK, Link
<1>2. window[r] # <<>>
  BY <1>1 DEF Link, Flying, One
<1>3. dlPC[r] \notin Acking
  BY <1>2 DEF Lossless
<1>4. sendFrames[r] = <<>> /\ wire[r] = <<>>
  BY <1>1 DEF Link, LeftSender, LeftWire
<1>5. ~ Answered(n, r)
  BY <1>1, <1>4, EmptyQueue DEF Answered
<1>6. ~ Outbound(n, r)
  BY <1>1 DEF Outbound
<1>7. ~ Alive(n, r)
  BY <1>3, <1>5, <1>6 DEF Alive, Outbound, LeftSender, LeftWire
<1> QED
  BY <1>7 DEF Lossless

LEMMA DLLoss ==
  ASSUME TypeInv, QueueInv, NEW n \in Node, NEW r \in Node, r = Peer(n),
         Link(n, r), Link(r, n), Numbers(r, n), Lossless(n, r), Lossless(r, n),
         ~ (Outbound(n, r) /\ Outbound(r, n)), NoLoss', DLThread(n)
  PROVE  Lossless(n, r)' /\ Lossless(r, n)'
<1>a. SharedTypeOK /\ DLTypeOK /\ PLTypeOK
  BY DEF TypeInv, TypeOK
<1>p. r \in Node /\ r # n /\ n = Peer(r)
  BY PeerInNode
<1>c. UNCHANGED wire
  BY DEF DLThread, plVars
<1>q. /\ sendFrames[n] \in Seq(Frame) /\ recvFrames[n] \in Seq(Frame)
      /\ dlPC[n] \in DLPlaces
  BY <1>a DEF SharedTypeOK, DLTypeOK
<1>1. CASE \/ TimeoutEvent(n) \/ ArrivalEvent(n) \/ PacketEvent(n)
          \/ NothingReady(n) \/ FrameRefused(n) \/ Fetch(n)
  <2>1. /\ dlPC'[n] \in {"receive", "fetch", "wait", "send"} /\ dlPC'[r] = dlPC[r]
        /\ dlPC[n] # "pushFrame" /\ dlPC[n] \notin Acking
        /\ UNCHANGED <<window, sendFrames, recvFrames, lost>>
    BY <1>a, <1>p, <1>1 DEF TimeoutEvent, ArrivalEvent, PacketEvent, NothingReady, FrameRefused,
                            Fetch, GoTo, DLTypeOK, Acking, sharedVars
  <2> QED
    BY <1>c, <2>1 DEF Lossless, Alive, LeftSender, LeftWire, Answered, Acking
<1>2. CASE CheckRecvPackets(n) \/ DeliverPacket(n) \/ AckLocked(n)
  <2>1. /\ dlPC'[n] \in Acking /\ dlPC[n] \in Acking /\ dlPC'[r] = dlPC[r]
        /\ UNCHANGED <<window, sendFrames, recvFrames>>
    BY <1>a, <1>p, <1>2 DEF CheckRecvPackets, DeliverPacket, AckLocked, GoTo, DLTypeOK, Acking
  <2>2. UNCHANGED lost
    <3>1. UNCHANGED lost \/ Lose(n, "packetFull")
      BY <1>2 DEF CheckRecvPackets, DeliverPacket, AckLocked
    <3> QED
      BY <3>1, LosesMore
  <2> QED
    BY <1>c, <2>1, <2>2 DEF Lossless, Alive, LeftSender, LeftWire, Answered, Acking
<1>3. CASE AckRefused(n)
  <2>1. dlPC[n] = "sendAck" /\ window[n] # <<>>
    BY <1>3, WindowEmpty DEF AckRefused
  <2> QED
    BY <2>1 DEF Lossless, Acking
<1>4. CASE AckNotLocked(n)
  BY <1>4, LosesMore DEF AckNotLocked
<1>5. CASE PopSendFrames(n)
  <2>1. /\ dlPC[n] = "ackSF" /\ dlPC'[n] = "ackRF" /\ dlPC'[r] = dlPC[r]
        /\ sendFrames'[n] = PopFront(sendFrames[n]) /\ sendFrames'[r] = sendFrames[r]
        /\ UNCHANGED <<window, recvFrames, lost>>
    BY <1>a, <1>p, <1>5 DEF PopSendFrames, GoTo, DLTypeOK, SharedTypeOK
  <2>2. sendFrames'[n] = sendFrames[n]
    BY <2>1 DEF Link, PopFront
  <2> QED
    BY <1>c, <2>1, <2>2 DEF Lossless, Alive, LeftSender, LeftWire, Answered, Acking
<1>6. CASE PopRecvFrames(n)
  <2>1. /\ dlPC[n] = "ackRF" /\ dlPC'[n] = "fetch" /\ dlPC'[r] = dlPC[r]
        /\ recvFrames'[n] = PopFront(recvFrames[n]) /\ recvFrames'[r] = recvFrames[r]
        /\ UNCHANGED <<window, sendFrames>>
    BY <1>a, <1>p, <1>6 DEF PopRecvFrames, GoTo, DLTypeOK, SharedTypeOK
  <2>2. recvFrames[n] = <<>> /\ UNCHANGED lost
    <3>1. recvFrames[n] # <<>> => Lose(n, "ackPop")
      BY <1>6 DEF PopRecvFrames
    <3>2. recvFrames[n] = <<>>
      BY <3>1, LosesMore
    <3> QED
      BY <1>6, <3>2 DEF PopRecvFrames
  <2>3. recvFrames'[n] = recvFrames[n]
    BY <2>1, <2>2 DEF PopFront
  <2> QED
    BY <1>c, <2>1, <2>2, <2>3 DEF Lossless, Alive, LeftSender, LeftWire, Answered, Acking
<1>7. CASE ReceiveAck(n)
  <2>1. /\ dlPC[n] = "receive" /\ dlPC'[n] = "ackSF" /\ dlPC'[r] = dlPC[r]
        /\ recvFrames[n] # <<>> /\ Head(recvFrames[n]).type = ACK
        /\ recvFrames'[n] = Tail(recvFrames[n]) /\ recvFrames'[r] = recvFrames[r]
        /\ window'[n] = PopFront(window[n]) /\ window'[r] = window[r]
        /\ UNCHANGED <<sendFrames, lost>>
    BY <1>a, <1>p, <1>7 DEF ReceiveAck, FromPhysicalLayer, GoTo, DLTypeOK, SharedTypeOK
  <2>2. HasAck(recvFrames[n]) /\ (HasData(recvFrames'[n]) <=> HasData(recvFrames[n]))
    BY <1>q, <2>1, TakeAck DEF Link
  <2>3. window'[n] = <<>>
    <3>1. window[n] # <<>>
      BY <2>2 DEF Link, Flying, One
    <3> QED
      BY <2>1, <3>1, WindowEmpty
  <2> QED
    BY <1>c, <2>1, <2>2, <2>3 DEF Lossless, Alive, LeftSender, LeftWire, Answered, Acking
<1>8. CASE ReceiveData(n)
  <2> DEFINE f == Head(recvFrames[n])
  <2>1. /\ dlPC[n] = "receive" /\ dlPC'[r] = dlPC[r]
        /\ recvFrames[n] # <<>> /\ f.type = DATA
        /\ recvFrames'[n] = Tail(recvFrames[n]) /\ recvFrames'[r] = recvFrames[r]
        /\ UNCHANGED <<window, sendFrames, lost>>
    BY <1>a, <1>p, <1>8 DEF ReceiveData, FromPhysicalLayer, GoTo, DLTypeOK, SharedTypeOK
  <2>2. f.seq = frameExpect[n]
    BY <1>q, <2>1, TakeAny DEF Numbers
  <2>3. dlPC'[n] \in Acking
    BY <1>a, <1>8, <2>2 DEF ReceiveData, Expected, GoTo, DLTypeOK, Acking
  <2>4. window[n] = <<>>
    BY <2>1, ArrivalsMeetNone
  <2>5. Alive(r, n)'
    BY <2>3 DEF Alive, LeftSender, LeftWire
  <2> QED
    BY <2>1, <2>3, <2>4, <2>5 DEF Lossless
<1>9. CASE PushAck(n)
  <2> DEFINE a == Ack(frameExpect[n])
  <2>1. /\ dlPC[n] = "pushAck" /\ dlPC'[n] = "fetch" /\ dlPC'[r] = dlPC[r]
        /\ sendFrames'[n] = Append(sendFrames[n], a) /\ sendFrames'[r] = sendFrames[r]
        /\ UNCHANGED <<window, recvFrames, lost>>
    BY <1>a, <1>p, <1>9 DEF PushAck, GoTo, DLTypeOK, SharedTypeOK
  <2>2. a \in Frame /\ a.type = ACK
    BY <1>a, AckInFrame DEF DLTypeOK, Ack
  <2> HIDE DEF a
  <2>3. HasAck(sendFrames'[n])
    BY <1>q, <2>1, <2>2, PutKeeps
  <2>4. window[n] = <<>>
    BY <2>1 DEF Link
  <2> QED
    BY <1>c, <2>1, <2>3, <2>4 DEF Lossless, Alive, LeftSender, LeftWire, Answered, Acking
<1>10. CASE FrameNotLocked(n)
  BY <1>10, LosesMore DEF FrameNotLocked
<1>11. CASE FrameLocked(n)
  <2>1. /\ dlPC[n] = "send" /\ dlPC'[n] = "pushFrame" /\ dlPC'[r] = dlPC[r]
        /\ window'[r] = window[r]
        /\ UNCHANGED <<sendFrames, recvFrames, lost>>
    BY <1>a, <1>p, <1>11 DEF FrameLocked, GoTo, DLTypeOK
  <2> QED
    BY <1>c, <2>1 DEF Lossless, Alive, LeftSender, LeftWire, Answered, Acking
<1>12. CASE PushFrame(n)
  <2> DEFINE f == Head(ready[n])
  <2>1. /\ dlPC[n] = "pushFrame" /\ dlPC'[n] = "wait" /\ dlPC'[r] = dlPC[r]
        /\ sendFrames'[n] = Append(sendFrames[n], f) /\ sendFrames'[r] = sendFrames[r]
        /\ UNCHANGED <<window, recvFrames, lost>>
    BY <1>a, <1>p, <1>12 DEF PushFrame, GoTo, DLTypeOK, SharedTypeOK
  <2>2. f \in Frame /\ f.type = DATA
    <3>1. ready[n] # <<>> /\ ready[n] \in Seq(DataFrame)
      BY <1>a, <2>1 DEF TypeInv, Pending, DLTypeOK
    <3>2. f \in DataFrame
      BY <3>1
    <3> QED
      BY <3>2 DEF Frame, DataFrame
  <2> HIDE DEF f
  <2>3. HasData(sendFrames'[n]) /\ (HasAck(sendFrames[n]) => HasAck(sendFrames'[n]))
    BY <1>q, <2>1, <2>2, PutKeeps
  <2> QED
    BY <1>c, <2>1, <2>3 DEF Lossless, Alive, LeftSender, LeftWire, Answered, Acking
<1> QED
  BY <1>1, <1>2, <1>3, <1>4, <1>5, <1>6, <1>7, <1>8, <1>9, <1>10, <1>11, <1>12
  DEF DLThread, DLStep

LEMMA PLLoss ==
  ASSUME TypeInv, NEW n \in Node, NEW r \in Node, r = Peer(n), Link(n, r), Link(r, n),
         Lossless(n, r), Lossless(r, n), NoLoss', PLThread(n)
  PROVE  Lossless(n, r)' /\ Lossless(r, n)'
<1>a. SharedTypeOK /\ PLTypeOK
  BY DEF TypeInv, TypeOK
<1>p. r \in Node /\ r # n /\ n = Peer(r)
  BY PeerInNode
<1>c. UNCHANGED <<dlPC, window>>
  BY DEF PLThread, dlVars
<1>q. /\ sendFrames[n] \in Seq(Frame) /\ recvFrames[n] \in Seq(Frame)
      /\ wire[n] \in Seq(Frame) /\ wire[r] \in Seq(Frame)
  BY <1>a, <1>p DEF SharedTypeOK, PLTypeOK
<1>1. CASE TryLockSendFrames(n) \/ CheckSendFrames(n) \/ Unlock(n) \/ ReceiveNothing(n)
  <2>1. UNCHANGED <<sendFrames, recvFrames, wire, lost>>
    BY <1>1 DEF TryLockSendFrames, CheckSendFrames, Unlock, ReceiveNothing, sharedVars
  <2> QED
    BY <1>c, <2>1 DEF Lossless, Alive, LeftSender, LeftWire, Answered
<1>2. CASE SendAFrame(n)
  <2> DEFINE f == Head(sendFrames[n])
  <2>1. /\ sendFrames[n] # <<>>
        /\ sendFrames'[n] = Tail(sendFrames[n]) /\ sendFrames'[r] = sendFrames[r]
        /\ wire'[n] = Append(wire[n], f) /\ wire'[r] = wire[r]
        /\ UNCHANGED <<recvFrames, lost>>
    <3>1. sendFrames[n] # <<>>
      BY <1>2 DEF SendAFrame, Link
    <3> QED
      BY <1>a, <1>p, <1>2, <3>1 DEF SendAFrame, SharedTypeOK, PLTypeOK
  <2>2. f \in Frame
    BY <1>q, <2>1, TakeAny
  <2>3. CASE f.type = DATA
    <3>1. ~ HasAck(sendFrames[n])
      BY <1>q, <2>1, <2>3, TakeData DEF Link
    <3> HIDE DEF f
    <3>2. HasData(wire'[n]) /\ (HasAck(wire[n]) => HasAck(wire'[n]))
      BY <1>q, <2>1, <2>2, <2>3, PutKeeps
    <3> QED
      BY <1>c, <2>1, <3>1, <3>2 DEF Lossless, Alive, LeftSender, LeftWire, Answered
  <2>4. CASE f.type = ACK
    <3>1. HasData(sendFrames'[n]) <=> HasData(sendFrames[n])
      BY <1>q, <2>1, <2>4, TakeAck DEF Link
    <3> HIDE DEF f
    <3>2. HasAck(wire'[n]) /\ (HasData(wire[n]) => HasData(wire'[n]))
      BY <1>q, <2>1, <2>2, <2>4, PutKeeps
    <3> QED
      BY <1>c, <2>1, <3>1, <3>2 DEF Lossless, Alive, LeftSender, LeftWire, Answered
  <2> QED
    BY <2>2, <2>3, <2>4, FrameTypes
<1>3. CASE ReceiveOne(n)
  <2> DEFINE f == Head(wire[r])
  <2>1. /\ wire[r] # <<>>
        /\ wire'[r] = Tail(wire[r]) /\ wire'[n] = wire[n]
        /\ recvFrames'[n] = Append(recvFrames[n], f) /\ recvFrames'[r] = recvFrames[r]
        /\ UNCHANGED <<sendFrames, lost>>
    BY <1>a, <1>p, <1>3 DEF ReceiveOne, SharedTypeOK, PLTypeOK
  <2>2. f \in Frame
    BY <1>q, <2>1, TakeAny
  <2>3. CASE f.type = DATA
    <3>1. ~ HasAck(wire[r])
      BY <1>q, <2>1, <2>3, TakeData DEF Link
    <3> HIDE DEF f
    <3>2. HasData(recvFrames'[n]) /\ (HasAck(recvFrames[n]) => HasAck(recvFrames'[n]))
      BY <1>q, <2>1, <2>2, <2>3, PutKeeps
    <3> QED
      BY <1>c, <2>1, <3>1, <3>2 DEF Lossless, Alive, LeftSender, LeftWire, Answered
  <2>4. CASE f.type = ACK
    <3>1. HasData(wire'[r]) <=> HasData(wire[r])
      BY <1>q, <2>1, <2>4, TakeAck DEF Link
    <3> HIDE DEF f
    <3>2. HasAck(recvFrames'[n]) /\ (HasData(recvFrames[n]) => HasData(recvFrames'[n]))
      BY <1>q, <2>1, <2>2, <2>4, PutKeeps
    <3> QED
      BY <1>c, <2>1, <3>1, <3>2 DEF Lossless, Alive, LeftSender, LeftWire, Answered
  <2> QED
    BY <2>2, <2>3, <2>4, FrameTypes
<1>4. CASE ReceiveInvalid(n) \/ ReceiveMerged(n) \/ RemnantRefused(n) \/ RemnantAccepted(n)
  <2>1. Lose(n, "checkByte") \/ Lose(n, "merged") \/ Lose(n, "remnant")
    BY <1>4 DEF ReceiveInvalid, ReceiveMerged, RemnantRefused, RemnantAccepted
  <2> QED
    BY <2>1, LosesMore
<1> QED
  BY <1>1, <1>2, <1>3, <1>4 DEF PLThread, PLStep

LEMMA NoLossBefore == TypeInv /\ [Next]_vars /\ NoLoss' => NoLoss
BY LostGrows DEF NoLoss

\* Nothing was made up where nothing was lost.
LEMMA NoLossIntact == NoLoss => Intact
BY DEF NoLoss, Intact

LEMMA InitLoss == Init => LossInv
<1> SUFFICES ASSUME Init, NEW s \in Node PROVE Lossless(s, Peer(s))
  BY DEF LossInv
<1>1. window[s] = <<>> /\ lost[s] = {}
  BY DEF Init, SharedInit, DLInit
<1> QED
  BY <1>1 DEF Lossless

LEMMA NextLoss ==
  TypeInv /\ QueueInv /\ Sound /\ Delivered /\ LossInv /\ [Next]_vars => LossInv'
<1> SUFFICES ASSUME TypeInv, QueueInv, Sound, Delivered, LossInv, [Next]_vars,
                    NoLoss', NEW s \in Node
             PROVE  Lossless(s, Peer(s))'
  BY DEF LossInv
<1>0. NoLoss /\ WindowInv /\ NumberInv /\ MessageInv
  BY NoLossBefore, NoLossIntact DEF Sound, Delivered
<1>1. ASSUME NEW n \in Node
      PROVE  /\ Link(n, Peer(n)) /\ Link(Peer(n), n)
             /\ Numbers(n, Peer(n)) /\ Numbers(Peer(n), n)
             /\ Lossless(n, Peer(n)) /\ Lossless(Peer(n), n)
             /\ ~ (Outbound(n, Peer(n)) /\ Outbound(Peer(n), n))
             /\ s = n \/ (s = Peer(n) /\ Peer(s) = n)
  <2>2. Lossless(n, Peer(n)) /\ Lossless(Peer(n), n)
    BY <1>0, PeerInNode DEF LossInv
  <2>3. ~ (Outbound(n, Peer(n)) /\ Outbound(Peer(n), n))
    BY <1>0, NotBothWays
  <2> QED
    BY <1>0, <2>2, <2>3, PeerInNode DEF WindowInv, NumberInv, Node, Peer
<1>2. ASSUME NEW n \in Node, Lossless(n, Peer(n))' /\ Lossless(Peer(n), n)'
      PROVE  Lossless(s, Peer(s))'
  BY <1>1, <1>2, PeerInNode
<1>3. ASSUME NEW n \in Node, DLThread(n) PROVE Lossless(s, Peer(s))'
  <2>1. Lossless(n, Peer(n))' /\ Lossless(Peer(n), n)'
    BY <1>1, <1>3, PeerInNode, DLLoss
  <2> QED
    BY <1>2, <1>3, <2>1
<1>4. ASSUME NEW n \in Node, PLThread(n) PROVE Lossless(s, Peer(s))'
  <2>1. Lossless(n, Peer(n))' /\ Lossless(Peer(n), n)'
    BY <1>1, <1>4, PeerInNode, PLLoss
  <2> QED
    BY <1>2, <1>4, <2>1
<1>5. CASE \/ \E n \in Node : AppThread(n) \/ Alarm(n)
          \/ Idle
  <2>1. UNCHANGED <<window, sendFrames, recvFrames, wire, dlPC, lost>>
    BY <1>5, IdleStep DEF AppThread, NLStep, Command, HandleMessage, FromApplicationLayer, ToDataLinkLayer,
                LockRecvPackets, NoPacket, ReceiveAPacket, Alarm, TimerExpires, sharedVars,
                dlVars, plVars
  <2>2. Lossless(s, Peer(s))
    BY <1>1
  <2> QED
    BY <2>1, <2>2 DEF Lossless, Alive, LeftSender, LeftWire, Answered
<1> QED
  BY <1>3, <1>4, <1>5 DEF Next, Idle

\* An ack that ToPhysicalLayer refuses because the window is full
\* (DataLink.cpp:353) is never the first loss: without another one, a node that is
\* to acknowledge a frame has none of its own in the window.
THEOREM RefusedAckFollowsLoss == Spec => []RefusedAckIsSecondary
<1>1. Init => LossInv
  BY InitLoss
<1>2. TypeInv /\ QueueInv /\ Sound /\ Delivered /\ LossInv /\ [Next]_vars => LossInv'
  BY NextLoss
<1>3. LossInv => RefusedAckIsSecondary
  <2> SUFFICES ASSUME LossInv, NEW n \in Node, \A m \in Node : lost[m] \ {"ackWindow"} = {}
               PROVE  "ackWindow" \notin lost[n]
    BY DEF RefusedAckIsSecondary
  <2>1. NoLoss
    BY DEF NoLoss
  <2> QED
    BY <2>1 DEF LossInv, Lossless
<1> QED
  BY <1>1, <1>2, <1>3, MessagesHold, PTL DEF Spec
=============================================================================
