------------------------------ MODULE StackFrames -------------------------------
(***************************************************************************)
(* The frames of one direction, made and not yet delivered, are whole      *)
(* packets in order, for every value of the constants: no step of the data *)
(* link and physical layers changes what the network layers can get out.   *)
(***************************************************************************)
EXTENDS StackWindow, WellFoundedInduction

(* Packets is defined by recursion.  Induction over the natural numbers is *)
(* used in this form, about a set of numbers.                              *)

LEMMA NatSet ==
  ASSUME NEW S, 0 \in S, \A k \in Nat : k \in S => k + 1 \in S
  PROVE  \A k \in Nat : k \in S
<1> DEFINE T == Nat \ S
<1>1. SUFFICES ASSUME T # {} PROVE FALSE
  OBVIOUS
<1>2. PICK x \in T : \A y \in T : ~ (<<y, x>> \in OpToRel(<, Nat))
  <2>1. T \subseteq Nat
    OBVIOUS
  <2> HIDE DEF T
  <2> QED
    BY <1>1, <2>1, NatLessThanWellFounded, WFMin
<1>3. \A y \in Nat : y < x => y \in S
  BY <1>2 DEF OpToRel
<1>4. x \in Nat /\ x # 0
  OBVIOUS
<1>5. x - 1 \in Nat /\ x - 1 < x /\ (x - 1) + 1 = x
  BY <1>4
<1>6. x \in S
  BY <1>3, <1>5
<1> QED
  BY <1>6

\* f is the function of Packets, for the first k frames of q.
UpTo(f, q, k) ==
  f = [i \in 0 .. k |->
         IF i = 0 THEN <<>>
         ELSE IF q[i].end THEN Append(f[i - 1], q[i].payload.pkt) ELSE f[i - 1]]

LEMMA UpToExists ==
  ASSUME NEW q
  PROVE  \A k \in Nat : \E f : UpTo(f, q, k)
<1> DEFINE S == {k \in Nat : \E f : UpTo(f, q, k)}
<1>1. 0 \in S
  <2>1. UpTo([i \in 0 .. 0 |-> <<>>], q, 0)
    BY DEF UpTo
  <2> QED
    BY <2>1
<1>2. ASSUME NEW k \in Nat, k \in S PROVE k + 1 \in S
  <2>1. PICK f : UpTo(f, q, k)
    BY <1>2
  <2> DEFINE e == IF q[k + 1].end THEN Append(f[k], q[k + 1].payload.pkt) ELSE f[k]
             g == [i \in 0 .. k + 1 |-> IF i = k + 1 THEN e ELSE f[i]]
  <2>2. \A i \in 0 .. k : f[i] = IF i = 0 THEN <<>>
                                 ELSE IF q[i].end THEN Append(f[i - 1], q[i].payload.pkt)
                                                  ELSE f[i - 1]
    BY <2>1 DEF UpTo
  <2>3. \A i \in 0 .. k : g[i] = f[i]
    OBVIOUS
  <2>4. g[k + 1] = e
    OBVIOUS
  <2>5. g[(k + 1) - 1] = f[k]
    BY <2>3
  <2>6. \A i \in 0 .. k + 1 :
          g[i] = IF i = 0 THEN <<>>
                 ELSE IF q[i].end THEN Append(g[i - 1], q[i].payload.pkt) ELSE g[i - 1]
    <3> SUFFICES ASSUME NEW i \in 0 .. k + 1
                 PROVE  g[i] = IF i = 0 THEN <<>>
                               ELSE IF q[i].end THEN Append(g[i - 1], q[i].payload.pkt)
                                                ELSE g[i - 1]
      OBVIOUS
    <3>1. CASE i = k + 1
      <4>1. i # 0
        BY <3>1
      <4> QED
        BY <2>4, <2>5, <3>1, <4>1, Zenon
    <3>2. CASE i = 0
      BY <2>2, <2>3, <3>2
    <3>3. CASE i \in 1 .. k
      <4>1. i \in 0 .. k /\ i - 1 \in 0 .. k /\ i # 0
        BY <3>3
      <4>2. g[i] = f[i] /\ g[i - 1] = f[i - 1]
        BY <2>3, <4>1
      <4> HIDE DEF g
      <4> QED
        BY <2>2, <4>1, <4>2
    <3> QED
      BY <3>1, <3>2, <3>3
  <2>7. UpTo(g, q, k + 1)
    <3> DEFINE h == [i \in 0 .. k + 1 |->
                       IF i = 0 THEN <<>>
                       ELSE IF q[i].end THEN Append(g[i - 1], q[i].payload.pkt) ELSE g[i - 1]]
    <3>1. h = g
      <4> HIDE DEF e
      <4> QED
        BY <2>6
    <3> QED
      BY <3>1 DEF UpTo
  <2> QED
    BY <2>7
<1> HIDE DEF S
<1>3. \A k \in Nat : k \in S
  BY <1>1, <1>2, NatSet
<1> QED
  BY <1>3 DEF S

\* Packets by its recursion equations.
LEMMA PacketsUpTo ==
  ASSUME NEW S, NEW q \in Seq(S)
  PROVE  \E f : UpTo(f, q, Len(q)) /\ Packets(q) = f[Len(q)]
<1> DEFINE f == CHOOSE f : UpTo(f, q, Len(q))
<1>1. Len(q) \in Nat
  OBVIOUS
<1>2. UpTo(f, q, Len(q))
  BY <1>1, UpToExists
<1>3. Packets(q) = f[Len(q)]
  BY DEF Packets, UpTo
<1> QED
  BY <1>2, <1>3

LEMMA UpToAt ==
  ASSUME NEW q, NEW k \in Nat, NEW f, UpTo(f, q, k)
  PROVE  /\ f[0] = <<>>
         /\ \A i \in 1 .. k : f[i] = IF q[i].end THEN Append(f[i - 1], q[i].payload.pkt) ELSE f[i - 1]
<1>1. \A i \in 0 .. k : f[i] = IF i = 0 THEN <<>>
                               ELSE IF q[i].end THEN Append(f[i - 1], q[i].payload.pkt)
                                                ELSE f[i - 1]
  BY DEF UpTo
<1>2. 0 \in 0 .. k /\ \A i \in 1 .. k : i \in 0 .. k /\ i # 0
  OBVIOUS
<1> QED
  BY <1>1, <1>2, Zenon

LEMMA UpToType ==
  ASSUME NEW q \in Seq(DataFrame), NEW f, UpTo(f, q, Len(q))
  PROVE  \A i \in 0 .. Len(q) : f[i] \in Seq(Packet)
<1> DEFINE S == {k \in Nat : k <= Len(q) => f[k] \in Seq(Packet)}
<1>1. Len(q) \in Nat
  OBVIOUS
<1>2. 0 \in S
  <2>1. f[0] = <<>>
    BY <1>1, UpToAt, Zenon
  <2>2. f[0] \in Seq(Packet)
    BY <2>1, EmptySeq
  <2> QED
    BY <2>2
<1>3. ASSUME NEW k \in Nat, k \in S PROVE k + 1 \in S
  <2>1. CASE k + 1 <= Len(q)
    <3>1. f[k] \in Seq(Packet) /\ k + 1 \in 1 .. Len(q) /\ (k + 1) - 1 = k
      BY <1>1, <1>3, <2>1
    <3>2. f[k + 1] = IF q[k + 1].end THEN Append(f[k], q[k + 1].payload.pkt) ELSE f[k]
      BY <1>1, <3>1, UpToAt
    <3>3. q[k + 1] \in DataFrame
      BY <3>1
    <3>4. q[k + 1].payload.pkt \in Packet
      BY <3>3 DEF DataFrame, Chunk
    <3>5. f[k + 1] \in Seq(Packet)
      BY <3>1, <3>2, <3>4
    <3> QED
      BY <3>5
  <2> QED
    BY <2>1
<1> HIDE DEF S
<1>4. \A k \in Nat : k \in S
  BY <1>2, <1>3, NatSet
<1> QED
  BY <1>1, <1>4 DEF S

LEMMA PacketsType ==
  ASSUME NEW q \in Seq(DataFrame)
  PROVE  Packets(q) \in Seq(Packet)
BY PacketsUpTo, UpToType

LEMMA PacketsEmpty == Packets(<<>>) = <<>>
<1>1. <<>> \in Seq(DataFrame) /\ Len(<<>>) = 0 /\ 0 \in Nat
  OBVIOUS
<1>2. PICK f : UpTo(f, <<>>, 0) /\ Packets(<<>>) = f[0]
  BY <1>1, PacketsUpTo
<1> QED
  BY <1>1, <1>2, UpToAt, Zenon

\* Packets is a homomorphism.
LEMMA PacketsConcat ==
  ASSUME NEW q \in Seq(DataFrame), NEW t \in Seq(DataFrame)
  PROVE  Packets(q \o t) = Packets(q) \o Packets(t)
<1> DEFINE w == q \o t
<1>1. /\ w \in Seq(DataFrame) /\ Len(w) = Len(q) + Len(t)
      /\ Len(q) \in Nat /\ Len(t) \in Nat /\ Len(w) \in Nat
      /\ \A i \in 1 .. Len(q) : w[i] = q[i]
      /\ \A i \in 1 .. Len(t) : w[Len(q) + i] = t[i]
  BY ConcatProperties
<1>2. PICK f : UpTo(f, q, Len(q)) /\ Packets(q) = f[Len(q)]
  BY PacketsUpTo
<1>3. PICK g : UpTo(g, t, Len(t)) /\ Packets(t) = g[Len(t)]
  BY PacketsUpTo
<1> HIDE DEF w
<1>4. PICK h : UpTo(h, w, Len(w)) /\ Packets(w) = h[Len(w)]
  BY <1>1, PacketsUpTo
<1>f. /\ f[0] = <<>>
      /\ \A i \in 1 .. Len(q) : f[i] = IF q[i].end THEN Append(f[i - 1], q[i].payload.pkt) ELSE f[i - 1]
      /\ \A i \in 0 .. Len(q) : f[i] \in Seq(Packet)
  BY <1>1, <1>2, UpToAt, UpToType
<1>g. /\ g[0] = <<>>
      /\ \A i \in 1 .. Len(t) : g[i] = IF t[i].end THEN Append(g[i - 1], t[i].payload.pkt) ELSE g[i - 1]
      /\ \A i \in 0 .. Len(t) : g[i] \in Seq(Packet)
  BY <1>1, <1>3, UpToAt, UpToType
<1>h. /\ h[0] = <<>>
      /\ \A i \in 1 .. Len(w) : h[i] = IF w[i].end THEN Append(h[i - 1], w[i].payload.pkt) ELSE h[i - 1]
  BY <1>1, <1>4, UpToAt
<1>5. h[Len(q)] = f[Len(q)]
  <2> DEFINE S == {k \in Nat : k <= Len(q) => h[k] = f[k]}
  <2>1. 0 \in S
    BY <1>f, <1>h
  <2>2. ASSUME NEW k \in Nat, k \in S PROVE k + 1 \in S
    <3>1. CASE k + 1 <= Len(q)
      <4>1. k <= Len(q) /\ k + 1 \in 1 .. Len(q) /\ k + 1 \in 1 .. Len(w) /\ (k + 1) - 1 = k
        BY <1>1, <3>1
      <4>2. h[k] = f[k]
        BY <2>2, <4>1
      <4>3. w[k + 1] = q[k + 1]
        BY <1>1, <4>1
      <4>4. h[k + 1] = f[k + 1]
        <5> DEFINE j == k + 1
        <5>1. f[j] = IF q[j].end THEN Append(f[j - 1], q[j].payload.pkt) ELSE f[j - 1]
          BY <1>f, <4>1
        <5>2. h[j] = IF w[j].end THEN Append(h[j - 1], w[j].payload.pkt) ELSE h[j - 1]
          BY <1>h, <4>1
        <5>3. w[j] = q[j] /\ j - 1 = k
          BY <4>1, <4>3
        <5> HIDE DEF j
        <5>4. h[j] = f[j]
          BY <4>2, <5>1, <5>2, <5>3
        <5> QED
          BY <5>4 DEF j
      <4> QED
        BY <4>4
    <3> QED
      BY <3>1
  <2> HIDE DEF S
  <2>3. \A k \in Nat : k \in S
    BY <2>1, <2>2, NatSet
  <2> QED
    BY <1>1, <2>3 DEF S
<1>6. h[Len(q) + Len(t)] = f[Len(q)] \o g[Len(t)]
  <2> DEFINE a == f[Len(q)]
             S == {k \in Nat : k <= Len(t) => h[Len(q) + k] = a \o g[k]}
  <2>a. a \in Seq(Packet)
    BY <1>1, <1>f
  <2>s. \A k \in Nat : k \in S <=> (k <= Len(t) => h[Len(q) + k] = a \o g[k])
    OBVIOUS
  <2>0. h[Len(q)] = a
    BY <1>5
  <2> HIDE DEF a, S
  <2>1. 0 \in S
    <3>1. Len(q) + 0 = Len(q) /\ 0 \in Nat
      BY <1>1
    <3>2. a \o <<>> = a
      BY <2>a, ConcatEmptySeq
    <3>3. h[Len(q) + 0] = a \o g[0]
      BY <1>g, <2>0, <3>1, <3>2, Zenon
    <3> QED
      BY <2>s, <3>1, <3>3, Zenon
  <2>2. ASSUME NEW k \in Nat, k \in S PROVE k + 1 \in S
    <3>0. k + 1 \in Nat
      OBVIOUS
    <3>1. CASE k + 1 <= Len(t)
      <4> DEFINE j == Len(q) + (k + 1)
                 b == g[k]
                 c == t[k + 1].payload.pkt
      <4>1. /\ k <= Len(t) /\ k + 1 \in 1 .. Len(t) /\ (k + 1) - 1 = k /\ k \in 0 .. Len(t)
            /\ j \in 1 .. Len(w) /\ j - 1 = Len(q) + k
        BY <1>1, <3>1
      <4>2. h[Len(q) + k] = a \o b
        BY <2>2, <2>s, <4>1, Zenon
      <4>3. w[j] = t[k + 1]
        BY <1>1, <4>1
      <4>4. t[k + 1] \in DataFrame /\ b \in Seq(Packet)
        BY <1>g, <4>1
      <4>5. c \in Packet
        BY <4>4 DEF DataFrame, Chunk
      <4>6. g[k + 1] = IF t[k + 1].end THEN Append(b, c) ELSE b
        BY <1>g, <4>1
      <4>7. h[j] = IF w[j].end THEN Append(h[j - 1], w[j].payload.pkt) ELSE h[j - 1]
        <5> HIDE DEF j
        <5> QED
          BY <1>h, <4>1, Zenon
      <4> HIDE DEF j, b
      <4>8. h[j] = IF t[k + 1].end THEN Append(a \o b, c) ELSE a \o b
        BY <4>1, <4>2, <4>3, <4>7
      <4> HIDE DEF c
      <4>9. Append(a \o b, c) = a \o Append(b, c)
        <5>1. a \o b \in Seq(Packet) /\ <<c>> \in Seq(Packet)
          BY <2>a, <4>4, <4>5
        <5>2. Append(a \o b, c) = (a \o b) \o <<c>> /\ Append(b, c) = b \o <<c>>
          BY <4>4, <4>5, <5>1, AppendIsConcat
        <5> QED
          BY <2>a, <4>4, <5>1, <5>2, ConcatAssociative
      <4>10. h[j] = a \o g[k + 1]
        BY <4>6, <4>8, <4>9
      <4> QED
        BY <2>s, <3>0, <4>10, Zenon DEF j
    <3>2. CASE ~ (k + 1 <= Len(t))
      BY <2>s, <3>0, <3>2, Zenon
    <3> QED
      BY <3>1, <3>2
  <2>3. \A k \in Nat : k \in S
    BY <2>1, <2>2, NatSet
  <2>4. h[Len(q) + Len(t)] = a \o g[Len(t)]
    <3>1. Len(t) <= Len(t)
      BY <1>1
    <3> QED
      BY <1>1, <2>3, <2>s, <3>1, Zenon
  <2> QED
    BY <2>4 DEF a
<1> QED
  BY <1>1, <1>2, <1>3, <1>4, <1>6 DEF w

LEMMA PacketsOne ==
  ASSUME NEW f \in DataFrame
  PROVE  Packets(<<f>>) = IF f.end THEN <<f.payload.pkt>> ELSE <<>>
<1>1. <<f>> \in Seq(DataFrame) /\ Len(<<f>>) = 1 /\ <<f>>[1] = f /\ 1 \in Nat /\ 1 - 1 = 0 /\ 1 \in 1 .. 1
  OBVIOUS
<1>2. PICK g : UpTo(g, <<f>>, 1) /\ Packets(<<f>>) = g[1]
  BY <1>1, PacketsUpTo
<1>3. g[0] = <<>> /\ g[1] = IF <<f>>[1].end THEN Append(g[1 - 1], <<f>>[1].payload.pkt) ELSE g[1 - 1]
  BY <1>1, <1>2, UpToAt, Zenon
<1>4. g[1] = IF f.end THEN Append(<<>>, f.payload.pkt) ELSE <<>>
  BY <1>1, <1>3
<1> QED
  BY <1>2, <1>4

LEMMA OneElement ==
  ASSUME NEW S, NEW q \in Seq(S), Len(q) = 1
  PROVE  q[1] \in S /\ q = <<q[1]>>
<1>1. q[1] \in S
  BY 1 \in 1 .. 1, ElementOfSeq
<1> DEFINE t == <<q[1]>>
<1>2. t \in Seq(S) /\ Len(t) = 1 /\ t[1] = q[1]
  BY <1>1
<1>3. \A i \in 1 .. 1 : q[i] = t[i]
  BY <1>2
<1> QED
  BY <1>1, <1>2, <1>3, SeqEqual, Zenon

LEMMA TwoElements ==
  ASSUME NEW S, NEW q \in Seq(S), Len(q) = 2
  PROVE  q[1] \in S /\ q[2] \in S /\ q = <<q[1]>> \o <<q[2]>>
<1>1. q[1] \in S /\ q[2] \in S
  BY 1 \in 1 .. 2, 2 \in 1 .. 2, ElementOfSeq
<1> DEFINE t == <<q[1]>> \o <<q[2]>>
<1>2. <<q[1]>> \in Seq(S) /\ <<q[2]>> \in Seq(S) /\ Len(<<q[1]>>) = 1 /\ Len(<<q[2]>>) = 1
  BY <1>1
<1>3. t \in Seq(S) /\ Len(t) = 2 /\ t[1] = q[1] /\ t[2] = q[2]
  BY <1>2, ConcatProperties
<1> HIDE DEF t
<1>4. \A i \in 1 .. 2 : q[i] = t[i]
  BY <1>3
<1> QED
  BY <1>1, <1>3, <1>4, SeqEqual, Zenon DEF t

\* A packet that is cut into frames comes out whole.
LEMMA MadeFrames ==
  ASSUME NEW p \in Packet, NEW k \in SeqNo
  PROVE  LET t == MakeFrames(p, k)
         IN  /\ t \in Seq(DataFrame) /\ Len(t) = p.frames
             /\ t[1].payload = [pkt |-> p, part |-> 1] /\ (t[1].end <=> p.frames = 1)
             /\ p.frames = 2 => t[2].payload = [pkt |-> p, part |-> 2] /\ t[2].end
             /\ Packets(t) = <<p>>
<1> DEFINE t == MakeFrames(p, k)
<1>1. p.frames \in {1, 2}
  BY DEF Packet
<1>2. t \in Seq(DataFrame)
  BY MakeFramesType
<1>3. /\ Len(t) = p.frames
      /\ \A i \in 1 .. p.frames :
           (t[i].end <=> i = p.frames) /\ t[i].payload = [pkt |-> p, part |-> i]
  <2>1. Len(t) = p.frames
    BY <1>1 DEF MakeFrames
  <2>2. ASSUME NEW i \in 1 .. p.frames
        PROVE  (t[i].end <=> i = p.frames) /\ t[i].payload = [pkt |-> p, part |-> i]
    <3>1. t[i] = [type    |-> DATA,
                  seq     |-> IF i = 1 THEN k ELSE Inc(k),
                  end     |-> i = p.frames,
                  payload |-> [pkt |-> p, part |-> i]]
      BY DEF MakeFrames
    <3> HIDE DEF t
    <3>2. t[i].end = (i = p.frames)
      BY <3>1
    <3>3. t[i].payload = [pkt |-> p, part |-> i]
      BY <3>1
    <3> QED
      BY <3>2, <3>3
  <2> QED
    BY <2>1, <2>2
<1> HIDE DEF t
<1>4. CASE p.frames = 1
  <2>1. t = <<t[1]>> /\ t[1] \in DataFrame /\ t[1].end /\ t[1].payload.pkt = p
    <3>1. Len(t) = 1 /\ 1 \in 1 .. p.frames /\ t[1].payload.pkt = p
      BY <1>3, <1>4
    <3> QED
      BY <1>2, <1>3, <1>4, <3>1, OneElement
  <2>2. Packets(t) = <<p>>
    BY <2>1, PacketsOne
  <2> QED
    BY <1>2, <1>3, <1>4, <2>1, <2>2 DEF t
<1>5. CASE p.frames = 2
  <2>1. /\ <<t[1]>> \in Seq(DataFrame) /\ <<t[2]>> \in Seq(DataFrame)
        /\ t[1] \in DataFrame /\ t[2] \in DataFrame
        /\ ~ t[1].end /\ t[2].end /\ t[2].payload.pkt = p
    <3>1. Len(t) = 2 /\ 1 \in 1 .. p.frames /\ 2 \in 1 .. p.frames /\ t[2].payload.pkt = p /\ 1 # p.frames
      BY <1>3, <1>5
    <3> QED
      BY <1>2, <1>3, <1>5, <3>1, TwoElements
  <2>2. t = <<t[1]>> \o <<t[2]>>
    BY <1>2, <1>3, <1>5, TwoElements
  <2>3. Packets(<<t[1]>>) = <<>> /\ Packets(<<t[2]>>) = <<p>>
    BY <2>1, PacketsOne
  <2>4. Packets(t) = <<>> \o <<p>>
    BY <2>1, <2>2, <2>3, PacketsConcat
  <2>5. Packets(t) = <<p>>
    BY <2>4
  <2> QED
    <3>1. 1 \in 1 .. p.frames /\ 2 \in 1 .. p.frames
      BY <1>5
    <3> QED
      BY <1>2, <1>3, <1>5, <2>1, <2>5, <3>1 DEF t
<1> QED
  BY <1>1, <1>4, <1>5

-----------------------------------------------------------------------------
(* What GoBack1 and ToNetworkLayer rely on: the frames of a direction that *)
(* are made and not yet delivered.                                         *)

\* After f comes the second frame of the same packet, or the first of another.
Follows(f, g) ==
  IF f.end THEN g.payload.part = 1 ELSE g.payload = [pkt |-> f.payload.pkt, part |-> 2]

\* Whole packets, each one but the last of two frames.
Stream(q) ==
  /\ \A i \in 1 .. Len(q) : q[i].end <=> q[i].payload.part = q[i].payload.pkt.frames
  /\ \A i \in 1 .. Len(q) - 1 : q[i].payload.pkt.frames = 2 /\ Follows(q[i], q[i + 1])
  /\ q # <<>> => q[1].payload.part = 1 /\ q[Len(q)].end

LEMMA StreamEmpty == Stream(<<>>)
BY DEF Stream

\* The last packet that is complete is the one of the last frame.
LEMMA StreamLast ==
  ASSUME NEW q \in Seq(DataFrame), Stream(q), q # <<>>
  PROVE  /\ Packets(q) \in Seq(Packet) /\ Packets(q) # <<>>
         /\ Packets(q)[Len(Packets(q))] = q[Len(q)].payload.pkt
<1>1. PICK a \in Seq(DataFrame), f \in DataFrame : q = Append(a, f)
  BY SequenceEmptyOrAppend
<1>2. q = a \o <<f>> /\ <<f>> \in Seq(DataFrame) /\ q[Len(q)] = f
  BY <1>1, AppendIsConcat
<1>3. f.end /\ f.payload.pkt \in Packet
  BY <1>2 DEF Stream, DataFrame, Chunk
<1>4. Packets(<<f>>) = <<f.payload.pkt>>
  BY <1>3, PacketsOne
<1>5. Packets(q) = Packets(a) \o <<f.payload.pkt>> /\ Packets(a) \in Seq(Packet)
  BY <1>2, <1>4, PacketsConcat, PacketsType
<1>6. Packets(q) = Append(Packets(a), f.payload.pkt)
  BY <1>3, <1>5, AppendIsConcat
<1> DEFINE ps == Packets(q)
<1>7. ps \in Seq(Packet) /\ ps # <<>> /\ ps[Len(ps)] = f.payload.pkt
  BY <1>3, <1>5, <1>6, AppendProperties
<1> QED
  BY <1>2, <1>7

LEMMA StreamMake ==
  ASSUME NEW q \in Seq(DataFrame), Stream(q), q # <<>> => q[Len(q)].payload.pkt.frames = 2,
         NEW p \in Packet, NEW k \in SeqNo
  PROVE  /\ q \o MakeFrames(p, k) \in Seq(DataFrame)
         /\ Stream(q \o MakeFrames(p, k))
         /\ Packets(q \o MakeFrames(p, k)) = Packets(q) \o <<p>>
<1> DEFINE t == MakeFrames(p, k)
           w == q \o t
<1>0. p.frames \in {1, 2}
  BY DEF Packet
<1>1. /\ t \in Seq(DataFrame) /\ Len(t) = p.frames
      /\ t[1].payload = [pkt |-> p, part |-> 1] /\ (t[1].end <=> p.frames = 1)
      /\ p.frames = 2 => t[2].payload = [pkt |-> p, part |-> 2] /\ t[2].end
      /\ Packets(t) = <<p>>
  BY MadeFrames
<1> HIDE DEF t
<1>2. /\ w \in Seq(DataFrame) /\ Len(w) = Len(q) + p.frames /\ Len(q) \in Nat
      /\ \A i \in 1 .. Len(q) : w[i] = q[i]
      /\ w[Len(q) + 1] = t[1]
      /\ p.frames = 2 => w[Len(q) + 2] = t[2]
  BY <1>0, <1>1, ConcatProperties
<1>3. Packets(w) = Packets(q) \o <<p>>
  BY <1>1, PacketsConcat
<1> HIDE DEF w
<1>4. ASSUME NEW i \in 1 .. Len(w)
      PROVE  w[i].end <=> w[i].payload.part = w[i].payload.pkt.frames
  <2>1. i \in 1 .. Len(q) \/ i = Len(q) + 1 \/ (p.frames = 2 /\ i = Len(q) + 2)
    BY <1>0, <1>2
  <2>2. CASE i \in 1 .. Len(q)
    BY <1>2, <2>2 DEF Stream
  <2>3. CASE i = Len(q) + 1
    BY <1>1, <1>2, <2>3
  <2>4. CASE p.frames = 2 /\ i = Len(q) + 2
    BY <1>1, <1>2, <2>4
  <2> QED
    BY <2>1, <2>2, <2>3, <2>4
<1>5. ASSUME NEW i \in 1 .. Len(w) - 1
      PROVE  w[i].payload.pkt.frames = 2 /\ Follows(w[i], w[i + 1])
  <2>1. i \in 1 .. Len(q) - 1 \/ i = Len(q) \/ (p.frames = 2 /\ i = Len(q) + 1)
    BY <1>0, <1>2
  <2>2. CASE i \in 1 .. Len(q) - 1
    <3>1. w[i] = q[i] /\ w[i + 1] = q[i + 1]
      BY <1>2, <2>2
    <3> QED
      BY <2>2, <3>1 DEF Stream
  <2>3. CASE i = Len(q)
    <3>1. q # <<>> /\ w[i] = q[Len(q)] /\ w[i + 1] = t[1]
      BY <1>2, <2>3
    <3>2. q[Len(q)].end
      BY <3>1 DEF Stream
    <3> QED
      BY <1>1, <3>1, <3>2 DEF Follows
  <2>4. CASE p.frames = 2 /\ i = Len(q) + 1
    <3>1. w[i] = t[1] /\ w[i + 1] = t[2]
      BY <1>2, <2>4
    <3> QED
      BY <1>1, <2>4, <3>1 DEF Follows
  <2> QED
    BY <2>1, <2>2, <2>3, <2>4
<1>6. w[1].payload.part = 1 /\ w[Len(w)].end
  <2>1. w[1].payload.part = 1
    <3>1. CASE q = <<>>
      BY <1>1, <1>2, <3>1
    <3>2. CASE q # <<>>
      BY <1>2, <3>2 DEF Stream
    <3> QED
      BY <3>1, <3>2
  <2>2. w[Len(w)].end
    BY <1>0, <1>1, <1>2
  <2> QED
    BY <2>1, <2>2
<1>7. Stream(w)
  BY <1>4, <1>5, <1>6 DEF Stream
<1> QED
  BY <1>2, <1>3, <1>7 DEF w, t

\* ToNetworkLayer puts together the oldest packet, whole, and leaves the others.
LEMMA StreamTake ==
  ASSUME NEW q \in Seq(DataFrame), NEW t \in Seq(DataFrame), q # <<>>, q[Len(q)].end,
         Stream(q \o t)
  PROVE  LET p == q[1].payload.pkt
             d == PopFront(PopFront(q))
         IN  /\ p \in Packet /\ Rebuild(q) = {p}
             /\ d \in Seq(DataFrame)
             /\ Stream(d \o t)
             /\ Packets(q \o t) = <<p>> \o Packets(d \o t)
<1> DEFINE p == q[1].payload.pkt
           d == PopFront(PopFront(q))
           w == q \o t
<1>1. /\ Len(q) \in Nat /\ Len(q) >= 1 /\ q[1] \in DataFrame
      /\ w \in Seq(DataFrame) /\ Len(w) = Len(q) + Len(t) /\ Len(t) \in Nat /\ w # <<>>
      /\ \A i \in 1 .. Len(q) : w[i] = q[i]
      /\ \A i \in 1 .. Len(t) : w[Len(q) + i] = t[i]
  BY ConcatProperties
<1>2. p \in Packet /\ p.frames \in {1, 2} /\ q[1].payload.part = 1
  BY <1>1 DEF DataFrame, Chunk, Packet, Stream
<1>s. Stream(w)
  OBVIOUS
<1> HIDE DEF w
<1>3. CASE Len(q) = 1
  <2>1. q[1].end
    BY <1>3
  <2>2. p.frames = 1
    BY <1>1, <1>2, <1>s, <2>1 DEF Stream
  <2>3. Len(w) = 1
    <3>1. \A k \in Nat : k >= 1 /\ k # 1 => 1 \in 1 .. k - 1
      OBVIOUS
    <3>2. 1 \notin 1 .. Len(w) - 1
      BY <1>1, <1>2, <1>s, <2>2 DEF Stream
    <3>3. Len(w) \in Nat /\ Len(w) >= 1
      BY <1>1
    <3> QED
      BY <3>1, <3>2, <3>3, Zenon
  <2>4. q = <<q[1]>> /\ t = <<>> /\ w = <<q[1]>>
    BY <1>1, <1>3, <2>3
  <2>5. d = <<>>
    <3>1. Tail(q) = <<>>
      <4>1. Tail(q) \in Seq(DataFrame) /\ Len(Tail(q)) = 0
        BY <1>3, TailFacts
      <4> QED
        BY <4>1, NonEmptyLen, 0 > 0 <=> FALSE, Zenon
    <3> QED
      BY <3>1 DEF PopFront
  <2>6. Rebuild(q) = {p}
    BY <1>2, <1>3, <2>2 DEF Rebuild, Unserialize, Complete
  <2>7. Packets(w) = <<p>>
    BY <1>1, <2>1, <2>4, PacketsOne
  <2>8. d \o t = <<>> /\ d \in Seq(DataFrame)
    BY <2>4, <2>5
  <2>9. <<p>> \o <<>> = <<p>>
    OBVIOUS
  <2> QED
    BY <1>2, <2>6, <2>7, <2>8, <2>9, PacketsEmpty, StreamEmpty DEF w
<1>4. CASE Len(q) > 1
  <2> DEFINE u == Tail(Tail(w))
  <2>1. 1 \in 1 .. Len(w) - 1 /\ 2 \in 1 .. Len(w) /\ w[1] = q[1] /\ w[2] = q[2] /\ q[2] \in DataFrame
    BY <1>1, <1>4
  <2>2. p.frames = 2 /\ Follows(q[1], q[2]) /\ (q[1].end <=> q[1].payload.part = p.frames)
    BY <1>1, <1>s, <2>1 DEF Stream
  <2>3. ~ q[1].end /\ q[2].payload = [pkt |-> p, part |-> 2]
    BY <1>2, <2>2 DEF Follows
  <2>4. q[2].end
    BY <1>s, <2>1, <2>2, <2>3 DEF Stream
  <2>5. Rebuild(q) = {p}
    <3>1. Len(q) # 1
      BY <1>4
    <3>2. Rebuild(q) = Unserialize(<<q[1].payload, q[2].payload>>)
      BY <3>1 DEF Rebuild
    <3> QED
      BY <1>2, <2>2, <2>3, <3>2 DEF Unserialize, Complete
  <2>6. d = Tail(Tail(q)) /\ d \in Seq(DataFrame) /\ Len(d) = Len(q) - 2
        /\ \A i \in 1 .. Len(q) - 2 : d[i] = q[i + 2]
    <3>1. /\ Tail(q) \in Seq(DataFrame) /\ Len(Tail(q)) = Len(q) - 1
          /\ \A i \in 1 .. Len(q) - 1 : Tail(q)[i] = q[i + 1]
      BY TailFacts
    <3>2. Tail(q) # <<>>
      <4>1. \A k \in Nat : k > 1 => k - 1 > 0
        OBVIOUS
      <4> QED
        BY <1>1, <1>4, <3>1, <4>1, NonEmptyLen, Zenon
    <3>3. /\ Tail(Tail(q)) \in Seq(DataFrame) /\ Len(Tail(Tail(q))) = Len(Tail(q)) - 1
          /\ \A i \in 1 .. Len(Tail(q)) - 1 : Tail(Tail(q))[i] = Tail(q)[i + 1]
      BY <3>1, <3>2, TailFacts
    <3>4. d = Tail(Tail(q))
      BY <3>2 DEF PopFront
    <3> HIDE DEF d
    <3>5. ASSUME NEW i \in 1 .. Len(q) - 2 PROVE d[i] = q[i + 2]
      <4>1. /\ i \in 1 .. Len(Tail(q)) - 1 /\ i + 1 \in 1 .. Len(q) - 1 /\ (i + 1) + 1 = i + 2
        BY <1>1, <3>1
      <4> QED
        BY <3>1, <3>3, <3>4, <4>1, Zenon
    <3> QED
      BY <1>1, <3>1, <3>3, <3>4, <3>5
  <2> HIDE DEF d
  <2>7. /\ <<q[1]>> \in Seq(DataFrame) /\ <<q[2]>> \in Seq(DataFrame) /\ d \o t \in Seq(DataFrame)
        /\ Len(d \o t) = Len(w) - 2 /\ \A i \in 1 .. Len(w) - 2 : (d \o t)[i] = w[i + 2]
    <3> DEFINE v == d \o t
    <3>1. /\ v \in Seq(DataFrame) /\ Len(v) = Len(d) + Len(t)
          /\ \A i \in 1 .. Len(d) + Len(t) : v[i] = IF i <= Len(d) THEN d[i] ELSE t[i - Len(d)]
      BY <2>6, ConcatProperties
    <3> HIDE DEF v
    <3>2. Len(v) = Len(w) - 2
      BY <1>1, <2>6, <3>1
    <3>3. ASSUME NEW i \in 1 .. Len(w) - 2 PROVE v[i] = w[i + 2]
      <4>1. CASE i <= Len(d)
        <5>1. i \in 1 .. Len(q) - 2 /\ i + 2 \in 1 .. Len(q) /\ i \in 1 .. Len(d) + Len(t)
          <6>1. \A a, b, c, e, j \in Nat :
                  a > 1 /\ c = a - 2 /\ e = a + b /\ 1 <= j /\ j <= e - 2 /\ j <= c
                    => j \in 1 .. a - 2 /\ j + 2 \in 1 .. a /\ j \in 1 .. c + b
            OBVIOUS
          <6>2. Len(d) \in Nat /\ Len(w) \in Nat /\ Len(q) \in Nat /\ Len(t) \in Nat
            BY <1>1, <2>6
          <6>3. Len(q) > 1 /\ Len(d) = Len(q) - 2 /\ Len(w) = Len(q) + Len(t)
            BY <1>1, <1>4, <2>6, Zenon
          <6>4. i \in Nat /\ 1 <= i /\ i <= Len(w) - 2
            BY <6>2
          <6> QED
            BY <4>1, <6>1, <6>2, <6>3, <6>4, Zenon
        <5>2. v[i] = d[i]
          BY <3>1, <4>1, <5>1, Zenon
        <5> QED
          BY <1>1, <2>6, <5>1, <5>2, Zenon
      <4>2. CASE ~ (i <= Len(d))
        <5>1. v[i] = t[i - Len(d)] /\ i - Len(d) \in 1 .. Len(t) /\ Len(q) + (i - Len(d)) = i + 2
          <6>0. \A a, b, c, e, j \in Nat :
                  a > 1 /\ c = a - 2 /\ e = a + b /\ 1 <= j /\ j <= e - 2 /\ c < j
                    => j \in 1 .. c + b /\ j - c \in 1 .. b /\ a + (j - c) = j + 2
            OBVIOUS
          <6>1. /\ i \in 1 .. Len(d) + Len(t) /\ i - Len(d) \in 1 .. Len(t)
                /\ Len(q) + (i - Len(d)) = i + 2
            <7>1. Len(d) \in Nat /\ Len(w) \in Nat /\ Len(q) \in Nat /\ Len(t) \in Nat
              BY <1>1, <2>6
            <7>2. Len(q) > 1 /\ Len(d) = Len(q) - 2 /\ Len(w) = Len(q) + Len(t)
              BY <1>1, <1>4, <2>6, Zenon
            <7>3. i \in Nat /\ 1 <= i /\ i <= Len(w) - 2 /\ Len(d) < i
              BY <4>2, <7>1
            <7> QED
              BY <7>1, <7>2, <7>3
          <6>2. v[i] = t[i - Len(d)]
            BY <3>1, <4>2, <6>1, Zenon
          <6> QED
            BY <6>1, <6>2
        <5> QED
          BY <1>1, <5>1, Zenon
      <4> QED
        BY <4>1, <4>2
    <3> QED
      BY <1>1, <2>1, <3>1, <3>2, <3>3 DEF v
  <2>8. w = <<q[1]>> \o (<<q[2]>> \o (d \o t))
    <3> DEFINE v == d \o t
    <3> HIDE DEF v
    <3>1. /\ <<q[2]>> \o v \in Seq(DataFrame) /\ <<q[1]>> \o (<<q[2]>> \o v) \in Seq(DataFrame)
          /\ Len(<<q[1]>> \o (<<q[2]>> \o v)) = Len(w)
      BY <1>1, <1>4, <2>7 DEF v
    <3>2. ASSUME NEW i \in 1 .. Len(w) PROVE w[i] = (<<q[1]>> \o (<<q[2]>> \o v))[i]
      <4>1. i = 1 \/ i = 2 \/ (i - 2 \in 1 .. Len(w) - 2 /\ (i - 2) + 2 = i)
        BY <1>1
      <4>2. CASE i = 1
        BY <2>1, <2>7, <3>1, <4>2 DEF v
      <4>3. CASE i = 2
        BY <2>1, <2>7, <3>1, <4>3 DEF v
      <4>4. CASE i - 2 \in 1 .. Len(w) - 2 /\ (i - 2) + 2 = i
        <5>1. v[i - 2] = w[i]
          BY <2>7, <4>4 DEF v
        <5>2. v \in Seq(DataFrame) /\ Len(v) = Len(w) - 2
          BY <2>7 DEF v
        <5>3. (<<q[1]>> \o (<<q[2]>> \o v))[i] = v[i - 2]
          BY <1>1, <2>7, <4>4, <5>2
        <5> QED
          BY <5>1, <5>3
      <4> QED
        BY <4>1, <4>2, <4>3, <4>4
    <3> QED
      BY <1>1, <3>1, <3>2, SeqEqual DEF v
  <2>9. Packets(w) = <<p>> \o Packets(d \o t)
    <3>1. Packets(<<q[1]>>) = <<>> /\ Packets(<<q[2]>>) = <<p>>
      <4>1. q[2].payload.pkt = p
        BY <2>3
      <4> QED
        BY <1>1, <2>1, <2>3, <2>4, <4>1, PacketsOne
    <3>2. Packets(<<q[2]>> \o (d \o t)) = <<p>> \o Packets(d \o t)
      BY <2>7, <3>1, PacketsConcat
    <3>3. <<q[2]>> \o (d \o t) \in Seq(DataFrame)
      BY <2>7
    <3>4. Packets(w) = <<>> \o (<<p>> \o Packets(d \o t))
      BY <2>7, <2>8, <3>1, <3>2, <3>3, PacketsConcat
    <3>5. <<p>> \o Packets(d \o t) \in Seq(Packet)
      <4>1. Packets(d \o t) \in Seq(Packet)
        BY <2>7, PacketsType
      <4>2. <<p>> \in Seq(Packet)
        <5> HIDE DEF p
        <5> QED
          BY <1>2
      <4> QED
        BY <4>1, <4>2, ConcatProperties
    <3> QED
      BY <3>4, <3>5, ConcatEmptySeq
  <2>10. Stream(d \o t)
    <3> DEFINE v == d \o t
    <3>1. v \in Seq(DataFrame) /\ Len(v) = Len(w) - 2 /\ \A i \in 1 .. Len(w) - 2 : v[i] = w[i + 2]
      BY <2>7
    <3> HIDE DEF v
    <3>2. \A i \in 1 .. Len(v) : v[i].end <=> v[i].payload.part = v[i].payload.pkt.frames
      <4> SUFFICES ASSUME NEW i \in 1 .. Len(v)
                   PROVE  v[i].end <=> v[i].payload.part = v[i].payload.pkt.frames
        OBVIOUS
      <4>1. v[i] = w[i + 2] /\ i + 2 \in 1 .. Len(w)
        BY <1>1, <3>1
      <4> QED
        BY <1>s, <4>1 DEF Stream
    <3>3. \A i \in 1 .. Len(v) - 1 : v[i].payload.pkt.frames = 2 /\ Follows(v[i], v[i + 1])
      <4> SUFFICES ASSUME NEW i \in 1 .. Len(v) - 1
                   PROVE  v[i].payload.pkt.frames = 2 /\ Follows(v[i], v[i + 1])
        OBVIOUS
      <4>1. v[i] = w[i + 2] /\ v[i + 1] = w[(i + 2) + 1] /\ i + 2 \in 1 .. Len(w) - 1
        BY <1>1, <3>1
      <4> QED
        BY <1>s, <4>1 DEF Stream
    <3>4. v # <<>> => v[1].payload.part = 1 /\ v[Len(v)].end
      <4> SUFFICES ASSUME v # <<>> PROVE v[1].payload.part = 1 /\ v[Len(v)].end
        OBVIOUS
      <4>1. 2 \in 1 .. Len(w) - 1 /\ v[1] = w[2 + 1] /\ v[Len(v)] = w[Len(w)]
        BY <1>1, <3>1
      <4>2. Follows(w[2], w[2 + 1])
        BY <1>s, <4>1 DEF Stream
      <4> QED
        BY <1>1, <1>s, <2>1, <2>4, <4>1, <4>2 DEF Stream, Follows
    <3> QED
      BY <3>2, <3>3, <3>4 DEF Stream, v
  <2> QED
    BY <1>2, <2>5, <2>6, <2>9, <2>10 DEF d, w
<1> QED
  BY <1>1, <1>3, <1>4

-----------------------------------------------------------------------------
(* The frames of the direction from s to r, and the packets they carry.    *)

\* FrontArrived, with the peer as a parameter.
Arrived(s, r) ==
  ready[s] # <<>> /\ (dlPC[r] \in Acking \/ ready[s][1].seq # frameExpect[r])

Rest(s, r) == IF Arrived(s, r) THEN Tail(ready[s]) ELSE ready[s]

\* The frames that r has and those it waits for, in order.
Incoming(s, r) == reconstructFrames[r] \o Rest(s, r)

\* InChannel, with the peer as a parameter.
Contents(s, r) == recvPackets[r] \o Packets(Incoming(s, r)) \o sendPackets[s]

\* No data frame of q is another than the first of w.
Carried(q, w) == \A i \in 1 .. Len(q) : q[i].type = DATA => w # <<>> /\ q[i] = w[1]

Frames(s, r) ==
  /\ Stream(Incoming(s, r))
  /\ dlPC[r] \in {"up", "deliver"} =>
       reconstructFrames[r] # <<>> /\ reconstructFrames[r][Len(reconstructFrames[r])].end
  /\ Carried(sendFrames[s], ready[s])
  /\ Carried(wire[s], ready[s])
  /\ Carried(recvFrames[r], ready[s])

\* All packets but the last take two frames.
Long(q) == \A i \in 1 .. Len(q) - 1 : q[i].frames = 2

LEMMA IncOther == \A k \in SeqNo : Inc(k) # k
BY SeqAssumption DEF Inc, SeqNo

LEMMA CarriedTake ==
  ASSUME NEW q \in Seq(Frame), NEW w, Carried(q, w), q # <<>>
  PROVE  Carried(Tail(q), w) /\ (Head(q).type = DATA => w # <<>> /\ Head(q) = w[1])
<1>1. Len(q) \in Nat /\ Len(q) > 0 /\ Head(q) = q[1]
  BY NonEmptyLen
<1>2. /\ Tail(q) \in Seq(Frame) /\ Len(Tail(q)) = Len(q) - 1
      /\ \A i \in 1 .. Len(q) - 1 : Tail(q)[i] = q[i + 1]
  BY TailFacts
<1>3. \A i \in 1 .. Len(Tail(q)) : i + 1 \in 1 .. Len(q) /\ Tail(q)[i] = q[i + 1]
  BY <1>1, <1>2
<1>4. 1 \in 1 .. Len(q)
  BY <1>1
<1> QED
  BY <1>1, <1>3, <1>4 DEF Carried

LEMMA CarriedPop ==
  ASSUME NEW q \in Seq(Frame), NEW w, Carried(q, w)
  PROVE  Carried(PopFront(q), w)
BY CarriedTake DEF PopFront

LEMMA CarriedPut ==
  ASSUME NEW q \in Seq(Frame), NEW w, Carried(q, w),
         NEW f \in Frame, f.type = DATA => w # <<>> /\ f = w[1]
  PROVE  Carried(Append(q, f), w)
<1>1. Len(q) \in Nat
  BY LenProperties
<1>2. /\ Len(Append(q, f)) = Len(q) + 1 /\ Append(q, f)[Len(q) + 1] = f
      /\ \A i \in 1 .. Len(q) : Append(q, f)[i] = q[i]
  BY AppendProperties
<1>3. \A i \in 1 .. Len(Append(q, f)) :
        \/ i \in 1 .. Len(q) /\ Append(q, f)[i] = q[i]
        \/ Append(q, f)[i] = f
  BY <1>1, <1>2
<1> QED
  BY <1>3 DEF Carried

LEMMA CarriedSeveral ==
  ASSUME NEW q \in Seq(Frame), NEW w, Carried(q, w), NEW k \in 0 .. Len(q)
  PROVE  Carried(SubSeq(q, k + 1, Len(q)), w)
<1> DEFINE t == SubSeq(q, k + 1, Len(q))
<1>1. Len(q) \in Nat /\ k \in Nat /\ k <= Len(q)
  BY LenProperties
<1>2. Len(t) = Len(q) - k /\ \A i \in 1 .. Len(q) - k : t[i] = q[k + i]
  BY <1>1, SubSeqProperties
<1> HIDE DEF t
<1>3. \A i \in 1 .. Len(t) : k + i \in 1 .. Len(q) /\ t[i] = q[k + i]
  BY <1>1, <1>2
<1> QED
  BY <1>3 DEF t, Carried

LEMMA CarriedMore ==
  ASSUME NEW q, NEW w, NEW v, Carried(q, w), w # <<>> => v # <<>> /\ v[1] = w[1]
  PROVE  Carried(q, v)
BY DEF Carried

LEMMA CarriedNothing ==
  ASSUME NEW q, NEW w, ~ HasData(q)
  PROVE  Carried(q, w)
BY DEF Carried, HasData

LEMMA IncomingType ==
  ASSUME TypeInv, NEW s \in Node, NEW r \in Node
  PROVE  /\ Rest(s, r) \in Seq(DataFrame) /\ Incoming(s, r) \in Seq(DataFrame)
         /\ ready[s] \in Seq(DataFrame) /\ reconstructFrames[r] \in Seq(DataFrame)
         /\ recvPackets[r] \in Seq(Packet) /\ sendPackets[s] \in Seq(Packet)
         /\ Packets(Incoming(s, r)) \in Seq(Packet)
<1>1. /\ ready[s] \in Seq(DataFrame) /\ reconstructFrames[r] \in Seq(DataFrame)
      /\ recvPackets[r] \in Seq(Packet) /\ sendPackets[s] \in Seq(Packet)
  BY DEF TypeInv, TypeOK, SharedTypeOK, DLTypeOK
<1>2. Rest(s, r) \in Seq(DataFrame)
  BY <1>1, TailFacts DEF Rest, Arrived
<1>3. Incoming(s, r) \in Seq(DataFrame)
  BY <1>1, <1>2, ConcatProperties DEF Incoming
<1> QED
  BY <1>1, <1>2, <1>3, PacketsType

LEMMA HeadThenTail ==
  ASSUME NEW S, NEW q \in Seq(S), q # <<>>
  PROVE  Head(q) \in S /\ Head(q) = q[1] /\ q = <<Head(q)>> \o Tail(q)
<1>1. Len(q) \in Nat /\ Len(q) > 0 /\ Head(q) = q[1] /\ q[1] \in S
  BY NonEmptyLen, ElementOfSeq
<1>2. /\ Tail(q) \in Seq(S) /\ Len(Tail(q)) = Len(q) - 1
      /\ \A i \in 1 .. Len(q) - 1 : Tail(q)[i] = q[i + 1]
  BY TailFacts
<1> DEFINE a == <<q[1]>>
           t == Tail(q)
           w == a \o t
<1>3. a \in Seq(S) /\ Len(a) = 1 /\ a[1] = q[1]
  BY <1>1
<1>t. /\ t \in Seq(S) /\ Len(t) = Len(q) - 1
      /\ \A i \in 1 .. Len(q) - 1 : t[i] = q[i + 1]
  BY <1>2
<1> HIDE DEF a, t
<1>4. /\ w \in Seq(S) /\ Len(w) = 1 + Len(t)
      /\ \A i \in 1 .. 1 + Len(t) : w[i] = IF i <= 1 THEN a[i] ELSE t[i - 1]
  <2>1. /\ w \in Seq(S) /\ Len(w) = Len(a) + Len(t)
        /\ \A i \in 1 .. Len(a) + Len(t) :
             w[i] = IF i <= Len(a) THEN a[i] ELSE t[i - Len(a)]
    <3>1. a \in Seq(S) /\ t \in Seq(S)
      BY <1>3, <1>t
    <3> QED
      BY <3>1, ConcatProperties
  <2> HIDE DEF w
  <2> QED
    BY <1>3, <2>1, Zenon
<1> HIDE DEF w
<1>5. Len(w) = Len(q)
  BY <1>1, <1>t, <1>4
<1>6. \A i \in 1 .. Len(q) : w[i] = q[i]
  <2> SUFFICES ASSUME NEW i \in 1 .. Len(q) PROVE w[i] = q[i]
    OBVIOUS
  <2>1. CASE i = 1
    BY <1>1, <1>t, <1>3, <1>4, <2>1
  <2>2. CASE i # 1
    <3>1. i - 1 \in 1 .. Len(q) - 1 /\ (i - 1) + 1 = i /\ i \in 1 .. 1 + Len(t) /\ ~ (i <= 1)
      BY <1>1, <1>t, <2>2
    <3>2. w[i] = t[i - 1]
      BY <1>4, <3>1, Zenon
    <3>3. t[i - 1] = q[(i - 1) + 1]
      BY <1>t, <3>1, Zenon
    <3> QED
      BY <3>1, <3>2, <3>3
  <2> QED
    BY <2>1, <2>2
<1>7. w = q
  BY <1>4, <1>5, <1>6, SeqEqual
<1> QED
  BY <1>1, <1>7 DEF w, a, t

LEMMA TailConcat ==
  ASSUME NEW S, NEW q \in Seq(S), NEW t \in Seq(S), q # <<>>
  PROVE  Tail(q \o t) = Tail(q) \o t
<1>1. q \o t \in Seq(S) /\ q \o t # <<>> /\ Tail(q) \in Seq(S)
  BY ConcatFirst, ConcatProperties, TailFacts
<1> DEFINE h == <<q[1]>>
           u == Tail(q)
<1>2. q[1] \in S /\ q = h \o u /\ h \in Seq(S)
  BY HeadThenTail
<1>3. q \o t = h \o (u \o t)
  <2> HIDE DEF h, u
  <2>1. u \in Seq(S)
    BY <1>1 DEF u
  <2> QED
    BY <1>2, <2>1, ConcatAssociative
<1>4. u \o t \in Seq(S)
  BY <1>1, ConcatProperties
<1>5. Tail(h \o (u \o t)) = u \o t
  <2> DEFINE v == u \o t
             x == h \o v
  <2>1. v \in Seq(S)
    BY <1>4
  <2> HIDE DEF v
  <2>2. h \in Seq(S) /\ Len(h) = 1
    BY <1>2
  <2> HIDE DEF h
  <2>3. /\ x \in Seq(S) /\ Len(x) = 1 + Len(v)
        /\ \A i \in 1 .. Len(v) : x[i + 1] = v[i]
    <3>1. /\ x \in Seq(S) /\ Len(x) = Len(h) + Len(v)
          /\ \A i \in 1 .. Len(h) + Len(v) : x[i] = IF i <= Len(h) THEN h[i] ELSE v[i - Len(h)]
      <4>1. h \in Seq(S)
        BY <2>2
      <4> QED
        BY <2>1, <4>1, ConcatProperties
    <3> HIDE DEF x
    <3>2. Len(v) \in Nat
      BY <2>1
    <3>3. \A k \in Nat : \A i \in 1 .. k : i + 1 \in 1 .. 1 + k /\ ~ (i + 1 <= 1) /\ (i + 1) - 1 = i
      OBVIOUS
    <3> QED
      BY <2>2, <3>1, <3>2, <3>3, Zenon
  <2> HIDE DEF x
  <2>4. x # <<>>
    BY <2>1, <2>3
  <2>5. /\ Tail(x) \in Seq(S) /\ Len(Tail(x)) = Len(v)
        /\ \A i \in 1 .. Len(v) : Tail(x)[i] = v[i]
    BY <2>1, <2>3, <2>4, TailFacts
  <2>6. Tail(x) = v
    BY <2>1, <2>5, SeqEqual, Zenon
  <2> QED
    BY <2>6 DEF x, v
<1> QED
  BY <1>3, <1>5

LEMMA ConcatThree ==
  ASSUME NEW S, NEW a \in Seq(S), NEW b \in Seq(S), NEW c \in Seq(S)
  PROVE  a \o (b \o c) = (a \o b) \o c
BY ConcatAssociative

\* The first packet of a queue goes to the end of the queue before it.
LEMMA MoveOne ==
  ASSUME NEW S, NEW a \in Seq(S), NEW b \in Seq(S), NEW c \in Seq(S), NEW d \in Seq(S)
  PROVE  (a \o (b \o c)) \o d = (a \o b) \o (c \o d)
<1> DEFINE e == a \o b
<1>1. e \in Seq(S)
  BY ConcatProperties
<1>2. a \o (b \o c) = e \o c
  BY ConcatThree
<1> HIDE DEF e
<1>3. e \o (c \o d) = (e \o c) \o d
  BY <1>1, ConcatThree
<1> QED
  BY <1>2, <1>3 DEF e

-----------------------------------------------------------------------------
(* Steps.                                                                  *)

LEMMA FramesStable ==
  ASSUME NEW s, NEW r, Frames(s, r),
         ready'[s] = ready[s], reconstructFrames'[r] = reconstructFrames[r],
         Arrived(s, r)' <=> Arrived(s, r),
         dlPC'[r] \in {"up", "deliver"} => dlPC[r] \in {"up", "deliver"},
         Carried(sendFrames'[s], ready[s]), Carried(wire'[s], ready[s]),
         Carried(recvFrames'[r], ready[s])
  PROVE  Frames(s, r)' /\ Incoming(s, r)' = Incoming(s, r)
<1>1. Incoming(s, r)' = Incoming(s, r)
  BY DEF Incoming, Rest
<1>2. Stream(Incoming(s, r)')
  BY <1>1 DEF Frames
<1>3. Stream(Incoming(s, r))'
  BY <1>2 DEF Stream
<1> QED
  BY <1>1, <1>3 DEF Frames, Carried

\* The data link thread of s: a packet more in ready, an acknowledged frame less.
LEMMA SenderFrames ==
  ASSUME TypeInv, QueueInv, NEW s \in Node, NEW r \in Node, r = Peer(s),
         Link(s, r), Numbers(s, r), Frames(s, r), Long(Contents(s, r)), DLThread(s)
  PROVE  Frames(s, r)' /\ Contents(s, r)' = Contents(s, r)
<1>a. SharedTypeOK /\ DLTypeOK
  BY DEF TypeInv, TypeOK
<1>p. r # s
  BY PeerInNode
<1>c. UNCHANGED wire
  BY DEF DLThread, plVars
<1>q. /\ sendFrames[s] \in Seq(Frame) /\ ready[s] \in Seq(DataFrame) /\ frameExpect[s] \in SeqNo
      /\ nextSend[s] \in SeqNo /\ sendPackets[s] \in Seq(Packet) /\ frameExpect[r] \in SeqNo
  BY <1>a DEF SharedTypeOK, DLTypeOK
<1>f. /\ Carried(sendFrames[s], ready[s]) /\ Carried(wire[s], ready[s])
      /\ Carried(recvFrames[r], ready[s])
  BY DEF Frames
<1>1. CASE /\ ready'[s] = ready[s] /\ sendPackets'[s] = sendPackets[s]
           /\ reconstructFrames'[r] = reconstructFrames[r] /\ recvPackets'[r] = recvPackets[r]
           /\ dlPC'[r] = dlPC[r] /\ frameExpect'[r] = frameExpect[r]
           /\ recvFrames'[r] = recvFrames[r]
           /\ Carried(sendFrames'[s], ready[s])
  <2>1. Arrived(s, r)' <=> Arrived(s, r)
    BY <1>1 DEF Arrived
  <2>2. Frames(s, r)' /\ Incoming(s, r)' = Incoming(s, r)
    BY <1>1, <1>c, <1>f, <2>1, FramesStable
  <2>3. Packets(Incoming(s, r))' = Packets(Incoming(s, r))
    BY <2>2
  <2> QED
    BY <1>1, <2>2, <2>3 DEF Contents
<1>2. CASE \/ TimeoutEvent(s) \/ ArrivalEvent(s) \/ PacketEvent(s) \/ PopRecvFrames(s)
           \/ ReceiveData(s) \/ CheckRecvPackets(s) \/ DeliverPacket(s)
           \/ AckRefused(s) \/ AckNotLocked(s) \/ AckLocked(s)
           \/ NothingReady(s) \/ FrameRefused(s) \/ FrameNotLocked(s) \/ FrameLocked(s)
  <2>1. /\ UNCHANGED <<ready, sendPackets, sendFrames>>
        /\ recvPackets'[r] = recvPackets[r] /\ reconstructFrames'[r] = reconstructFrames[r]
        /\ dlPC'[r] = dlPC[r] /\ frameExpect'[r] = frameExpect[r]
        /\ recvFrames'[r] = recvFrames[r]
    BY <1>a, <1>p, <1>2 DEF TimeoutEvent, ArrivalEvent, PacketEvent, PopRecvFrames, ReceiveData,
         FromPhysicalLayer, CheckRecvPackets, DeliverPacket, AckRefused, AckNotLocked, AckLocked,
         NothingReady, FrameRefused, FrameNotLocked, FrameLocked, GoTo, sharedVars, DLTypeOK,
         SharedTypeOK
  <2> QED
    BY <1>1, <1>f, <2>1
<1>3. CASE PopSendFrames(s)
  <2>1. /\ UNCHANGED <<ready, sendPackets, recvPackets, reconstructFrames, frameExpect, recvFrames>>
        /\ dlPC'[r] = dlPC[r]
        /\ sendFrames'[s] = PopFront(sendFrames[s])
    BY <1>a, <1>p, <1>3 DEF PopSendFrames, GoTo, DLTypeOK, SharedTypeOK
  <2>2. Carried(sendFrames'[s], ready[s])
    BY <1>q, <1>f, <2>1, CarriedPop
  <2> QED
    BY <1>1, <2>1, <2>2
<1>4. CASE PushAck(s)
  <2> DEFINE a == Ack(frameExpect[s])
  <2>1. /\ UNCHANGED <<ready, sendPackets, recvPackets, reconstructFrames, recvFrames>>
        /\ dlPC'[r] = dlPC[r] /\ frameExpect'[r] = frameExpect[r]
        /\ sendFrames'[s] = Append(sendFrames[s], a)
    BY <1>a, <1>p, <1>4 DEF PushAck, GoTo, DLTypeOK, SharedTypeOK
  <2>2. a \in Frame /\ a.type # DATA
    BY <1>q, AckInFrame DEF Ack, ACK, DATA
  <2> HIDE DEF a
  <2>3. Carried(sendFrames'[s], ready[s])
    BY <1>q, <1>f, <2>1, <2>2, CarriedPut
  <2> QED
    BY <1>1, <2>1, <2>3
<1>5. CASE PushFrame(s)
  <2> DEFINE f == Head(ready[s])
  <2>1. /\ UNCHANGED <<ready, sendPackets, recvPackets, reconstructFrames, frameExpect, recvFrames>>
        /\ dlPC'[r] = dlPC[r] /\ dlPC[s] = "pushFrame"
        /\ sendFrames'[s] = Append(sendFrames[s], f)
    BY <1>a, <1>p, <1>5 DEF PushFrame, GoTo, DLTypeOK, SharedTypeOK
  <2>2. ready[s] # <<>>
    BY <2>1 DEF TypeInv, Pending
  <2>3. f \in Frame /\ f = ready[s][1]
    BY <1>q, <2>2, HeadThenTail DEF Frame
  <2> HIDE DEF f
  <2>4. Carried(sendFrames'[s], ready[s])
    BY <1>q, <1>f, <2>1, <2>2, <2>3, CarriedPut
  <2> QED
    BY <1>1, <2>1, <2>4
<1>6. CASE ReceiveAck(s)
  <2>1. /\ UNCHANGED <<sendPackets, recvPackets, reconstructFrames, frameExpect, sendFrames, nextSend>>
        /\ dlPC'[r] = dlPC[r] /\ recvFrames'[r] = recvFrames[r]
        /\ recvFrames[s] # <<>> /\ Head(recvFrames[s]).type = ACK
        /\ ready'[s] = PopFront(ready[s])
    BY <1>a, <1>p, <1>6 DEF ReceiveAck, FromPhysicalLayer, GoTo, DLTypeOK, SharedTypeOK
  <2>2. HasAck(recvFrames[s])
    BY <1>a, <2>1, TakeAny DEF SharedTypeOK
  <2>3. /\ window[s] # <<>> /\ dlPC[r] \notin Acking
        /\ ~ HasData(sendFrames[s]) /\ ~ HasData(wire[s]) /\ ~ HasData(recvFrames[r])
    BY <2>2 DEF Link, Flying, One
  <2>4. ready[s] # <<>>
    BY <2>3, QueueInvAt DEF QueuesAt
  <2>5. Inc(NextNo(s)) = frameExpect[r] /\ NextNo(s) = ready[s][1].seq
    BY <2>2, <2>4 DEF Numbers, Answered, NextNo
  <2>6. Arrived(s, r)
    <3>1. ready[s][1] \in DataFrame
      BY <1>q, <2>4, HeadThenTail
    <3>2. ready[s][1].seq \in SeqNo
      BY <3>1 DEF DataFrame
    <3> QED
      BY <2>4, <2>5, <3>2, IncOther DEF Arrived
  <2>7. ~ Arrived(s, r)'
    <3>1. NextNo(s)' = frameExpect[r]
      BY <2>1, <2>3, <2>5, PopNextNo
    <3> QED
      BY <2>1, <2>3, <3>1 DEF Arrived, NextNo
  <2>8. ready'[s] = Tail(ready[s])
    BY <2>1, <2>4 DEF PopFront
  <2>9. Incoming(s, r)' = Incoming(s, r)
    <3>1. Rest(s, r)' = ready'[s]
      BY <2>7 DEF Rest
    <3>2. Rest(s, r) = Tail(ready[s])
      BY <2>6 DEF Rest
    <3> QED
      BY <2>1, <2>8, <3>1, <3>2 DEF Incoming
  <2>10. Frames(s, r)'
    <3>1. Stream(Incoming(s, r)')
      BY <2>9 DEF Frames
    <3>2. Stream(Incoming(s, r))'
      BY <3>1 DEF Stream
    <3>3. /\ Carried(sendFrames[s], ready'[s]) /\ Carried(wire[s], ready'[s])
          /\ Carried(recvFrames[r], ready'[s])
      BY <2>3, CarriedNothing
    <3> QED
      BY <1>c, <2>1, <2>3, <3>2, <3>3 DEF Frames, Carried, Acking
  <2>11. Packets(Incoming(s, r))' = Packets(Incoming(s, r))
    BY <2>9
  <2> QED
    BY <2>1, <2>10, <2>11 DEF Contents
<1>7. CASE Fetch(s) /\ ~ (MayFetch(s) /\ sendPackets[s] # <<>>)
  <2>1. /\ UNCHANGED <<ready, sendPackets, recvPackets, reconstructFrames, frameExpect, recvFrames,
                       sendFrames>>
        /\ dlPC'[r] = dlPC[r]
    BY <1>a, <1>p, <1>7 DEF Fetch, GoTo, DLTypeOK
  <2> QED
    BY <1>1, <1>f, <2>1
<1>8. CASE Fetch(s) /\ MayFetch(s) /\ sendPackets[s] # <<>>
  <2> DEFINE p == Head(sendPackets[s])
             t == MakeFrames(p, nextSend[s])
             sp == sendPackets[s]
             q == Incoming(s, r)
             rp == recvPackets[r]
  <2>1. /\ UNCHANGED <<recvPackets, reconstructFrames, frameExpect, recvFrames, sendFrames>>
        /\ dlPC'[r] = dlPC[r]
        /\ ready'[s] = ready[s] \o t /\ sendPackets'[s] = Tail(sp)
    BY <1>a, <1>p, <1>8 DEF Fetch, GoTo, DLTypeOK, SharedTypeOK
  <2>2. p \in Packet /\ sp = <<p>> \o Tail(sp) /\ <<p>> \in Seq(Packet) /\ Tail(sp) \in Seq(Packet)
    BY <1>q, <1>8, HeadThenTail, TailFacts
  <2>3. t \in Seq(DataFrame) /\ t # <<>> /\ t[1].seq = nextSend[s]
    BY <1>q, <2>2, MadeInOrder, MakeFramesType
  <2>4. /\ q \in Seq(DataFrame) /\ Rest(s, r) \in Seq(DataFrame)
        /\ reconstructFrames[r] \in Seq(DataFrame) /\ rp \in Seq(Packet)
        /\ Packets(q) \in Seq(Packet) /\ Stream(q)
    BY IncomingType DEF Frames
  <2>5. q # <<>> => q[Len(q)].payload.pkt.frames = 2
    <3> DEFINE ps == Packets(q)
               c == rp \o ps
    <3>1. SUFFICES ASSUME q # <<>> PROVE q[Len(q)].payload.pkt.frames = 2
      OBVIOUS
    <3>2. ps \in Seq(Packet) /\ ps # <<>> /\ ps[Len(ps)] = q[Len(q)].payload.pkt
      BY <2>4, <3>1, StreamLast
    <3> HIDE DEF ps, q, rp, sp
    <3>3. /\ Len(ps) \in Nat /\ Len(ps) > 0 /\ Len(rp) \in Nat
          /\ sp \in Seq(Packet) /\ Len(sp) \in Nat /\ Len(sp) > 0
      BY <1>q, <1>8, <2>4, <3>2, NonEmptyLen DEF sp
    <3>4. c \in Seq(Packet) /\ Len(c) = Len(rp) + Len(ps) /\ c[Len(c)] = ps[Len(ps)]
      BY <2>4, <3>2, <3>3, ConcatProperties
    <3> HIDE DEF c
    <3>5. Len(c) \in 1 .. Len(c \o sp) - 1 /\ (c \o sp)[Len(c)] = c[Len(c)]
      BY <3>3, <3>4, ConcatProperties
    <3>6. Long(c \o sp)
      BY DEF Contents, c, ps, q, rp, sp
    <3> QED
      BY <3>2, <3>4, <3>5, <3>6 DEF Long
  <2>6. Rest(s, r)' = Rest(s, r) \o t
    <3>1. CASE ready[s] = <<>>
      <4>1. ready'[s] = t /\ Rest(s, r) = <<>>
        <5> HIDE DEF t
        <5>1. ready'[s] = t
          BY <2>1, <2>3, <3>1, ConcatEmptySeq
        <5>2. Rest(s, r) = <<>>
          BY <3>1 DEF Rest, Arrived
        <5> QED
          BY <5>1, <5>2
      <4>2. window[s] = <<>>
        BY <3>1, QueueInvAt DEF QueuesAt
      <4>3. dlPC[r] \notin Acking /\ nextSend[s] = frameExpect[r]
        BY <3>1, <4>2 DEF Link, Flying, One, Numbers, Unanswered, NextNo
      <4>4. ~ Arrived(s, r)'
        BY <2>1, <2>3, <4>1, <4>3 DEF Arrived
      <4> HIDE DEF t
      <4>5. Rest(s, r)' = t
        BY <4>1, <4>4 DEF Rest
      <4> QED
        BY <2>3, <4>1, <4>5, ConcatEmptySeq
    <3>2. CASE ready[s] # <<>>
      <4> HIDE DEF t
      <4>1. ready'[s] # <<>> /\ ready'[s][1] = ready[s][1]
        BY <1>q, <2>1, <2>3, <3>2, ConcatFirst
      <4>2. Arrived(s, r)' <=> Arrived(s, r)
        BY <2>1, <3>2, <4>1 DEF Arrived
      <4>3. Tail(ready[s] \o t) = Tail(ready[s]) \o t
        BY <1>q, <2>3, <3>2, TailConcat
      <4> QED
        BY <2>1, <4>2, <4>3 DEF Rest
    <3> QED
      BY <3>1, <3>2
  <2>7. /\ q \o t \in Seq(DataFrame) /\ Stream(q \o t)
        /\ Packets(q \o t) = Packets(q) \o <<p>>
    <3> HIDE DEF q
    <3> QED
      BY <1>q, <2>2, <2>4, <2>5, StreamMake
  <2>8. Incoming(s, r)' = q \o t
    <3> HIDE DEF t
    <3>1. Incoming(s, r)' = reconstructFrames[r] \o (Rest(s, r) \o t)
      BY <2>1, <2>6 DEF Incoming
    <3> DEFINE a == reconstructFrames[r]
               b == Rest(s, r)
    <3>2. a \in Seq(DataFrame) /\ b \in Seq(DataFrame) /\ Incoming(s, r)' = a \o (b \o t)
      BY <2>4, <3>1
    <3> HIDE DEF a, b
    <3>3. a \o (b \o t) = (a \o b) \o t
      BY <2>3, <3>2, ConcatThree
    <3> QED
      BY <3>2, <3>3 DEF Incoming, a, b
  <2>9. Frames(s, r)'
    <3>1. Stream(Incoming(s, r)')
      BY <2>7, <2>8
    <3>2. Stream(Incoming(s, r))'
      BY <3>1 DEF Stream
    <3>3. ready[s] # <<>> => ready'[s] # <<>> /\ ready'[s][1] = ready[s][1]
      <4> HIDE DEF t
      <4> QED
        BY <1>q, <2>1, <2>3, ConcatFirst
    <3>4. /\ Carried(sendFrames[s], ready'[s]) /\ Carried(wire[s], ready'[s])
          /\ Carried(recvFrames[r], ready'[s])
      BY <1>f, <3>3, CarriedMore
    <3> QED
      BY <1>c, <2>1, <3>2, <3>4 DEF Frames, Carried
  <2>10. Contents(s, r)' = Contents(s, r)
    <3> DEFINE ps == Packets(q)
               tl == Tail(sp)
    <3>1. Packets(Incoming(s, r))' = ps \o <<p>>
      BY <2>7, <2>8
    <3>2. Contents(s, r)' = (rp \o (ps \o <<p>>)) \o tl
      BY <2>1, <3>1 DEF Contents
    <3>3. Contents(s, r) = (rp \o ps) \o (<<p>> \o tl)
      BY <2>2 DEF Contents
    <3>4. rp \in Seq(Packet) /\ ps \in Seq(Packet) /\ <<p>> \in Seq(Packet) /\ tl \in Seq(Packet)
      BY <2>2, <2>4
    <3> HIDE DEF rp, ps, p, tl
    <3> QED
      BY <3>2, <3>3, <3>4, MoveOne
  <2> QED
    BY <2>9, <2>10
<1> QED
  BY <1>2, <1>3, <1>4, <1>5, <1>6, <1>7, <1>8 DEF DLThread, DLStep

\* The data link thread of r: a frame arrives, a packet goes up, an ack is sent.
LEMMA ReceiverFrames ==
  ASSUME TypeInv, QueueInv, NEW s \in Node, NEW r \in Node, s = Peer(r),
         Link(s, r), Numbers(s, r), Frames(s, r), DLThread(r)
  PROVE  Frames(s, r)' /\ Contents(s, r)' = Contents(s, r)
<1>a. SharedTypeOK /\ DLTypeOK
  BY DEF TypeInv, TypeOK
<1>p. r # s
  BY PeerInNode
<1>c. UNCHANGED wire
  BY DEF DLThread, plVars
<1>q. /\ recvFrames[r] \in Seq(Frame) /\ ready[s] \in Seq(DataFrame) /\ frameExpect[r] \in SeqNo
      /\ reconstructFrames[r] \in Seq(DataFrame) /\ recvPackets[r] \in Seq(Packet)
  BY <1>a DEF SharedTypeOK, DLTypeOK
<1>f. /\ Carried(sendFrames[s], ready[s]) /\ Carried(wire[s], ready[s])
      /\ Carried(recvFrames[r], ready[s])
  BY DEF Frames
<1>s. DLStep(r) => /\ ready'[s] = ready[s] /\ sendPackets'[s] = sendPackets[s]
                   /\ sendFrames'[s] = sendFrames[s]
  BY <1>a, <1>p DEF DLStep, TimeoutEvent, ArrivalEvent, PacketEvent, ReceiveAck, PopSendFrames,
     PopRecvFrames, ReceiveData, FromPhysicalLayer, CheckRecvPackets, DeliverPacket, AckRefused,
     AckNotLocked, AckLocked, PushAck, Fetch, NothingReady, FrameRefused, FrameNotLocked,
     FrameLocked, PushFrame, sharedVars, SharedTypeOK, DLTypeOK
<1>d. /\ ready'[s] = ready[s] /\ sendPackets'[s] = sendPackets[s]
      /\ sendFrames'[s] = sendFrames[s]
  BY <1>s DEF DLThread
<1>1. CASE /\ reconstructFrames'[r] = reconstructFrames[r] /\ recvPackets'[r] = recvPackets[r]
           /\ Arrived(s, r)' <=> Arrived(s, r)
           /\ dlPC'[r] \in {"up", "deliver"} => dlPC[r] \in {"up", "deliver"}
           /\ Carried(recvFrames'[r], ready[s])
  <2>1. Frames(s, r)' /\ Incoming(s, r)' = Incoming(s, r)
    BY <1>1, <1>c, <1>d, <1>f, FramesStable
  <2>2. Packets(Incoming(s, r))' = Packets(Incoming(s, r))
    BY <2>1
  <2> QED
    BY <1>1, <1>d, <2>1, <2>2 DEF Contents
<1>2. CASE \/ TimeoutEvent(r) \/ ArrivalEvent(r) \/ PacketEvent(r) \/ PopSendFrames(r)
           \/ PopRecvFrames(r) \/ ReceiveAck(r) \/ Fetch(r)
           \/ NothingReady(r) \/ FrameRefused(r) \/ FrameNotLocked(r) \/ FrameLocked(r)
           \/ PushFrame(r)
  <2>1. /\ reconstructFrames'[r] = reconstructFrames[r] /\ recvPackets'[r] = recvPackets[r]
        /\ frameExpect'[r] = frameExpect[r]
        /\ dlPC[r] \notin Acking /\ dlPC'[r] \notin Acking
    BY <1>a, <1>p, <1>2 DEF TimeoutEvent, ArrivalEvent, PacketEvent, PopSendFrames, PopRecvFrames,
       ReceiveAck, FromPhysicalLayer, Fetch, NothingReady, FrameRefused, FrameNotLocked,
       FrameLocked, PushFrame, GoTo, Acking, sharedVars, DLTypeOK
  <2>2. \/ recvFrames'[r] = recvFrames[r] \/ recvFrames'[r] = PopFront(recvFrames[r])
        \/ recvFrames[r] # <<>> /\ recvFrames'[r] = Tail(recvFrames[r])
    BY <1>a, <1>p, <1>2 DEF TimeoutEvent, ArrivalEvent, PacketEvent, PopSendFrames, PopRecvFrames,
       ReceiveAck, FromPhysicalLayer, Fetch, NothingReady, FrameRefused, FrameNotLocked,
       FrameLocked, PushFrame, sharedVars, SharedTypeOK
  <2>3. Carried(recvFrames'[r], ready[s])
    BY <1>q, <1>f, <2>2, CarriedPop, CarriedTake
  <2>4. Arrived(s, r)' <=> Arrived(s, r)
    BY <1>d, <2>1 DEF Arrived
  <2> QED
    BY <1>1, <2>1, <2>3, <2>4 DEF Acking
<1>3. CASE CheckRecvPackets(r) \/ AckLocked(r)
  <2>1. /\ UNCHANGED <<reconstructFrames, recvPackets, frameExpect, recvFrames>>
        /\ dlPC[r] \in Acking /\ dlPC'[r] \in Acking
        /\ dlPC'[r] \in {"up", "deliver"} => dlPC[r] \in {"up", "deliver"}
    BY <1>a, <1>p, <1>3 DEF CheckRecvPackets, AckLocked, GoTo, Acking, DLTypeOK
  <2>2. Arrived(s, r)' <=> Arrived(s, r)
    BY <1>d, <2>1 DEF Arrived
  <2> QED
    BY <1>1, <1>f, <2>1, <2>2
<1>4. CASE AckRefused(r) \/ AckNotLocked(r) \/ PushAck(r)
  <2>1. /\ UNCHANGED <<reconstructFrames, recvPackets, recvFrames>>
        /\ dlPC[r] \in Acking /\ dlPC'[r] = "fetch"
        /\ frameExpect'[r] = Inc(frameExpect[r])
    BY <1>a, <1>p, <1>4 DEF AckRefused, AckNotLocked, PushAck, GoTo, Acking, DLTypeOK
  <2>2. NextNo(s) = frameExpect[r] /\ frameExpect'[r] # frameExpect[r]
    BY <1>q, <2>1, IncOther DEF Numbers, Unanswered
  <2>3. Arrived(s, r)' <=> Arrived(s, r)
    BY <1>d, <2>1, <2>2 DEF Arrived, NextNo
  <2> QED
    BY <1>1, <1>f, <2>1, <2>3
<1>5. CASE ReceiveData(r)
  <2> DEFINE f == Head(recvFrames[r])
             w == ready[s]
             a == reconstructFrames[r]
  <2>1. /\ dlPC[r] = "receive" /\ recvFrames[r] # <<>> /\ f.type = DATA
        /\ recvFrames'[r] = Tail(recvFrames[r])
        /\ reconstructFrames'[r] = Append(a, f)
        /\ dlPC'[r] = IF ~ Expected(r, f) THEN "fetch" ELSE IF f.end THEN "up" ELSE "sendAck"
        /\ UNCHANGED <<recvPackets, frameExpect>>
    BY <1>a, <1>p, <1>5 DEF ReceiveData, FromPhysicalLayer, GoTo, DLTypeOK, SharedTypeOK
  <2>2. f.seq = frameExpect[r]
    BY <1>q, <2>1, TakeAny DEF Numbers
  <2>3. w # <<>> /\ f = w[1] /\ Carried(recvFrames'[r], w)
    BY <1>q, <1>f, <2>1, CarriedTake
  <2>4. f \in DataFrame /\ w = <<f>> \o Tail(w) /\ Tail(w) \in Seq(DataFrame)
    BY <1>q, <2>3, HeadThenTail, TailFacts
  <2>5. ~ Arrived(s, r) /\ Arrived(s, r)'
    BY <1>d, <2>1, <2>2, <2>3 DEF Arrived, Acking, Expected
  <2>6. /\ Append(a, f) \in Seq(DataFrame) /\ Append(a, f) = a \o <<f>>
        /\ Append(a, f) # <<>> /\ Append(a, f)[Len(Append(a, f))] = f
    <3> HIDE DEF a, f
    <3> QED
      BY <1>q, <2>4, AppendProperties, AppendIsConcat DEF a
  <2>7. Incoming(s, r)' = Incoming(s, r)
    <3>1. Incoming(s, r) = a \o w
      BY <2>5 DEF Incoming, Rest
    <3>2. Incoming(s, r)' = Append(a, f) \o Tail(w)
      BY <1>d, <2>1, <2>5 DEF Incoming, Rest
    <3> DEFINE b == <<f>>
               t == Tail(w)
    <3>3. a \in Seq(DataFrame) /\ b \in Seq(DataFrame) /\ t \in Seq(DataFrame)
      BY <1>q, <2>4
    <3>4. Incoming(s, r) = a \o (b \o t) /\ Incoming(s, r)' = (a \o b) \o t
      BY <2>4, <2>6, <3>1, <3>2
    <3> HIDE DEF a, b, t
    <3> QED
      BY <3>3, <3>4, ConcatThree
  <2>8. Frames(s, r)'
    <3>1. Stream(Incoming(s, r)')
      BY <2>7 DEF Frames
    <3>2. Stream(Incoming(s, r))'
      BY <3>1 DEF Stream
    <3>3. dlPC'[r] \in {"up", "deliver"} => f.end
      BY <2>1
    <3>4. (/\ dlPC[r] \in {"up", "deliver"} =>
                reconstructFrames[r] # <<>> /\ reconstructFrames[r][Len(reconstructFrames[r])].end)'
      <4> HIDE DEF a, f
      <4> QED
        BY <2>1, <2>6, <3>3
    <3> QED
      BY <1>c, <1>d, <1>f, <2>3, <3>2, <3>4 DEF Frames, Carried
  <2>9. Packets(Incoming(s, r))' = Packets(Incoming(s, r))
    BY <2>7
  <2> QED
    BY <1>d, <2>1, <2>8, <2>9 DEF Contents
<1>6. CASE DeliverPacket(r)
  <2> DEFINE q == reconstructFrames[r]
             t == Rest(s, r)
             p == q[1].payload.pkt
             d == PopFront(PopFront(q))
             rp == recvPackets[r]
  <2>1. /\ dlPC[r] = "deliver" /\ dlPC'[r] = "sendAck"
        /\ reconstructFrames'[r] = d
        /\ \E x \in Rebuild(q) : recvPackets'[r] = Append(rp, x)
        /\ UNCHANGED <<recvFrames, frameExpect>>
    BY <1>a, <1>p, <1>6 DEF DeliverPacket, GoTo, DLTypeOK, SharedTypeOK
  <2>2. /\ q \in Seq(DataFrame) /\ t \in Seq(DataFrame) /\ q # <<>> /\ q[Len(q)].end
        /\ Stream(q \o t)
    BY <2>1, IncomingType DEF Frames, Incoming
  <2>3. /\ p \in Packet /\ Rebuild(q) = {p}
        /\ d \in Seq(DataFrame) /\ Stream(d \o t)
        /\ Packets(q \o t) = <<p>> \o Packets(d \o t)
    <3> HIDE DEF q, t
    <3> QED
      BY <2>2, StreamTake
  <2>4. recvPackets'[r] = Append(rp, p)
    <3> HIDE DEF p, rp, q
    <3> QED
      BY <2>1, <2>3
  <2>5. Rest(s, r)' = t
    <3>1. Arrived(s, r)' <=> Arrived(s, r)
      BY <1>d, <2>1 DEF Arrived, Acking
    <3> QED
      BY <1>d, <3>1 DEF Rest
  <2>6. Incoming(s, r)' = d \o t
    <3> HIDE DEF d, t
    <3> QED
      BY <2>1, <2>5 DEF Incoming
  <2>7. Frames(s, r)'
    <3>1. Stream(Incoming(s, r)')
      BY <2>3, <2>6
    <3>2. Stream(Incoming(s, r))'
      BY <3>1 DEF Stream
    <3> QED
      BY <1>c, <1>d, <1>f, <2>1, <3>2 DEF Frames, Carried
  <2>8. Contents(s, r)' = Contents(s, r)
    <3> DEFINE ps == Packets(d \o t)
               sp == sendPackets[s]
               x == <<p>>
    <3>1. Packets(Incoming(s, r))' = ps /\ Packets(Incoming(s, r)) = x \o ps
      BY <2>3, <2>6 DEF Incoming
    <3>2. ps \in Seq(Packet)
      <4> HIDE DEF d, t
      <4> QED
        BY <2>2, <2>3, ConcatProperties, PacketsType
    <3>3. rp \in Seq(Packet) /\ x \in Seq(Packet) /\ Append(rp, p) = rp \o x
      <4>1. p \in Packet /\ rp \in Seq(Packet)
        BY <1>q, <2>3
      <4> HIDE DEF p, rp
      <4> QED
        BY <4>1, AppendIsConcat
    <3>4. Contents(s, r)' = ((rp \o x) \o ps) \o sp /\ Contents(s, r) = (rp \o (x \o ps)) \o sp
      BY <1>d, <2>4, <3>1, <3>3 DEF Contents
    <3> HIDE DEF rp, ps, x, sp
    <3>5. rp \o (x \o ps) = (rp \o x) \o ps
      BY <3>2, <3>3, ConcatThree
    <3> QED
      BY <3>4, <3>5
  <2> QED
    BY <2>7, <2>8
<1> QED
  BY <1>2, <1>3, <1>4, <1>5, <1>6 DEF DLThread, DLStep

\* The physical layers only carry frames.
LEMMA PLFrames ==
  ASSUME TypeInv, NEW n \in Node, NEW r \in Node, r = Peer(n),
         Frames(n, r), Frames(r, n), PLThread(n), Intact'
  PROVE  /\ Frames(n, r)' /\ Contents(n, r)' = Contents(n, r)
         /\ Frames(r, n)' /\ Contents(r, n)' = Contents(r, n)
<1>a. SharedTypeOK /\ PLTypeOK
  BY DEF TypeInv, TypeOK
<1>p. r # n
  BY PeerInNode
<1>c. UNCHANGED <<ready, reconstructFrames, dlPC, frameExpect, sendPackets, recvPackets>>
  BY DEF PLThread, PLStep, TryLockSendFrames, CheckSendFrames, SendAFrame, Unlock, ReceiveNothing,
     ReceiveOne, ReceiveInvalid, ReceiveMerged, RemnantRefused, RemnantAccepted, ReadRemnant,
     dlVars, sharedVars
<1>q. /\ sendFrames[n] \in Seq(Frame) /\ recvFrames[n] \in Seq(Frame)
      /\ wire[n] \in Seq(Frame) /\ wire[r] \in Seq(Frame)
  BY <1>a DEF SharedTypeOK, PLTypeOK
<1>f. /\ Carried(sendFrames[n], ready[n]) /\ Carried(wire[n], ready[n])
      /\ Carried(recvFrames[r], ready[n]) /\ Carried(sendFrames[r], ready[r])
      /\ Carried(wire[r], ready[r]) /\ Carried(recvFrames[n], ready[r])
  BY DEF Frames
<1>0. SUFFICES
        /\ Carried(sendFrames'[n], ready[n]) /\ Carried(wire'[n], ready[n])
        /\ Carried(recvFrames'[r], ready[n]) /\ Carried(sendFrames'[r], ready[r])
        /\ Carried(wire'[r], ready[r]) /\ Carried(recvFrames'[n], ready[r])
  <2>1. ASSUME NEW s \in Node, NEW d \in Node, Frames(s, d),
               Carried(sendFrames'[s], ready[s]), Carried(wire'[s], ready[s]),
               Carried(recvFrames'[d], ready[s])
        PROVE  Frames(s, d)' /\ Contents(s, d)' = Contents(s, d)
    <3>1. Arrived(s, d)' <=> Arrived(s, d)
      BY <1>c DEF Arrived
    <3>2. Frames(s, d)' /\ Incoming(s, d)' = Incoming(s, d)
      BY <1>c, <2>1, <3>1, FramesStable
    <3>3. Packets(Incoming(s, d))' = Packets(Incoming(s, d))
      BY <3>2
    <3> QED
      BY <1>c, <3>2, <3>3 DEF Contents
  <2> QED
    BY <1>0, <2>1
<1>1. CASE UNCHANGED <<sendFrames, recvFrames, wire>>
  BY <1>1, <1>f
<1>2. CASE SendAFrame(n) /\ sendFrames[n] # <<>>
  <2> DEFINE f == Head(sendFrames[n])
  <2>1. /\ sendFrames'[n] = Tail(sendFrames[n]) /\ sendFrames'[r] = sendFrames[r]
        /\ wire'[n] = Append(wire[n], f) /\ wire'[r] = wire[r]
        /\ UNCHANGED recvFrames
    BY <1>a, <1>p, <1>2 DEF SendAFrame, SharedTypeOK, PLTypeOK
  <2>2. /\ f \in Frame /\ Carried(sendFrames'[n], ready[n])
        /\ f.type = DATA => ready[n] # <<>> /\ f = ready[n][1]
    BY <1>q, <1>f, <1>2, <2>1, TakeAny, CarriedTake
  <2> HIDE DEF f
  <2>3. Carried(wire'[n], ready[n])
    BY <1>q, <1>f, <2>1, <2>2, CarriedPut
  <2> QED
    BY <1>f, <2>1, <2>2, <2>3
<1>3. CASE /\ wire[r] # <<>> /\ wire' = [wire EXCEPT ![r] = Tail(@)]
           /\ UNCHANGED sendFrames
           /\ \/ UNCHANGED recvFrames
              \/ recvFrames' = [recvFrames EXCEPT ![n] = Append(@, Head(wire[r]))]
  <2> DEFINE f == Head(wire[r])
  <2>1. /\ wire'[r] = Tail(wire[r]) /\ wire'[n] = wire[n]
        /\ recvFrames'[n] = recvFrames[n] \/ recvFrames'[n] = Append(recvFrames[n], f)
        /\ recvFrames'[r] = recvFrames[r]
    BY <1>a, <1>p, <1>3 DEF SharedTypeOK, PLTypeOK
  <2>2. /\ f \in Frame /\ Carried(wire'[r], ready[r])
        /\ f.type = DATA => ready[r] # <<>> /\ f = ready[r][1]
    BY <1>q, <1>f, <1>3, <2>1, TakeAny, CarriedTake
  <2> HIDE DEF f
  <2>3. Carried(recvFrames'[n], ready[r])
    BY <1>q, <1>f, <2>1, <2>2, CarriedPut
  <2> QED
    BY <1>f, <1>3, <2>1, <2>2, <2>3
<1>4. CASE ReceiveMerged(n)
  <2> DEFINE f == Head(wire[r])
  <2>1. PICK k \in 2 .. Len(wire[r]) : wire' = [wire EXCEPT ![r] = SubSeq(@, k + 1, Len(@))]
    BY <1>4 DEF ReceiveMerged
  <2>2. wire[r] # <<>>
    <3>1. \A l : (\E i \in 2 .. l : TRUE) => l # 0
      OBVIOUS
    <3> QED
      BY <2>1, <3>1, EmptySeq, Zenon
  <2>3. /\ wire'[r] = SubSeq(wire[r], k + 1, Len(wire[r])) /\ wire'[n] = wire[n]
        /\ UNCHANGED sendFrames
        /\ recvFrames'[n] = recvFrames[n] \/ recvFrames'[n] = Append(recvFrames[n], f)
        /\ recvFrames'[r] = recvFrames[r]
    <3>1. \/ recvFrames' = [recvFrames EXCEPT ![n] = Append(@, f)]
          \/ UNCHANGED recvFrames
      BY <1>4 DEF ReceiveMerged
    <3> QED
      BY <1>a, <1>p, <1>4, <2>1, <3>1 DEF ReceiveMerged, SharedTypeOK, PLTypeOK
  <2>4. f \in Frame /\ (f.type = DATA => ready[r] # <<>> /\ f = ready[r][1])
    BY <1>q, <1>f, <2>2, TakeAny, CarriedTake
  <2>5. Carried(wire'[r], ready[r])
    <3>1. k \in 0 .. Len(wire[r])
      BY <2>1
    <3> QED
      BY <1>q, <1>f, <2>3, <3>1, CarriedSeveral
  <2> HIDE DEF f
  <2>6. Carried(recvFrames'[n], ready[r])
    BY <1>q, <1>f, <2>3, <2>4, CarriedPut
  <2> QED
    BY <1>f, <2>3, <2>5, <2>6
<1>5. CASE TryLockSendFrames(n) \/ CheckSendFrames(n) \/ Unlock(n) \/ ReceiveNothing(n)
  BY <1>1, <1>5 DEF TryLockSendFrames, CheckSendFrames, Unlock, ReceiveNothing, sharedVars
<1>6. CASE SendAFrame(n) /\ sendFrames[n] = <<>>
  BY <1>1, <1>6 DEF SendAFrame
<1>7. CASE ReceiveOne(n) \/ ReceiveInvalid(n)
  BY <1>3, <1>7 DEF ReceiveOne, ReceiveInvalid
<1>8. CASE RemnantRefused(n)
  <2>1. PICK k \in 0 .. Len(wire[r]) : wire' = [wire EXCEPT ![r] = SubSeq(@, k + 1, Len(@))]
    BY <1>8 DEF RemnantRefused, ReadRemnant
  <2>2. /\ wire'[r] = SubSeq(wire[r], k + 1, Len(wire[r])) /\ wire'[n] = wire[n]
        /\ UNCHANGED <<sendFrames, recvFrames>>
    BY <1>a, <1>p, <1>8, <2>1 DEF RemnantRefused, ReadRemnant, PLTypeOK
  <2>3. Carried(wire'[r], ready[r])
    BY <1>q, <1>f, <2>1, <2>2, CarriedSeveral
  <2> QED
    BY <1>f, <2>2, <2>3
<1> QED
  BY <1>2, <1>4, <1>5, <1>6, <1>7, <1>8, AcceptedBreaks DEF PLThread, PLStep
=============================================================================
