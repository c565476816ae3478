---------------------------- MODULE TransferProofs ----------------------------
(***************************************************************************)
(* What a recv makes of the bytes that arrive, for any messages, numbers   *)
(* of frames and values of memory that nobody wrote.                       *)
(***************************************************************************)
EXTENDS Transfer, CodecLemmas

-----------------------------------------------------------------------------
(* Several sequences of bytes in one.                                      *)

\* f is the function of FlattenSeq, for the first n sequences of q.
Flattens(f, q, n) == f = [i \in 1 .. n |-> IF i = 1 THEN q[i] ELSE f[i - 1] \o q[i]]

LEMMA FlattensExist ==
  ASSUME NEW q
  PROVE  \A n \in Nat : \E f : Flattens(f, q, n)
<1> DEFINE S == {n \in Nat : \E f : Flattens(f, q, n)}
<1>1. 0 \in S
  <2>1. Flattens([i \in 1 .. 0 |-> q], q, 0)
    BY DEF Flattens
  <2> QED
    BY <2>1
<1>2. ASSUME NEW n \in Nat, n \in S PROVE n + 1 \in S
  <2>1. PICK f : Flattens(f, q, n)
    BY <1>2
  <2>s. \A i \in 1 .. n : f[i] = IF i = 1 THEN q[i] ELSE f[i - 1] \o q[i]
    BY <2>1 DEF Flattens
  <2> DEFINE e == IF n = 0 THEN q[1] ELSE f[n] \o q[n + 1]
             g == [i \in 1 .. n + 1 |-> IF i = n + 1 THEN e ELSE f[i]]
             h == [i \in 1 .. n + 1 |-> IF i = 1 THEN q[i] ELSE g[i - 1] \o q[i]]
  <2>2. \A i \in 1 .. n : g[i] = f[i]
    OBVIOUS
  <2>3. g[n + 1] = e /\ (n # 0 => g[(n + 1) - 1] = f[n])
    BY <2>2
  <2>4. ASSUME NEW i \in 1 .. n + 1 PROVE g[i] = h[i]
    <3>0. h[i] = IF i = 1 THEN q[i] ELSE g[i - 1] \o q[i]
      OBVIOUS
    <3> HIDE DEF g, h
    <3>1. CASE i = n + 1
      <4>1. (i = 1 <=> n = 0) /\ (n # 0 => g[i - 1] = f[n])
        BY <2>3, <3>1
      <4> QED
        BY <2>3, <3>0, <3>1, <4>1
    <3>2. CASE i \in 1 .. n
      <4>1. i # 1 => i - 1 \in 1 .. n
        BY <3>2
      <4> QED
        BY <2>2, <2>s, <3>0, <3>2, <4>1
    <3> QED
      BY <3>1, <3>2
  <2>5. g = h
    <3>1. g = [i \in 1 .. n + 1 |-> g[i]] /\ h = [i \in 1 .. n + 1 |-> h[i]]
      OBVIOUS
    <3> HIDE DEF g, h
    <3> QED
      BY <2>4, <3>1, Zenon
  <2>6. Flattens(g, q, n + 1)
    <3> HIDE DEF g
    <3> QED
      BY <2>5 DEF Flattens
  <2> QED
    BY <2>6
<1> HIDE DEF S
<1>3. \A n \in Nat : n \in S
  BY <1>1, <1>2, NatSet
<1> QED
  BY <1>3 DEF S

LEMMA FlattenIs ==
  ASSUME NEW S, NEW q \in Seq(S), Len(q) # 0
  PROVE  \E f : /\ FlattenSeq(q) = f[Len(q)]
                /\ \A i \in 1 .. Len(q) : f[i] = IF i = 1 THEN q[i] ELSE f[i - 1] \o q[i]
<1> DEFINE f == CHOOSE f : Flattens(f, q, Len(q))
<1>1. FlattenSeq(q) = f[Len(q)]
  BY DEF FlattenSeq, Flattens
<1>2. Flattens(f, q, Len(q))
  <2>1. Len(q) \in Nat
    OBVIOUS
  <2> QED
    BY <2>1, FlattensExist
<1> HIDE DEF f
<1>3. \A i \in 1 .. Len(q) : f[i] = IF i = 1 THEN q[i] ELSE f[i - 1] \o q[i]
  BY <1>2 DEF Flattens
<1> QED
  BY <1>1, <1>3

LEMMA FlattenTyped ==
  ASSUME NEW q \in Seq(Seq(Byte))
  PROVE  FlattenSeq(q) \in Seq(Byte)
<1>1. CASE Len(q) = 0
  <2>1. FlattenSeq(q) = q /\ q = <<>>
    BY <1>1 DEF FlattenSeq
  <2> QED
    BY <2>1
<1>2. CASE Len(q) # 0
  <2>1. PICK f : /\ FlattenSeq(q) = f[Len(q)]
                 /\ \A i \in 1 .. Len(q) : f[i] = IF i = 1 THEN q[i] ELSE f[i - 1] \o q[i]
    BY <1>2, FlattenIs
  <2> DEFINE n == Len(q)
             S == {k \in Nat : k + 1 <= n => f[k + 1] \in Seq(Byte)}
  <2>2. n \in Nat /\ n # 0 /\ \A i \in 1 .. n : q[i] \in Seq(Byte)
    BY <1>2
  <2>d. /\ FlattenSeq(q) = f[n]
        /\ \A i \in 1 .. n : f[i] = IF i = 1 THEN q[i] ELSE f[i - 1] \o q[i]
    BY <2>1
  <2> HIDE DEF n
  <2>3. 0 \in S
    BY <2>2, <2>d
  <2>4. ASSUME NEW k \in Nat, k \in S PROVE k + 1 \in S
    <3> SUFFICES ASSUME (k + 1) + 1 <= n PROVE f[(k + 1) + 1] \in Seq(Byte)
      OBVIOUS
    <3>1. /\ f[k + 1] \in Seq(Byte) /\ (k + 1) + 1 \in 1 .. n /\ (k + 1) + 1 # 1
          /\ ((k + 1) + 1) - 1 = k + 1
      BY <2>2, <2>4
    <3>2. f[(k + 1) + 1] = f[((k + 1) + 1) - 1] \o q[(k + 1) + 1] /\ q[(k + 1) + 1] \in Seq(Byte)
      BY <2>2, <2>d, <3>1
    <3> QED
      BY <3>1, <3>2
  <2>5. \A k \in Nat : k \in S
    <3> HIDE DEF S
    <3> QED
      BY <2>3, <2>4, NatSet
  <2>6. n - 1 \in Nat /\ (n - 1) + 1 = n
    BY <2>2
  <2> QED
    BY <2>d, <2>5, <2>6
<1> QED
  BY <1>1, <1>2

LEMMA FlattenOne ==
  ASSUME NEW S, NEW q \in Seq(S), Len(q) = 1
  PROVE  FlattenSeq(q) = q[1]
<1>1. PICK f : /\ FlattenSeq(q) = f[Len(q)]
               /\ \A i \in 1 .. Len(q) : f[i] = IF i = 1 THEN q[i] ELSE f[i - 1] \o q[i]
  BY FlattenIs
<1> QED
  BY <1>1

LEMMA FlattenTwo ==
  ASSUME NEW S, NEW q \in Seq(S), Len(q) = 2
  PROVE  FlattenSeq(q) = q[1] \o q[2]
<1>0. Len(q) # 0
  OBVIOUS
<1>1. PICK f : /\ FlattenSeq(q) = f[Len(q)]
               /\ \A i \in 1 .. Len(q) : f[i] = IF i = 1 THEN q[i] ELSE f[i - 1] \o q[i]
  BY <1>0, FlattenIs
<1>2. f[1] = q[1] /\ f[2] = f[1] \o q[2]
  <2>1. f[1] = q[1] /\ f[2] = f[2 - 1] \o q[2]
    BY <1>1
  <2>2. 2 - 1 = 1
    OBVIOUS
  <2> QED
    BY <2>1, <2>2, Zenon
<1>3. FlattenSeq(q) = f[2]
  BY <1>1
<1> QED
  BY <1>2, <1>3

-----------------------------------------------------------------------------
(* What ReceiveFrames makes of the bytes.                                  *)

Bytes(f) == FoldSerializedFrame(Serialize(f))

LEMMA BytesAre ==
  ASSUME NEW f \in Frame
  PROVE  /\ f \in Format /\ Len(f.payload) \in Nat /\ Len(f.payload) <= 150 /\ Len(f.payload) <= MAX_SEQ
         /\ Serialize(f) \in Seq(Byte) /\ Len(Serialize(f)) = 12 + Len(f.payload)
         /\ Bytes(f) \in Seq(Byte) /\ Len(Bytes(f)) = 14 + Len(f.payload)
         /\ \A i \in 1 .. Len(Serialize(f)) : Bytes(f)[i] = Serialize(f)[i]
         /\ Serialize(f)[1] = Flag(f.type = ACK)
         /\ \A i \in 1 .. 12 : Serialize(f)[i] \in Digit
<1>1. f \in Format /\ Len(f.payload) \in Nat /\ Len(f.payload) <= 150 /\ Len(f.payload) <= MAX_SEQ
  <2>1. f \in Format /\ Len(f.payload) <= 150 /\ Len(f.payload) \in Nat
    BY DEF Frame, Format, MAX_FRAME
  <2>2. 150 <= MAX_SEQ
    BY SMT DEF MAX_SEQ
  <2> QED
    BY <2>1, <2>2, MaxSeq
<1>2. /\ Serialize(f) \in Seq(Byte) /\ Len(Serialize(f)) = 12 + Len(f.payload)
      /\ Serialize(f)[1] = Flag(f.type = ACK)
      /\ \A i \in 1 .. 12 : Serialize(f)[i] \in Digit
  BY <1>1, SerializeIs
<1> DEFINE s == Serialize(f)
           e == <<Fold(s, 1), Fold(s, 0)>>
<1>3. e \in Seq(Byte) /\ Len(e) = 2
  BY <1>2, FoldTyped
<1>4. Bytes(f) = s \o e
  BY DEF Bytes, FoldSerializedFrame
<1> HIDE DEF s, e
<1>5. s \in Seq(Byte) /\ Len(s) \in Nat
  BY <1>2 DEF s
<1>6. s \o e \in Seq(Byte) /\ IsConcat(s \o e, s, e, Len(s), 2)
  BY <1>3, <1>5, ConcatIs
<1>7. Len(s \o e) = Len(s) + 2 /\ \A i \in 1 .. Len(s) : (s \o e)[i] = s[i]
  BY <1>6 DEF IsConcat
<1>8. Bytes(f) \in Seq(Byte) /\ Len(Bytes(f)) = 14 + Len(f.payload)
  <2>1. Len(s) = 12 + Len(f.payload)
    BY <1>2 DEF s
  <2> QED
    BY <1>1, <1>4, <1>6, <1>7, <2>1
<1> QED
  BY <1>1, <1>2, <1>4, <1>7, <1>8 DEF s

\* What fits the buffer is read as a whole.
LEMMA Fitting ==
  ASSUME NEW b \in Seq(Byte), Len(b) <= Size
  PROVE  substr(b, 0, Size) = b /\ SubSeq(b, Size + 1, Len(b)) = <<>>
<1>1. Size = 164
  BY DEF Size, MAX_FRAME, FRAME_HEAD, FRAME_TAIL
<1>2. Len(b) \in Nat /\ Len(b) <= 164
  BY <1>1
<1>3. substr(b, 0, 164) = SubSeq(b, 1, Len(b))
  BY <1>2 DEF substr
<1>4. SubSeq(b, 1, Len(b)) = b
  OBVIOUS
<1>5. SubSeq(b, 164 + 1, Len(b)) = <<>>
  BY <1>2
<1> QED
  BY <1>1, <1>3, <1>4, <1>5

\* What begins with the header of a frame has its number.
LEMMA HeaderNumber ==
  ASSUME NEW f \in Format, Len(f.payload) <= MAX_SEQ, NEW d \in Seq(Byte), NEW fill,
         12 <= Len(d), \A i \in 1 .. 12 : d[i] = Serialize(f)[i]
  PROVE  Unserialize(d, fill).seq = f.seq
<1> DEFINE s == Serialize(f)
           str == CString(d)
           t == itoa(f.seq)
<1>1. f.seq \in 0 .. MAX_SEQ
  BY DEF Format
<1>2. (\A i \in 1 .. 5 : s[1 + i] = t[i]) /\ \A i \in 1 .. 12 : s[i] \in Digit
  BY SerializeIs
<1>3. t \in Seq(Byte) /\ Len(t) = 5
  <2>1. Digit \subseteq Byte
    BY DEF Digit, Byte
  <2>2. \A n \in 0 .. MAX_SEQ : itoa(n) \in Seq(Digit) /\ Len(itoa(n)) = 5
    BY itoaDigits
  <2>3. t \in Seq(Digit) /\ Len(t) = 5
    BY <1>1, <2>2
  <2> HIDE DEF t
  <2> QED
    BY <2>1, <2>3
<1>4. \A i \in 1 .. 12 : d[i] = s[i]
  OBVIOUS
<1> HIDE DEF s, t
<1>5. \A i \in 1 .. 12 : d[i] # NUL
  <2>1. \A x \in Digit : x # NUL
    BY DEF Digit, NUL
  <2> QED
    BY <1>2, <1>4, <2>1
<1>6. str \in Seq(Byte) /\ Len(str) \in Nat /\ Len(str) >= 12 /\ \A i \in 1 .. 12 : str[i] = d[i]
  <2>1. 12 \in 0 .. Len(d)
    OBVIOUS
  <2>2. str \in Seq(Byte) /\ Len(str) >= 12 /\ \A i \in 1 .. 12 : str[i] = d[i]
    BY <1>5, <2>1, CStringIs
  <2> HIDE DEF str
  <2> QED
    BY <2>2
<1> HIDE DEF str
<1>7. substr(str, 1, 5) = t
  <2>1. \A i \in 1 .. 5 : 1 + i \in 1 .. 12
    OBVIOUS
  <2>2. \A i \in 1 .. Len(t) : str[1 + i] = t[i]
    BY <1>2, <1>3, <1>4, <1>6, <2>1
  <2>3. 1 + Len(t) <= Len(str) /\ 1 \in Nat
    BY <1>3, <1>6
  <2>4. substr(str, 1, Len(t)) = t
    BY <1>3, <1>6, <2>2, <2>3, substrIs
  <2> QED
    BY <1>3, <2>4
<1>8. atoi(substr(str, 1, 5)) % (MAX_SEQ + 1) = f.seq
  BY <1>1, <1>7, NumberReadBack DEF t
<1>9. Unserialize(d, fill).seq = atoi(substr(str, 1, 5)) % (MAX_SEQ + 1)
  BY Zenon DEF Unserialize, str
<1> QED
  BY <1>8, <1>9

\* Bytes that begin with a frame, in the memory of the buffer.
LEMMA BeginsWithFrame ==
  ASSUME NEW f \in Frame, NEW b \in Seq(Byte), Len(b) <= Size, Len(Serialize(f)) <= Len(b),
         \A i \in 1 .. Len(Serialize(f)) : b[i] = Serialize(f)[i],
         NEW fill \in Byte
  PROVE  /\ Readable(Block(b, Size, fill))
         /\ Unserialize(Block(b, Size, fill), fill).type = f.type
         /\ Unserialize(Block(b, Size, fill), fill).end = f.end
         /\ Unserialize(Block(b, Size, fill), fill).seq = f.seq
         /\ (\A i \in 1 .. Len(f.payload) : f.payload[i] # NUL)
              => Unserialize(Block(b, Size, fill), fill) = f
<1> DEFINE d == Block(b, Size, fill)
           s == Serialize(f)
           n == Len(s)
<1>1. /\ f \in Format /\ Len(f.payload) <= MAX_SEQ /\ Len(f.payload) \in Nat
      /\ n = 12 + Len(f.payload) /\ s[1] = Flag(f.type = ACK) /\ \A i \in 1 .. 12 : s[i] \in Digit
  BY BytesAre
<1>2. Size \in Nat /\ Len(b) \in Nat /\ n <= Len(b) /\ \A i \in 1 .. n : b[i] = s[i]
  BY DEF Size, MAX_FRAME, FRAME_HEAD, FRAME_TAIL
<1>3. d \in Seq(Byte) /\ Len(d) = Size + 2 /\ \A i \in 1 .. Len(b) : d[i] = b[i]
  BY <1>2, BlockIs
<1>l. Len(b) <= Size
  OBVIOUS
<1> HIDE DEF d, s
<1>4. n <= Len(d) /\ 12 <= Len(d) /\ n \in Nat /\ n >= 12
  <2> DEFINE p == Len(f.payload)
             l == Len(b)
             m == Len(d)
             z == Size
  <2>1. p \in Nat /\ n = 12 + p
    BY <1>1
  <2>2. z \in Nat /\ l \in Nat /\ n <= l /\ l <= z
    BY <1>2, <1>l
  <2>3. m = z + 2
    BY <1>3
  <2> HIDE DEF n, p, l, m, z
  <2>4. n <= m /\ 12 <= m /\ n \in Nat /\ n >= 12
    BY <2>1, <2>2, <2>3
  <2> QED
    BY <2>4, Zenon DEF m
<1>5. \A i \in 1 .. n : d[i] = s[i]
  BY <1>2, <1>3, <1>4
<1> HIDE DEF n
<1>6. Readable(d)
  <2>1. \A i \in 1 .. 12 : d[i] \in Digit
    <3>1. \A i \in 1 .. 12 : i \in 1 .. n
      BY <1>4
    <3>2. \A i \in 1 .. 12 : s[i] \in Digit
      BY <1>1
    <3> HIDE DEF s
    <3> QED
      BY <1>5, <3>1, <3>2
  <2> QED
    BY <1>3, <1>4, <2>1, ReadableIs
<1>7. Unserialize(d, fill).type = f.type
  <2>1. d[1] = Flag(f.type = ACK)
    BY <1>1, <1>4, <1>5
  <2>2. f.type \in {DATA, ACK}
    BY <1>1 DEF Format
  <2>3. Unserialize(d, fill).type = IF d[1] = 48 THEN DATA ELSE ACK
    BY <1>3, UnserializeTyped
  <2> QED
    BY <2>1, <2>2, <2>3 DEF Flag, DATA, ACK
<1>9. Unserialize(d, fill).end = f.end
  <2>1. s[7] = Flag(f.end)
    BY <1>1, SerializeIs DEF s
  <2>2. d[7] = Flag(f.end)
    BY <1>4, <1>5, <2>1
  <2>3. f.end \in BOOLEAN
    BY <1>1 DEF Format
  <2>4. Unserialize(d, fill).end <=> d[7] # 48
    BY Zenon DEF Unserialize
  <2>7. Unserialize(d, fill).end \in BOOLEAN
    BY <1>3, UnserializeTyped DEF Format
  <2>5. CASE f.end = TRUE
    <3>1. d[7] # 48
      BY <2>2, <2>5 DEF Flag
    <3> QED
      BY <2>4, <2>5, <2>7, <3>1, Zenon
  <2>6. CASE f.end = FALSE
    <3>1. d[7] = 48
      BY <2>2, <2>6 DEF Flag
    <3> QED
      BY <2>4, <2>6, <2>7, <3>1, Zenon
  <2> QED
    BY <2>3, <2>5, <2>6
<1>10. Unserialize(d, fill).seq = f.seq
  <2>1. 12 <= Len(d) /\ \A i \in 1 .. 12 : i \in 1 .. n
    BY <1>4
  <2>2. \A i \in 1 .. 12 : d[i] = s[i]
    BY <1>5, <2>1
  <2> QED
    BY <1>1, <1>3, <2>1, <2>2, HeaderNumber DEF s
<1>8. ASSUME \A i \in 1 .. Len(f.payload) : f.payload[i] # NUL
      PROVE  Unserialize(d, fill) = f
  <2>1. \A i \in 1 .. Len(Serialize(f)) : d[i] = Serialize(f)[i]
    BY <1>5 DEF s, n
  <2>2. Len(Serialize(f)) <= Len(d)
    BY <1>4 DEF s, n
  <2> QED
    BY <1>1, <1>3, <1>8, <2>1, <2>2, FormatReadBack
<1> QED
  BY <1>6, <1>7, <1>8, <1>9, <1>10 DEF d

-----------------------------------------------------------------------------
(* Types.                                                                  *)

Segment == [frame : Frame, bytes : Seq(Byte) \ {<<>>}]

LEMMA DigitsTyped ==
  ASSUME NEW n \in Nat, NEW w \in Nat
  PROVE  Digits(n, w) \in Seq(Byte)
<1>1. Digits(n, w) \in Seq(Digit)
  BY DigitsAre
<1>2. Digit \subseteq Byte
  BY DEF Digit, Byte
<1> QED
  BY <1>1, <1>2

LEMMA serializeTyped ==
  ASSUME NEW m \in Messages
  PROVE  serialize(m) \in Seq(Byte)
<1>1. m.cmd \in Seq(Byte) /\ m.content \in Seq(Byte)
  BY MessagesAssumption
<1>2. Len(m.cmd) \in Nat /\ Len(m.content) \in Nat /\ 17 \in Nat /\ 5 \in Nat
  BY <1>1
<1>3. Len(m.cmd) % (MAX_SEQ + 1) \in Nat
  <2>1. \A n \in Nat : n % (MAX_SEQ + 1) \in Nat
    BY SMT DEF MAX_SEQ
  <2> QED
    BY <1>2, <2>1
<1>4. ltoa(Len(m.content)) \in Seq(Byte) /\ itoa(Len(m.cmd)) \in Seq(Byte)
  BY <1>2, <1>3, DigitsTyped DEF ltoa, itoa
<1> QED
  BY <1>1, <1>4 DEF serialize

LEMMA PacketsTyped ==
  ASSUME NEW s \in Seq(Byte)
  PROVE  Packets(s) \in Seq(Packet)
<1> DEFINE n == (Len(s) + MAX_PACKET - 1) \div MAX_PACKET
           p(i) == [type    |-> DATA,
                    seq     |-> (i - 1) % (MAX_SEQ + 1),
                    end     |-> i = n,
                    payload |-> substr(s, (i - 1) * MAX_PACKET, MAX_PACKET)]
<1>1. n \in Nat /\ MAX_PACKET \in Nat
  BY DEF MAX_PACKET
<1>2. Packets(s) = [i \in 1 .. n |-> p(i)]
  BY DEF Packets
<1> HIDE DEF n
<1>3. ASSUME NEW i \in 1 .. n PROVE p(i) \in Packet
  <2>1. i - 1 \in Nat /\ (i - 1) * MAX_PACKET \in Nat
    BY DEF MAX_PACKET
  <2>2. (i - 1) % (MAX_SEQ + 1) \in 0 .. MAX_SEQ
    <3>1. \A k \in Nat : k % (MAX_SEQ + 1) \in 0 .. MAX_SEQ
      BY SMT DEF MAX_SEQ
    <3> QED
      BY <2>1, <3>1
  <2>3. /\ substr(s, (i - 1) * MAX_PACKET, MAX_PACKET) \in Seq(Byte)
        /\ Len(substr(s, (i - 1) * MAX_PACKET, MAX_PACKET)) <= MAX_PACKET
    BY <1>1, <2>1, substrTyped
  <2>4. (i = n) \in BOOLEAN
    OBVIOUS
  <2>5. p(i) \in Format
    BY <2>2, <2>3, <2>4 DEF Format
  <2> QED
    BY <2>3, <2>5 DEF Packet
<1> HIDE DEF p
<1> QED
  BY <1>1, <1>2, <1>3

LEMMA SeqModTyped ==
  \A k \in Nat : k % (MAX_SEQ + 1) \in 0 .. MAX_SEQ
BY SMT DEF MAX_SEQ

LEMMA FramesTyped ==
  ASSUME NEW p \in Packet, NEW k \in 0 .. MAX_SEQ
  PROVE  Frames(p, k) \in Seq(Frame) /\ Frames(p, k) # <<>>
<1> DEFINE d == Serialize(p)
           frame(seq, end, payload) == [type |-> DATA, seq |-> seq, end |-> end, payload |-> payload]
<1>1. p \in Format /\ Len(p.payload) \in Nat /\ Len(p.payload) <= 256
  BY DEF Packet, Format, MAX_PACKET
<1>2. Len(p.payload) <= MAX_SEQ
  <2>1. 256 <= MAX_SEQ
    BY SMT DEF MAX_SEQ
  <2> QED
    BY <1>1, <2>1, MaxSeq
<1>3. d \in Seq(Byte) /\ Len(d) \in Nat /\ Len(d) <= 268
  BY <1>1, <1>2, SerializeIs
<1>4. MAX_FRAME \in Nat /\ Len(d) <= 2 * MAX_FRAME
  BY <1>3 DEF MAX_FRAME
<1>5. k \in 0 .. MAX_SEQ /\ (k + 1) % (MAX_SEQ + 1) \in 0 .. MAX_SEQ
  <2>1. k \in Nat /\ k + 1 \in Nat
    BY MaxSeq
  <2> QED
    BY <2>1, SeqModTyped
<1> HIDE DEF d
<1>6. ASSUME NEW q \in 0 .. MAX_SEQ, NEW e \in BOOLEAN, NEW s \in Seq(Byte), Len(s) <= MAX_FRAME
      PROVE  frame(q, e, s) \in Frame
  <2>1. frame(q, e, s) \in Format
    BY <1>6 DEF Format
  <2> QED
    BY <1>6, <2>1 DEF Frame
<1> DEFINE x == frame(k, TRUE, d)
           y == frame(k, FALSE, SubSeq(d, 1, MAX_FRAME))
           z == frame((k + 1) % (MAX_SEQ + 1), TRUE, SubSeq(d, MAX_FRAME + 1, Len(d)))
<1>7. Frames(p, k) = IF Len(d) <= MAX_FRAME THEN <<x>> ELSE <<y, z>>
  BY DEF Frames, d
<1> HIDE DEF frame
<1>8. CASE Len(d) <= MAX_FRAME
  <2>1. x \in Frame
    BY <1>3, <1>5, <1>6, <1>8
  <2> HIDE DEF x, y, z
  <2> QED
    BY <1>7, <1>8, <2>1
<1>9. CASE ~ (Len(d) <= MAX_FRAME)
  <2>1. /\ SubSeq(d, 1, MAX_FRAME) \in Seq(Byte) /\ Len(SubSeq(d, 1, MAX_FRAME)) <= MAX_FRAME
        /\ SubSeq(d, MAX_FRAME + 1, Len(d)) \in Seq(Byte)
        /\ Len(SubSeq(d, MAX_FRAME + 1, Len(d))) <= MAX_FRAME
    BY <1>3, <1>4, <1>9
  <2>2. y \in Frame /\ z \in Frame
    BY <1>5, <1>6, <2>1
  <2> HIDE DEF x, y, z
  <2> QED
    BY <1>7, <1>9, <2>2
<1> QED
  BY <1>8, <1>9

LEMMA SentTyped ==
  ASSUME NEW f \in Frame
  PROVE  Sent(f) \in Segment /\ Sent(f).frame = f /\ Sent(f).bytes = Bytes(f)
<1>1. Bytes(f) \in Seq(Byte) /\ Bytes(f) # <<>>
  <2>1. Bytes(f) \in Seq(Byte) /\ Len(Bytes(f)) = 14 + Len(f.payload) /\ Len(f.payload) \in Nat
    BY BytesAre
  <2>2. Len(Bytes(f)) # 0
    BY <2>1
  <2> QED
    BY <2>1, <2>2
<1>2. Sent(f) = [frame |-> f, bytes |-> Bytes(f)]
  BY DEF Sent, Bytes
<1> QED
  BY <1>1, <1>2 DEF Segment

\* The bytes of the first k segments.
All(k) == FlattenSeq([i \in 1 .. k |-> wire[i].bytes])

\* What one recv of the bytes b, of k segments, leaves and what comes of it.
Left(k, b) ==
  (IF SubSeq(b, Size + 1, Len(b)) = <<>> THEN <<>>
   ELSE <<[wire[k] EXCEPT !.bytes = SubSeq(b, Size + 1, Len(b))]>>) \o SubSeq(wire, k + 1, Len(wire))

Outcome(k, result) == [frames |-> [i \in 1 .. k |-> wire[i].frame],
                       whole  |-> \A i \in 1 .. k : wire[i] = Sent(wire[i].frame),
                       result |-> result,
                       torn   |-> last.torn \/ (result = "accepted" /\ wire[1] # Sent(wire[1].frame))]

LEMMA OutcomeTorn ==
  ASSUME NEW k, NEW result
  PROVE  Outcome(k, result).torn
           <=> last.torn \/ (result = "accepted" /\ wire[1] # Sent(wire[1].frame))
BY Zenon DEF Outcome

Refused(k, before, b) ==
  /\ ~FrameValid(substr(b, 0, Size), before)
  /\ last' = Outcome(k, "refused") /\ recvFrames' = recvFrames /\ arrived' = arrived

Accepted(k, before, b) ==
  /\ FrameValid(substr(b, 0, Size), before) /\ Readable(Block(substr(b, 0, Size), Size, junk))
  /\ recvFrames' = Append(recvFrames, Unserialize(Block(substr(b, 0, Size), Size, junk), junk))
  /\ last' = Outcome(k, "accepted") /\ arrived' = arrived

Throws(k, before, b) ==
  /\ FrameValid(substr(b, 0, Size), before) /\ ~Readable(Block(substr(b, 0, Size), Size, junk))
  /\ last' = Outcome(k, "thrown") /\ recvFrames' = recvFrames /\ arrived' = Thrown

LEMMA ReceiveIs ==
  ASSUME NEW k, NEW before, Receive(k, before)
  PROVE  /\ wire' = Left(k, All(k))
         /\ Refused(k, before, All(k)) \/ Accepted(k, before, All(k)) \/ Throws(k, before, All(k))
BY DEF Receive, All, Left, Outcome, Refused, Accepted, Throws

LEMMA SizeIs ==
  Size = 164 /\ Size \in Nat
BY DEF Size, MAX_FRAME, FRAME_HEAD, FRAME_TAIL

LEMMA JunkTyped ==
  ASSUME TypeOK
  PROVE  junk \in Byte
BY JunkAssumption DEF TypeOK

LEMMA AllTyped ==
  ASSUME TypeOK, NEW k \in 1 .. Len(wire)
  PROVE  /\ All(k) \in Seq(Byte)
         /\ Block(substr(All(k), 0, Size), Size, junk) \in Seq(Byte)
         /\ Unserialize(Block(substr(All(k), 0, Size), Size, junk), junk) \in Format
         /\ Left(k, All(k)) \in Seq(Segment)
<1> DEFINE q == [i \in 1 .. k |-> wire[i].bytes]
           b == All(k)
           recvd == substr(b, 0, Size)
           rest == SubSeq(b, Size + 1, Len(b))
<1>1. wire \in Seq(Segment) /\ k \in Nat /\ k <= Len(wire) /\ \A i \in 1 .. k : wire[i] \in Segment
  <2>1. wire \in Seq(Segment)
    BY DEF TypeOK, Segment
  <2>2. Len(wire) \in Nat /\ \A i \in 1 .. Len(wire) : wire[i] \in Segment
    BY <2>1
  <2> QED
    BY <2>1, <2>2
<1>2. q \in Seq(Seq(Byte))
  <2>1. \A i \in 1 .. k : wire[i].bytes \in Seq(Byte)
    BY <1>1 DEF Segment
  <2> QED
    BY <1>1, <2>1
<1>3. b \in Seq(Byte)
  BY <1>2, FlattenTyped DEF All
<1> HIDE DEF b
<1>4. recvd \in Seq(Byte) /\ Len(recvd) <= Size
  <2>1. 0 \in Nat
    OBVIOUS
  <2> QED
    BY <1>3, <2>1, SizeIs, substrTyped
<1> HIDE DEF recvd
<1>5. Block(recvd, Size, junk) \in Seq(Byte)
  BY <1>4, SizeIs, JunkTyped, BlockIs
<1>6. Unserialize(Block(recvd, Size, junk), junk) \in Format
  BY <1>5, JunkTyped, UnserializeTyped
<1>7. Left(k, b) \in Seq(Segment)
  <2>1. rest \in Seq(Byte)
    BY <1>3, SizeIs
  <2>2. SubSeq(wire, k + 1, Len(wire)) \in Seq(Segment)
    BY <1>1
  <2> HIDE DEF rest
  <2>3. rest # <<>> => [wire[k] EXCEPT !.bytes = rest] \in Segment
    <3>1. wire[k] \in Segment
      BY <1>1
    <3> QED
      BY <2>1, <3>1 DEF Segment
  <2> DEFINE x == [wire[k] EXCEPT !.bytes = rest]
             y == SubSeq(wire, k + 1, Len(wire))
  <2>4. Left(k, b) = (IF rest = <<>> THEN <<>> ELSE <<x>>) \o y
    BY DEF Left, rest
  <2>5. rest # <<>> => x \in Segment
    BY <2>3
  <2>6. y \in Seq(Segment)
    BY <2>2
  <2> HIDE DEF x, y
  <2> QED
    BY <2>4, <2>5, <2>6
<1> QED
  BY <1>3, <1>5, <1>6, <1>7 DEF b, recvd

-----------------------------------------------------------------------------
(* The invariant, and types.                                               *)

LEMMA TypeOKIs ==
  TypeOK <=>
    /\ message \in Messages /\ junk \in Junk
    /\ given \in BOOLEAN /\ owed \in BOOLEAN /\ inFlight \in BOOLEAN /\ complete \in BOOLEAN
    /\ packets \in Seq(Packet) /\ ready \in Seq(Frame) /\ nextSend \in 0 .. MAX_SEQ
    /\ wire \in Seq(Segment)
    /\ recvFrames \in Seq(Format) /\ reconstructFrames \in Seq(Format) /\ buildBuffer \in Seq(Format)
    /\ arrived.as \in {"none", "thrown", "message"}
BY DEF TypeOK, Segment

\* Nothing has been received yet.
Fresh == recvFrames = <<>> /\ last = NoRecv

IsAck(segment) ==
  /\ segment = Sent(segment.frame)
  /\ segment.frame.type = ACK /\ segment.frame.payload = <<>>

\* An owed ack goes out before anything else.
SentFirst == owed => wire = <<>> /\ ~inFlight /\ Fresh

\* A frame in flight is the front of ready.
OneInFlight == inFlight => ready # <<>>

\* The ack, the ack and a frame behind it, a frame, or what did not fit the buffer.
OnTheWire ==
  \/ wire = <<>>
  \/ Len(wire) = 1 /\ IsAck(wire[1]) /\ ~inFlight /\ Fresh
  \/ Len(wire) = 2 /\ IsAck(wire[1]) /\ wire[2] = Sent(wire[2].frame) /\ inFlight /\ Fresh
  \/ /\ Len(wire) = 1 /\ inFlight
     /\ wire[1] = Sent(wire[1].frame) \/ Len(wire[1].bytes) <= 14

\* A data frame is received at most once before it is taken, and last.
DataLast ==
  \A i \in DOMAIN recvFrames :
    recvFrames[i].type = DATA => i = Len(recvFrames) /\ inFlight /\ wire = <<>>

Inv == TypeOK /\ SentFirst /\ OneInFlight /\ OnTheWire /\ DataLast

LEMMA TypeInit ==
  Init => TypeOK
<1> SUFFICES ASSUME Init PROVE TypeOK
  OBVIOUS
<1>1. arrived.as = "none"
  BY DEF Init, NoMessage
<1>2. nextSend \in 0 .. MAX_SEQ
  BY FrameSeqsAssumption DEF Init
<1>3. given \in BOOLEAN /\ owed \in BOOLEAN /\ inFlight \in BOOLEAN /\ complete \in BOOLEAN
  BY DEF Init
<1>4. /\ packets \in Seq(Packet) /\ ready \in Seq(Frame) /\ wire \in Seq(Segment)
      /\ recvFrames \in Seq(Format) /\ reconstructFrames \in Seq(Format) /\ buildBuffer \in Seq(Format)
  BY DEF Init
<1>5. message \in Messages /\ junk \in Junk
  BY DEF Init
<1> QED
  BY <1>1, <1>2, <1>3, <1>4, <1>5, TypeOKIs

LEMMA TypeStep ==
  ASSUME TypeOK, OneInFlight, DataLast, [Next]_vars
  PROVE  TypeOK'
<1>t. /\ message \in Messages /\ junk \in Junk
      /\ given \in BOOLEAN /\ owed \in BOOLEAN /\ inFlight \in BOOLEAN /\ complete \in BOOLEAN
      /\ packets \in Seq(Packet) /\ ready \in Seq(Frame) /\ nextSend \in 0 .. MAX_SEQ
      /\ wire \in Seq(Segment)
      /\ recvFrames \in Seq(Format) /\ reconstructFrames \in Seq(Format) /\ buildBuffer \in Seq(Format)
      /\ arrived.as \in {"none", "thrown", "message"}
  BY TypeOKIs
<1> SUFFICES /\ message' \in Messages /\ junk' \in Junk
             /\ given' \in BOOLEAN /\ owed' \in BOOLEAN /\ inFlight' \in BOOLEAN /\ complete' \in BOOLEAN
             /\ packets' \in Seq(Packet) /\ ready' \in Seq(Frame) /\ nextSend' \in 0 .. MAX_SEQ
             /\ wire' \in Seq(Segment)
             /\ recvFrames' \in Seq(Format) /\ reconstructFrames' \in Seq(Format)
             /\ buildBuffer' \in Seq(Format)
             /\ arrived'.as \in {"none", "thrown", "message"}
  BY DEF TypeOK, Segment
<1>a. Thrown.as = "thrown"
  BY DEF Thrown, NoMessage
<1>1. CASE FromApplicationLayer
  <2>1. packets' \in Seq(Packet)
    BY <1>1, <1>t, serializeTyped, PacketsTyped DEF FromApplicationLayer
  <2> QED
    BY <1>1, <1>t, <2>1 DEF FromApplicationLayer
<1>2. CASE MakeFrames
  <2> DEFINE fs == Frames(Head(packets), nextSend)
  <2>1. Head(packets) \in Packet /\ Tail(packets) \in Seq(Packet)
    BY <1>2, <1>t DEF MakeFrames
  <2>2. fs \in Seq(Frame)
    BY <1>t, <2>1, FramesTyped
  <2>3. ready' = fs /\ nextSend' = (nextSend + Len(fs)) % (MAX_SEQ + 1) /\ packets' = Tail(packets)
    BY <1>2 DEF MakeFrames
  <2> HIDE DEF fs
  <2>4. nextSend + Len(fs) \in Nat
    BY <1>t, <2>2, MaxSeq
  <2>5. nextSend' \in 0 .. MAX_SEQ
    BY <2>3, <2>4, SeqModTyped
  <2> QED
    BY <1>2, <1>t, <2>1, <2>2, <2>3, <2>5 DEF MakeFrames
<1>3. CASE SendAck
  <2> DEFINE f == [type |-> ACK, seq |-> nextSend, end |-> TRUE, payload |-> <<>>]
  <2>1. f \in Frame
    BY <1>t DEF Frame, Format, MAX_FRAME
  <2>2. wire' = Append(wire, Sent(f))
    BY <1>3 DEF SendAck
  <2> HIDE DEF f
  <2>3. wire' \in Seq(Segment)
    BY <1>t, <2>1, <2>2, SentTyped
  <2> QED
    BY <1>3, <1>t, <2>3 DEF SendAck
<1>4. CASE SendAFrame
  <2>1. ready[1] \in Frame
    BY <1>4, <1>t DEF SendAFrame
  <2>2. Sent(ready[1]) \in Segment
    BY <2>1, SentTyped
  <2>3. wire' \in Seq(Segment)
    BY <1>4, <1>t, <2>2 DEF SendAFrame
  <2> QED
    BY <1>4, <1>t, <2>3 DEF SendAFrame
<1>5. CASE ReceiveFrames
  <2>1. PICK k \in 1 .. Len(wire), before \in {NUL, junk} : Receive(k, before)
    BY <1>5 DEF ReceiveFrames
  <2>2. /\ wire' = Left(k, All(k))
        /\ Refused(k, before, All(k)) \/ Accepted(k, before, All(k)) \/ Throws(k, before, All(k))
    BY <2>1, ReceiveIs
  <2>3. /\ Unserialize(Block(substr(All(k), 0, Size), Size, junk), junk) \in Format
        /\ Left(k, All(k)) \in Seq(Segment)
    BY AllTyped
  <2>4. recvFrames' \in Seq(Format) /\ arrived'.as \in {"none", "thrown", "message"}
    <3>1. CASE Refused(k, before, All(k))
      BY <1>t, <3>1 DEF Refused
    <3>2. CASE Accepted(k, before, All(k))
      <4> DEFINE f == Unserialize(Block(substr(All(k), 0, Size), Size, junk), junk)
      <4>1. recvFrames' = Append(recvFrames, f) /\ arrived' = arrived
        BY <3>2 DEF Accepted
      <4>2. f \in Format
        BY <2>3
      <4> HIDE DEF f
      <4> QED
        BY <1>t, <4>1, <4>2
    <3>3. CASE Throws(k, before, All(k))
      BY <1>t, <1>a, <3>3 DEF Throws
    <3> QED
      BY <2>2, <3>1, <3>2, <3>3
  <2> QED
    BY <1>5, <1>t, <2>2, <2>3, <2>4 DEF ReceiveFrames
<1>6. CASE TakeFrame
  <2> DEFINE f == Head(recvFrames)
  <2>1. recvFrames # <<>> /\ recvFrames' = Tail(recvFrames)
    BY <1>6 DEF TakeFrame
  <2>2. recvFrames' \in Seq(Format) /\ f \in Format /\ f = recvFrames[1] /\ 1 \in DOMAIN recvFrames
    BY <1>t, <2>1
  <2>3. \/ /\ f.type = ACK /\ reconstructFrames' = reconstructFrames
           /\ UNCHANGED <<ready, inFlight, complete>>
        \/ /\ f.type = DATA /\ reconstructFrames' = Append(reconstructFrames, f)
           /\ \/ ready' = Tail(ready) /\ inFlight' = FALSE /\ complete' = f.end
              \/ UNCHANGED <<ready, inFlight, complete>>
    BY <1>6 DEF TakeFrame
  <2> HIDE DEF f
  <2>4. f.type = DATA => ready # <<>>
    BY <2>2 DEF DataLast, OneInFlight
  <2>e. f.end \in BOOLEAN
    BY <2>2 DEF Format
  <2>5. /\ reconstructFrames' \in Seq(Format) /\ ready' \in Seq(Frame) /\ inFlight' \in BOOLEAN
        /\ complete' \in BOOLEAN
    <3>1. CASE reconstructFrames' = reconstructFrames /\ UNCHANGED <<ready, inFlight, complete>>
      BY <1>t, <3>1
    <3>2. CASE f.type = DATA /\ reconstructFrames' = Append(reconstructFrames, f)
      <4>1. reconstructFrames' \in Seq(Format)
        BY <1>t, <2>2, <3>2
      <4>2. CASE ready' = Tail(ready) /\ inFlight' = FALSE /\ complete' = f.end
        <5>1. ready' \in Seq(Frame)
          BY <1>t, <2>4, <3>2, <4>2
        <5> QED
          BY <2>e, <4>1, <4>2, <5>1
      <4>3. CASE UNCHANGED <<ready, inFlight, complete>>
        BY <1>t, <4>1, <4>3
      <4> QED
        BY <2>3, <3>2, <4>2, <4>3 DEF DATA, ACK
    <3> QED
      BY <2>3, <3>1, <3>2
  <2> QED
    BY <1>6, <1>t, <2>2, <2>5 DEF TakeFrame
<1>7. CASE ToNetworkLayer
  <2> DEFINE q == [i \in DOMAIN reconstructFrames |-> reconstructFrames[i].payload]
             pload == FlattenSeq(q)
             memory == Block(pload, Len(pload), junk)
  <2>1. q \in Seq(Seq(Byte))
    <3>1. /\ Len(reconstructFrames) \in Nat
          /\ \A i \in 1 .. Len(reconstructFrames) : reconstructFrames[i] \in Format
          /\ DOMAIN reconstructFrames = 1 .. Len(reconstructFrames)
      BY <1>t
    <3>2. \A i \in 1 .. Len(reconstructFrames) : reconstructFrames[i].payload \in Seq(Byte)
      BY <3>1 DEF Format
    <3> QED
      BY <3>1, <3>2
  <2>2. pload \in Seq(Byte)
    BY <2>1, FlattenTyped
  <2> HIDE DEF q, pload
  <2>3. memory \in Seq(Byte)
    <3>1. Len(pload) \in Nat /\ Len(pload) <= Len(pload)
      BY <2>2
    <3> QED
      BY <2>2, <3>1, JunkTyped, BlockIs
  <2>4. \/ buildBuffer' = Append(buildBuffer, Unserialize(memory, junk)) /\ arrived' = arrived
        \/ arrived' = Thrown /\ buildBuffer' = buildBuffer
    BY <1>7 DEF ToNetworkLayer, pload, q
  <2> HIDE DEF memory
  <2>5. Unserialize(memory, junk) \in Format
    BY <2>3, JunkTyped, UnserializeTyped
  <2>6. buildBuffer' \in Seq(Format) /\ arrived'.as \in {"none", "thrown", "message"}
    <3> DEFINE f == Unserialize(memory, junk)
    <3>1. f \in Format
      BY <2>5
    <3>2. \/ buildBuffer' = Append(buildBuffer, f) /\ arrived' = arrived
          \/ arrived' = Thrown /\ buildBuffer' = buildBuffer
      BY <2>4
    <3> HIDE DEF f
    <3>3. CASE buildBuffer' = Append(buildBuffer, f) /\ arrived' = arrived
      BY <1>t, <3>1, <3>3
    <3>4. CASE arrived' = Thrown /\ buildBuffer' = buildBuffer
      BY <1>t, <1>a, <3>4
    <3> QED
      BY <3>2, <3>3, <3>4
  <2> QED
    <3>1. /\ UNCHANGED <<message, junk, given, packets, ready, nextSend, owed, inFlight, wire,
                         recvFrames>>
          /\ reconstructFrames' = <<>> /\ complete' \in BOOLEAN
      BY <1>7 DEF ToNetworkLayer
    <3> QED
      BY <1>t, <2>6, <3>1
<1>8. CASE FromDataLinkLayer
  <2>1. arrived' = Thrown \/ arrived'.as = "message"
    BY <1>8 DEF FromDataLinkLayer
  <2> QED
    BY <1>8, <1>t, <1>a, <2>1 DEF FromDataLinkLayer
<1>9. CASE UNCHANGED vars
  BY <1>9, <1>t DEF vars
<1> QED
  BY <1>1, <1>2, <1>3, <1>4, <1>5, <1>6, <1>7, <1>8, <1>9 DEF Next

-----------------------------------------------------------------------------
(* A recv of one frame, and of an ack with a frame behind it.              *)

LEMMA AllOne ==
  ASSUME TypeOK, Len(wire) >= 1
  PROVE  /\ All(1) = wire[1].bytes /\ wire[1].bytes \in Seq(Byte) /\ wire[1].frame \in Frame
         /\ wire \in Seq(Segment)
<1> DEFINE q == [i \in 1 .. 1 |-> wire[i].bytes]
<1>1. wire \in Seq(Segment) /\ wire[1] \in Segment
  BY TypeOKIs
<1>2. wire[1].bytes \in Seq(Byte) /\ wire[1].frame \in Frame
  BY <1>1 DEF Segment
<1>3. q \in Seq(Seq(Byte)) /\ Len(q) = 1 /\ q[1] = wire[1].bytes
  BY <1>2
<1>4. All(1) = FlattenSeq(q)
  BY DEF All
<1> HIDE DEF q
<1>5. FlattenSeq(q) = q[1]
  BY <1>3, FlattenOne
<1> QED
  BY <1>1, <1>2, <1>3, <1>4, <1>5

LEMMA AllTwo ==
  ASSUME TypeOK, Len(wire) = 2
  PROVE  /\ All(2) = wire[1].bytes \o wire[2].bytes
         /\ wire[2].bytes \in Seq(Byte) /\ wire[2].frame \in Frame
<1> DEFINE q == [i \in 1 .. 2 |-> wire[i].bytes]
<1>1. wire[1] \in Segment /\ wire[2] \in Segment
  <2>1. wire \in Seq(Segment)
    BY TypeOKIs
  <2> QED
    BY <2>1
<1>2. wire[1].bytes \in Seq(Byte) /\ wire[2].bytes \in Seq(Byte) /\ wire[2].frame \in Frame
  BY <1>1 DEF Segment
<1>3. q \in Seq(Seq(Byte)) /\ Len(q) = 2 /\ q[1] = wire[1].bytes /\ q[2] = wire[2].bytes
  BY <1>2
<1>4. All(2) = FlattenSeq(q)
  BY DEF All
<1> HIDE DEF q
<1>5. FlattenSeq(q) = q[1] \o q[2]
  BY <1>3, FlattenTwo
<1> QED
  BY <1>2, <1>3, <1>4, <1>5

\* x is what is read from the bytes of f, from `end' on only if f has no NUL.
Like(x, f) == x.seq = f.seq /\ x.end = f.end /\ (NUL \notin ToSet(f.payload) => x = f)

\* A recv of one segment that fits the buffer.
LEMMA ReceiveOne ==
  ASSUME TypeOK, Len(wire) >= 1, Len(wire[1].bytes) <= Size, NEW before, Receive(1, before)
  PROVE  LET b == wire[1].bytes
             memory == Block(b, Size, junk)
         IN  /\ wire' = SubSeq(wire, 2, Len(wire))
             /\ last'.frames = <<wire[1].frame>>
             /\ last'.whole <=> wire[1] = Sent(wire[1].frame)
             /\ last'.torn <=> last.torn \/ (last'.result = "accepted" /\ wire[1] # Sent(wire[1].frame))
             /\ \/ /\ ~FrameValid(b, before) /\ last'.result = "refused"
                   /\ recvFrames' = recvFrames
                \/ /\ FrameValid(b, before) /\ Readable(memory) /\ last'.result = "accepted"
                   /\ recvFrames' = Append(recvFrames, Unserialize(memory, junk))
                \/ /\ FrameValid(b, before) /\ ~Readable(memory) /\ last'.result = "thrown"
                   /\ recvFrames' = recvFrames
<1> DEFINE b == wire[1].bytes
<1>1. All(1) = b /\ b \in Seq(Byte) /\ wire \in Seq(Segment)
  BY AllOne
<1>2. /\ wire' = Left(1, b)
      /\ Refused(1, before, b) \/ Accepted(1, before, b) \/ Throws(1, before, b)
  BY <1>1, ReceiveIs
<1>3. substr(b, 0, Size) = b /\ SubSeq(b, Size + 1, Len(b)) = <<>>
  BY <1>1, Fitting
<1>4. Left(1, b) = SubSeq(wire, 2, Len(wire))
  <2>1. Left(1, b) = <<>> \o SubSeq(wire, 1 + 1, Len(wire))
    BY <1>3 DEF Left
  <2>2. SubSeq(wire, 2, Len(wire)) \in Seq(Segment)
    BY <1>1
  <2> QED
    BY <2>1, <2>2
<1>5. \A r : /\ Outcome(1, r).frames = <<wire[1].frame>>
             /\ Outcome(1, r).whole <=> wire[1] = Sent(wire[1].frame)
             /\ Outcome(1, r).result = r
             /\ Outcome(1, r).torn <=> last.torn \/ (r = "accepted" /\ wire[1] # Sent(wire[1].frame))
  <2>1. \A r : /\ Outcome(1, r).frames = <<wire[1].frame>>
               /\ Outcome(1, r).whole <=> wire[1] = Sent(wire[1].frame)
               /\ Outcome(1, r).result = r
    BY DEF Outcome
  <2> QED
    BY <2>1, OutcomeTorn
<1> HIDE DEF b
<1>6. CASE Refused(1, before, b)
  BY <1>2, <1>3, <1>4, <1>5, <1>6 DEF Refused, b
<1>7. CASE Accepted(1, before, b)
  BY <1>2, <1>3, <1>4, <1>5, <1>7 DEF Accepted, b
<1>8. CASE Throws(1, before, b)
  BY <1>2, <1>3, <1>4, <1>5, <1>8 DEF Throws, b
<1> QED
  BY <1>2, <1>6, <1>7, <1>8

\* A recv of one whole frame.
LEMMA ReceiveWhole ==
  ASSUME TypeOK, Len(wire) >= 1, wire[1] = Sent(wire[1].frame),
         NEW before, Receive(1, before)
  PROVE  LET f == wire[1].frame
             s == Serialize(f)
         IN  /\ wire' = SubSeq(wire, 2, Len(wire))
             /\ last'.frames = <<f>> /\ last'.whole /\ (last'.torn <=> last.torn)
             /\ (last'.result = "refused") <=> (Fold(s, 0) > 127 \/ Fold(s, 1) > 127)
             /\ \/ last'.result = "refused" /\ recvFrames' = recvFrames
                \/ /\ last'.result = "accepted"
                   /\ \E x \in Format : /\ recvFrames' = Append(recvFrames, x) /\ x.type = f.type
                                        /\ Like(x, f)
<1> DEFINE f == wire[1].frame
           b == wire[1].bytes
           s == Serialize(f)
           memory == Block(b, Size, junk)
           x == Unserialize(memory, junk)
<1>1. f \in Frame /\ b = Bytes(f) /\ b \in Seq(Byte)
  BY AllOne, SentTyped
<1>2. /\ s \in Seq(Byte) /\ Len(s) <= Len(b) /\ Len(b) <= Size
      /\ \A i \in 1 .. Len(s) : b[i] = s[i]
  <2>1. /\ s \in Seq(Byte) /\ Len(s) = 12 + Len(f.payload) /\ Len(Bytes(f)) = 14 + Len(f.payload)
        /\ Len(f.payload) \in Nat /\ Len(f.payload) <= 150
        /\ \A i \in 1 .. Len(s) : Bytes(f)[i] = s[i]
    BY <1>1, BytesAre
  <2> HIDE DEF s, f, b
  <2>2. Len(s) <= Len(b) /\ Len(b) <= Size
    BY <1>1, <2>1, SizeIs
  <2> QED
    BY <1>1, <2>1, <2>2
<1>3. /\ wire' = SubSeq(wire, 2, Len(wire))
      /\ last'.frames = <<f>> /\ last'.whole /\ (last'.torn <=> last.torn)
      /\ \/ /\ ~FrameValid(b, before) /\ last'.result = "refused"
            /\ recvFrames' = recvFrames
         \/ /\ FrameValid(b, before) /\ Readable(memory) /\ last'.result = "accepted"
            /\ recvFrames' = Append(recvFrames, x)
         \/ /\ FrameValid(b, before) /\ ~Readable(memory) /\ last'.result = "thrown"
            /\ recvFrames' = recvFrames
  BY <1>2, ReceiveOne
<1>4. FrameValid(b, before) <=> Fold(s, 0) <= 127 /\ Fold(s, 1) <= 127
  BY <1>1, <1>2, FrameValidAlone DEF Bytes
<1>5. /\ Readable(memory) /\ x.type = f.type /\ x.end = f.end /\ x.seq = f.seq
      /\ (\A i \in 1 .. Len(f.payload) : f.payload[i] # NUL) => x = f
  BY <1>1, <1>2, JunkTyped, BeginsWithFrame
<1>6. x \in Format
  <2>1. memory \in Seq(Byte)
    BY <1>1, <1>2, SizeIs, JunkTyped, BlockIs
  <2> QED
    BY <2>1, JunkTyped, UnserializeTyped
<1>7. NUL \notin ToSet(f.payload) => x = f
  <2>1. f.payload \in Seq(Byte)
    BY <1>1 DEF Frame, Format
  <2>2. NUL \notin ToSet(f.payload) => \A i \in 1 .. Len(f.payload) : f.payload[i] # NUL
    BY <2>1 DEF ToSet
  <2> QED
    BY <1>5, <2>2
<1>l. Like(x, f)
  BY <1>5, <1>7 DEF Like
<1>8. Fold(s, 0) \in Int /\ Fold(s, 1) \in Int
  <2>1. Fold(s, 0) \in Byte /\ Fold(s, 1) \in Byte
    BY <1>2, FoldTyped
  <2>2. \A y \in Byte : y \in Int
    BY DEF Byte
  <2> QED
    BY <2>1, <2>2
<1> HIDE DEF f, b, s, memory, x
<1>9. (last'.result = "refused") <=> (Fold(s, 0) > 127 \/ Fold(s, 1) > 127)
  BY <1>3, <1>4, <1>5, <1>8
<1>10. \/ last'.result = "refused" /\ recvFrames' = recvFrames
       \/ /\ last'.result = "accepted"
          /\ \E y \in Format : /\ recvFrames' = Append(recvFrames, y) /\ y.type = f.type
                               /\ Like(y, f)
  BY <1>3, <1>5, <1>6, <1>l
<1> QED
  BY <1>3, <1>9, <1>10 DEF f, s

\* What text consists of, and its serialized form and check bytes.
Plain == 0 .. 127

LEMMA PlainText ==
  ASSUME NEW s \in Seq(Byte), IsText(s)
  PROVE  \A i \in 1 .. Len(s) : s[i] \in Plain
<1>1. \A i \in DOMAIN s : s[i] \in 1 .. 127
  BY Zenon DEF IsText
<1>2. DOMAIN s = 1 .. Len(s)
  OBVIOUS
<1>3. \A x \in 1 .. 127 : x \in Plain
  BY SMT DEF Plain
<1> QED
  BY <1>1, <1>2, <1>3, Zenon

LEMMA PlainFold ==
  ASSUME NEW s \in Seq(Plain), NEW k \in {0, 1}
  PROVE  Fold(s, k) \in Int /\ Fold(s, k) <= 127
<1>1. Fold(s, k) \in Plain
  BY FoldTyped, Zenon DEF Plain
<1>2. \A x \in Plain : x \in Int /\ x <= 127
  BY SMT DEF Plain
<1> QED
  BY <1>1, <1>2, Zenon

\* The bytes of a frame of text are text.
LEMMA TextSerialized ==
  ASSUME NEW f \in Frame, IsText(f.payload)
  PROVE  Serialize(f) \in Seq(Plain)
<1> DEFINE s == Serialize(f)
           n == Len(f.payload)
<1>1. /\ s \in Seq(Byte) /\ Len(s) = 12 + n /\ n \in Nat
      /\ (\A i \in 1 .. 12 : s[i] \in Digit)
      /\ \A i \in 1 .. n : s[12 + i] = f.payload[i]
  BY BytesAre, SerializeIs
<1>2. \A i \in 1 .. n : f.payload[i] \in Plain
  <2>1. f.payload \in Seq(Byte)
    BY DEF Frame, Format
  <2> QED
    BY <2>1, PlainText
<1>3. \A x \in Digit : x \in Plain
  BY DEF Digit, Plain
<1> HIDE DEF s, n
<1>4. ASSUME NEW i \in 1 .. Len(s) PROVE s[i] \in Plain
  <2>1. CASE i <= 12
    <3>1. i \in 1 .. 12
      BY <1>1, <2>1
    <3> QED
      BY <1>1, <1>3, <3>1
  <2>2. CASE i > 12
    <3>1. i - 12 \in 1 .. n /\ 12 + (i - 12) = i
      BY <1>1, <2>2
    <3> QED
      BY <1>1, <1>2, <3>1
  <2> QED
    BY <1>1, <2>1, <2>2
<1>5. s = [i \in 1 .. Len(s) |-> s[i]]
  BY <1>1
<1>6. s \in Seq(Plain)
  BY <1>1, <1>4, <1>5
<1> QED
  BY <1>6 DEF s

\* A recv of the ack and the frame behind it.
LEMMA ReceiveTwo ==
  ASSUME TypeOK, Len(wire) = 2, IsAck(wire[1]), wire[2] = Sent(wire[2].frame),
         NEW before, Receive(2, before)
  PROVE  LET a == wire[1].frame
             f == wire[2].frame
             fits == Len(f.payload) + 2 * (FRAME_HEAD + FRAME_TAIL) <= Size
         IN  /\ last'.whole /\ last'.frames = <<a, f>> /\ (last'.torn <=> last.torn)
             /\ wire' = <<>> \/ (Len(wire') = 1 /\ Len(wire'[1].bytes) <= 14 /\ wire'[1].frame = f)
             /\ fits => wire' = <<>>
             /\ \/ last'.result = "refused" /\ recvFrames' = recvFrames
                \/ last'.result = "accepted" /\ recvFrames' = Append(recvFrames, a)
             /\ fits /\ IsText(f.payload) => last'.result = "accepted"
<1> DEFINE a == wire[1].frame
           f == wire[2].frame
           fits == Len(f.payload) + 2 * (FRAME_HEAD + FRAME_TAIL) <= Size
           b == Bytes(a) \o Bytes(f)
           recvd == substr(b, 0, Size)
           rest == SubSeq(b, Size + 1, Len(b))
           memory == Block(recvd, Size, junk)
           x == Unserialize(memory, junk)
<1>1. /\ a \in Frame /\ f \in Frame /\ a.type = ACK /\ a.payload = <<>>
      /\ wire[1].bytes = Bytes(a) /\ wire[2].bytes = Bytes(f) /\ wire \in Seq(Segment)
      /\ wire[1] = Sent(a) /\ wire[2] = Sent(f)
  <2>1. Len(wire) >= 1
    OBVIOUS
  <2>2. a \in Frame /\ f \in Frame /\ wire \in Seq(Segment)
    BY <2>1, AllOne, AllTwo
  <2> QED
    BY <2>2, SentTyped DEF IsAck
<1>2. All(2) = b
  BY <1>1, AllTwo
<1>3. /\ Bytes(a) \in Seq(Byte) /\ Len(Bytes(a)) = 14
      /\ Serialize(a) \in Seq(Byte) /\ Len(Serialize(a)) = 12
      /\ \A i \in 1 .. Len(Serialize(a)) : Bytes(a)[i] = Serialize(a)[i]
  <2>1. Len(a.payload) = 0
    BY <1>1
  <2>2. a \in Frame
    BY <1>1
  <2> HIDE DEF a
  <2>3. /\ Bytes(a) \in Seq(Byte) /\ Len(Bytes(a)) = 14 + Len(a.payload)
        /\ Serialize(a) \in Seq(Byte) /\ Len(Serialize(a)) = 12 + Len(a.payload)
        /\ \A i \in 1 .. Len(Serialize(a)) : Bytes(a)[i] = Serialize(a)[i]
    BY <2>2, BytesAre
  <2> QED
    BY <2>1, <2>3
<1>4. /\ Bytes(f) \in Seq(Byte) /\ Len(Bytes(f)) = 14 + Len(f.payload)
      /\ Serialize(f) \in Seq(Byte) /\ Len(f.payload) \in Nat /\ Len(f.payload) <= 150
  <2>1. f \in Frame
    BY <1>1
  <2> HIDE DEF f
  <2>2. /\ Bytes(f) \in Seq(Byte) /\ Len(Bytes(f)) = 14 + Len(f.payload)
        /\ Serialize(f) \in Seq(Byte) /\ Len(f.payload) \in Nat /\ Len(f.payload) <= 150
    BY <2>1, BytesAre
  <2> QED
    BY <2>2
<1> HIDE DEF a, f
<1>5. b \in Seq(Byte) /\ Len(b) = 28 + Len(f.payload) /\ \A i \in 1 .. 12 : b[i] = Bytes(a)[i]
  <2>1. b \in Seq(Byte) /\ IsConcat(b, Bytes(a), Bytes(f), Len(Bytes(a)), Len(Bytes(f)))
    BY <1>3, <1>4, ConcatIs
  <2> HIDE DEF b
  <2> QED
    BY <1>3, <1>4, <2>1 DEF IsConcat
<1>6. /\ wire' = Left(2, b)
      /\ Refused(2, before, b) \/ Accepted(2, before, b) \/ Throws(2, before, b)
  BY <1>2, ReceiveIs
<1>7. \A r : /\ Outcome(2, r).frames = <<a, f>> /\ Outcome(2, r).result = r
             /\ Outcome(2, r).whole /\ (Outcome(2, r).torn <=> last.torn)
  <2>1. \A i \in 1 .. 2 : wire[i] = Sent(wire[i].frame)
    BY <1>1 DEF a, f
  <2>2. \A r : /\ Outcome(2, r).frames = <<a, f>> /\ Outcome(2, r).result = r
               /\ Outcome(2, r).whole
    BY <2>1 DEF Outcome, a, f
  <2>3. \A r : Outcome(2, r).torn <=> last.torn
    BY <2>1, OutcomeTorn
  <2> QED
    BY <2>2, <2>3
<1>8. fits <=> Len(b) <= Size
  BY <1>4, <1>5, SizeIs DEF FRAME_HEAD, FRAME_TAIL
<1> HIDE DEF fits
<1>9. rest \in Seq(Byte) /\ Len(rest) <= 14 /\ (fits => rest = <<>> /\ recvd = b)
  <2>1. fits => rest = <<>> /\ recvd = b
    BY <1>5, <1>8, Fitting
  <2> HIDE DEF b
  <2>2. rest \in Seq(Byte) /\ Len(rest) <= 14
    BY <1>4, <1>5, SizeIs
  <2> QED
    BY <2>1, <2>2
<1>10. /\ recvd \in Seq(Byte) /\ Len(recvd) <= Size /\ Len(recvd) >= 12
       /\ \A i \in 1 .. 12 : recvd[i] = b[i]
  <2> HIDE DEF b
  <2>1. recvd = SubSeq(b, 1, IF Size < Len(b) THEN Size ELSE Len(b))
    <3>1. 0 + Size = Size /\ 0 + 1 = 1
      BY SizeIs
    <3> QED
      BY <3>1 DEF substr
  <2>2. b \in Seq(Byte) /\ Len(b) \in Nat /\ Len(b) >= 12
    BY <1>4, <1>5
  <2>3. Size \in Nat /\ Size >= 12
    BY SizeIs
  <2> HIDE DEF recvd
  <2>4. CASE Size < Len(b)
    <3>1. recvd = SubSeq(b, 1, Size)
      BY <2>1, <2>4
    <3> QED
      BY <2>2, <2>3, <2>4, <3>1
  <2>5. CASE ~ (Size < Len(b))
    <3>1. recvd = SubSeq(b, 1, Len(b))
      BY <2>1, <2>5
    <3> QED
      BY <2>2, <2>3, <2>5, <3>1
  <2> QED
    BY <2>4, <2>5
<1>11. Readable(memory) /\ x = a
  <2>1. \A i \in 1 .. Len(Serialize(a)) : recvd[i] = Serialize(a)[i]
    <3> HIDE DEF b, recvd
    <3> QED
      BY <1>3, <1>5, <1>10
  <2>2. \A i \in 1 .. Len(a.payload) : a.payload[i] # NUL
    BY <1>1
  <2>3. Len(Serialize(a)) <= Len(recvd)
    BY <1>3, <1>10
  <2> HIDE DEF b, recvd
  <2> QED
    BY <1>1, <1>10, <2>1, <2>2, <2>3, JunkTyped, BeginsWithFrame
<1>12. \/ Refused(2, before, b) /\ last'.result = "refused" /\ recvFrames' = recvFrames
       \/ Accepted(2, before, b) /\ last'.result = "accepted" /\ recvFrames' = Append(recvFrames, a)
  BY <1>6, <1>7, <1>11 DEF Refused, Accepted, Throws
<1>13. last'.whole /\ last'.frames = <<a, f>> /\ (last'.torn <=> last.torn)
  BY <1>7, <1>12 DEF Refused, Accepted
<1>14. wire' = (IF rest = <<>> THEN <<>> ELSE <<[wire[2] EXCEPT !.bytes = rest]>>) \o <<>>
  <2>1. SubSeq(wire, 2 + 1, Len(wire)) = <<>>
    BY <1>1
  <2> QED
    BY <1>6, <2>1 DEF Left
<1>15. /\ wire' = <<>> \/ (Len(wire') = 1 /\ Len(wire'[1].bytes) <= 14 /\ wire'[1].frame = f)
       /\ fits => wire' = <<>>
  <2>1. wire[2] \in Segment
    BY <1>1
  <2> DEFINE y == [wire[2] EXCEPT !.bytes = rest]
  <2>2. y.bytes = rest /\ y.frame = f
    BY <2>1 DEF Segment, f
  <2>3. wire' = (IF rest = <<>> THEN <<>> ELSE <<y>>) \o <<>>
    BY <1>14
  <2>4. <<>> \o <<>> = <<>> /\ <<y>> \o <<>> = <<y>>
    OBVIOUS
  <2>5. rest = <<>> => wire' = <<>>
    BY <2>3, <2>4
  <2>6. rest # <<>> => wire' = <<y>>
    BY <2>3, <2>4
  <2> HIDE DEF rest, y
  <2> QED
    BY <1>9, <2>2, <2>5, <2>6
<1>16. ASSUME fits, IsText(f.payload) PROVE last'.result = "accepted"
  <2>1. FrameValid(b, before) <=> Fold(Serialize(f), 0) <= 127 /\ Fold(Serialize(f), 1) <= 127
    <3>1. Len(Serialize(a)) % 2 = 0
      BY <1>3
    <3> QED
      BY <1>3, <1>4, <3>1, MergedCheck DEF Bytes
  <2>2. Serialize(f) \in Seq(Plain)
    BY <1>1, <1>16, TextSerialized
  <2>3. Fold(Serialize(f), 0) <= 127 /\ Fold(Serialize(f), 1) <= 127
    BY <2>2, PlainFold
  <2>4. FrameValid(recvd, before)
    BY <1>9, <1>16, <2>1, <2>3, Zenon
  <2>5. ~ Refused(2, before, b)
    BY <2>4 DEF Refused
  <2> QED
    BY <1>12, <2>5
<1> QED
  BY <1>12, <1>13, <1>15, <1>16 DEF a, f, fits

-----------------------------------------------------------------------------
(* What came of a recv.                                                    *)

\* What came of the latest recv of one frame, of an ack and a frame, of a remnant.
AloneIs(result, f, recvd, recvd2) ==
  /\ (result = "refused") <=> (Fold(Serialize(f), 0) > 127 \/ Fold(Serialize(f), 1) > 127)
  /\ \/ result = "refused" /\ recvd2 = recvd
     \/ /\ result = "accepted"
        /\ \E x \in Format : recvd2 = Append(recvd, x) /\ Like(x, f)

Fits(f) == Len(f.payload) + 2 * (FRAME_HEAD + FRAME_TAIL) <= Size

MergedIs(result, a, f, recvd) ==
  /\ result \in {"refused", "accepted"}
  /\ recvd = <<>> \/ recvd = <<a>>
  /\ a.type = ACK
  /\ Fits(f) /\ IsText(f.payload) => result = "accepted"

LEMMA Received ==
  ASSUME Inv, ReceiveFrames
  PROVE  /\ ~owed
         /\ \/ wire' = <<>>
            \/ /\ Len(wire') = 1 /\ inFlight
               /\ wire'[1] = Sent(wire'[1].frame) \/ Len(wire'[1].bytes) <= 14
         /\ \/ recvFrames' = recvFrames
            \/ \E x \in Format : /\ recvFrames' = Append(recvFrames, x)
                                 /\ x.type = ACK \/ (inFlight /\ wire' = <<>>)
         /\ \/ ~last'.whole
            \/ \E f : last'.frames = <<f>> /\ AloneIs(last'.result, f, recvFrames, recvFrames')
            \/ \E a, f : /\ last'.frames = <<a, f>> /\ MergedIs(last'.result, a, f, recvFrames')
                         /\ inFlight /\ (Fits(f) => wire' = <<>>)
         /\ wire' # <<>> => wire'[1].frame = wire[Len(wire)].frame
         /\ \/ last'.torn
            \/ ~last.torn /\ recvFrames' = recvFrames
            \/ \E x \in Format : /\ ~last.torn /\ recvFrames' = Append(recvFrames, x)
                                 /\ x.type = ACK \/ (Len(wire) = 1 /\ Like(x, wire[1].frame))
<1>1. PICK k \in 1 .. Len(wire), before \in {NUL, junk} : Receive(k, before)
  BY DEF ReceiveFrames
<1>2. TypeOK /\ SentFirst /\ OneInFlight /\ OnTheWire /\ DataLast
  BY DEF Inv
<1>3. wire \in Seq(Segment) /\ recvFrames \in Seq(Format) /\ Len(wire) \in Nat /\ Len(wire) >= 1
  <2>1. wire \in Seq(Segment) /\ recvFrames \in Seq(Format)
    BY <1>2, TypeOKIs
  <2> QED
    BY <1>1, <2>1
<1>k. k \in Nat /\ k >= 1 /\ k <= Len(wire)
  BY <1>3
<1>4. wire # <<>> /\ ~owed
  BY <1>2, <1>3 DEF SentFirst
<1>5. CASE wire[1] = Sent(wire[1].frame) /\ k = 1 /\ (IsAck(wire[1]) \/ Len(wire) = 1)
  <2> DEFINE f == wire[1].frame
  <2>1. Receive(1, before)
    BY <1>1, <1>5
  <2>2. /\ wire' = SubSeq(wire, 2, Len(wire))
        /\ last'.frames = <<f>> /\ last'.whole /\ (last'.torn <=> last.torn)
        /\ (last'.result = "refused") <=> (Fold(Serialize(f), 0) > 127 \/ Fold(Serialize(f), 1) > 127)
        /\ \/ last'.result = "refused" /\ recvFrames' = recvFrames
           \/ /\ last'.result = "accepted"
              /\ \E x \in Format : /\ recvFrames' = Append(recvFrames, x) /\ x.type = f.type
                                   /\ Like(x, f)
    BY <1>2, <1>3, <1>5, <2>1, ReceiveWhole
  <2>3. \/ wire' = <<>> /\ (IsAck(wire[1]) \/ inFlight)
        \/ /\ Len(wire') = 1 /\ wire'[1] = Sent(wire'[1].frame) /\ inFlight /\ IsAck(wire[1])
           /\ wire'[1].frame = wire[Len(wire)].frame
    <3>1. CASE Len(wire) = 1
      <4>1. wire' = <<>>
        BY <1>3, <2>2, <3>1
      <4>2. IsAck(wire[1]) \/ inFlight
        BY <1>2, <1>4, <3>1 DEF OnTheWire
      <4> QED
        BY <4>1, <4>2
    <3>2. CASE Len(wire) # 1
      <4>1. Len(wire) = 2 /\ IsAck(wire[1]) /\ wire[2] = Sent(wire[2].frame) /\ inFlight
        BY <1>2, <1>4, <3>2 DEF OnTheWire
      <4>2. wire' = SubSeq(wire, 2, 2)
        BY <2>2, <4>1
      <4>3. Len(wire') = 1 /\ wire'[1] = wire[2]
        BY <1>3, <4>1, <4>2
      <4> QED
        BY <4>1, <4>3
    <3> QED
      BY <3>1, <3>2
  <2>4. IsAck(wire[1]) => f.type = ACK
    BY DEF IsAck
  <2> HIDE DEF f
  <2>5. AloneIs(last'.result, f, recvFrames, recvFrames')
    BY <2>2 DEF AloneIs
  <2>6. \/ recvFrames' = recvFrames
        \/ \E x \in Format : /\ recvFrames' = Append(recvFrames, x)
                             /\ x.type = ACK \/ (inFlight /\ wire' = <<>>)
    BY <2>2, <2>3, <2>4
  <2>7. \/ wire' = <<>>
        \/ /\ Len(wire') = 1 /\ inFlight
           /\ wire'[1] = Sent(wire'[1].frame) \/ Len(wire'[1].bytes) <= 14
    BY <2>3
  <2>8. wire' # <<>> => wire'[1].frame = wire[Len(wire)].frame
    BY <2>3
  <2>9. \/ last'.torn
        \/ ~last.torn /\ recvFrames' = recvFrames
        \/ \E x \in Format : /\ ~last.torn /\ recvFrames' = Append(recvFrames, x)
                             /\ x.type = ACK \/ (Len(wire) = 1 /\ Like(x, wire[1].frame))
    BY <1>5, <2>2, <2>4 DEF f
  <2> QED
    BY <1>4, <2>2, <2>5, <2>6, <2>7, <2>8, <2>9
<1>6. CASE k = 2
  <2>1. Len(wire) = 2 /\ IsAck(wire[1]) /\ wire[2] = Sent(wire[2].frame) /\ inFlight /\ Fresh
    <3>1. Len(wire) # 1
      BY <1>k, <1>6
    <3> QED
      BY <1>2, <1>4, <3>1 DEF OnTheWire
  <2> DEFINE a == wire[1].frame
             f == wire[2].frame
  <2>2. Receive(2, before)
    BY <1>1, <1>6
  <2>3. /\ last'.whole /\ last'.frames = <<a, f>> /\ (last'.torn <=> last.torn)
        /\ wire' = <<>> \/ (Len(wire') = 1 /\ Len(wire'[1].bytes) <= 14 /\ wire'[1].frame = f)
        /\ Fits(f) => wire' = <<>>
        /\ \/ last'.result = "refused" /\ recvFrames' = recvFrames
           \/ last'.result = "accepted" /\ recvFrames' = Append(recvFrames, a)
        /\ Fits(f) /\ IsText(f.payload) => last'.result = "accepted"
    BY <1>2, <2>1, <2>2, ReceiveTwo DEF Fits
  <2>4. a.type = ACK /\ recvFrames = <<>>
    BY <2>1 DEF IsAck, Fresh
  <2>5. a \in Format
    BY <1>2, <1>3, AllOne DEF Frame
  <2> HIDE DEF a, f
  <2>6. Append(<<>>, a) = <<a>>
    OBVIOUS
  <2>7. MergedIs(last'.result, a, f, recvFrames')
    BY <2>3, <2>4, <2>6 DEF MergedIs
  <2>8. \/ recvFrames' = recvFrames
        \/ \E x \in Format : /\ recvFrames' = Append(recvFrames, x)
                             /\ x.type = ACK \/ (inFlight /\ wire' = <<>>)
    BY <2>3, <2>4, <2>5
  <2>9. \/ wire' = <<>>
        \/ /\ Len(wire') = 1 /\ inFlight
           /\ wire'[1] = Sent(wire'[1].frame) \/ Len(wire'[1].bytes) <= 14
    BY <2>1, <2>3
  <2>10. wire' # <<>> => wire'[1].frame = wire[Len(wire)].frame
    BY <2>1, <2>3 DEF f
  <2>11. \/ last'.torn
         \/ ~last.torn /\ recvFrames' = recvFrames
         \/ \E x \in Format : /\ ~last.torn /\ recvFrames' = Append(recvFrames, x)
                              /\ x.type = ACK \/ (Len(wire) = 1 /\ Like(x, wire[1].frame))
    BY <2>3, <2>4, <2>5
  <2> QED
    BY <1>4, <2>1, <2>3, <2>7, <2>8, <2>9, <2>10, <2>11
<1>7. CASE wire[1] # Sent(wire[1].frame) /\ k = 1
  <2>1. Len(wire) = 1 /\ inFlight /\ Len(wire[1].bytes) <= 14
    BY <1>2, <1>4, <1>7 DEF OnTheWire, IsAck
  <2>2. Len(wire[1].bytes) <= Size
    <3>1. wire[1].bytes \in Seq(Byte)
      BY <1>2, <1>3, AllOne
    <3> QED
      BY <2>1, <3>1, SizeIs
  <2> DEFINE b == wire[1].bytes
             memory == Block(b, Size, junk)
             x == Unserialize(memory, junk)
  <2>3. Receive(1, before)
    BY <1>1, <1>7
  <2>4. /\ wire' = SubSeq(wire, 2, Len(wire))
        /\ last'.whole <=> wire[1] = Sent(wire[1].frame)
        /\ last'.torn <=> last.torn \/ (last'.result = "accepted" /\ wire[1] # Sent(wire[1].frame))
        /\ \/ recvFrames' = recvFrames
           \/ last'.result = "accepted" /\ recvFrames' = Append(recvFrames, x)
    BY <1>2, <1>3, <2>2, <2>3, ReceiveOne
  <2>5. wire' = <<>> /\ ~last'.whole
    BY <1>3, <1>7, <2>1, <2>4
  <2>6. x \in Format
    <3>1. b \in Seq(Byte)
      BY <1>2, <1>3, AllOne
    <3>2. memory \in Seq(Byte)
      BY <1>2, <2>2, <3>1, SizeIs, JunkTyped, BlockIs
    <3> QED
      BY <1>2, <3>2, JunkTyped, UnserializeTyped
  <2> HIDE DEF x
  <2>7. \/ recvFrames' = recvFrames
        \/ \E y \in Format : /\ recvFrames' = Append(recvFrames, y)
                             /\ y.type = ACK \/ (inFlight /\ wire' = <<>>)
    BY <2>1, <2>4, <2>5, <2>6
  <2>8. last'.torn \/ (~last.torn /\ recvFrames' = recvFrames)
    BY <1>7, <2>4
  <2> QED
    BY <1>4, <2>5, <2>7, <2>8
<1>8. \/ wire[1] = Sent(wire[1].frame) /\ k = 1 /\ (IsAck(wire[1]) \/ Len(wire) = 1)
      \/ k = 2
      \/ wire[1] # Sent(wire[1].frame) /\ k = 1
  <2>1. Len(wire) = 1 \/ (Len(wire) = 2 /\ IsAck(wire[1]))
    BY <1>2, <1>4 DEF OnTheWire
  <2> DEFINE n == Len(wire)
  <2>2. k \in Nat /\ k >= 1 /\ k <= n /\ (n = 1 \/ n = 2)
    BY <1>k, <2>1
  <2> HIDE DEF n
  <2>3. (n = 1 /\ k = 1) \/ (n = 2 /\ (k = 1 \/ k = 2))
    BY <2>2
  <2> QED
    BY <2>1, <2>3 DEF n
<1> QED
  BY <1>5, <1>6, <1>7, <1>8

-----------------------------------------------------------------------------
(* The steps, and the wire.                                                *)

\* An ack and a frame behind it that fill one recv leave nothing on the wire, and
\* at most the ack with the receiver.
Merged ==
  last.whole /\ Len(last.frames) = 2 =>
    /\ MergedIs(last.result, last.frames[1], last.frames[2], recvFrames)
    /\ Fits(last.frames[2]) => inFlight /\ wire = <<>>

\* What is known of the latest recv.
Outcomes == RefusedForCheckByte /\ FrameReadAsSent /\ OnlyRemnantsThrow /\ Merged

IInv == Inv /\ Outcomes

LEMMA InvInit ==
  Init => IInv
<1> SUFFICES ASSUME Init PROVE IInv
  OBVIOUS
<1>1. TypeOK
  BY TypeInit
<1>2. SentFirst /\ OneInFlight /\ OnTheWire
  BY DEF Init, SentFirst, OneInFlight, OnTheWire, Fresh
<1>3. DataLast
  <2>1. DOMAIN recvFrames = {}
    BY DEF Init
  <2> QED
    BY <2>1 DEF DataLast
<1>4. ~last.whole /\ last.result = "none"
  BY DEF Init, NoRecv
<1>5. Outcomes
  BY <1>4 DEF Outcomes, RefusedForCheckByte, FrameReadAsSent, OnlyRemnantsThrow, Merged
<1> QED
  BY <1>1, <1>2, <1>3, <1>5 DEF IInv, Inv

\* A step that is no business of the wire, and fills the sender's list if it is empty.
LEMMA QuietStep ==
  ASSUME Inv, UNCHANGED <<owed, inFlight, wire, recvFrames, last>>, ready' = ready \/ ready' # <<>>
  PROVE  SentFirst' /\ OneInFlight' /\ OnTheWire' /\ DataLast'
BY DEF Inv, SentFirst, OneInFlight, OnTheWire, DataLast, Fresh, IsAck

LEMMA SendAckStep ==
  ASSUME Inv, SendAck
  PROVE  SentFirst' /\ OneInFlight' /\ OnTheWire' /\ DataLast'
<1> DEFINE f == [type |-> ACK, seq |-> nextSend, end |-> TRUE, payload |-> <<>>]
<1>1. f \in Frame /\ f.type = ACK /\ f.payload = <<>>
  <2>1. nextSend \in 0 .. MAX_SEQ
    BY TypeOKIs DEF Inv
  <2> QED
    BY <2>1 DEF Frame, Format, MAX_FRAME
<1>2. /\ owed /\ ~owed' /\ wire' = Append(wire, Sent(f))
      /\ UNCHANGED <<ready, inFlight, recvFrames, last>>
  BY DEF SendAck
<1> HIDE DEF f
<1>3. wire = <<>> /\ ~inFlight /\ Fresh
  BY <1>2 DEF Inv, SentFirst
<1>4. wire' = <<Sent(f)>>
  BY <1>2, <1>3
<1>5. Len(wire') = 1 /\ wire'[1] = Sent(f)
  BY <1>4
<1>6. IsAck(wire[1])'
  BY <1>1, <1>5, SentTyped DEF IsAck
<1>7. Fresh' /\ ~inFlight'
  BY <1>2, <1>3 DEF Fresh
<1>8. DataLast'
  <2>1. recvFrames' = <<>>
    BY <1>7 DEF Fresh
  <2>2. DOMAIN recvFrames' = {}
    BY <2>1
  <2> QED
    BY <2>2 DEF DataLast
<1> QED
  BY <1>2, <1>5, <1>6, <1>7, <1>8 DEF SentFirst, OneInFlight, OnTheWire

LEMMA SendAFrameStep ==
  ASSUME Inv, SendAFrame
  PROVE  SentFirst' /\ OneInFlight' /\ OnTheWire' /\ DataLast'
<1>1. /\ ~owed /\ ~inFlight /\ ready # <<>> /\ inFlight' /\ wire' = Append(wire, Sent(ready[1]))
      /\ UNCHANGED <<ready, owed, recvFrames, last>>
  BY DEF SendAFrame
<1>2. ready \in Seq(Frame) /\ wire \in Seq(Segment)
  BY TypeOKIs DEF Inv
<1> DEFINE f == ready[1]
           y == Sent(f)
<1>3. f \in Frame
  BY <1>1, <1>2
<1>4. y \in Segment /\ y.frame = f
  BY <1>3, SentTyped
<1>5. y = Sent(y.frame)
  BY <1>4
<1>6. wire' = Append(wire, y)
  BY <1>1
<1> HIDE DEF f, y
<1>7. wire = <<>> \/ (Len(wire) = 1 /\ IsAck(wire[1]) /\ Fresh)
  BY <1>1 DEF Inv, OnTheWire
<1>8. OnTheWire'
  <2>1. CASE wire = <<>>
    <3>1. wire' = <<y>>
      BY <1>6, <2>1
    <3>2. Len(wire') = 1 /\ wire'[1] = y
      BY <3>1
    <3> QED
      BY <1>1, <1>5, <3>2 DEF OnTheWire
  <2>2. CASE Len(wire) = 1 /\ IsAck(wire[1]) /\ Fresh
    <3>1. Len(wire) = 1
      BY <2>2
    <3>2. Len(wire') = 2 /\ wire'[1] = wire[1] /\ wire'[2] = y
      <4>1. /\ Len(wire') = Len(wire) + 1 /\ wire'[Len(wire) + 1] = y
            /\ \A i \in 1 .. Len(wire) : wire'[i] = wire[i]
        BY <1>2, <1>6
      <4> QED
        BY <3>1, <4>1
    <3>3. IsAck(wire[1])' /\ Fresh'
      BY <1>1, <2>2, <3>2 DEF IsAck, Fresh
    <3> QED
      BY <1>1, <1>5, <3>2, <3>3 DEF OnTheWire
  <2> QED
    BY <1>7, <2>1, <2>2
<1>9. DataLast'
  BY <1>1 DEF Inv, DataLast
<1> QED
  BY <1>1, <1>8, <1>9 DEF SentFirst, OneInFlight

LEMMA ReceiveFramesStep ==
  ASSUME Inv, ReceiveFrames
  PROVE  SentFirst' /\ OneInFlight' /\ OnTheWire' /\ DataLast'
<1>1. UNCHANGED <<ready, owed, inFlight>>
  BY DEF ReceiveFrames
<1>2. /\ ~owed
      /\ \/ wire' = <<>>
         \/ /\ Len(wire') = 1 /\ inFlight
            /\ wire'[1] = Sent(wire'[1].frame) \/ Len(wire'[1].bytes) <= 14
      /\ \/ recvFrames' = recvFrames
         \/ \E x \in Format : /\ recvFrames' = Append(recvFrames, x)
                              /\ x.type = ACK \/ (inFlight /\ wire' = <<>>)
  BY Received
<1>3. recvFrames \in Seq(Format) /\ wire # <<>>
  <2>1. recvFrames \in Seq(Format) /\ wire \in Seq(Segment)
    BY TypeOKIs DEF Inv
  <2>2. \E k \in 1 .. Len(wire) : TRUE
    BY DEF ReceiveFrames
  <2> QED
    BY <2>1, <2>2
<1>4. \A i \in DOMAIN recvFrames : recvFrames[i].type # DATA
  BY <1>3 DEF Inv, DataLast
<1>5. DataLast'
  <2>1. CASE recvFrames' = recvFrames
    BY <1>4, <2>1 DEF DataLast
  <2>2. CASE recvFrames' # recvFrames
    <3>1. PICK x \in Format : /\ recvFrames' = Append(recvFrames, x)
                              /\ x.type = ACK \/ (inFlight /\ wire' = <<>>)
      BY <1>2, <2>2
    <3>2. /\ Len(recvFrames') = Len(recvFrames) + 1
          /\ recvFrames'[Len(recvFrames) + 1] = x
          /\ \A i \in 1 .. Len(recvFrames) : recvFrames'[i] = recvFrames[i]
          /\ DOMAIN recvFrames' = 1 .. Len(recvFrames) + 1
          /\ DOMAIN recvFrames = 1 .. Len(recvFrames)
          /\ Len(recvFrames) \in Nat
      BY <1>3, <3>1
    <3>3. ASSUME NEW i \in DOMAIN recvFrames', recvFrames'[i].type = DATA
          PROVE  i = Len(recvFrames') /\ inFlight' /\ wire' = <<>>
      <4>1. i \notin DOMAIN recvFrames
        BY <1>4, <3>2, <3>3
      <4>2. i = Len(recvFrames) + 1
        BY <3>2, <4>1
      <4>3. x.type = DATA
        BY <3>2, <3>3, <4>2
      <4> QED
        BY <1>1, <3>1, <3>2, <4>2, <4>3 DEF DATA, ACK
    <3> QED
      BY <3>3 DEF DataLast
  <2> QED
    BY <2>1, <2>2
<1>6. OnTheWire'
  BY <1>1, <1>2 DEF OnTheWire
<1>7. SentFirst'
  BY <1>1, <1>2 DEF SentFirst
<1>8. OneInFlight'
  BY <1>1 DEF Inv, OneInFlight
<1> QED
  BY <1>5, <1>6, <1>7, <1>8

\* What TakeFrame takes.
LEMMA Taken ==
  ASSUME Inv, TakeFrame
  PROVE  /\ recvFrames # <<>> /\ ~owed /\ recvFrames \in Seq(Format)
         /\ recvFrames' = Tail(recvFrames)
         /\ UNCHANGED <<owed, wire, last>>
         /\ \/ /\ recvFrames[1].type = ACK /\ UNCHANGED <<ready, inFlight>>
            \/ /\ recvFrames[1].type = DATA /\ recvFrames' = <<>>
               /\ inFlight' = FALSE \/ UNCHANGED <<ready, inFlight>>
               /\ inFlight /\ wire = <<>>
<1>1. /\ recvFrames # <<>> /\ recvFrames' = Tail(recvFrames)
      /\ UNCHANGED <<owed, wire, last>>
      /\ \/ Head(recvFrames).type = ACK /\ UNCHANGED <<ready, inFlight>>
         \/ /\ Head(recvFrames).type = DATA
            /\ inFlight' = FALSE \/ UNCHANGED <<ready, inFlight>>
  BY DEF TakeFrame
<1>2. ~owed
  BY <1>1 DEF Inv, SentFirst, Fresh
<1>3. recvFrames \in Seq(Format)
  BY TypeOKIs DEF Inv
<1>4. Head(recvFrames) = recvFrames[1] /\ recvFrames[1] \in Format /\ 1 \in DOMAIN recvFrames
  BY <1>1, <1>3
<1>5. recvFrames[1].type = DATA => recvFrames' = <<>> /\ inFlight /\ wire = <<>>
  <2> SUFFICES ASSUME recvFrames[1].type = DATA
               PROVE  recvFrames' = <<>> /\ inFlight /\ wire = <<>>
    OBVIOUS
  <2>2. 1 = Len(recvFrames) /\ inFlight /\ wire = <<>>
    BY <1>4 DEF Inv, DataLast
  <2>3. Tail(recvFrames) \in Seq(Format) /\ Len(Tail(recvFrames)) = Len(recvFrames) - 1
    BY <1>1, <1>3
  <2>4. Tail(recvFrames) = <<>>
    BY <2>2, <2>3
  <2> QED
    BY <1>1, <2>2, <2>4
<1> QED
  BY <1>1, <1>2, <1>3, <1>4, <1>5

LEMMA TakeFrameStep ==
  ASSUME Inv, TakeFrame
  PROVE  SentFirst' /\ OneInFlight' /\ OnTheWire' /\ DataLast'
<1>1. /\ recvFrames # <<>> /\ ~owed /\ recvFrames \in Seq(Format)
      /\ recvFrames' = Tail(recvFrames)
      /\ UNCHANGED <<owed, wire, last>>
      /\ \/ /\ recvFrames[1].type = ACK /\ UNCHANGED <<ready, inFlight>>
         \/ /\ recvFrames[1].type = DATA /\ recvFrames' = <<>>
            /\ inFlight' = FALSE \/ UNCHANGED <<ready, inFlight>>
            /\ inFlight /\ wire = <<>>
  BY Taken
<1>2. wire = <<>> \/ (/\ Len(wire) = 1 /\ inFlight
                      /\ wire[1] = Sent(wire[1].frame) \/ Len(wire[1].bytes) <= 14)
  BY <1>1 DEF Inv, OnTheWire, Fresh
<1>3. SentFirst'
  BY <1>1 DEF SentFirst
<1>4. CASE inFlight' = FALSE /\ recvFrames' = <<>> /\ wire = <<>>
  <2>1. DOMAIN recvFrames' = {}
    BY <1>4
  <2> QED
    BY <1>1, <1>3, <1>4, <2>1 DEF OneInFlight, OnTheWire, DataLast
<1>5. CASE UNCHANGED <<ready, inFlight>>
  <2>1. OneInFlight'
    BY <1>5 DEF Inv, OneInFlight
  <2>2. OnTheWire'
    BY <1>1, <1>2, <1>5 DEF OnTheWire
  <2>3. DataLast'
    <3>1. /\ Len(recvFrames) \in Nat /\ Len(recvFrames') = Len(recvFrames) - 1
          /\ DOMAIN recvFrames = 1 .. Len(recvFrames)
          /\ DOMAIN recvFrames' = 1 .. Len(recvFrames) - 1
          /\ \A i \in 1 .. Len(recvFrames) - 1 : recvFrames'[i] = recvFrames[i + 1]
      BY <1>1
    <3>2. ASSUME NEW i \in DOMAIN recvFrames', recvFrames'[i].type = DATA
          PROVE  i = Len(recvFrames') /\ inFlight' /\ wire' = <<>>
      <4>1. i + 1 \in DOMAIN recvFrames /\ recvFrames[i + 1].type = DATA
        BY <3>1, <3>2
      <4>2. i + 1 = Len(recvFrames) /\ inFlight /\ wire = <<>>
        BY <4>1 DEF Inv, DataLast
      <4>3. i = Len(recvFrames')
        BY <3>1, <4>2
      <4> QED
        BY <1>1, <1>5, <4>2, <4>3
    <3> QED
      BY <3>2 DEF DataLast
  <2> QED
    BY <1>3, <2>1, <2>2, <2>3
<1> QED
  BY <1>1, <1>4, <1>5

-----------------------------------------------------------------------------
(* The steps, and the latest recv; the theorems.                           *)

LEMMA FreshRecv ==
  Fresh => ~last.whole
BY DEF Fresh, NoRecv

\* A step that receives nothing and takes nothing.
LEMMA OutcomesKept ==
  ASSUME Outcomes, UNCHANGED <<recvFrames, last>>,
         UNCHANGED <<inFlight, wire>> \/ ~inFlight \/ ~last.whole
  PROVE  Outcomes'
<1>1. RefusedForCheckByte'
  BY DEF Outcomes, RefusedForCheckByte
<1>2. FrameReadAsSent'
  BY DEF Outcomes, FrameReadAsSent
<1>3. OnlyRemnantsThrow'
  BY DEF Outcomes, OnlyRemnantsThrow
<1>4. Merged'
  BY DEF Outcomes, Merged
<1> QED
  BY <1>1, <1>2, <1>3, <1>4 DEF Outcomes

LEMMA OutcomesReceive ==
  ASSUME Inv, ReceiveFrames
  PROVE  Outcomes'
<1>1. /\ \/ ~last'.whole
         \/ \E f : last'.frames = <<f>> /\ AloneIs(last'.result, f, recvFrames, recvFrames')
         \/ \E a, f : /\ last'.frames = <<a, f>> /\ MergedIs(last'.result, a, f, recvFrames')
                      /\ inFlight /\ (Fits(f) => wire' = <<>>)
  BY Received
<1>2. inFlight' = inFlight
  BY DEF ReceiveFrames
<1>3. recvFrames \in Seq(Format)
  BY TypeOKIs DEF Inv
<1>4. CASE ~last'.whole
  BY <1>4 DEF Outcomes, RefusedForCheckByte, FrameReadAsSent, OnlyRemnantsThrow, Merged
<1>5. CASE \E f : last'.frames = <<f>> /\ AloneIs(last'.result, f, recvFrames, recvFrames')
  <2>1. PICK f : last'.frames = <<f>> /\ AloneIs(last'.result, f, recvFrames, recvFrames')
    BY <1>5
  <2>2. Len(last'.frames) = 1 /\ last'.frames[1] = f
    BY <2>1
  <2>3. (last'.result = "refused") <=> (Fold(Serialize(f), 0) > 127 \/ Fold(Serialize(f), 1) > 127)
    BY <2>1 DEF AloneIs
  <2>4. \/ last'.result = "refused" /\ recvFrames' = recvFrames
        \/ /\ last'.result = "accepted"
           /\ \E x \in Format : recvFrames' = Append(recvFrames, x) /\ Like(x, f)
    BY <2>1 DEF AloneIs
  <2>5. RefusedForCheckByte'
    BY <2>2, <2>3 DEF RefusedForCheckByte
  <2>6. FrameReadAsSent'
    <3> SUFFICES ASSUME last'.result = "accepted", NUL \notin ToSet(f.payload)
                 PROVE  recvFrames'[Len(recvFrames')] = f
      BY <2>2 DEF FrameReadAsSent
    <3>1. recvFrames' = Append(recvFrames, f) /\ f \in Format
      BY <2>4 DEF Like
    <3> QED
      BY <1>3, <3>1
  <2>7. OnlyRemnantsThrow'
    BY <2>4 DEF OnlyRemnantsThrow
  <2>8. Merged'
    BY <2>2 DEF Merged
  <2> QED
    BY <2>5, <2>6, <2>7, <2>8 DEF Outcomes
<1>6. CASE \E a, f : /\ last'.frames = <<a, f>> /\ MergedIs(last'.result, a, f, recvFrames')
                     /\ inFlight /\ (Fits(f) => wire' = <<>>)
  <2>1. PICK a, f : /\ last'.frames = <<a, f>> /\ MergedIs(last'.result, a, f, recvFrames')
                    /\ inFlight /\ (Fits(f) => wire' = <<>>)
    BY <1>6
  <2>2. Len(last'.frames) = 2 /\ last'.frames[1] = a /\ last'.frames[2] = f
    BY <2>1
  <2>3. last'.result \in {"refused", "accepted"}
    BY <2>1 DEF MergedIs
  <2>4. RefusedForCheckByte' /\ FrameReadAsSent'
    BY <2>2 DEF RefusedForCheckByte, FrameReadAsSent
  <2>5. OnlyRemnantsThrow'
    BY <2>3 DEF OnlyRemnantsThrow
  <2>6. Merged'
    BY <1>2, <2>1, <2>2 DEF Merged
  <2> QED
    BY <2>4, <2>5, <2>6 DEF Outcomes
<1> QED
  BY <1>1, <1>4, <1>5, <1>6

LEMMA OutcomesTake ==
  ASSUME Inv, Outcomes, TakeFrame
  PROVE  Outcomes'
<1>1. /\ recvFrames # <<>> /\ recvFrames \in Seq(Format)
      /\ recvFrames' = Tail(recvFrames)
      /\ UNCHANGED <<wire, last>>
      /\ \/ /\ recvFrames[1].type = ACK /\ UNCHANGED inFlight
         \/ /\ recvFrames[1].type = DATA /\ recvFrames' = <<>>
  BY Taken
<1>2. RefusedForCheckByte'
  BY <1>1 DEF Outcomes, RefusedForCheckByte
<1>3. FrameReadAsSent'
  <2>1. recvFrames' # <<>> => recvFrames'[Len(recvFrames')] = recvFrames[Len(recvFrames)]
    BY <1>1
  <2> QED
    BY <1>1, <2>1 DEF Outcomes, FrameReadAsSent
<1>4. OnlyRemnantsThrow'
  BY <1>1 DEF Outcomes, OnlyRemnantsThrow
<1>5. Merged'
  <2> SUFFICES ASSUME last.whole, Len(last.frames) = 2
               PROVE  /\ MergedIs(last.result, last.frames[1], last.frames[2], recvFrames')
                      /\ Fits(last.frames[2]) => inFlight' /\ wire' = <<>>
    BY <1>1 DEF Merged
  <2> DEFINE a == last.frames[1]
             f == last.frames[2]
  <2>1. MergedIs(last.result, a, f, recvFrames) /\ (Fits(f) => inFlight /\ wire = <<>>)
    BY DEF Outcomes, Merged
  <2> HIDE DEF a, f
  <2>2. recvFrames = <<a>> /\ a.type = ACK
    BY <1>1, <2>1 DEF MergedIs
  <2>3. recvFrames' = <<>> /\ recvFrames[1] = a
    BY <1>1, <2>2
  <2>4. inFlight' = inFlight
    BY <1>1, <2>2, <2>3 DEF DATA, ACK
  <2>5. MergedIs(last.result, a, f, recvFrames')
    BY <2>1, <2>3 DEF MergedIs
  <2> QED
    BY <1>1, <2>1, <2>4, <2>5 DEF a, f
<1> QED
  BY <1>2, <1>3, <1>4, <1>5 DEF Outcomes

LEMMA InvStep ==
  ASSUME IInv, [Next]_vars
  PROVE  IInv'
<1>1. Inv /\ Outcomes /\ TypeOK /\ OneInFlight /\ DataLast
  BY DEF IInv, Inv
<1>2. TypeOK'
  BY <1>1, TypeStep
<1> SUFFICES (SentFirst' /\ OneInFlight' /\ OnTheWire' /\ DataLast') /\ Outcomes'
  BY <1>2 DEF IInv, Inv
<1>3. CASE \/ FromApplicationLayer \/ ToNetworkLayer \/ FromDataLinkLayer \/ UNCHANGED vars
  <2>1. UNCHANGED <<ready, owed, inFlight, wire, recvFrames, last>>
    BY <1>3 DEF FromApplicationLayer, ToNetworkLayer, FromDataLinkLayer, vars
  <2> QED
    BY <1>1, <2>1, QuietStep, OutcomesKept
<1>4. CASE MakeFrames
  <2>1. UNCHANGED <<owed, inFlight, wire, recvFrames, last>>
    BY <1>4 DEF MakeFrames
  <2>2. ready' # <<>>
    <3>1. packets \in Seq(Packet) /\ packets # <<>> /\ nextSend \in 0 .. MAX_SEQ
      BY <1>1, <1>4, TypeOKIs DEF MakeFrames
    <3>2. Head(packets) \in Packet
      BY <3>1
    <3>3. Frames(Head(packets), nextSend) # <<>>
      BY <3>1, <3>2, FramesTyped
    <3> QED
      BY <1>4, <3>3 DEF MakeFrames
  <2> QED
    BY <1>1, <2>1, <2>2, QuietStep, OutcomesKept
<1>5. CASE SendAck
  <2>1. UNCHANGED <<recvFrames, last, inFlight>> /\ owed
    BY <1>5 DEF SendAck
  <2>2. ~last.whole
    BY <1>1, <2>1, FreshRecv DEF Inv, SentFirst
  <2> QED
    BY <1>1, <1>5, <2>1, <2>2, SendAckStep, OutcomesKept
<1>6. CASE SendAFrame
  <2>1. UNCHANGED <<recvFrames, last>> /\ ~inFlight /\ inFlight'
    BY <1>6 DEF SendAFrame
  <2> QED
    BY <1>1, <1>6, <2>1, SendAFrameStep, OutcomesKept
<1>7. CASE ReceiveFrames
  BY <1>1, <1>7, ReceiveFramesStep, OutcomesReceive
<1>8. CASE TakeFrame
  BY <1>1, <1>8, TakeFrameStep, OutcomesTake
<1> QED
  BY <1>3, <1>4, <1>5, <1>6, <1>7, <1>8 DEF Next

LEMMA InvAlways ==
  Spec => []IInv
<1>1. Init => IInv
  BY InvInit
<1>2. IInv /\ [Next]_vars => IInv'
  BY InvStep
<1> QED
  BY <1>1, <1>2, PTL DEF Spec

LEMMA MergedImplies ==
  Merged => MergedReadAsAck
<1> SUFFICES ASSUME Merged, last.whole, Len(last.frames) = 2,
                    Len(last.frames[2].payload) + 2 * (FRAME_HEAD + FRAME_TAIL) <= Size,
                    IsText(last.frames[2].payload)
             PROVE  last.result = "accepted" /\ (recvFrames # <<>> => recvFrames = <<last.frames[1]>>)
  BY DEF MergedReadAsAck
<1>1. MergedIs(last.result, last.frames[1], last.frames[2], recvFrames) /\ Fits(last.frames[2])
  BY DEF Merged, Fits
<1> QED
  BY <1>1 DEF MergedIs

\* Whatever the messages are, what is cut from them, is on its way or was put
\* together has the form and the lengths of packets and frames.
THEOREM TransferTyped ==
  Spec => []TypeOK
<1>1. IInv => TypeOK
  BY DEF IInv, Inv
<1> QED
  BY <1>1, InvAlways, PTL

\* For all messages and numbers: a whole frame that is received by itself is refused
\* exactly when one of its check bytes is above 127.  (FoldSerializedFrame, FrameValid.)
THEOREM OneFrameChecked ==
  Spec => []RefusedForCheckByte
<1>1. IInv => RefusedForCheckByte
  BY DEF IInv, Outcomes
<1> QED
  BY <1>1, InvAlways, PTL

\* For all payloads without NUL: a frame that is received by itself and accepted is
\* the frame that was sent, until it is taken.  (Frame::Serialize, Frame::Unserialize.)
THEOREM OneFrameRead ==
  Spec => []FrameReadAsSent
<1>1. IInv => FrameReadAsSent
  BY DEF IInv, Outcomes
<1> QED
  BY <1>1, InvAlways, PTL

\* For all messages: no buffer with only whole frames in it makes Unserialize throw.
\* (ReceiveFrames.)
THEOREM WholeFramesNeverThrow ==
  Spec => []OnlyRemnantsThrow
<1>1. IInv => OnlyRemnantsThrow
  BY DEF IInv, Outcomes
<1> QED
  BY <1>1, InvAlways, PTL

\* For all texts: an ack and a frame that fill one recv are accepted as the ack, and
\* the frame is gone.  (ReceiveFrames.)
THEOREM SecondFrameLost ==
  Spec => []MergedReadAsAck
<1>1. IInv => MergedReadAsAck
  BY MergedImplies DEF IInv, Outcomes
<1> QED
  BY <1>1, InvAlways, PTL

-----------------------------------------------------------------------------
(* What packets and frames are made of.                                    *)

\* The bytes that end no string.
Letter == Byte \ {NUL}

LEMMA DigitsClean ==
  ASSUME NEW n \in Nat, NEW w \in Nat
  PROVE  Digits(n, w) \in Seq(Letter)
<1>1. Digits(n, w) \in Seq(Digit)
  BY DigitsAre
<1>2. Digit \subseteq Letter
  BY DEF Digit, Letter, Byte, NUL
<1> QED
  BY <1>1, <1>2

LEMMA serializeClean ==
  ASSUME NEW m \in Messages, NUL \notin ToSet(m.content)
  PROVE  serialize(m) \in Seq(Letter)
<1>1. m.cmd \in Seq(Letter) /\ m.content \in Seq(Byte)
  BY MessagesAssumption DEF Letter
<1>2. m.content \in Seq(Letter)
  <2>1. \A i \in 1 .. Len(m.content) : m.content[i] \in Byte /\ m.content[i] # NUL
    BY <1>1 DEF ToSet
  <2> QED
    BY <1>1, <2>1 DEF Letter
<1>3. Len(m.cmd) \in Nat /\ Len(m.content) \in Nat /\ 17 \in Nat /\ 5 \in Nat
  BY <1>1
<1>4. Len(m.cmd) % (MAX_SEQ + 1) \in Nat
  <2>1. \A n \in Nat : n % (MAX_SEQ + 1) \in Nat
    BY SMT DEF MAX_SEQ
  <2> QED
    BY <1>3, <2>1
<1>5. ltoa(Len(m.content)) \in Seq(Letter) /\ itoa(Len(m.cmd)) \in Seq(Letter)
  BY <1>3, <1>4, DigitsClean DEF ltoa, itoa
<1> QED
  BY <1>1, <1>2, <1>5 DEF serialize

LEMMA PacketsAre ==
  ASSUME NEW S, NEW s \in Seq(S)
  PROVE  LET n == (Len(s) + MAX_PACKET - 1) \div MAX_PACKET
         IN  /\ n \in Nat /\ Len(Packets(s)) = n
             /\ \A i \in 1 .. n : /\ Packets(s)[i].end <=> i = n
                                  /\ Packets(s)[i].payload = substr(s, (i - 1) * MAX_PACKET, MAX_PACKET)
                                  /\ Packets(s)[i].payload \in Seq(S)
<1> DEFINE n == (Len(s) + MAX_PACKET - 1) \div MAX_PACKET
           p(i) == [type    |-> DATA,
                    seq     |-> (i - 1) % (MAX_SEQ + 1),
                    end     |-> i = n,
                    payload |-> substr(s, (i - 1) * MAX_PACKET, MAX_PACKET)]
<1>1. n \in Nat
  BY DEF MAX_PACKET
<1>2. Packets(s) = [i \in 1 .. n |-> p(i)]
  BY DEF Packets
<1>3. \A i \in 1 .. n : substr(s, (i - 1) * MAX_PACKET, MAX_PACKET) \in Seq(S)
  <2> SUFFICES ASSUME NEW i \in 1 .. n
               PROVE  substr(s, (i - 1) * MAX_PACKET, MAX_PACKET) \in Seq(S)
    OBVIOUS
  <2> HIDE DEF n
  <2>1. (i - 1) * MAX_PACKET \in Nat
    BY <1>1 DEF MAX_PACKET
  <2> DEFINE a == (i - 1) * MAX_PACKET
  <2> HIDE DEF a
  <2>2. a \in Nat /\ MAX_PACKET \in Nat
    BY <2>1 DEF a, MAX_PACKET
  <2>3. substr(s, a, MAX_PACKET) \in Seq(S)
    BY <2>2 DEF substr
  <2> QED
    BY <2>3 DEF a
<1>4. \A i \in 1 .. n : (p(i).end <=> i = n) /\ p(i).payload = substr(s, (i - 1) * MAX_PACKET, MAX_PACKET)
  OBVIOUS
<1> HIDE DEF n, p
<1>5. Len(Packets(s)) = n /\ \A i \in 1 .. n : Packets(s)[i] = p(i)
  BY <1>1, <1>2
<1> QED
  BY <1>1, <1>3, <1>4, <1>5 DEF n

\* A packet's frames: the last one has `end', and their payloads are the packet.
LEMMA FramesAre ==
  ASSUME NEW p \in Packet, NEW k \in 0 .. MAX_SEQ
  PROVE  LET F == Frames(p, k)
         IN  /\ F \in Seq(Frame) /\ Len(F) \in {1, 2}
             /\ \A i \in 1 .. Len(F) : F[i].end <=> i = Len(F)
             /\ Len(F) = 1 => F[1].payload = Serialize(p)
             /\ Len(F) = 2 => F[1].payload \o F[2].payload = Serialize(p)
<1> DEFINE d == Serialize(p)
           x == [type |-> DATA, seq |-> k, end |-> TRUE, payload |-> d]
           y == [type |-> DATA, seq |-> k, end |-> FALSE, payload |-> SubSeq(d, 1, MAX_FRAME)]
           z == [type |-> DATA, seq |-> (k + 1) % (MAX_SEQ + 1), end |-> TRUE,
                 payload |-> SubSeq(d, MAX_FRAME + 1, Len(d))]
           F == Frames(p, k)
<1>1. F \in Seq(Frame)
  BY FramesTyped
<1>2. F = IF Len(d) <= MAX_FRAME THEN <<x>> ELSE <<y, z>>
  BY DEF Frames
<1>3. d \in Seq(Byte)
  <2>1. p \in Format /\ Len(p.payload) <= 256 /\ Len(p.payload) \in Nat
    BY DEF Packet, Format, MAX_PACKET
  <2>2. 256 <= MAX_SEQ
    BY SMT DEF MAX_SEQ
  <2>3. Len(p.payload) <= MAX_SEQ
    BY <2>1, <2>2, MaxSeq
  <2> QED
    BY <2>1, <2>3, SerializeIs
<1>4. x.end /\ x.payload = d /\ ~y.end /\ z.end /\ y.payload = SubSeq(d, 1, MAX_FRAME)
      /\ z.payload = SubSeq(d, MAX_FRAME + 1, Len(d))
  OBVIOUS
<1> HIDE DEF d, x, y, z, F
<1>5. CASE Len(d) <= MAX_FRAME
  <2>1. F = <<x>>
    BY <1>2, <1>5
  <2> QED
    BY <1>1, <1>4, <2>1 DEF F, d
<1>6. CASE ~ (Len(d) <= MAX_FRAME)
  <2>1. F = <<y, z>>
    BY <1>2, <1>6
  <2>2. SubSeq(d, 1, MAX_FRAME) \o SubSeq(d, MAX_FRAME + 1, Len(d)) = d
    BY <1>3, <1>6 DEF MAX_FRAME
  <2>3. Len(F) = 2 /\ F[1] = y /\ F[2] = z
    BY <2>1
  <2>4. \A i \in 1 .. 2 : F[i].end <=> i = 2
    <3>1. \A i \in 1 .. 2 : i = 1 \/ i = 2
      OBVIOUS
    <3> QED
      BY <1>4, <2>3, <3>1
  <2>5. F[1].payload \o F[2].payload = d
    BY <1>4, <2>2, <2>3
  <2> QED
    BY <1>1, <2>3, <2>4, <2>5 DEF F, d
<1> QED
  BY <1>5, <1>6

LEMMA PacketClean ==
  ASSUME NEW p \in Packet, p.payload \in Seq(Letter)
  PROVE  \A i \in 1 .. Len(Serialize(p)) : Serialize(p)[i] # NUL
<1> DEFINE s == Serialize(p)
           n == Len(p.payload)
<1>1. p \in Format /\ Len(p.payload) <= MAX_SEQ /\ n \in Nat
  <2>1. p \in Format /\ Len(p.payload) <= 256 /\ Len(p.payload) \in Nat
    BY DEF Packet, Format, MAX_PACKET
  <2>2. 256 <= MAX_SEQ
    BY SMT DEF MAX_SEQ
  <2> QED
    BY <2>1, <2>2, MaxSeq
<1>2. /\ Len(s) = 12 + n /\ (\A i \in 1 .. 12 : s[i] \in Digit)
      /\ \A i \in 1 .. n : s[12 + i] = p.payload[i]
  BY <1>1, SerializeIs
<1>3. \A i \in 1 .. n : p.payload[i] # NUL
  BY DEF Letter
<1>4. \A x \in Digit : x # NUL
  BY DEF Digit, NUL
<1> HIDE DEF s, n
<1>5. ASSUME NEW i \in 1 .. Len(s) PROVE s[i] # NUL
  <2>1. CASE i <= 12
    <3>1. i \in 1 .. 12
      BY <1>1, <1>2, <2>1
    <3> QED
      BY <1>2, <1>4, <3>1
  <2>2. CASE i > 12
    <3>1. i - 12 \in 1 .. n /\ 12 + (i - 12) = i
      BY <1>1, <1>2, <2>2
    <3> QED
      BY <1>2, <1>3, <3>1
  <2> QED
    BY <1>1, <1>2, <2>1, <2>2
<1> QED
  BY <1>5 DEF s

\* A packet without NUL is read back from a block of just its bytes.
LEMMA PacketReadBack ==
  ASSUME NEW p \in Packet, p.payload \in Seq(Letter), NEW fill \in Byte
  PROVE  LET d == Serialize(p)
         IN  /\ d \in Seq(Byte)
             /\ Readable(Block(d, Len(d), fill))
             /\ Unserialize(Block(d, Len(d), fill), fill) = p
<1> DEFINE s == Serialize(p)
           d == Block(s, Len(s), fill)
<1>1. p \in Format /\ Len(p.payload) <= MAX_SEQ /\ Len(p.payload) \in Nat
  <2>1. p \in Format /\ Len(p.payload) <= 256 /\ Len(p.payload) \in Nat
    BY DEF Packet, Format, MAX_PACKET
  <2>2. 256 <= MAX_SEQ
    BY SMT DEF MAX_SEQ
  <2> QED
    BY <2>1, <2>2, MaxSeq
<1>2. /\ s \in Seq(Byte) /\ Len(s) = 12 + Len(p.payload) /\ \A i \in 1 .. 12 : s[i] \in Digit
  BY <1>1, SerializeIs
<1> DEFINE n == Len(s)
<1>3. n \in Nat /\ n >= 12 /\ n <= n
  BY <1>1, <1>2
<1> HIDE DEF s
<1>4. d \in Seq(Byte) /\ Len(d) = n + 2 /\ \A i \in 1 .. n : d[i] = s[i]
  BY <1>2, <1>3, BlockIs
<1> HIDE DEF d, n
<1>5. Len(d) >= 12 /\ n <= Len(d)
  BY <1>3, <1>4
<1>6. \A i \in 1 .. 12 : d[i] \in Digit
  <2>1. \A i \in 1 .. 12 : i \in 1 .. n
    BY <1>3
  <2> QED
    BY <1>2, <1>4, <2>1
<1>7. Readable(d)
  BY <1>4, <1>5, <1>6, ReadableIs
<1>8. \A i \in 1 .. Len(p.payload) : p.payload[i] # NUL
  BY DEF Letter
<1>9. Unserialize(d, fill) = p
  <2>1. Len(Serialize(p)) <= Len(d) /\ \A i \in 1 .. Len(Serialize(p)) : d[i] = Serialize(p)[i]
    BY <1>4, <1>5 DEF s, n
  <2> QED
    BY <1>1, <1>4, <1>8, <2>1, FormatReadBack
<1> QED
  BY <1>2, <1>7, <1>9 DEF d, s, n

-----------------------------------------------------------------------------
(* The packets of a message on their way.                                  *)

Rest(P, j) == SubSeq(P, j + 1, Len(P))

LEMMA RestIs ==
  ASSUME NEW P \in Seq(Packet), NEW j \in 0 .. Len(P)
  PROVE  /\ Rest(P, 0) = P
         /\ Rest(P, j) # <<>> => j < Len(P)
         /\ j < Len(P) => /\ Rest(P, j) # <<>> /\ j + 1 \in 1 .. Len(P)
                          /\ Head(Rest(P, j)) = P[j + 1] /\ Tail(Rest(P, j)) = Rest(P, j + 1)
<1>1. Rest(P, 0) = P
  BY DEF Rest
<1>2. Rest(P, j) # <<>> => j < Len(P)
  BY DEF Rest
<1>3. ASSUME j < Len(P)
      PROVE  /\ Rest(P, j) # <<>> /\ j + 1 \in 1 .. Len(P)
             /\ Head(Rest(P, j)) = P[j + 1] /\ Tail(Rest(P, j)) = Rest(P, j + 1)
  <2> DEFINE n == Len(P)
             a == SubSeq(P, j + 1, n)
             b == SubSeq(P, (j + 1) + 1, n)
  <2>1. j \in Nat /\ n \in Nat /\ j < n
    BY <1>3
  <2>2. /\ a \in Seq(Packet) /\ Len(a) = n - j /\ \A i \in 1 .. n - j : a[i] = P[j + i]
        /\ b \in Seq(Packet) /\ Len(b) = n - j - 1 /\ \A i \in 1 .. n - j - 1 : b[i] = P[j + 1 + i]
    BY <2>1
  <2> HIDE DEF a, b, n
  <2>3. a # <<>> /\ Head(a) = P[j + 1] /\ j + 1 \in 1 .. n
    <3>1. Len(a) > 0 /\ 1 \in 1 .. n - j /\ a[1] = P[j + 1]
      BY <2>1, <2>2
    <3> QED
      BY <2>1, <2>2, <3>1
  <2>4. Tail(a) = b
    <3>1. Tail(a) \in Seq(Packet) /\ Len(Tail(a)) = Len(b)
          /\ \A i \in 1 .. Len(b) : Tail(a)[i] = a[i + 1]
      BY <2>1, <2>2, <2>3
    <3>2. \A i \in 1 .. Len(b) : Tail(a)[i] = b[i]
      <4> SUFFICES ASSUME NEW i \in 1 .. Len(b) PROVE Tail(a)[i] = b[i]
        OBVIOUS
      <4>1. i \in 1 .. n - j - 1 /\ i + 1 \in 1 .. n - j /\ j + (i + 1) = j + 1 + i
        BY <2>1, <2>2
      <4> QED
        BY <2>2, <3>1, <4>1
    <3> QED
      BY <2>2, <3>1, <3>2, SameSeq
  <2> QED
    BY <2>3, <2>4 DEF Rest, a, b, n
<1> QED
  BY <1>1, <1>2, <1>3

\* No frame of P[j + 1] is in ready, or all of them.
Cut(P, j, rd, pk) ==
  \/ rd = <<>> /\ pk = Rest(P, j)
  \/ /\ j < Len(P) /\ pk = Rest(P, j + 1)
     /\ \E k \in 0 .. MAX_SEQ : rd = Frames(P[j + 1], k)

LikeAll(r, F) == Len(r) = Len(F) /\ \A i \in 1 .. Len(F) : Like(r[i], F[i])

\* P[j + 1] is the next packet to be put together: its frames are with the receiver
\* (r) up to some place, and from there on with the sender.
Stream(P, j, r, rd, pk) ==
  \/ r = <<>> /\ Cut(P, j, rd, pk)
  \/ \E k \in 0 .. MAX_SEQ :
       /\ j < Len(P) /\ pk = Rest(P, j + 1)
       /\ Len(r) = 1 /\ Len(Frames(P[j + 1], k)) = 2 /\ Like(r[1], Frames(P[j + 1], k)[1])
       /\ rd = <<Frames(P[j + 1], k)[2]>>
  \/ \E k \in 0 .. MAX_SEQ :
       /\ j < Len(P) /\ LikeAll(r, Frames(P[j + 1], k))
       /\ Cut(P, j + 1, rd, pk)

\* The first j packets have been put together, and those of a whole message taken.
Held(P, j, b) == b = SubSeq(P, 1, j) \/ (b = <<>> /\ j = Len(P))

LEMMA StreamBegins ==
  ASSUME NEW P \in Seq(Packet)
  PROVE  Stream(P, 0, <<>>, <<>>, P) /\ Held(P, 0, <<>>) /\ 0 \in 0 .. Len(P)
<1>1. Rest(P, 0) = P
  BY DEF Rest
<1>2. SubSeq(P, 1, 0) = <<>>
  OBVIOUS
<1> QED
  BY <1>1, <1>2 DEF Stream, Cut, Held

\* MakeFrames.
LEMMA CutMakes ==
  ASSUME NEW P \in Seq(Packet), NEW j \in 0 .. Len(P), NEW pk, Cut(P, j, <<>>, pk), pk # <<>>,
         NEW k \in 0 .. MAX_SEQ
  PROVE  Cut(P, j, Frames(Head(pk), k), Tail(pk))
<1>1. \A i \in 1 .. Len(P), q \in 0 .. MAX_SEQ : Frames(P[i], q) # <<>>
  BY FramesTyped
<1>2. j < Len(P) => j + 1 \in 1 .. Len(P)
  BY RestIs
<1>3. pk = Rest(P, j)
  BY <1>1, <1>2 DEF Cut
<1>4. j < Len(P) /\ Head(pk) = P[j + 1] /\ Tail(pk) = Rest(P, j + 1)
  BY <1>3, RestIs
<1> QED
  BY <1>4 DEF Cut

LEMMA StreamMakes ==
  ASSUME NEW P \in Seq(Packet), NEW j \in 0 .. Len(P), NEW r, NEW pk, Stream(P, j, r, <<>>, pk),
         pk # <<>>, NEW k \in 0 .. MAX_SEQ
  PROVE  Stream(P, j, r, Frames(Head(pk), k), Tail(pk))
<1> DEFINE rd == Frames(Head(pk), k)
           tl == Tail(pk)
<1>1. \A i \in 0 .. Len(P) : Cut(P, i, <<>>, pk) => Cut(P, i, rd, tl)
  BY CutMakes
<1> HIDE DEF rd, tl
<1>2. CASE r = <<>> /\ Cut(P, j, <<>>, pk)
  BY <1>1, <1>2 DEF Stream, rd, tl
<1>3. CASE \E q \in 0 .. MAX_SEQ :
             /\ j < Len(P) /\ LikeAll(r, Frames(P[j + 1], q))
             /\ Cut(P, j + 1, <<>>, pk)
  <2>1. j + 1 \in 0 .. Len(P)
    BY <1>3
  <2> QED
    BY <1>1, <1>3, <2>1 DEF Stream, rd, tl
<1>4. \A x : <<>> # <<x>>
  OBVIOUS
<1> QED
  BY <1>2, <1>3, <1>4 DEF Stream

LEMMA StreamTakes ==
  ASSUME NEW P \in Seq(Packet), NEW j \in 0 .. Len(P), NEW r \in Seq(Format), NEW rd \in Seq(Frame),
         NEW pk, Stream(P, j, r, rd, pk), rd # <<>>, ~ (r # <<>> /\ r[Len(r)].end),
         NEW x \in Format, Like(x, rd[1])
  PROVE  Stream(P, j, Append(r, x), Tail(rd), pk)
<1> DEFINE n == Len(P)
<1>1. ASSUME j < n, NEW k \in 0 .. MAX_SEQ
      PROVE  LET F == Frames(P[j + 1], k)
             IN  /\ F \in Seq(Frame) /\ Len(F) \in {1, 2}
                 /\ \A i \in 1 .. Len(F) : F[i].end <=> i = Len(F)
  <2>1. P[j + 1] \in Packet
    BY <1>1
  <2> QED
    BY <2>1, FramesAre
<1>2. CASE r = <<>> /\ Cut(P, j, rd, pk)
  <2>1. PICK k \in 0 .. MAX_SEQ : j < n /\ pk = Rest(P, j + 1) /\ rd = Frames(P[j + 1], k)
    BY <1>2 DEF Cut
  <2> DEFINE F == Frames(P[j + 1], k)
  <2>2. F \in Seq(Frame) /\ Len(F) \in {1, 2}
    BY <1>1, <2>1
  <2>3. rd = F /\ Append(r, x) = <<x>>
    BY <1>2, <2>1
  <2> HIDE DEF F
  <2>4. CASE Len(F) = 1
    <3>1. Tail(rd) = <<>>
      BY <2>2, <2>3, <2>4, OfOne
    <3>2. LikeAll(<<x>>, F)
      <4>1. \A i \in 1 .. 1 : i = 1
        OBVIOUS
      <4>2. Len(<<x>>) = 1 /\ <<x>>[1] = x
        OBVIOUS
      <4>3. Like(x, F[1])
        BY <2>3
      <4> HIDE DEF n
      <4>4. Len(<<x>>) = Len(F)
        BY <2>4, <4>2
      <4>5. \A i \in 1 .. Len(F) : Like(<<x>>[i], F[i])
        BY <2>4, <4>1, <4>2, <4>3, Zenon
      <4> QED
        BY <4>4, <4>5 DEF LikeAll
    <3>3. Cut(P, j + 1, <<>>, pk)
      BY <2>1 DEF Cut
    <3> QED
      BY <2>1, <2>3, <3>1, <3>2, <3>3 DEF Stream, F
  <2>5. CASE Len(F) = 2
    <3>1. Tail(rd) = <<F[2]>>
      <4>1. Tail(F) = <<F[2]>>
        BY <2>2, <2>5, OfTwo
      <4> QED
        BY <2>3, <4>1
    <3>2. Len(<<x>>) = 1 /\ <<x>>[1] = x
      OBVIOUS
    <3>3. Like(x, F[1])
      BY <2>3
    <3> QED
      BY <2>1, <2>3, <2>5, <3>1, <3>2, <3>3 DEF Stream, F
  <2> QED
    BY <2>2, <2>4, <2>5
<1>3. ASSUME NEW k \in 0 .. MAX_SEQ,
             j < Len(P), pk = Rest(P, j + 1),
             Len(r) = 1, Len(Frames(P[j + 1], k)) = 2, Like(r[1], Frames(P[j + 1], k)[1]),
             rd = <<Frames(P[j + 1], k)[2]>>
      PROVE  Stream(P, j, Append(r, x), Tail(rd), pk)
  <2> DEFINE F == Frames(P[j + 1], k)
  <2>1. Len(F) = 2 /\ Like(r[1], F[1]) /\ rd = <<F[2]>>
    BY <1>3
  <2> HIDE DEF F
  <2>2. rd[1] = F[2] /\ Tail(rd) = <<>>
    BY <2>1
  <2>3. Len(Append(r, x)) = 2 /\ Append(r, x)[1] = r[1] /\ Append(r, x)[2] = x
    <3>1. r \in Seq(Format) /\ Len(r) = 1
      BY <1>3
    <3> QED
      BY <3>1, OfTwoMade
  <2>4. LikeAll(Append(r, x), F)
    <3>1. \A i \in 1 .. 2 : i = 1 \/ i = 2
      OBVIOUS
    <3> QED
      BY <2>1, <2>2, <2>3, <3>1 DEF LikeAll
  <2>5. Cut(P, j + 1, <<>>, pk)
    BY <1>3 DEF Cut
  <2> QED
    BY <1>3, <2>2, <2>4, <2>5 DEF Stream, F
<1>4. ASSUME NEW k \in 0 .. MAX_SEQ, j < Len(P), LikeAll(r, Frames(P[j + 1], k))
      PROVE  FALSE
  <2> DEFINE F == Frames(P[j + 1], k)
  <2>1. Len(F) \in {1, 2} /\ (\A i \in 1 .. Len(F) : F[i].end <=> i = Len(F)) /\ LikeAll(r, F)
    BY <1>1, <1>4
  <2> HIDE DEF F
  <2>2. Len(r) = Len(F) /\ Len(F) \in 1 .. Len(F) /\ Like(r[Len(F)], F[Len(F)])
    BY <2>1 DEF LikeAll
  <2>3. F[Len(F)].end /\ r # <<>>
    BY <2>1, <2>2
  <2>4. r[Len(r)].end
    BY <2>2, <2>3 DEF Like
  <2> QED
    BY <2>3, <2>4
<1> QED
  BY <1>2, <1>3, <1>4 DEF Stream

\* The last frame of a packet has been taken: all of them have been.
LEMMA StreamComplete ==
  ASSUME NEW P \in Seq(Packet), NEW j \in 0 .. Len(P), NEW r \in Seq(Format), NEW rd, NEW pk,
         Stream(P, j, r, rd, pk), r # <<>>, r[Len(r)].end
  PROVE  /\ j < Len(P) /\ Stream(P, j + 1, <<>>, rd, pk)
         /\ \E k \in 0 .. MAX_SEQ : LikeAll(r, Frames(P[j + 1], k))
<1>1. ASSUME NEW k \in 0 .. MAX_SEQ, j < Len(P), Len(r) = 1,
             Len(Frames(P[j + 1], k)) = 2, Like(r[1], Frames(P[j + 1], k)[1])
      PROVE  FALSE
  <2> DEFINE F == Frames(P[j + 1], k)
  <2>1. P[j + 1] \in Packet
    BY <1>1
  <2>2. \A i \in 1 .. Len(F) : F[i].end <=> i = Len(F)
    BY <2>1, FramesAre
  <2>3. Len(F) = 2 /\ Like(r[1], F[1])
    BY <1>1
  <2> HIDE DEF F
  <2>4. ~F[1].end
    BY <2>2, <2>3
  <2>5. r[1].end
    BY <1>1
  <2> QED
    BY <2>3, <2>4, <2>5 DEF Like
<1> QED
  BY <1>1 DEF Stream

LEMMA StreamShort ==
  ASSUME NEW P \in Seq(Packet), NEW j \in 0 .. Len(P), NEW r, NEW rd, NEW pk, Stream(P, j, r, rd, pk)
  PROVE  Len(r) <= 2
<1>1. ASSUME NEW k \in 0 .. MAX_SEQ, j < Len(P), LikeAll(r, Frames(P[j + 1], k))
      PROVE  Len(r) <= 2
  <2>1. P[j + 1] \in Packet
    BY <1>1
  <2>2. Len(Frames(P[j + 1], k)) \in {1, 2}
    BY <2>1, FramesAre
  <2> QED
    BY <1>1, <2>2 DEF LikeAll
<1>2. Len(<<>>) <= 2
  OBVIOUS
<1>3. ASSUME Len(r) = 1
      PROVE  Len(r) <= 2
  <2>1. 1 <= 2
    OBVIOUS
  <2> QED
    BY <1>3, <2>1
<1> QED
  BY <1>1, <1>2, <1>3, Zenon DEF Stream

\* ToNetworkLayer: what is put together from the frames of a packet without NUL.
LEMMA PacketAssembled ==
  ASSUME NEW p \in Packet, p.payload \in Seq(Letter), NEW k \in 0 .. MAX_SEQ,
         NEW r \in Seq(Format), LikeAll(r, Frames(p, k)), NEW fill \in Byte
  PROVE  LET pload == FlattenSeq([i \in DOMAIN r |-> r[i].payload])
             memory == Block(pload, Len(pload), fill)
         IN  Readable(memory) /\ Unserialize(memory, fill) = p
<1> DEFINE F == Frames(p, k)
           q == [i \in DOMAIN r |-> r[i].payload]
           d == Serialize(p)
<1>1. /\ F \in Seq(Frame) /\ Len(F) \in {1, 2}
      /\ Len(F) = 1 => F[1].payload = d
      /\ Len(F) = 2 => F[1].payload \o F[2].payload = d
  BY FramesAre
<1>2. /\ d \in Seq(Byte) /\ Readable(Block(d, Len(d), fill))
      /\ Unserialize(Block(d, Len(d), fill), fill) = p
  BY PacketReadBack
<1>3. \A i \in 1 .. Len(d) : d[i] # NUL
  BY PacketClean
<1>4. Len(r) = Len(F) /\ \A i \in 1 .. Len(F) : Like(r[i], F[i])
  BY DEF LikeAll
<1> HIDE DEF F, d
<1>5. \A i \in 1 .. Len(F) : F[i].payload \in Seq(Byte)
  BY <1>1 DEF Frame, Format
<1>6. ASSUME NEW i \in 1 .. Len(F), \A l \in 1 .. Len(F[i].payload) : F[i].payload[l] # NUL
      PROVE  r[i] = F[i]
  <2>1. NUL \notin ToSet(F[i].payload)
    BY <1>5, <1>6 DEF ToSet
  <2> QED
    BY <1>4, <2>1 DEF Like
<1>7. CASE Len(F) = 1
  <2>1. F[1].payload = d
    BY <1>1, <1>7
  <2>2. r[1] = F[1]
    BY <1>3, <1>6, <1>7, <2>1
  <2>3. q \in Seq(Seq(Byte)) /\ Len(q) = 1 /\ q[1] = d
    <3>1. DOMAIN r = 1 .. 1
      BY <1>4, <1>7
    <3> QED
      BY <1>2, <2>1, <2>2, <3>1
  <2> HIDE DEF q
  <2>4. FlattenSeq(q) = d
    BY <2>3, FlattenOne
  <2> QED
    BY <1>2, <2>4 DEF q
<1>8. CASE Len(F) = 2
  <2> DEFINE a == F[1].payload
             b == F[2].payload
  <2>1. a \o b = d /\ a \in Seq(Byte) /\ b \in Seq(Byte)
    <3>1. 1 \in 1 .. 2 /\ 2 \in 1 .. 2
      OBVIOUS
    <3>2. F[1].payload \in Seq(Byte) /\ F[2].payload \in Seq(Byte)
      BY <1>5, <1>8, <3>1
    <3> QED
      BY <1>1, <1>8, <3>2
  <2>2. r[1] = F[1] /\ r[2] = F[2]
    <3>1. IsConcat(d, a, b, Len(a), Len(b))
      BY <2>1, ConcatIs
    <3> HIDE DEF a, b
    <3>2. /\ Len(a) \in Nat /\ Len(b) \in Nat /\ Len(d) = Len(a) + Len(b)
          /\ \A i \in 1 .. Len(a) : d[i] = a[i]
          /\ \A i \in 1 .. Len(b) : d[Len(a) + i] = b[i]
      BY <2>1, <3>1 DEF IsConcat
    <3>3. \A i \in 1 .. Len(a) : a[i] # NUL
      <4>1. \A i \in 1 .. Len(a) : i \in 1 .. Len(d)
        BY <3>2
      <4> QED
        BY <1>3, <3>2, <4>1
    <3>4. \A i \in 1 .. Len(b) : b[i] # NUL
      <4>1. \A i \in 1 .. Len(b) : Len(a) + i \in 1 .. Len(d)
        BY <3>2
      <4> QED
        BY <1>3, <3>2, <4>1
    <3> QED
      BY <1>6, <1>8, <3>3, <3>4 DEF a, b
  <2>3. q \in Seq(Seq(Byte)) /\ Len(q) = 2 /\ q[1] = a /\ q[2] = b
    <3>1. DOMAIN r = 1 .. 2
      BY <1>4, <1>8
    <3>2. \A i \in 1 .. 2 : i = 1 \/ i = 2
      OBVIOUS
    <3> QED
      BY <2>1, <2>2, <3>1, <3>2
  <2> HIDE DEF q, a, b
  <2>4. FlattenSeq(q) = d
    BY <2>1, <2>3, FlattenTwo
  <2> QED
    BY <1>2, <2>4 DEF q
<1> QED
  BY <1>1, <1>7, <1>8

-----------------------------------------------------------------------------
(* The packets of the message, from where they are cut to where they are   *)
(* put together.                                                           *)

\* The frame in flight, or what is left of it on the wire, is the front of ready.
OnWay == inFlight /\ wire # <<>> => wire[Len(wire)].frame = ready[1]

\* So is a data frame that was received.
FrontRead == \A i \in DOMAIN recvFrames : recvFrames[i].type = DATA => Like(recvFrames[i], ready[1])

Text == NUL \notin ToSet(message.content)

\* Before main has given the message there is nothing; then j packets have been put
\* together.
PacketsOrdered ==
  \/ ~given /\ packets = <<>> /\ ready = <<>> /\ reconstructFrames = <<>> /\ buildBuffer = <<>>
  \/ /\ given
     /\ \E j \in 0 .. Len(WholePackets) :
          /\ Stream(WholePackets, j, reconstructFrames, ready, packets)
          /\ Text => Held(WholePackets, j, buildBuffer)

\* ToNetworkLayer is called for the last frame of a packet, and takes it away.
Completed ==
  complete <=> reconstructFrames # <<>> /\ reconstructFrames[Len(reconstructFrames)].end

InOrder == OnWay /\ (~last.torn => FrontRead /\ Completed /\ PacketsOrdered)

LEMMA WholePacketsAre ==
  ASSUME TypeOK
  PROVE  /\ WholePackets \in Seq(Packet) /\ Len(WholePackets) \in Nat
         /\ \A i \in 1 .. Len(WholePackets) :
              /\ WholePackets[i].end <=> i = Len(WholePackets)
              /\ Text => WholePackets[i].payload \in Seq(Letter)
<1> DEFINE s == serialize(message)
<1>1. message \in Messages
  BY TypeOKIs
<1>2. s \in Seq(Byte)
  BY <1>1, serializeTyped
<1>3. Text => s \in Seq(Letter)
  BY <1>1, serializeClean DEF Text
<1> HIDE DEF s
<1> DEFINE P == Packets(s)
<1>4. P \in Seq(Packet) /\ Len(P) \in Nat
  <2>1. P \in Seq(Packet)
    BY <1>2, PacketsTyped
  <2> HIDE DEF P
  <2> QED
    BY <2>1
<1>5. \A i \in 1 .. Len(P) : P[i].end <=> i = Len(P)
  BY <1>2, PacketsAre
<1>6. Text => \A i \in 1 .. Len(P) : P[i].payload \in Seq(Letter)
  BY <1>3, PacketsAre
<1> QED
  BY <1>4, <1>5, <1>6 DEF WholePackets, P, s

LEMMA InOrderInit ==
  Init => InOrder
<1> SUFFICES ASSUME Init PROVE InOrder
  OBVIOUS
<1>1. OnWay
  BY DEF Init, OnWay
<1>2. FrontRead
  <2>1. DOMAIN recvFrames = {}
    BY DEF Init
  <2> QED
    BY <2>1 DEF FrontRead
<1>3. PacketsOrdered
  BY DEF Init, PacketsOrdered
<1>4. Completed
  BY DEF Init, Completed
<1> QED
  BY <1>1, <1>2, <1>3, <1>4 DEF InOrder

\* A step that leaves these be.
LEMMA OrderKept ==
  ASSUME PacketsOrdered,
         UNCHANGED <<message, given, packets, ready, reconstructFrames, buildBuffer>>
  PROVE  PacketsOrdered'
<1>1. WholePackets' = WholePackets /\ (Text' <=> Text)
  BY DEF WholePackets, Text
<1> QED
  BY <1>1 DEF PacketsOrdered

LEMMA OnWayStep ==
  ASSUME Inv, OnWay, [Next]_vars
  PROVE  OnWay'
<1>0. TypeOK /\ OneInFlight /\ SentFirst
  BY DEF Inv
<1>1. CASE \/ FromApplicationLayer \/ ToNetworkLayer \/ FromDataLinkLayer \/ UNCHANGED vars
  <2>1. UNCHANGED <<ready, inFlight, wire>>
    BY <1>1 DEF FromApplicationLayer, ToNetworkLayer, FromDataLinkLayer, vars
  <2> QED
    BY <2>1 DEF OnWay
<1>2. CASE MakeFrames
  <2>1. ~inFlight' /\ ready = <<>>
    BY <1>0, <1>2 DEF MakeFrames, OneInFlight
  <2> QED
    BY <2>1 DEF OnWay
<1>3. CASE SendAck
  <2>1. ~inFlight'
    BY <1>0, <1>3 DEF SendAck, SentFirst
  <2> QED
    BY <2>1 DEF OnWay
<1>4. CASE SendAFrame
  <2>1. wire' = Append(wire, Sent(ready[1])) /\ ready' = ready /\ ready # <<>>
    BY <1>4 DEF SendAFrame
  <2>2. wire \in Seq(Segment) /\ ready \in Seq(Frame)
    BY <1>0, TypeOKIs
  <2>3. ready[1] \in Frame
    BY <2>1, <2>2
  <2>4. Sent(ready[1]) \in Segment /\ Sent(ready[1]).frame = ready[1]
    BY <2>3, SentTyped
  <2>5. wire'[Len(wire')] = Sent(ready[1])
    BY <2>1, <2>2, <2>4
  <2> QED
    BY <2>1, <2>4, <2>5 DEF OnWay
<1>5. CASE ReceiveFrames
  <2>1. UNCHANGED <<ready, inFlight>> /\ wire # <<>>
    <3>1. UNCHANGED <<ready, inFlight>> /\ \E k \in 1 .. Len(wire) : TRUE
      BY <1>5 DEF ReceiveFrames
    <3> QED
      BY <3>1
  <2>2. wire' = <<>> \/ (Len(wire') = 1 /\ inFlight)
    BY <1>5, Received
  <2>3. wire' # <<>> => wire'[1].frame = wire[Len(wire)].frame
    BY <1>5, Received
  <2> QED
    BY <2>1, <2>2, <2>3 DEF OnWay
<1>6. CASE TakeFrame
  BY <1>6, Taken DEF OnWay
<1> QED
  BY <1>1, <1>2, <1>3, <1>4, <1>5, <1>6 DEF Next

LEMMA FrontReadStep ==
  ASSUME Inv, OnWay, FrontRead, [Next]_vars, ~last'.torn
  PROVE  FrontRead'
<1>0. TypeOK /\ OneInFlight /\ OnTheWire /\ DataLast
  BY DEF Inv
<1>t. wire \in Seq(Segment) /\ ready \in Seq(Frame) /\ recvFrames \in Seq(Format)
  BY <1>0, TypeOKIs
<1>1. CASE \/ FromApplicationLayer \/ ToNetworkLayer \/ FromDataLinkLayer \/ SendAck \/ SendAFrame
           \/ UNCHANGED vars
  <2>1. UNCHANGED <<ready, recvFrames>>
    BY <1>1 DEF FromApplicationLayer, ToNetworkLayer, FromDataLinkLayer, SendAck, SendAFrame, vars
  <2> QED
    BY <2>1 DEF FrontRead
<1>2. CASE MakeFrames
  <2>1. ~inFlight /\ recvFrames' = recvFrames
    BY <1>0, <1>2 DEF MakeFrames, OneInFlight
  <2> QED
    BY <1>0, <2>1 DEF FrontRead, DataLast
<1>3. CASE ReceiveFrames
  <2>1. ready' = ready
    BY <1>3 DEF ReceiveFrames
  <2>2. CASE recvFrames' = recvFrames
    BY <2>1, <2>2 DEF FrontRead
  <2>3. CASE \E x \in Format : /\ ~last.torn /\ recvFrames' = Append(recvFrames, x)
                               /\ x.type = ACK \/ (Len(wire) = 1 /\ Like(x, wire[1].frame))
    <3>1. PICK x \in Format : /\ ~last.torn /\ recvFrames' = Append(recvFrames, x)
                              /\ x.type = ACK \/ (Len(wire) = 1 /\ Like(x, wire[1].frame))
      BY <2>3
    <3>2. x.type = DATA => Like(x, ready[1])
      <4> SUFFICES ASSUME x.type = DATA PROVE Like(x, ready[1])
        OBVIOUS
      <4>1. Len(wire) = 1 /\ Like(x, wire[1].frame)
        BY <3>1 DEF DATA, ACK
      <4>2. ~IsAck(wire[1])
        <5> SUFFICES ASSUME IsAck(wire[1]) PROVE FALSE
          OBVIOUS
        <5>1. wire[1].frame.type = ACK /\ ToSet(wire[1].frame.payload) = {}
          BY DEF IsAck, ToSet
        <5>2. x = wire[1].frame
          BY <4>1, <5>1 DEF Like
        <5> QED
          BY <5>1, <5>2 DEF DATA, ACK
      <4>3. wire # <<>> /\ inFlight
        <5>1. 1 # 2
          OBVIOUS
        <5>2. wire # <<>>
          <6>1. Len(<<>>) # 1
            OBVIOUS
          <6> QED
            BY <4>1, <6>1, Zenon
        <5> QED
          BY <1>0, <4>1, <4>2, <5>1, <5>2, Zenon DEF OnTheWire
      <4>4. wire[1].frame = ready[1]
        BY <4>1, <4>3 DEF OnWay
      <4> QED
        BY <4>1, <4>4
    <3>3. \A i \in DOMAIN recvFrames' : (i \in DOMAIN recvFrames /\ recvFrames'[i] = recvFrames[i])
                                        \/ recvFrames'[i] = x
      BY <1>t, <3>1
    <3> QED
      BY <2>1, <3>2, <3>3 DEF FrontRead
  <2> QED
    BY <1>3, <2>2, <2>3, Received
<1>4. CASE TakeFrame
  <2>1. recvFrames # <<>> /\ recvFrames' = Tail(recvFrames)
        /\ (ready' = ready \/ recvFrames' = <<>>)
    BY <1>4, Taken
  <2>2. \A i \in DOMAIN Tail(recvFrames) : i + 1 \in DOMAIN recvFrames /\ Tail(recvFrames)[i] = recvFrames[i + 1]
    BY <1>t, <2>1
  <2>3. CASE ready' = ready
    BY <2>1, <2>2, <2>3 DEF FrontRead
  <2>4. CASE recvFrames' = <<>>
    <3>1. DOMAIN recvFrames' = {}
      BY <2>4
    <3> QED
      BY <3>1 DEF FrontRead
  <2> QED
    BY <2>1, <2>3, <2>4
<1> QED
  BY <1>1, <1>2, <1>3, <1>4 DEF Next

\* A data frame that is the front of ready has the number expected.
LEMMA FrontTaken ==
  ASSUME Inv, FrontRead, TakeFrame, recvFrames[1].type # ACK
  PROVE  /\ reconstructFrames' = Append(reconstructFrames, recvFrames[1])
         /\ ready' = Tail(ready) /\ complete' = recvFrames[1].end
         /\ Like(recvFrames[1], ready[1]) /\ recvFrames[1] \in Format
<1>1. recvFrames \in Seq(Format) /\ recvFrames # <<>>
  BY TypeOKIs DEF Inv, TakeFrame
<1>2. Head(recvFrames) = recvFrames[1] /\ recvFrames[1] \in Format /\ 1 \in DOMAIN recvFrames
  BY <1>1
<1>3. recvFrames[1].type = DATA
  BY <1>2 DEF Format
<1>4. Like(recvFrames[1], ready[1])
  BY <1>2, <1>3 DEF FrontRead
<1>5. recvFrames[1].seq = frameExpect
  BY <1>4 DEF Like, frameExpect
<1> QED
  BY <1>2, <1>4, <1>5 DEF TakeFrame

LEMMA CompletedStep ==
  ASSUME Inv, FrontRead, Completed, [Next]_vars
  PROVE  Completed'
<1>1. CASE TakeFrame
  <2>1. reconstructFrames \in Seq(Format)
    BY TypeOKIs DEF Inv
  <2>2. recvFrames \in Seq(Format) /\ recvFrames # <<>> /\ ~complete
    BY <1>1, TypeOKIs DEF Inv, TakeFrame
  <2>3. Head(recvFrames) = recvFrames[1] /\ recvFrames[1] \in Format
    BY <2>2
  <2>4. CASE recvFrames[1].type = ACK
    <3>1. UNCHANGED <<reconstructFrames, complete>>
      BY <1>1, <2>3, <2>4 DEF TakeFrame, DATA, ACK
    <3> QED
      BY <3>1 DEF Completed
  <2>5. CASE recvFrames[1].type # ACK
    <3>1. /\ reconstructFrames' = Append(reconstructFrames, recvFrames[1])
          /\ complete' = recvFrames[1].end
      BY <1>1, <2>5, FrontTaken
    <3> DEFINE x == recvFrames[1]
    <3> HIDE DEF x
    <3>2. x \in Format /\ reconstructFrames' = Append(reconstructFrames, x) /\ complete' = x.end
      BY <2>3, <3>1 DEF x
    <3>3. reconstructFrames' # <<>> /\ reconstructFrames'[Len(reconstructFrames')] = x
      BY <2>1, <3>2
    <3> QED
      BY <3>2, <3>3 DEF Completed
  <2> QED
    BY <2>4, <2>5
<1>2. CASE ToNetworkLayer
  BY <1>2 DEF ToNetworkLayer, Completed
<1>3. CASE ~TakeFrame /\ ~ToNetworkLayer
  <2>1. UNCHANGED <<reconstructFrames, complete>>
    BY <1>3 DEF Next, FromApplicationLayer, MakeFrames, SendAck, SendAFrame, ReceiveFrames,
                FromDataLinkLayer, vars
  <2> QED
    BY <2>1 DEF Completed
<1> QED
  BY <1>1, <1>2, <1>3

LEMMA TakeInOrder ==
  ASSUME Inv, FrontRead, Completed, PacketsOrdered, TakeFrame
  PROVE  PacketsOrdered'
<1>0. TypeOK /\ OneInFlight
  BY DEF Inv
<1>t. ready \in Seq(Frame) /\ recvFrames \in Seq(Format) /\ reconstructFrames \in Seq(Format)
  BY <1>0, TypeOKIs
<1>1. /\ ~ (reconstructFrames # <<>> /\ reconstructFrames[Len(reconstructFrames)].end)
      /\ recvFrames # <<>>
      /\ UNCHANGED <<message, given, packets, buildBuffer>>
  BY DEF TakeFrame, Completed
<1>2. Head(recvFrames) = recvFrames[1] /\ recvFrames[1] \in Format /\ 1 \in DOMAIN recvFrames
  BY <1>t, <1>1
<1>3. WholePackets' = WholePackets /\ (Text' <=> Text)
  BY <1>1 DEF WholePackets, Text
<1>4. CASE recvFrames[1].type = ACK
  <2>1. UNCHANGED <<reconstructFrames, ready>>
    BY <1>2, <1>4 DEF TakeFrame, DATA, ACK
  <2> QED
    BY <1>1, <2>1, OrderKept
<1>5. CASE recvFrames[1].type # ACK
  <2> DEFINE x == recvFrames[1]
  <2>1. x.type = DATA
    BY <1>2, <1>5 DEF Format
  <2>2. reconstructFrames' = Append(reconstructFrames, x) /\ ready' = Tail(ready)
    BY <1>5, FrontTaken
  <2>3. Like(x, ready[1])
    BY <1>2, <2>1 DEF FrontRead
  <2>4. ready # <<>>
    <3>1. inFlight
      BY <2>1, Taken, TakeFrame DEF DATA, ACK
    <3> QED
      BY <1>0, <3>1 DEF OneInFlight
  <2> HIDE DEF x
  <2>5. x \in Format
    BY <1>2 DEF x
  <2>6. PICK j \in 0 .. Len(WholePackets) :
          /\ Stream(WholePackets, j, reconstructFrames, ready, packets)
          /\ Text => Held(WholePackets, j, buildBuffer)
    BY <2>4 DEF PacketsOrdered
  <2>7. WholePackets \in Seq(Packet)
    BY <1>0, WholePacketsAre
  <2>8. Stream(WholePackets, j, Append(reconstructFrames, x), Tail(ready), packets)
    BY <1>t, <1>1, <2>3, <2>4, <2>5, <2>6, <2>7, StreamTakes
  <2>9. given'
    BY <1>1, <2>4 DEF PacketsOrdered
  <2> QED
    BY <1>1, <1>3, <2>2, <2>6, <2>8, <2>9 DEF PacketsOrdered
<1> QED
  BY <1>4, <1>5

\* The packet that ToNetworkLayer reads, and that it was the last one of a message.
LEMMA AssembleInOrder ==
  ASSUME Inv, Completed, PacketsOrdered, ToNetworkLayer
  PROVE  PacketsOrdered' /\ (Text => UNCHANGED arrived)
<1>0. TypeOK
  BY DEF Inv
<1>t. reconstructFrames \in Seq(Format) /\ junk \in Byte
  BY <1>0, TypeOKIs, JunkAssumption
<1> DEFINE P == WholePackets
           pload == FlattenSeq([i \in DOMAIN reconstructFrames |-> reconstructFrames[i].payload])
           memory == Block(pload, Len(pload), junk)
<1>1. /\ reconstructFrames # <<>> /\ reconstructFrames[Len(reconstructFrames)].end
      /\ UNCHANGED <<message, given, packets, ready>> /\ reconstructFrames' = <<>>
  BY DEF ToNetworkLayer, Completed
<1>2. \/ Readable(memory) /\ buildBuffer' = Append(buildBuffer, Unserialize(memory, junk)) /\ UNCHANGED arrived
      \/ ~Readable(memory) /\ UNCHANGED buildBuffer
  BY DEF ToNetworkLayer
<1>3. WholePackets' = P /\ (Text' <=> Text)
  BY <1>1 DEF WholePackets, Text
<1>4. P \in Seq(Packet) /\ \A i \in 1 .. Len(P) : Text => P[i].payload \in Seq(Letter)
  BY <1>0, WholePacketsAre
<1> HIDE DEF P, pload, memory
<1>5. PICK j \in 0 .. Len(P) :
        /\ Stream(P, j, reconstructFrames, ready, packets)
        /\ Text => Held(P, j, buildBuffer)
  BY <1>1 DEF PacketsOrdered, P
<1>6. /\ j < Len(P) /\ Stream(P, j + 1, <<>>, ready, packets)
      /\ \E k \in 0 .. MAX_SEQ : LikeAll(reconstructFrames, Frames(P[j + 1], k))
  BY <1>t, <1>1, <1>4, <1>5, StreamComplete
<1>7. j \in Nat /\ Len(P) \in Nat /\ j + 1 \in 1 .. Len(P) /\ j + 1 \in 0 .. Len(P)
  BY <1>4, <1>6
<1>8. ASSUME Text
      PROVE  UNCHANGED arrived /\ Held(P, j + 1, buildBuffer')
  <2>1. P[j + 1] \in Packet /\ P[j + 1].payload \in Seq(Letter)
    BY <1>4, <1>7, <1>8
  <2>2. PICK k \in 0 .. MAX_SEQ : LikeAll(reconstructFrames, Frames(P[j + 1], k))
    BY <1>6
  <2>3. Readable(memory) /\ Unserialize(memory, junk) = P[j + 1]
    BY <1>t, <2>1, <2>2, PacketAssembled DEF memory, pload
  <2>4. buildBuffer = SubSeq(P, 1, j)
    BY <1>5, <1>6, <1>7, <1>8 DEF Held
  <2>5. Append(SubSeq(P, 1, j), P[j + 1]) = SubSeq(P, 1, j + 1)
    BY <1>4, <1>7
  <2> QED
    BY <1>2, <2>3, <2>4, <2>5 DEF Held
<1>9. PacketsOrdered'
  <2>1. given'
    BY <1>1 DEF PacketsOrdered
  <2>2. /\ Stream(P, j + 1, reconstructFrames', ready', packets')
        /\ Text' => Held(P, j + 1, buildBuffer')
    BY <1>1, <1>3, <1>6, <1>8
  <2> QED
    BY <1>3, <1>7, <2>1, <2>2 DEF PacketsOrdered
<1> QED
  BY <1>8, <1>9

\* The packets that FromDataLinkLayer takes of a text are all the packets.
LEMMA TakenWhole ==
  ASSUME Inv, PacketsOrdered, FromDataLinkLayer
  PROVE  PacketsOrdered' /\ (Text => buildBuffer = WholePackets)
<1>0. TypeOK
  BY DEF Inv
<1> DEFINE P == WholePackets
<1>1. /\ buildBuffer # <<>> /\ buildBuffer[Len(buildBuffer)].end /\ buildBuffer' = <<>>
      /\ UNCHANGED <<message, given, packets, ready, reconstructFrames>>
  BY DEF FromDataLinkLayer
<1>3. WholePackets' = P /\ (Text' <=> Text)
  BY <1>1 DEF WholePackets, Text
<1>4. P \in Seq(Packet) /\ Len(P) \in Nat /\ \A i \in 1 .. Len(P) : P[i].end <=> i = Len(P)
  BY <1>0, WholePacketsAre
<1> HIDE DEF P
<1>5. given /\ \E j \in 0 .. Len(P) :
        /\ Stream(P, j, reconstructFrames, ready, packets)
        /\ Text => Held(P, j, buildBuffer)
  BY <1>1 DEF PacketsOrdered, P
<1>6. PICK j \in 0 .. Len(P) :
        /\ Stream(P, j, reconstructFrames, ready, packets)
        /\ Text => Held(P, j, buildBuffer)
  BY <1>5
<1>7. ASSUME Text PROVE j = Len(P) /\ buildBuffer = P
  <2>1. buildBuffer = SubSeq(P, 1, j)
    BY <1>1, <1>6, <1>7 DEF Held
  <2>2. j \in Nat /\ j # 0
    BY <1>1, <1>4, <2>1
  <2>3. Len(SubSeq(P, 1, j)) = j /\ SubSeq(P, 1, j)[j] = P[j] /\ j \in 1 .. Len(P)
    BY <1>4, <2>2
  <2>4. P[j].end
    BY <1>1, <2>1, <2>3
  <2>5. j = Len(P)
    BY <1>4, <2>3, <2>4
  <2>6. SubSeq(P, 1, Len(P)) = P
    BY <1>4
  <2> QED
    BY <2>1, <2>5, <2>6
<1>8. PacketsOrdered'
  <2>1. Stream(P, j, reconstructFrames', ready', packets')
    BY <1>1, <1>6
  <2>2. Text' => Held(P, j, buildBuffer')
    BY <1>1, <1>3, <1>7 DEF Held
  <2> QED
    BY <1>1, <1>3, <1>5, <2>1, <2>2 DEF PacketsOrdered
<1> QED
  BY <1>7, <1>8 DEF P

LEMMA PacketsOrderedStep ==
  ASSUME Inv, FrontRead, Completed, PacketsOrdered, [Next]_vars
  PROVE  PacketsOrdered'
<1>0. TypeOK
  BY DEF Inv
<1>1. CASE FromApplicationLayer
  <2>1. /\ ~given /\ given' /\ packets' = WholePackets
        /\ UNCHANGED <<message, ready, reconstructFrames, buildBuffer>>
    BY <1>1 DEF FromApplicationLayer, WholePackets
  <2>2. WholePackets' = WholePackets
    BY <2>1 DEF WholePackets
  <2>3. ready = <<>> /\ reconstructFrames = <<>> /\ buildBuffer = <<>>
    BY <2>1 DEF PacketsOrdered
  <2>4. /\ Stream(WholePackets, 0, <<>>, <<>>, WholePackets) /\ Held(WholePackets, 0, <<>>)
        /\ 0 \in 0 .. Len(WholePackets)
    BY <1>0, WholePacketsAre, StreamBegins
  <2> QED
    BY <2>1, <2>2, <2>3, <2>4 DEF PacketsOrdered
<1>2. CASE MakeFrames
  <2>1. /\ packets # <<>> /\ ready = <<>> /\ nextSend \in 0 .. MAX_SEQ
        /\ ready' = Frames(Head(packets), nextSend) /\ packets' = Tail(packets)
        /\ UNCHANGED <<message, given, reconstructFrames, buildBuffer>>
    BY <1>0, <1>2, TypeOKIs DEF MakeFrames
  <2>2. WholePackets' = WholePackets /\ (Text' <=> Text)
    BY <2>1 DEF WholePackets, Text
  <2>3. given /\ \E j \in 0 .. Len(WholePackets) :
          /\ Stream(WholePackets, j, reconstructFrames, ready, packets)
          /\ Text => Held(WholePackets, j, buildBuffer)
    BY <2>1 DEF PacketsOrdered
  <2>4. PICK j \in 0 .. Len(WholePackets) :
          /\ Stream(WholePackets, j, reconstructFrames, <<>>, packets)
          /\ Text => Held(WholePackets, j, buildBuffer)
    BY <2>1, <2>3
  <2>5. Stream(WholePackets, j, reconstructFrames, ready', packets')
    BY <1>0, <2>1, <2>4, WholePacketsAre, StreamMakes
  <2> QED
    BY <2>1, <2>2, <2>3, <2>4, <2>5 DEF PacketsOrdered
<1>3. CASE SendAck \/ SendAFrame \/ ReceiveFrames \/ UNCHANGED vars
  <2>1. UNCHANGED <<message, given, packets, ready, reconstructFrames, buildBuffer>>
    BY <1>3 DEF SendAck, SendAFrame, ReceiveFrames, vars
  <2> QED
    BY <2>1, OrderKept
<1> QED
  BY <1>1, <1>2, <1>3, TakeInOrder, AssembleInOrder, TakenWhole DEF Next

\* What was taken for a frame once stays so.
LEMMA TornStays ==
  ASSUME Inv, [Next]_vars, ~last'.torn
  PROVE  ~last.torn
<1>1. CASE ReceiveFrames
  BY <1>1, Received
<1>2. CASE ~ReceiveFrames
  <2>1. last' = last
    BY <1>2 DEF Next, FromApplicationLayer, MakeFrames, SendAck, SendAFrame, TakeFrame,
                ToNetworkLayer, FromDataLinkLayer, vars
  <2> QED
    BY <2>1
<1> QED
  BY <1>1, <1>2

LEMMA InOrderStep ==
  ASSUME Inv, InOrder, [Next]_vars
  PROVE  InOrder'
<1>1. OnWay'
  BY OnWayStep DEF InOrder
<1>2. ASSUME ~last'.torn PROVE FrontRead' /\ Completed' /\ PacketsOrdered'
  BY <1>2, TornStays, FrontReadStep, CompletedStep, PacketsOrderedStep DEF InOrder
<1> QED
  BY <1>1, <1>2 DEF InOrder

LEMMA InOrderImplies ==
  ASSUME Inv, InOrder
  PROVE  PacketsReadAsSent
<1> SUFFICES ASSUME ~last.torn
             PROVE  /\ Len(reconstructFrames) <= 2
                    /\ Text => IsPrefix(buildBuffer, WholePackets)
  BY DEF PacketsReadAsSent, Text
<1> DEFINE P == WholePackets
<1>1. P \in Seq(Packet) /\ Len(P) \in Nat
  BY WholePacketsAre DEF Inv
<1>2. PacketsOrdered
  BY DEF InOrder
<1> HIDE DEF P
<1>3. \A j \in 0 .. Len(P) : IsPrefix(SubSeq(P, 1, j), P)
  BY <1>1 DEF IsPrefix
<1>4. IsPrefix(<<>>, P) /\ Len(<<>>) <= 2
  <2>1. SubSeq(P, 1, 0) = <<>> /\ 0 \in 0 .. Len(P) /\ Len(<<>>) <= 2
    BY <1>1
  <2> QED
    BY <1>3, <2>1
<1>5. CASE ~given
  BY <1>2, <1>4, <1>5 DEF PacketsOrdered, P
<1>6. CASE given
  <2>1. PICK j \in 0 .. Len(P) :
          /\ Stream(P, j, reconstructFrames, ready, packets)
          /\ Text => Held(P, j, buildBuffer)
    BY <1>2, <1>6 DEF PacketsOrdered, P
  <2>2. Len(reconstructFrames) <= 2
    BY <1>1, <2>1, StreamShort
  <2> QED
    BY <1>3, <1>4, <2>1, <2>2 DEF Held, P
<1> QED
  BY <1>5, <1>6

-----------------------------------------------------------------------------
(* How Message::unserialize reads a text of one packet.                    *)

\* The header of a text: eighteen zeros, and the other four digits of its length.
Header(s, n) ==
  /\ \A i \in 1 .. 18 : s[i] = 48
  /\ s[19] \in Digit /\ s[20] \in Digit /\ s[21] \in Digit /\ s[22] \in Digit
  /\ n = Four(s[19], s[20], s[21], s[22])

\* What four digits say.
Short(n) == n <= 9999

\* A number of four digits fits a short.
LEMMA AsShortIs ==
  ASSUME NEW n \in Nat, n <= 9999
  PROVE  AsShort(n) = n
<1> DEFINE h == 32768
           w == 65536
<1>1. h \in Nat /\ w \in Nat /\ 9999 + h < w
  OBVIOUS
<1> HIDE DEF h, w
<1>2. n + h \in Nat /\ n + h < w
  BY <1>1
<1>3. \A a \in Nat, b \in Nat : a < b => a % b = a
  OBVIOUS
<1>4. (n + h) % w = n + h
  BY <1>1, <1>2, <1>3
<1>5. (n + h) - h = n
  BY <1>1
<1>6. AsShort(n) = ((n + h) % w) - h
  BY DEF AsShort, h, w
<1> QED
  BY <1>4, <1>5, <1>6

LEMMA FourShort ==
  ASSUME NEW a \in Digit, NEW b \in Digit, NEW c \in Digit, NEW d \in Digit
  PROVE  Four(a, b, c, d) <= 9999
BY DEF Digit, Four

\* A string that begins with a text's header and the text c is read as c.
LEMMA TextRead ==
  ASSUME NEW str \in Seq(Byte), NEW c \in Seq(Byte), c # <<>>, c[1] \notin Digit,
         22 + Len(c) <= Len(str), Header(str, Len(c)),
         \A i \in 1 .. Len(c) : str[22 + i] = c[i]
  PROVE  /\ MessageReadable(str)
         /\ unserialize(str).cmd = c /\ unserialize(str).size = 0
         /\ InRange(str, MESSAGE_HEAD + strSizeRead(str) + contentSizeRead(str))
<1> DEFINE n == Len(c)
           l == Len(str)
<1>1. n \in Nat /\ l \in Nat /\ 1 <= n /\ 22 + n <= l
  OBVIOUS
<1>h. /\ \A i \in 1 .. 18 : str[i] = 48
      /\ str[19] \in Digit /\ str[20] \in Digit /\ str[21] \in Digit /\ str[22] \in Digit
      /\ n = Four(str[19], str[20], str[21], str[22])
  BY DEF Header
<1>c. str[23] = c[1]
  <2>1. 1 \in 1 .. n /\ 22 + 1 = 23
    BY <1>1
  <2> QED
    BY <2>1, Zenon
<1>s. n <= 9999
  <2> DEFINE q == 9999
  <2>1. \A a \in Digit, b \in Digit, c3 \in Digit, d \in Digit : Four(a, b, c3, d) <= q
    BY FourShort
  <2> HIDE DEF n, q
  <2>2. n <= q
    BY <1>h, <2>1, Zenon
  <2> QED
    BY <2>2 DEF q
<1>2. strSizeRead(str) = n
  <2> DEFINE t == substr(str, 18, 5)
  <2>1. 18 \in Nat /\ 5 \in Nat /\ 18 + 5 <= l
    <3> HIDE DEF n, l
    <3> QED
      BY <1>1
  <2>2. t \in Seq(Byte) /\ Len(t) = 5 /\ \A i \in 1 .. 5 : t[i] = str[18 + i]
    <3> DEFINE p == 18
               q == 5
    <3>1. p \in Nat /\ q \in Nat /\ p + q <= Len(str)
      BY <2>1 DEF l
    <3> HIDE DEF p, q
    <3>2. /\ substr(str, p, q) \in Seq(Byte) /\ Len(substr(str, p, q)) = q
          /\ \A i \in 1 .. q : substr(str, p, q)[i] = str[p + i]
      BY <3>1, substrAt
    <3> QED
      BY <3>2, Zenon DEF p, q
  <2> HIDE DEF n, l, t
  <2>3. t[1] = str[19] /\ t[2] = str[20] /\ t[3] = str[21] /\ t[4] = str[22] /\ t[5] = str[23]
    <3>1. \A i \in 1 .. 5 : t[i] = str[18 + i]
      BY <2>2
    <3> QED
      BY <3>1
  <2>4. \A i \in 1 .. 4 : t[i] \in Digit
    <3>1. \A i \in 1 .. 4 : i = 1 \/ i = 2 \/ i = 3 \/ i = 4
      OBVIOUS
    <3> QED
      BY <1>h, <2>3, <3>1, Zenon
  <2>5. t[4 + 1] \notin Digit
    <3>1. 4 + 1 = 5
      OBVIOUS
    <3> QED
      BY <1>c, <2>3, <3>1, Zenon
  <2>6. 4 \in 1 .. Len(t)
    <3>1. 4 \in 1 .. 5
      OBVIOUS
    <3> QED
      BY <2>2, <3>1, Zenon
  <2>7. atoi(t) = Value(t, 4)
    <3> DEFINE q == 4
    <3>1. q \in 1 .. Len(t) /\ (\A i \in 1 .. q : t[i] \in Digit) /\ t[q + 1] \notin Digit
      BY <2>4, <2>5, <2>6, Zenon
    <3> HIDE DEF q
    <3>2. atoi(t) = Value(t, q)
      BY <2>2, <3>1, atoiIs
    <3> QED
      BY <3>2 DEF q
  <2>8. str[19] \in Int /\ str[20] \in Int /\ str[21] \in Int /\ str[22] \in Int
    <3>1. \A x \in Digit : x \in Int
      BY DEF Digit
    <3> QED
      BY <1>h, <3>1, Zenon
  <2>9. Value(t, 4) = Four(str[19], str[20], str[21], str[22])
    <3> DEFINE a == str[19]
               b == str[20]
               c4 == str[21]
               d == str[22]
    <3>1. /\ a \in Int /\ b \in Int /\ c4 \in Int /\ d \in Int
          /\ t[1] = a /\ t[2] = b /\ t[3] = c4 /\ t[4] = d
      BY <2>3, <2>8, Zenon
    <3> HIDE DEF a, b, c4, d
    <3>2. Value(t, 4) = Four(a, b, c4, d)
      BY <3>1, ValueOfFour
    <3> QED
      BY <3>2, Zenon DEF a, b, c4, d
  <2> QED
    <3>1. atoi(t) = n
      BY <1>h, <2>7, <2>9, Zenon
    <3> QED
      <4>1. strSizeRead(str) = AsShort(n)
        BY <3>1, Zenon DEF strSizeRead, t
      <4>2. AsShort(n) = n
        BY <1>1, <1>s, AsShortIs
      <4> QED
        BY <4>1, <4>2, Zenon
<1>3. contentSizeRead(str) = 0
  <2> DEFINE t == substr(str, 1, 17)
  <2>1. 1 \in Nat /\ 17 \in Nat /\ 1 + 17 <= l
    <3> HIDE DEF n, l
    <3> QED
      BY <1>1
  <2>2. t \in Seq(Byte) /\ Len(t) = 17 /\ \A i \in 1 .. 17 : t[i] = str[1 + i]
    <3> DEFINE p == 1
               q == 17
    <3>1. p \in Nat /\ q \in Nat /\ p + q <= Len(str)
      BY <2>1 DEF l
    <3> HIDE DEF p, q
    <3>2. /\ substr(str, p, q) \in Seq(Byte) /\ Len(substr(str, p, q)) = q
          /\ \A i \in 1 .. q : substr(str, p, q)[i] = str[p + i]
      BY <3>1, substrAt
    <3> QED
      BY <3>2, Zenon DEF p, q
  <2> HIDE DEF n, l, t
  <2>3. \A i \in 1 .. 17 : t[i] = 48
    <3>1. /\ \A i \in 1 .. 17 : t[i] = str[1 + i]
          /\ \A i \in 1 .. 18 : str[i] = 48
      BY <1>h, <2>2
    <3> SUFFICES ASSUME NEW i \in 1 .. 17 PROVE t[i] = 48
      OBVIOUS
    <3>2. t[i] = str[1 + i]
      BY <3>1
    <3>3. 1 + i \in 1 .. 18
      OBVIOUS
    <3> QED
      BY <3>1, <3>2, <3>3
  <2>4. 48 \in Digit /\ 17 \in 1 .. 17
    BY DEF Digit
  <2>6. 17 \in 1 .. Len(t) /\ 17 = Len(t) /\ \A i \in 1 .. 17 : t[i] \in Digit
    BY <2>2, <2>3, <2>4, Zenon
  <2> DEFINE q == 17
  <2>7. /\ q \in Nat /\ q \in 1 .. Len(t) /\ q = Len(t)
        /\ \A i \in 1 .. q : t[i] = 48 /\ t[i] \in Digit
    BY <2>1, <2>3, <2>6
  <2> HIDE DEF q
  <2>8. atoi(t) = Value(t, q)
    BY <2>2, <2>7, atoiIs
  <2>9. Value(t, q) = 0
    BY <2>7, ValueOfZeros
  <2> QED
    BY <2>8, <2>9, Zenon DEF contentSizeRead, t
<1>4. substr(str, 22, n) = c
  <2>1. 22 \in Nat
    OBVIOUS
  <2> QED
    BY <2>1, substrIs
<1>5. unserialize(str).cmd = c /\ unserialize(str).size = 0
  <2> HIDE DEF n
  <2>1. CharsTaken(str, 22, n) = substr(str, 22, n)
    BY <1>1 DEF CharsTaken
  <2> QED
    BY <1>2, <1>3, <1>4, <2>1 DEF unserialize, MESSAGE_HEAD
<1> HIDE DEF n, l
<1>6. 22 <= l /\ 22 + n <= l /\ 22 + n + 0 <= l /\ 22 + n >= 0
  BY <1>1
<1>7. MessageReadable(str) /\ InRange(str, MESSAGE_HEAD + strSizeRead(str) + contentSizeRead(str))
  BY <1>2, <1>3, <1>6, Zenon DEF MessageReadable, InRange, MESSAGE_HEAD, l
<1> QED
  BY <1>5, <1>7

\* A text of less than ten thousand bytes, with its header.
LEMMA TextHeader ==
  ASSUME NEW m \in Messages, m.content = <<>>, Short(Len(m.cmd))
  PROVE  /\ serialize(m) \in Seq(Letter) /\ Len(serialize(m)) = 22 + Len(m.cmd)
         /\ Header(serialize(m), Len(m.cmd))
         /\ \A i \in 1 .. Len(m.cmd) : serialize(m)[22 + i] = m.cmd[i]
<1> DEFINE n == Len(m.cmd)
           c == m.cmd
           a == Digits(0, 17)
           d == itoa(n)
           ad == a \o d
           s == ad \o c
<1>1. n \in Nat /\ c \in Seq(Byte)
  <2>1. m.cmd \in Seq(Byte \ {NUL})
    BY MessagesAssumption
  <2> QED
    BY <2>1
<1>2. a \in Seq(Digit) /\ Len(a) = 17 /\ \A i \in 1 .. 17 : a[i] = 48
  <2>1. 17 \in Nat
    OBVIOUS
  <2> QED
    BY <2>1, ZeroDigits, Zenon
<1> HIDE DEF n, c
<1>s. n <= 9999
  BY DEF Short, n
<1>3. n \in 0 .. MAX_SEQ
  <2>1. 9999 <= MAX_SEQ
    BY SMT DEF MAX_SEQ
  <2> QED
    BY <1>1, <1>s, <2>1, MaxSeq
<1>d. d \in Seq(Digit) /\ Len(d) = 5
  BY <1>3, itoaDigits
<1>4. n = 10000 * (d[1] - 48) + 1000 * (d[2] - 48) + 100 * (d[3] - 48) + 10 * (d[4] - 48) + (d[5] - 48)
  BY <1>3, itoaDigits
<1>5. d[1] \in Digit /\ d[2] \in Digit /\ d[3] \in Digit /\ d[4] \in Digit /\ d[5] \in Digit
  BY <1>d, FiveOf
<1> HIDE DEF d, a
<1>6. d[1] = 48 /\ n = Four(d[2], d[3], d[4], d[5])
  <2> DEFINE d1 == d[1]
             d2 == d[2]
             d3 == d[3]
             d4 == d[4]
             d5 == d[5]
  <2>1. d1 \in 48 .. 57 /\ d2 \in 48 .. 57 /\ d3 \in 48 .. 57 /\ d4 \in 48 .. 57 /\ d5 \in 48 .. 57
    BY <1>5 DEF Digit
  <2>2. n = 10000 * (d1 - 48) + 1000 * (d2 - 48) + 100 * (d3 - 48) + 10 * (d4 - 48) + (d5 - 48)
    BY <1>4
  <2> HIDE DEF d1, d2, d3, d4, d5
  <2>3. d1 \in Int /\ d2 \in Int /\ d3 \in Int /\ d4 \in Int /\ d5 \in Int /\ d1 >= 48
        /\ d2 >= 48 /\ d3 >= 48 /\ d4 >= 48 /\ d5 >= 48
    BY <2>1
  <2>4. d1 = 48
    BY <1>1, <1>s, <2>2, <2>3, SMT
  <2>5. n = 1000 * (d2 - 48) + 100 * (d3 - 48) + 10 * (d4 - 48) + (d5 - 48)
    BY <2>2, <2>3, <2>4, SMT
  <2> QED
    BY <2>4, <2>5 DEF d1, d2, d3, d4, d5, Four
<1>7. Digit \subseteq Byte
  BY DEF Digit, Byte
<1>8. ad \in Seq(Digit) /\ IsConcat(ad, a, d, 17, 5)
  <2>1. a \o d \in Seq(Digit) /\ IsConcat(a \o d, a, d, Len(a), Len(d))
    BY <1>2, <1>d, ConcatIs
  <2> QED
    BY <1>2, <1>d, <2>1, Zenon
<1> HIDE DEF ad
<1>9. /\ Len(ad) = 22 /\ (\A i \in 1 .. 17 : ad[i] = 48)
      /\ \A i \in 1 .. 5 : ad[17 + i] = d[i]
  <2>1. 17 + 5 = 22
    OBVIOUS
  <2> QED
    BY <1>2, <1>8, <2>1, Zenon DEF IsConcat
<1>10. ad[18] = 48 /\ ad[19] = d[2] /\ ad[20] = d[3] /\ ad[21] = d[4] /\ ad[22] = d[5]
  <2>1. \A i \in 1 .. 5 : ad[17 + i] = d[i]
    BY <1>9
  <2>2. ad[18] = d[1] /\ ad[19] = d[2] /\ ad[20] = d[3] /\ ad[21] = d[4] /\ ad[22] = d[5]
    BY <2>1
  <2> QED
    BY <1>6, <2>2
<1>11. ad \in Seq(Byte)
  BY <1>7, <1>8
<1>12. s \in Seq(Byte) /\ IsConcat(s, ad, c, 22, n)
  <2>1. ad \o c \in Seq(Byte) /\ IsConcat(ad \o c, ad, c, Len(ad), Len(c))
    BY <1>1, <1>11, ConcatIs
  <2> QED
    BY <1>9, <2>1, Zenon DEF n, c
<1> HIDE DEF s
<1>13. Len(s) = 22 + n /\ (\A i \in 1 .. 22 : s[i] = ad[i]) /\ \A i \in 1 .. n : s[22 + i] = c[i]
  BY <1>12, Zenon DEF IsConcat
<1>14. Header(s, n)
  <2>1. \A i \in 1 .. 18 : i \in 1 .. 22 /\ (i = 18 \/ i \in 1 .. 17)
    OBVIOUS
  <2>2. \A i \in 1 .. 18 : s[i] = 48
    <3> SUFFICES ASSUME NEW i \in 1 .. 18 PROVE s[i] = 48
      OBVIOUS
    <3>1. s[i] = ad[i]
      BY <1>13, <2>1, Zenon
    <3>2. CASE i = 18
      BY <1>10, <3>1, <3>2, Zenon
    <3>3. CASE i \in 1 .. 17
      BY <1>9, <3>1, <3>3, Zenon
    <3> QED
      BY <2>1, <3>2, <3>3, Zenon
  <2>3. 19 \in 1 .. 22 /\ 20 \in 1 .. 22 /\ 21 \in 1 .. 22 /\ 22 \in 1 .. 22
    OBVIOUS
  <2>4. s[19] = d[2] /\ s[20] = d[3] /\ s[21] = d[4] /\ s[22] = d[5]
    BY <1>10, <1>13, <2>3, Zenon
  <2> QED
    BY <1>5, <1>6, <2>2, <2>4, Zenon DEF Header
<1>15. serialize(m) = s
  <2>1. Len(m.content) = 0
    OBVIOUS
  <2>2. serialize(m) = ((a \o d) \o c) \o <<>>
    BY <2>1, Zenon DEF serialize, ltoa, a, d, c, n
  <2>3. s \o <<>> = s
    BY <1>12
  <2> QED
    BY <2>2, <2>3, Zenon DEF s, ad
<1>16. serialize(m) \in Seq(Letter)
  <2>1. NUL \notin ToSet(m.content)
    BY DEF ToSet
  <2> QED
    BY <2>1, serializeClean
<1> QED
  BY <1>13, <1>14, <1>15, <1>16, Zenon DEF n, c

\* One packet in Assemble's block.
LEMMA AssembledOne ==
  ASSUME NEW b \in Seq(Format), Len(b) = 1, NEW fill \in Byte, Len(b[1].payload) <= MAX_PACKET
  PROVE  /\ Assembled(b, fill) \in Seq(Byte) /\ Len(b[1].payload) <= Len(Assembled(b, fill))
         /\ \A i \in 1 .. Len(b[1].payload) : Assembled(b, fill)[i] = b[1].payload[i]
<1> DEFINE n == Len(b)
           copied == (n + 1) \div 2
           at(i) == LET p == (i \div MAX_PACKET) + 1
                        o == (i % MAX_PACKET) + 1
                    IN  IF p <= copied /\ o <= Len(b[p].payload) THEN b[p].payload[o] ELSE fill
           f == [i \in 1 .. n * MAX_PACKET |-> at(i - 1)]
           s == b[1].payload
           l == Len(s)
           block == [i \in 1 .. MAX_PACKET |-> IF i <= l THEN s[i] ELSE fill]
<1>1. Assembled(b, fill) = Block(f, n * MAX_PACKET, fill)
  BY DEF Assembled
<1>2. n = 1
  OBVIOUS
<1>3. s \in Seq(Byte) /\ l \in Nat /\ l <= MAX_PACKET
  <2>1. b[1] \in Format
    BY OfOne
  <2> QED
    BY <2>1 DEF Format
<1> HIDE DEF n
<1>4. n * MAX_PACKET = MAX_PACKET /\ copied = 1
  BY <1>2 DEF MAX_PACKET
<1> HIDE DEF copied
<1>5. ASSUME NEW i \in 1 .. MAX_PACKET PROVE at(i - 1) = IF i <= l THEN s[i] ELSE fill
  <2>1. ((i - 1) \div MAX_PACKET) + 1 = 1 /\ ((i - 1) % MAX_PACKET) + 1 = i
    BY DEF MAX_PACKET
  <2>2. 1 <= 1
    OBVIOUS
  <2> QED
    BY <1>4, <2>1, <2>2, Zenon
<1> HIDE DEF at
<1>6. f = block
  BY <1>4, <1>5, Zenon
<1> HIDE DEF f, s, l
<1>7. \A i \in 1 .. l : s[i] \in Byte
  BY <1>3 DEF l
<1>8. block \in Seq(Byte) /\ Len(block) = MAX_PACKET /\ \A i \in 1 .. l : block[i] = s[i]
  <2>1. MAX_PACKET \in Nat
    BY DEF MAX_PACKET
  <2>2. \A i \in 1 .. MAX_PACKET : i <= l => i \in 1 .. l
    BY <1>3
  <2>3. \A i \in 1 .. l : i \in 1 .. MAX_PACKET /\ i <= l
    BY <1>3, <2>1
  <2> QED
    BY <1>7, <2>1, <2>2, <2>3
<1> DEFINE d == Block(block, MAX_PACKET, fill)
<1> HIDE DEF block
<1>9. d \in Seq(Byte) /\ Len(d) = MAX_PACKET + 2 /\ \A i \in 1 .. MAX_PACKET : d[i] = block[i]
  <2>1. MAX_PACKET \in Nat
    BY DEF MAX_PACKET
  <2>2. Len(block) <= MAX_PACKET
    BY <1>8, <2>1
  <2> QED
    BY <1>8, <2>1, <2>2, BlockIs
<1>10. Assembled(b, fill) = d
  BY <1>1, <1>4, <1>6, Zenon
<1> HIDE DEF d
<1>11. l <= Len(d) /\ \A i \in 1 .. l : d[i] = s[i]
  <2>1. MAX_PACKET \in Nat
    BY DEF MAX_PACKET
  <2>2. l <= MAX_PACKET + 2 /\ \A i \in 1 .. l : i \in 1 .. MAX_PACKET
    BY <1>3, <2>1
  <2> QED
    BY <1>8, <1>9, <2>2
<1> QED
  BY <1>9, <1>10, <1>11 DEF l, s

LEMMA serializeLonger ==
  ASSUME NEW m \in Messages
  PROVE  Len(m.cmd) <= Len(serialize(m))
<1> DEFINE x == ltoa(Len(m.content)) \o itoa(Len(m.cmd))
           c == m.cmd
           t == m.content
<1>1. c \in Seq(Byte) /\ t \in Seq(Byte)
  BY MessagesAssumption
<1>2. x \in Seq(Byte)
  <2>1. Len(m.cmd) \in Nat /\ Len(m.content) \in Nat /\ 17 \in Nat /\ 5 \in Nat
    BY <1>1
  <2>2. Len(m.cmd) % (MAX_SEQ + 1) \in Nat
    <3>1. \A n \in Nat : n % (MAX_SEQ + 1) \in Nat
      BY SMT DEF MAX_SEQ
    <3> QED
      BY <2>1, <3>1
  <2>3. ltoa(Len(m.content)) \in Seq(Byte) /\ itoa(Len(m.cmd)) \in Seq(Byte)
    BY <2>1, <2>2, DigitsTyped DEF ltoa, itoa
  <2> QED
    BY <2>3
<1>3. serialize(m) = (x \o c) \o t
  BY DEF serialize
<1> HIDE DEF x, c, t
<1>4. Len((x \o c) \o t) = Len(x) + Len(c) + Len(t) /\ Len(x) \in Nat /\ Len(c) \in Nat /\ Len(t) \in Nat
  BY <1>1, <1>2
<1>5. Len(c) <= Len((x \o c) \o t)
  BY <1>4
<1> QED
  BY <1>3, <1>5 DEF c

\* The texts that are read as they were sent.
ShortText(m) == m.content = <<>> /\ m.cmd[1] \notin Digit /\ Len(Packets(serialize(m))) = 1

\* FromDataLinkLayer on all the packets of such a text.
LEMMA TextArrives ==
  ASSUME TypeOK, ShortText(message), FromDataLinkLayer, buildBuffer = WholePackets
  PROVE  arrived'.as = "message" /\ arrived'.cmd = message.cmd /\ arrived'.size = 0
<1> DEFINE s == serialize(message)
           c == message.cmd
           P == WholePackets
           n == Len(P)
           d == Assembled(P, junk)
           str == CString(d)
<1>1. message \in Messages /\ junk \in Byte
  BY TypeOKIs, JunkAssumption
<1>2. message.content = <<>> /\ c[1] \notin Digit /\ n = 1 /\ P = Packets(s)
  BY DEF ShortText, WholePackets
<1>3. s \in Seq(Byte) /\ Len(c) <= Len(s)
  BY <1>1, serializeTyped, serializeLonger
<1>4. P \in Seq(Packet)
  BY WholePacketsAre
<1>p. /\ n = (Len(s) + MAX_PACKET - 1) \div MAX_PACKET
      /\ \A i \in 1 .. n : P[i].payload = substr(s, (i - 1) * MAX_PACKET, MAX_PACKET)
  <2> HIDE DEF s, P
  <2> QED
    BY <1>2, <1>3, PacketsAre
<1> HIDE DEF s, P, n, d, str
<1>5. Len(s) \in Nat /\ Len(s) <= MAX_PACKET
  <2>1. Len(s) \in Nat
    BY <1>3
  <2> DEFINE l == Len(s)
  <2> HIDE DEF l
  <2>2. l \in Nat /\ (l + MAX_PACKET - 1) \div MAX_PACKET = 1
    BY <1>2, <1>p, <2>1 DEF l
  <2>3. l <= MAX_PACKET
    BY <2>2 DEF MAX_PACKET
  <2> QED
    BY <2>2, <2>3 DEF l
<1>6. P[1].payload = s
  <2>1. P[1].payload = substr(s, 0, MAX_PACKET)
    <3>1. 1 \in 1 .. 1 /\ (1 - 1) * MAX_PACKET = 0
      BY DEF MAX_PACKET
    <3> QED
      BY <1>2, <1>p, <3>1, Zenon
  <2>2. substr(s, 0, MAX_PACKET) = SubSeq(s, 1, Len(s))
    <3>1. (IF 0 + MAX_PACKET < Len(s) THEN 0 + MAX_PACKET ELSE Len(s)) = Len(s) /\ 0 + 1 = 1
      BY <1>5 DEF MAX_PACKET
    <3> QED
      BY <3>1, Zenon DEF substr
  <2>3. SubSeq(s, 1, Len(s)) = s
    BY <1>3
  <2> QED
    BY <2>1, <2>2, <2>3, Zenon
<1>7. P \in Seq(Format)
  <2>1. Packet \subseteq Format
    BY DEF Packet
  <2> QED
    BY <1>4, <2>1
<1>8. d \in Seq(Byte) /\ Len(s) <= Len(d) /\ \A i \in 1 .. Len(s) : d[i] = s[i]
  <2>1. Len(P) = 1 /\ Len(P[1].payload) <= MAX_PACKET
    BY <1>2, <1>5, <1>6, Zenon DEF n
  <2>2. /\ Assembled(P, junk) \in Seq(Byte) /\ Len(P[1].payload) <= Len(Assembled(P, junk))
        /\ \A i \in 1 .. Len(P[1].payload) : Assembled(P, junk)[i] = P[1].payload[i]
    BY <1>1, <1>7, <2>1, AssembledOne, Zenon
  <2> QED
    BY <1>6, <2>2, Zenon DEF d
<1>s. Short(Len(c))
  <2>1. Len(c) \in Nat
    <3>1. c \in Seq(Byte)
      BY <1>1, MessagesAssumption
    <3> QED
      BY <3>1
  <2> DEFINE x == Len(c)
             y == Len(s)
  <2>2. x \in Nat /\ y \in Nat /\ x <= y /\ y <= MAX_PACKET
    BY <1>3, <1>5, <2>1
  <2> HIDE DEF x, y
  <2>3. x <= 9999
    BY <2>2 DEF MAX_PACKET
  <2> QED
    BY <2>3 DEF Short, x
<1>9. /\ s \in Seq(Letter) /\ Len(s) = 22 + Len(c) /\ Header(s, Len(c))
      /\ \A i \in 1 .. Len(c) : s[22 + i] = c[i]
  BY <1>1, <1>2, <1>s, TextHeader DEF s
<1>10. /\ str \in Seq(Byte) /\ Len(s) <= Len(str)
       /\ \A i \in 1 .. Len(s) : str[i] = s[i]
  <2>1. Len(s) \in 0 .. Len(d)
    <3>1. Len(d) \in Nat
      BY <1>8
    <3> QED
      BY <1>5, <1>8, <3>1
  <2>2. \A i \in 1 .. Len(s) : d[i] # NUL
    <3>1. \A i \in 1 .. Len(s) : s[i] \in Letter
      BY <1>9, ElementsIn
    <3>2. NUL \notin Letter
      BY DEF Letter
    <3> QED
      BY <1>8, <3>1, <3>2, Zenon
  <2>3. CString(d) \in Seq(Byte) /\ Len(CString(d)) >= Len(s) /\ \A i \in 1 .. Len(s) : CString(d)[i] = d[i]
    BY <1>8, <2>1, <2>2, CStringIs
  <2>4. Len(CString(d)) \in Nat
    BY <2>3
  <2> DEFINE x == CString(d)
  <2> HIDE DEF x
  <2>5. x \in Seq(Byte) /\ Len(x) \in Nat /\ Len(x) >= Len(s) /\ \A i \in 1 .. Len(s) : x[i] = d[i]
    BY <2>3, <2>4 DEF x
  <2>6. Len(s) <= Len(x)
    BY <1>5, <2>5
  <2>7. \A i \in 1 .. Len(s) : x[i] = s[i]
    BY <1>8, <2>5, Zenon
  <2> QED
    BY <2>5, <2>6, <2>7, Zenon DEF str, x
<1> DEFINE k == Len(c)
<1>11. c \in Seq(Byte) /\ c # <<>> /\ k \in Nat
  <2>1. c \in Seq(Byte) /\ c # <<>>
    BY <1>1, MessagesAssumption
  <2> HIDE DEF c
  <2> QED
    BY <2>1
<1> HIDE DEF k, c
<1>12. /\ \A i \in 1 .. 22 : str[i] = s[i]
       /\ \A i \in 1 .. k : str[22 + i] = c[i]
  <2>1. \A i \in 1 .. 22 : i \in 1 .. 22 + k
    BY <1>11
  <2>2. \A i \in 1 .. k : 22 + i \in 1 .. 22 + k
    BY <1>11
  <2>3. \A i \in 1 .. 22 + k : str[i] = s[i]
    BY <1>9, <1>10, Zenon DEF k
  <2>4. \A i \in 1 .. k : s[22 + i] = c[i]
    BY <1>9, Zenon DEF k
  <2> QED
    BY <2>1, <2>2, <2>3, <2>4
<1>13. Header(str, Len(c))
  <2>1. /\ \A i \in 1 .. 18 : i \in 1 .. 22
        /\ 19 \in 1 .. 22 /\ 20 \in 1 .. 22 /\ 21 \in 1 .. 22 /\ 22 \in 1 .. 22
    OBVIOUS
  <2>2. /\ \A i \in 1 .. 18 : str[i] = s[i]
        /\ str[19] = s[19] /\ str[20] = s[20] /\ str[21] = s[21] /\ str[22] = s[22]
    BY <1>12, <2>1, Zenon
  <2> QED
    BY <1>9, <2>2, Zenon DEF Header
<1>14. 22 + Len(c) <= Len(str)
  BY <1>9, <1>10, Zenon
<1>15. /\ MessageReadable(str)
       /\ unserialize(str).cmd = c /\ unserialize(str).size = 0
       /\ InRange(str, MESSAGE_HEAD + strSizeRead(str) + contentSizeRead(str))
  <2>1. \A i \in 1 .. Len(c) : str[22 + i] = c[i]
    BY <1>12, Zenon DEF k
  <2>2. c[1] \notin Digit
    BY <1>2 DEF c
  <2> QED
    BY <1>10, <1>11, <1>13, <1>14, <2>1, <2>2, TextRead, Zenon
<1>16. \E kept \in BOOLEAN :
         arrived' = [cmd |-> unserialize(str).cmd, size |-> unserialize(str).size, kept |-> kept,
                     as |-> "message"]
  BY <1>15, Zenon DEF FromDataLinkLayer, str, d, P
<1> QED
  BY <1>15, <1>16 DEF c

\* Once something has arrived, it is the text, or a remnant has thrown.
TextHeld ==
  ~last.torn /\ ShortText(message) /\ arrived.as # "none"
  => \/ arrived.as = "message" /\ arrived.cmd = message.cmd /\ arrived.size = 0
     \/ arrived.as = "thrown" /\ last.result = "thrown"

LEMMA ArrivedOnReceive ==
  ASSUME ReceiveFrames
  PROVE  UNCHANGED message /\ (UNCHANGED arrived \/ (arrived'.as = "thrown" /\ last'.result = "thrown"))
<1>1. UNCHANGED message /\ \E k \in 1 .. Len(wire), before \in {NUL, junk} : Receive(k, before)
  BY DEF ReceiveFrames
<1>2. PICK k \in 1 .. Len(wire), before \in {NUL, junk} : Receive(k, before)
  BY <1>1
<1>3. \/ Refused(k, before, All(k)) \/ Accepted(k, before, All(k)) \/ Throws(k, before, All(k))
  BY <1>2, ReceiveIs
<1>4. Refused(k, before, All(k)) \/ Accepted(k, before, All(k)) => UNCHANGED arrived
  BY DEF Refused, Accepted
<1>5. Throws(k, before, All(k)) => arrived'.as = "thrown" /\ last'.result = "thrown"
  <2> SUFFICES ASSUME last' = Outcome(k, "thrown"), arrived' = Thrown
               PROVE  arrived'.as = "thrown" /\ last'.result = "thrown"
    BY DEF Throws
  <2>1. Thrown.as = "thrown"
    BY DEF Thrown, NoMessage
  <2>2. Outcome(k, "thrown").result = "thrown"
    BY Zenon DEF Outcome
  <2> QED
    BY <2>1, <2>2
<1> QED
  BY <1>1, <1>3, <1>4, <1>5

LEMMA ShortTextIsText ==
  ShortText(message) => Text
<1> SUFFICES ASSUME message.content = <<>> PROVE NUL \notin ToSet(message.content)
  BY DEF ShortText, Text
<1> QED
  BY DEF ToSet

LEMMA TextHeldStep ==
  ASSUME Inv, InOrder, TextHeld, [Next]_vars
  PROVE  TextHeld'
<1>1. CASE UNCHANGED vars
  BY <1>1 DEF vars, TextHeld, ShortText
<1>2. CASE Next
  <2> SUFFICES ASSUME ~last'.torn, ShortText(message'), arrived'.as # "none"
               PROVE  \/ arrived'.as = "message" /\ arrived'.cmd = message'.cmd /\ arrived'.size = 0
                      \/ arrived'.as = "thrown" /\ last'.result = "thrown"
    BY DEF TextHeld
  <2>1. ~last.torn
    BY <1>2, TornStays
  <2>2. arrived.as # "thrown" /\ UNCHANGED message
    BY <1>2 DEF Next, FromApplicationLayer, MakeFrames, SendAck, SendAFrame, ReceiveFrames, TakeFrame,
                ToNetworkLayer, FromDataLinkLayer
  <2>3. ShortText(message) /\ Text
    BY <2>2, ShortTextIsText
  <2>4. PacketsOrdered /\ Completed
    BY <2>1 DEF InOrder
  <2>5. CASE UNCHANGED arrived
    BY <2>1, <2>2, <2>3, <2>5 DEF TextHeld
  <2>6. CASE ~ UNCHANGED arrived
    <3>1. ReceiveFrames \/ ToNetworkLayer \/ FromDataLinkLayer
      BY <1>2, <2>6 DEF Next, FromApplicationLayer, MakeFrames, SendAck, SendAFrame, TakeFrame
    <3>2. CASE ReceiveFrames
      BY <2>6, <3>2, ArrivedOnReceive
    <3>3. CASE ToNetworkLayer
      BY <2>3, <2>4, <2>6, <3>3, AssembleInOrder
    <3>4. CASE FromDataLinkLayer
      <4>1. buildBuffer = WholePackets
        BY <2>3, <2>4, <3>4, TakenWhole
      <4> QED
        BY <2>2, <2>3, <3>4, <4>1, TextArrives DEF Inv
    <3> QED
      BY <3>1, <3>2, <3>3, <3>4
  <2> QED
    BY <2>5, <2>6
<1> QED
  BY <1>1, <1>2

LEMMA ContentAlways ==
  Spec => [](IInv /\ InOrder /\ TextHeld)
<1>1. Init => InOrder /\ TextHeld
  <2>1. Init => arrived.as = "none"
    BY DEF Init, NoMessage
  <2> QED
    BY <2>1, InOrderInit DEF TextHeld
<1>2. IInv /\ InOrder /\ TextHeld /\ [Next]_vars => InOrder' /\ TextHeld'
  BY InOrderStep, TextHeldStep DEF IInv
<1> QED
  BY <1>1, <1>2, InvAlways, PTL DEF Spec

\* For all messages: until a remnant is taken for a frame, a packet is put together
\* from at most two frames, and the packets of a message without NUL are the ones that
\* were cut from it, in their order.  (MakeFrames, GoBack1, ToNetworkLayer.)
THEOREM PacketsAreRead ==
  Spec => []PacketsReadAsSent
<1>1. IInv /\ InOrder => PacketsReadAsSent
  BY InOrderImplies DEF IInv
<1> QED
  BY <1>1, ContentAlways, PTL

\* For all texts of one packet that do not begin with a digit, and whatever memory
\* holds that nobody wrote: main gets the text that was sent, unless a remnant threw or
\* was taken for a frame.  (Message::serialize, Message::unserialize.)
THEOREM TextIsRead ==
  Spec => []TextReadAsSent
<1>1. TextHeld => TextReadAsSent
  <2> SUFFICES ASSUME TextHeld, arrived.as # "none", last.result # "thrown", ~last.torn,
                      message.content = <<>>, message.cmd[1] \notin Digit, Len(WholePackets) = 1
               PROVE  arrived.as = "message" /\ arrived.cmd = message.cmd /\ arrived.size = 0
    BY DEF TextReadAsSent
  <2>1. ShortText(message)
    BY DEF ShortText, WholePackets
  <2> QED
    BY <2>1 DEF TextHeld
<1> QED
  BY <1>1, ContentAlways, PTL

=============================================================================
