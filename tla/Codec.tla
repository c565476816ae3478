--------------------------------- MODULE Codec ---------------------------------
(***************************************************************************)
(* The bytes of messages, packets and frames: Utils.cpp, Message.cpp,      *)
(* Packet.cpp, Frame.cpp and the check field of PhysicalLayer.cpp, with    *)
(* the lengths of did.h.  A byte is a number; memory is a sequence of      *)
(* bytes, the first one at offset 0 of the code and at 1 here.             *)
(*                                                                         *)
(* `junk' is what memory holds that nobody wrote: one value for all of it. *)
(***************************************************************************)
EXTENDS Integers, Sequences, SequencesExt

PACKET_HEAD  == 12
FRAME_HEAD   == 12
MESSAGE_HEAD == 22
FRAME_TAIL   == 2
MAX_FRAME    == 150
MAX_PACKET   == 256
MAX_SEQ      == 65535

DATA == 0
ACK  == 1

Byte  == 0 .. 255
NUL   == 0
Digit == 48 .. 57
Blank == {32} \cup 9 .. 13

-----------------------------------------------------------------------------
(* Numbers as text.                                                        *)

\* Mutant of Digits: what is left of n is not reduced before the digit is made.
DigitsUnreduced(n, w) ==
  LET left[i \in 1 .. w] == IF i = w THEN n ELSE left[i + 1] \div 10
  IN  [i \in 1 .. w |-> 48 + left[i]]

\* The last w digits of n, leading zeros included.
Digits(n, w) ==
  LET left[i \in 1 .. w] == IF i = w THEN n ELSE left[i + 1] \div 10
  IN  [i \in 1 .. w |-> 48 + (left[i] % 10)]

itoa(n) == Digits(n % (MAX_SEQ + 1), 5)

ltoa(n) == Digits(n, 17)

\* Where the first byte of s that is in S is, or not in S; 0 if there is none.
FirstIn(s, S)    == SelectInSeq(s, LAMBDA b : b \in S)
FirstNotIn(s, S) == SelectInSeq(s, LAMBDA b : b \notin S)

\* The number that the first n bytes, all digits, are.
Value(s, n) ==
  LET value[i \in 0 .. n] == IF i = 0 THEN 0 ELSE 10 * value[i - 1] + s[i] - 48
  IN  value[n]

\* atoi and atol: blanks, a sign, and the digits up to the first other byte.
atoi(s) ==
  LET blanks == FirstNotIn(s, Blank)
      t == IF blanks = 0 THEN <<>> ELSE SubSeq(s, blanks, Len(s))
      u == IF t # <<>> /\ t[1] \in {43, 45} THEN Tail(t) ELSE t
      stop == FirstNotIn(u, Digit)
      value == Value(u, IF stop = 0 THEN Len(u) ELSE stop - 1)
  IN  IF t # <<>> /\ t[1] = 45 THEN 0 - value ELSE value

-----------------------------------------------------------------------------
(* Strings of C and C++ in memory.                                         *)

\* string str(d): the bytes up to the first NUL.
CString(d) ==
  LET nul == FirstIn(d, {NUL})
  IN  IF nul = 0 THEN d ELSE SubSeq(d, 1, nul - 1)

\* A block of n bytes of which only the first ones were written, and the memory
\* behind it up to a NUL.
Block(bytes, n, junk) ==
  bytes \o [i \in 1 .. n - Len(bytes) |-> junk] \o <<junk, NUL>>

\* str.substr throws out_of_range when pos is behind the end of str.
InRange(str, pos) == pos <= Len(str)

substr(str, pos, n) == SubSeq(str, pos + 1, IF pos + n < Len(str) THEN pos + n ELSE Len(str))

\* memcpy(.., str.c_str(), n), which goes on behind the end of a shorter string.
Copy(str, n, junk) ==
  [i \in 1 .. n |-> IF i <= Len(str) THEN str[i] ELSE IF i = Len(str) + 1 THEN NUL ELSE junk]

-----------------------------------------------------------------------------
(* Packets and frames have the same format.                                *)

Format == [type : {DATA, ACK}, seq : 0 .. MAX_SEQ, end : BOOLEAN, payload : Seq(Byte)]

\* Mutant of Flag: the number and not the digit.
FlagRaw(b) == IF b THEN 1 ELSE 0

Flag(b) == IF b THEN 49 ELSE 48

Serialize(f) ==
  <<Flag(f.type = ACK)>> \o itoa(f.seq) \o <<Flag(f.end)>> \o itoa(Len(f.payload)) \o f.payload

\* The header fits in the string: otherwise a substr of Unserialize throws.
Readable(d) == InRange(CString(d), FRAME_HEAD)

\* Mutant of Unserialize: the last digit of the length is not read.
UnserializeShort(d, junk) ==
  LET str == CString(d)
      payloadLength == atoi(substr(str, 7, 4)) % (MAX_SEQ + 1)
  IN  [type    |-> IF d[1] = 48 THEN DATA ELSE ACK,
       seq     |-> atoi(substr(str, 1, 5)) % (MAX_SEQ + 1),
       end     |-> d[7] # 48,
       payload |-> Copy(substr(str, 12, payloadLength), payloadLength, junk)]

Unserialize(d, junk) ==
  LET str == CString(d)
      payloadLength == atoi(substr(str, 7, 5)) % (MAX_SEQ + 1)
  IN  [type    |-> IF d[1] = 48 THEN DATA ELSE ACK,
       seq     |-> atoi(substr(str, 1, 5)) % (MAX_SEQ + 1),
       end     |-> d[7] # 48,
       payload |-> Copy(substr(str, 12, payloadLength), payloadLength, junk)]

-----------------------------------------------------------------------------
(* The check field.                                                        *)

\* The bits that two bytes have in common, and their exclusive or.
And(a, b) ==
  LET both(k) == IF (a \div k) % 2 = 1 /\ (b \div k) % 2 = 1 THEN k ELSE 0
  IN  both(1) + both(2) + both(4) + both(8) + both(16) + both(32) + both(64) + both(128)

Xor(a, b) == a + b - 2 * And(a, b)

\* The exclusive or of the bytes at the even offsets (k = 1) or odd ones (k = 0).
Fold(s, k) ==
  LET n == (Len(s) + k) \div 2
      fold[j \in 0 .. n] == IF j = 0 THEN 0 ELSE Xor(fold[j - 1], s[2 * j - k])
  IN  fold[n]

\* Mutant of FoldSerializedFrame: the two bytes are exchanged.
FoldSerializedFrameSwapped(s) == s \o <<Fold(s, 0), Fold(s, 1)>>

FoldSerializedFrame(s) == s \o <<Fold(s, 1), Fold(s, 0)>>

\* A char, compared with an unsigned char, is extended with its sign.
SignExtended(b) == IF b < 128 THEN b ELSE b - 256

\* `before' is the memory in front of the buffer: with one byte received the code
\* reads it as the first check byte.
FrameValid(s, before) ==
  LET len  == Len(s) - FRAME_TAIL
      data == SubSeq(s, 1, len)
      at(i) == IF i < 1 THEN before ELSE s[i]
  IN  /\ SignExtended(at(len + 1)) = Fold(data, 1)
      /\ SignExtended(at(len + 2)) = Fold(data, 0)

-----------------------------------------------------------------------------
(* Messages.                                                               *)

serialize(m) == ltoa(Len(m.content)) \o itoa(Len(m.cmd)) \o m.cmd \o m.content

\* FromApplicationLayer: MAX_PACKET bytes each, `end' on the last.
Packets(mess) ==
  LET n == (Len(mess) + MAX_PACKET - 1) \div MAX_PACKET
  IN  [i \in 1 .. n |->
         [type    |-> DATA,
          seq     |-> (i - 1) % (MAX_SEQ + 1),
          end     |-> i = n,
          payload |-> substr(mess, (i - 1) * MAX_PACKET, MAX_PACKET)]]

\* Mutant of Frames: the second frame begins one byte early.
FramesOverlap(p, k) ==
  LET d == Serialize(p)
      frame(seq, end, payload) == [type |-> DATA, seq |-> seq, end |-> end, payload |-> payload]
  IN  IF Len(d) <= MAX_FRAME
      THEN <<frame(k, TRUE, d)>>
      ELSE <<frame(k, FALSE, SubSeq(d, 1, MAX_FRAME)),
             frame((k + 1) % (MAX_SEQ + 1), TRUE, SubSeq(d, MAX_FRAME, Len(d)))>>

\* MakeFrames: one frame or two.
Frames(p, k) ==
  LET d == Serialize(p)
      frame(seq, end, payload) == [type |-> DATA, seq |-> seq, end |-> end, payload |-> payload]
  IN  IF Len(d) <= MAX_FRAME
      THEN <<frame(k, TRUE, d)>>
      ELSE <<frame(k, FALSE, SubSeq(d, 1, MAX_FRAME)),
             frame((k + 1) % (MAX_SEQ + 1), TRUE, SubSeq(d, MAX_FRAME + 1, Len(d)))>>

\* Assemble's malloc block: a packet at every multiple of MAX_PACKET, as far as
\* the loop gets (it ends at the first i that is not below what is left).
Assembled(buf, junk) ==
  LET n == Len(buf)
      copied == (n + 1) \div 2
      at(i) == LET p == (i \div MAX_PACKET) + 1
                   o == (i % MAX_PACKET) + 1
               IN  IF p <= copied /\ o <= Len(buf[p].payload) THEN buf[p].payload[o] ELSE junk
  IN  Block([i \in 1 .. n * MAX_PACKET |-> at(i - 1)], n * MAX_PACKET, junk)

\* A number in a short, which has 16 bits and a sign.
AsShort(n) == ((n + 32768) % 65536) - 32768

\* The numbers as Message::unserialize reads them: from offsets 1 and 18.
contentSizeRead(str) == atoi(substr(str, 1, 17))
strSizeRead(str)     == AsShort(atoi(substr(str, 18, 5)))

\* Without this a substr of Message::unserialize throws; a negative position is a
\* very large one.
MessageReadable(str) ==
  /\ InRange(str, MESSAGE_HEAD)
  /\ MESSAGE_HEAD + strSizeRead(str) >= 0 /\ InRange(str, MESSAGE_HEAD + strSizeRead(str))

\* substr of a negative number of bytes, which is a very large one, takes all.
CharsTaken(str, pos, n) == substr(str, pos, IF n < 0 THEN Len(str) ELSE n)

\* Mutant of unserialize: the header is taken to be one byte shorter.
unserializeEarly(str) ==
  [cmd  |-> CharsTaken(str, MESSAGE_HEAD - 1, strSizeRead(str)),
   size |-> contentSizeRead(str)]

unserialize(str) ==
  [cmd  |-> CharsTaken(str, MESSAGE_HEAD, strSizeRead(str)),
   size |-> contentSizeRead(str)]
=============================================================================
