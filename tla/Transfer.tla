-------------------------------- MODULE Transfer --------------------------------
(***************************************************************************)
(* One message on its way through the formats: serialized and cut into     *)
(* packets, those into frames, sent with the check field, received,        *)
(* checked, put together again, and read.  Threads and queues are the      *)
(* business of Stack; here a frame is sent when the one before was taken,  *)
(* and each step is a conversion on real bytes.                            *)
(*                                                                         *)
(* An end that has just received a frame owes an ack for it, which goes    *)
(* out before the first frame of its answer and may be received with it.   *)
(***************************************************************************)
EXTENDS Codec

CONSTANTS
  Messages,     \* [cmd, content] of the messages to send
  FrameSeqs,    \* values of nextSend to begin with
  Junk          \* values of memory that nobody wrote

ASSUME JunkAssumption == Junk \subseteq Byte
ASSUME FrameSeqsAssumption == FrameSeqs \subseteq 0 .. MAX_SEQ
ASSUME MessagesAssumption ==
  \A m \in Messages : m.cmd \in Seq(Byte \ {NUL}) /\ m.content \in Seq(Byte) /\ m.cmd # <<>>

VARIABLES
  message, junk,
  given,         \* has main given the message to the network layer?
  packets,       \* sendPackets: packets not yet made into frames
  ready,         \* frames made and not acknowledged
  nextSend,
  owed,          \* an ack is to be sent first
  inFlight,      \* the front of ready has been sent
  wire,          \* segments not received: the frame sent and its bytes left
  recvFrames, reconstructFrames,
  complete,      \* the frame just taken is the last one of a packet
  buildBuffer,
  arrived,       \* what main gets: NoMessage until then
  last           \* history: the latest recv, what came of it, and whether this or an
                 \* earlier one took what did not fit the buffer before for a frame

vars == <<message, junk, given, packets, ready, nextSend, owed, inFlight, wire, recvFrames,
          reconstructFrames, complete, buildBuffer, arrived, last>>

NoMessage == [cmd |-> <<>>, size |-> 0, kept |-> FALSE, as |-> "none"]
Thrown    == [NoMessage EXCEPT !.as = "thrown"]
NoRecv    == [frames |-> <<>>, whole |-> FALSE, result |-> "none", torn |-> FALSE]

Sent(frame) == [frame |-> frame, bytes |-> FoldSerializedFrame(Serialize(frame))]

\* What is cut from a message, and what is sent: frames of a packet, and acks.
Packet == {p \in Format : Len(p.payload) <= MAX_PACKET}
Frame  == {f \in Format : Len(f.payload) <= MAX_FRAME}

\* Packets and frames of the sender have the lengths of did.h; what the receiver
\* reads is a frame or packet of any length.
TypeOK ==
  /\ message \in Messages /\ junk \in Junk
  /\ {given, owed, inFlight, complete} \subseteq BOOLEAN
  /\ packets \in Seq(Packet) /\ ready \in Seq(Frame) /\ nextSend \in 0 .. MAX_SEQ
  /\ wire \in Seq([frame : Frame, bytes : Seq(Byte) \ {<<>>}])
  /\ {recvFrames, reconstructFrames, buildBuffer} \subseteq Seq(Format)
  /\ arrived.as \in {"none", "thrown", "message"}

Init ==
  /\ message \in Messages
  /\ junk \in Junk
  /\ nextSend \in FrameSeqs
  /\ owed \in BOOLEAN
  /\ given = FALSE /\ packets = <<>>
  /\ ready = <<>> /\ inFlight = FALSE /\ wire = <<>>
  /\ recvFrames = <<>> /\ reconstructFrames = <<>> /\ complete = FALSE /\ buildBuffer = <<>>
  /\ arrived = NoMessage
  /\ last = NoRecv

-----------------------------------------------------------------------------
FromApplicationLayer ==
  /\ ~given
  /\ given' = TRUE
  /\ packets' = Packets(serialize(message))
  /\ UNCHANGED <<message, junk, ready, nextSend, owed, inFlight, wire, recvFrames,
                 reconstructFrames, complete, buildBuffer, arrived, last>>

MakeFrames ==
  /\ packets # <<>>
  /\ ready = <<>>
  /\ LET fs == Frames(Head(packets), nextSend)
     IN  /\ ready' = fs
         /\ nextSend' = (nextSend + Len(fs)) % (MAX_SEQ + 1)
  /\ packets' = Tail(packets)
  /\ UNCHANGED <<message, junk, given, owed, inFlight, wire, recvFrames, reconstructFrames,
                 complete, buildBuffer, arrived, last>>

SendAck ==
  /\ owed
  /\ owed' = FALSE
  /\ wire' = Append(wire, Sent([type |-> ACK, seq |-> nextSend, end |-> TRUE, payload |-> <<>>]))
  /\ UNCHANGED <<message, junk, given, packets, ready, nextSend, inFlight, recvFrames,
                 reconstructFrames, complete, buildBuffer, arrived, last>>

SendAFrame ==
  /\ ~owed /\ ~inFlight /\ ready # <<>>
  /\ inFlight' = TRUE
  /\ wire' = Append(wire, Sent(ready[1]))
  /\ UNCHANGED <<message, junk, given, packets, ready, nextSend, owed, recvFrames,
                 reconstructFrames, complete, buildBuffer, arrived, last>>

\* The length of the buffer that recv fills.
Size == MAX_FRAME + FRAME_HEAD + FRAME_TAIL

\* One recv: the first k segments, as far as they fit the buffer.  The bytes are
\* read as one frame if their check field is right.
Receive(k, before) ==
  LET all    == FlattenSeq([i \in 1 .. k |-> wire[i].bytes])
      recvd  == substr(all, 0, Size)
      rest   == SubSeq(all, Size + 1, Len(all))
      memory == Block(recvd, Size, junk)
      outcome(result) == [frames |-> [i \in 1 .. k |-> wire[i].frame],
                          whole  |-> \A i \in 1 .. k : wire[i] = Sent(wire[i].frame),
                          result |-> result,
                          torn   |-> last.torn \/ (result = "accepted" /\ wire[1] # Sent(wire[1].frame))]
  IN  /\ wire' = (IF rest = <<>> THEN <<>> ELSE <<[wire[k] EXCEPT !.bytes = rest]>>)
                   \o SubSeq(wire, k + 1, Len(wire))
      /\ \/ /\ ~FrameValid(recvd, before)
            /\ last' = outcome("refused")
            /\ UNCHANGED <<recvFrames, arrived>>
         \/ /\ FrameValid(recvd, before) /\ Readable(memory)
            /\ recvFrames' = Append(recvFrames, Unserialize(memory, junk))
            /\ last' = outcome("accepted")
            /\ UNCHANGED arrived
         \/ /\ FrameValid(recvd, before) /\ ~Readable(memory)
            /\ arrived' = Thrown
            /\ last' = outcome("thrown")
            /\ UNCHANGED recvFrames

ReceiveFrames ==
  /\ \E k \in 1 .. Len(wire), before \in {NUL, junk} : Receive(k, before)
  /\ UNCHANGED <<message, junk, given, packets, ready, nextSend, owed, inFlight, reconstructFrames,
                 complete, buildBuffer>>

-----------------------------------------------------------------------------
\* Both ends begin with the same number, and what one acknowledges the other takes
\* off ready: the receiver's frameExpect is the number in front of the sender's ready.
frameExpect == ready[1].seq

\* GoBack1 and FromPhysicalLayer: an ack is for the frames of the other direction; a
\* data frame is kept, and if it has the number expected, the sender's copy goes when
\* the ack for it comes back.
TakeFrame ==
  /\ recvFrames # <<>>
  /\ ~complete
  /\ recvFrames' = Tail(recvFrames)
  /\ LET r == Head(recvFrames)
     IN  \/ /\ r.type = ACK
            /\ UNCHANGED <<reconstructFrames, ready, inFlight, complete>>
         \/ /\ r.type = DATA /\ r.seq = frameExpect
            /\ reconstructFrames' = Append(reconstructFrames, r)
            /\ ready' = Tail(ready) /\ inFlight' = FALSE
            /\ complete' = r.end
         \/ /\ r.type = DATA /\ r.seq # frameExpect
            /\ reconstructFrames' = Append(reconstructFrames, r)
            /\ UNCHANGED <<ready, inFlight, complete>>
  /\ UNCHANGED <<message, junk, given, packets, nextSend, owed, wire, buildBuffer, arrived, last>>

\* ToNetworkLayer, on a frame with `end': the payloads of one or two frames, in a
\* block of just their size, are a packet.
ToNetworkLayer ==
  /\ complete
  /\ LET pload  == FlattenSeq([i \in DOMAIN reconstructFrames |-> reconstructFrames[i].payload])
         memory == Block(pload, Len(pload), junk)
     IN  IF Readable(memory)
         THEN buildBuffer' = Append(buildBuffer, Unserialize(memory, junk)) /\ UNCHANGED arrived
         ELSE arrived' = Thrown /\ UNCHANGED buildBuffer
  /\ reconstructFrames' = <<>> /\ complete' = FALSE
  /\ UNCHANGED <<message, junk, given, packets, ready, nextSend, owed, inFlight, wire,
                 recvFrames, last>>

\* FromDataLinkLayer, Assemble and Message::unserialize.  The pointer that setCmd
\* keeps is into a string that ends with its statement: the text may be there
\* still (kept) or overwritten.  setImg copies as many bytes as the size says; when
\* the string has fewer, it reads behind it, which may end the process.
FromDataLinkLayer ==
  /\ buildBuffer # <<>>
  /\ buildBuffer[Len(buildBuffer)].end
  /\ LET str == CString(Assembled(buildBuffer, junk))
         m   == unserialize(str)
     IN  IF MessageReadable(str)
         THEN \/ \E kept \in BOOLEAN :
                   arrived' = [cmd |-> m.cmd, size |-> m.size, kept |-> kept, as |-> "message"]
              \/ /\ ~InRange(str, MESSAGE_HEAD + strSizeRead(str) + contentSizeRead(str))
                 /\ arrived' = Thrown
         ELSE arrived' = Thrown
  /\ buildBuffer' = <<>>
  /\ UNCHANGED <<message, junk, given, packets, ready, nextSend, owed, inFlight, wire, recvFrames,
                 reconstructFrames, complete, last>>

Next ==
  /\ arrived.as # "thrown"     \* the process has ended
  /\ \/ FromApplicationLayer \/ MakeFrames \/ SendAck \/ SendAFrame \/ ReceiveFrames
     \/ TakeFrame \/ ToNetworkLayer \/ FromDataLinkLayer

Spec == Init /\ [][Next]_vars

-----------------------------------------------------------------------------
IsText(s) == \A i \in DOMAIN s : s[i] \in 1 .. 127

\* The frames of the message, the acks left out, and its packets.
WholePackets == Packets(serialize(message))

\* A frame that arrives by itself is refused exactly when one of its check bytes
\* is above 127: plain text is never refused, whatever its length, numbers and
\* text are.  (FoldSerializedFrame, FrameValid and the sign of char.)
RefusedForCheckByte ==
  last.whole /\ Len(last.frames) = 1 =>
    LET s == Serialize(last.frames[1])
    IN  (last.result = "refused") <=> (Fold(s, 0) > 127 \/ Fold(s, 1) > 127)

\* A frame of bytes without NUL that is accepted by itself is read back as it was
\* sent: type, number, end and payload.  (Frame::Serialize, Frame::Unserialize.)
FrameReadAsSent ==
  /\ last.whole /\ Len(last.frames) = 1 /\ last.result = "accepted"
  /\ NUL \notin ToSet(last.frames[1].payload)
  /\ recvFrames # <<>>
  => recvFrames[Len(recvFrames)] = last.frames[1]

\* An ack and a frame of text that fill one recv together are accepted, and read
\* as the ack alone: the check field does not notice that there are two frames, and
\* the second one is lost without a trace.  (ReceiveFrames.)
MergedReadAsAck ==
  /\ last.whole /\ Len(last.frames) = 2
  /\ Len(last.frames[2].payload) + 2 * (FRAME_HEAD + FRAME_TAIL) <= Size
  /\ IsText(last.frames[2].payload)
  => /\ last.result = "accepted"
     /\ recvFrames # <<>> => recvFrames = <<last.frames[1]>>

\* As long as no remnant of a frame was taken for a frame, a packet is put together
\* from one frame or two and never more, and the packets of a message without NUL
\* are what they were before they were cut.  (MakeFrames, ToNetworkLayer.)
PacketsReadAsSent ==
  ~last.torn =>
    /\ Len(reconstructFrames) <= 2
    /\ NUL \notin ToSet(message.content) => IsPrefix(buildBuffer, WholePackets)

\* What cannot even be unserialized is never a frame with its whole header: it is
\* the remnant of a frame that did not fit the buffer behind an ack, down to one
\* byte, whose check field is looked up in front of the buffer.  (ReceiveFrames.)
OnlyRemnantsThrow ==
  last.result = "thrown" => ~last.whole

\* A command or answer of one packet that does not begin with a digit is read, once
\* its frames were accepted (and no remnant of one was), as it was sent, although
\* unserialize reads its length from the wrong place, and whatever memory holds
\* behind it.  (Message::serialize, Message::unserialize.)
TextReadAsSent ==
  /\ arrived.as # "none" /\ last.result # "thrown" /\ ~last.torn
  /\ message.content = <<>> /\ message.cmd[1] \notin Digit /\ Len(WholePackets) = 1
  => arrived.as = "message" /\ arrived.cmd = message.cmd /\ arrived.size = 0
=============================================================================
