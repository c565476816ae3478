----------------------------- MODULE PhysicalLayer -----------------------------
(***************************************************************************)
(* PhysicalLayer.cpp: the thread that moves frames between the queues and  *)
(* the TCP connection.  plPC is the place in run's loop:                   *)
(*                                                                         *)
(*   top     before the trylock of mutSF                                   *)
(*   check   has mutSF, before the look at sendFrames                      *)
(*   pop     in SendAFrame                                                 *)
(*   relock  back from SendAFrame, which gave mutSF up; before the second  *)
(*           trylock and the unlock that follows it                        *)
(*   recv    in ReceiveFrames                                              *)
(*                                                                         *)
(* TCP keeps the order of the bytes, loses none and flips none.  One send  *)
(* travels as one segment, so no recv sees part of a frame unless the      *)
(* buffer is full: see ReceiveMerged.  wire[n] holds the frames n has sent *)
(* that its peer has not read yet; remnant[n] says that before these the   *)
(* rest of a frame comes, whose beginning the peer has read.               *)
(***************************************************************************)
EXTENDS Queues

CONSTANTS
  Photos,      \* do messages carry bytes above 127, as photos do?
  LongFrames   \* are there frames that do not fit the receiver's buffer behind an
               \* ack?  So is the first of a packet's two, and that of 103 bytes of text.

ASSUME PhotosAssumption == Photos \in BOOLEAN
ASSUME FramesAssumption == LongFrames \in BOOLEAN

VARIABLES wire, remnant, plPC

plVars == <<wire, remnant, plPC>>

PLPlaces == {"top", "check", "pop", "relock", "recv"}

PLTypeOK ==
  /\ wire \in [Node -> Seq(Frame)]
  /\ remnant \in [Node -> BOOLEAN]
  /\ plPC \in [Node -> PLPlaces]

PLInit ==
  /\ wire = [n \in Node |-> <<>>]
  /\ remnant = [n \in Node |-> FALSE]
  /\ plPC = [n \in Node |-> "top"]

\* The thread goes on at another place.
PLGoTo(n, place) == plPC' = [plPC EXCEPT ![n] = place]

-----------------------------------------------------------------------------
(* run, lines 76-82.                                                       *)

TryLockSendFrames(n) ==
  /\ plPC[n] = "top"
  /\ IF mutSF[n] = "free"
     THEN mutSF' = [mutSF EXCEPT ![n] = "PL"] /\ PLGoTo(n, "check")
     ELSE UNCHANGED mutSF /\ PLGoTo(n, "recv")
  /\ UNCHANGED <<sendPackets, recvPackets, sendFrames, recvFrames, mutRP, lost, wire, remnant>>

\* With nothing to send the second trylock fails (PL has the mutex itself) and
\* the unlock is the one that belongs to the first.
CheckSendFrames(n) ==
  /\ plPC[n] = "check"
  /\ IF sendFrames[n] # <<>>
     THEN PLGoTo(n, "pop") /\ UNCHANGED mutSF
     ELSE PLGoTo(n, "recv") /\ mutSF' = [mutSF EXCEPT ![n] = "free"]
  /\ UNCHANGED <<sendPackets, recvPackets, sendFrames, recvFrames, mutRP, lost, wire, remnant>>

\* SendAFrame: the frame leaves the queue, mutSF is unlocked, the bytes go out.
SendAFrame(n) ==
  /\ plPC[n] = "pop"
  /\ IF sendFrames[n] # <<>>
     THEN /\ wire' = [wire EXCEPT ![n] = Append(@, Head(sendFrames[n]))]
          /\ sendFrames' = [sendFrames EXCEPT ![n] = Tail(@)]
     ELSE UNCHANGED <<wire, sendFrames>>      \* "Who's touching my queue?!"
  /\ mutSF' = [mutSF EXCEPT ![n] = "free"]
  /\ PLGoTo(n, "relock")
  /\ UNCHANGED <<sendPackets, recvPackets, recvFrames, mutRP, lost, remnant>>

\* Lines 80-81 after SendAFrame.  The unlock does not ask whether the trylock
\* succeeded: when DL took mutSF meanwhile, DL's lock is what it releases.
Unlock(n) ==
  /\ plPC[n] = "relock"
  /\ mutSF' = [mutSF EXCEPT ![n] = "free"]
  /\ PLGoTo(n, "recv")
  /\ UNCHANGED <<sendPackets, recvPackets, sendFrames, recvFrames, mutRP, lost, wire, remnant>>

-----------------------------------------------------------------------------
(* ReceiveFrames: poll for 10ms, then at most one recv, whose bytes are    *)
(* taken to be one frame.                                                  *)

\* poll ran out; TCP may still be carrying what the peer has sent.
ReceiveNothing(n) ==
  /\ plPC[n] = "recv"
  /\ PLGoTo(n, "top")
  /\ UNCHANGED <<sharedVars, wire, remnant>>

ReceiveOne(n) ==
  /\ plPC[n] = "recv"
  /\ ~ remnant[Peer(n)]
  /\ wire[Peer(n)] # <<>>
  /\ wire' = [wire EXCEPT ![Peer(n)] = Tail(@)]
  /\ recvFrames' = [recvFrames EXCEPT ![n] = Append(@, Head(wire[Peer(n)]))]
  /\ PLGoTo(n, "top")
  /\ UNCHANGED <<sendPackets, recvPackets, sendFrames, mutRP, mutSF, lost, remnant>>

\* FrameValid compares a signed char with an unsigned one: a check byte above
\* 127 never matches.  The fold of plain text, and so of any ack, is below 128.
ReceiveInvalid(n) ==
  /\ plPC[n] = "recv"
  /\ Photos
  /\ ~ remnant[Peer(n)]
  /\ wire[Peer(n)] # <<>>
  /\ Head(wire[Peer(n)]).type = DATA
  /\ wire' = [wire EXCEPT ![Peer(n)] = Tail(@)]
  /\ Lose(n, "checkByte")
  /\ PLGoTo(n, "top")
  /\ UNCHANGED <<sendPackets, recvPackets, sendFrames, recvFrames, mutRP, mutSF,
                 remnant>>

\* One recv returns the bytes of k > 1 frames.  The fold of the whole is
\* compared with its last two bytes: if they happen to agree the first frame is
\* unserialized and the rest ignored, otherwise all are dropped.  If the last
\* frame did not fit the buffer, the rest of its bytes comes first in a later recv.
ReceiveMerged(n) ==
  /\ plPC[n] = "recv"
  /\ ~ remnant[Peer(n)]
  /\ \E k \in 2 .. Len(wire[Peer(n)]) :
       wire' = [wire EXCEPT ![Peer(n)] = SubSeq(@, k + 1, Len(@))]
  /\ \E cut \in BOOLEAN :
       /\ cut => LongFrames
       /\ remnant' = [remnant EXCEPT ![Peer(n)] = cut]
  /\ \/ recvFrames' = [recvFrames EXCEPT ![n] = Append(@, Head(wire[Peer(n)]))]
     \/ UNCHANGED recvFrames
  /\ Lose(n, "merged")
  /\ PLGoTo(n, "top")
  /\ UNCHANGED <<sendPackets, recvPackets, sendFrames, mutRP, mutSF>>

\* One recv begins with the rest of a frame; k frames may follow.  Their fold is
\* compared with the last two bytes like any frame's.  Bytes that pass are
\* unserialized, as whatever frame their digits say.
ReadRemnant(n) ==
  /\ plPC[n] = "recv"
  /\ remnant[Peer(n)]
  /\ \E k \in 0 .. Len(wire[Peer(n)]), cut \in BOOLEAN :
       /\ k = 0 => ~ cut
       /\ wire' = [wire EXCEPT ![Peer(n)] = SubSeq(@, k + 1, Len(@))]
       /\ remnant' = [remnant EXCEPT ![Peer(n)] = cut]
  /\ PLGoTo(n, "top")
  /\ UNCHANGED <<sendPackets, recvPackets, sendFrames, mutRP, mutSF>>

RemnantRefused(n) ==
  /\ ReadRemnant(n)
  /\ Lose(n, "merged")
  /\ UNCHANGED recvFrames

RemnantAccepted(n) ==
  /\ ReadRemnant(n)
  /\ Lose(n, "remnant")
  /\ \E f \in MadeUp : recvFrames' = [recvFrames EXCEPT ![n] = Append(@, f)]

\* Frame::Unserialize throws when a remnant that passed is shorter than a header.
FrameThrows(n) == plPC[n] = "recv" /\ remnant[Peer(n)]

PLStep(n) ==
  \/ TryLockSendFrames(n) \/ CheckSendFrames(n) \/ SendAFrame(n) \/ Unlock(n)
  \/ ReceiveNothing(n)    \/ ReceiveOne(n)      \/ ReceiveInvalid(n) \/ ReceiveMerged(n)
  \/ RemnantRefused(n)    \/ RemnantAccepted(n)
=============================================================================
