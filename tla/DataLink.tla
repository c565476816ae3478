------------------------------- MODULE DataLink -------------------------------
(***************************************************************************)
(* DataLink.cpp: the thread that runs GoBack1 in each process.  dlPC is    *)
(* the place in the loop:                                                  *)
(*                                                                         *)
(*   wait       polling in WaitForEvent                                    *)
(*   receive    an arrival event, before FromPhysicalLayer                 *)
(*   ackSF      an ack: about to pop sendFrames without its mutex          *)
(*   ackRF      an ack: about to pop recvFrames once more                  *)
(*   up         a packet's last frame: ToNetworkLayer's look at recvPackets*)
(*   deliver    ToNetworkLayer, about to push the packet                   *)
(*   sendAck    in SendAck, before ToPhysicalLayer's tests                 *)
(*   pushAck    in ToPhysicalLayer with mutSF, about to push the ack       *)
(*   fetch      bottom of the loop: take a packet from sendPackets         *)
(*   send       bottom of the loop: offer ready.front()                    *)
(*   pushFrame  in ToPhysicalLayer with mutSF, about to push the frame     *)
(*                                                                         *)
(* GoBack1 starts with a FromNetworkLayer that returns NULL (pktSend is    *)
(* false) and an empty ready queue, so the thread starts in "wait".        *)
(***************************************************************************)
EXTENDS Queues

CONSTANTS
  MaxReady,      \* MAX_READY
  MaxTimeouts    \* bound on the expirations of a timer, per process

ASSUME ReadyAssumption    == MaxReady \in Nat /\ MaxReady >= 3
ASSUME TimeoutsAssumption == MaxTimeouts \in Nat

VARIABLES
  window,             \* frames sent and not acknowledged
  ready,              \* frames made and not acknowledged
  reconstructFrames,  \* data frames received, waiting to become a packet
  nextSend,           \* number of the next frame to make
  frameExpect,        \* number of the next frame to accept
  pktSend, frmArrive, frmTimeout,   \* the flags behind the events
  timer,              \* is the interval timer running?
  expirations,        \* how often it ran out (bounded by MaxTimeouts)
  dlPC

dlVars == <<window, ready, reconstructFrames, nextSend, frameExpect, pktSend,
            frmArrive, frmTimeout, timer, expirations, dlPC>>

DLPlaces == {"wait", "receive", "ackSF", "ackRF", "up", "deliver", "sendAck",
             "pushAck", "fetch", "send", "pushFrame"}

DLTypeOK ==
  /\ window \in [Node -> Seq(DataFrame)]
  /\ ready  \in [Node -> Seq(DataFrame)]
  /\ reconstructFrames \in [Node -> Seq(DataFrame)]
  /\ nextSend    \in [Node -> SeqNo]
  /\ frameExpect \in [Node -> SeqNo]
  /\ pktSend    \in [Node -> BOOLEAN]
  /\ frmArrive  \in [Node -> BOOLEAN]
  /\ frmTimeout \in [Node -> BOOLEAN]
  /\ timer      \in [Node -> BOOLEAN]
  /\ expirations \in [Node -> 0 .. MaxTimeouts]
  /\ dlPC \in [Node -> DLPlaces]

DLInit ==
  /\ window = [n \in Node |-> <<>>]
  /\ ready  = [n \in Node |-> <<>>]
  /\ reconstructFrames = [n \in Node |-> <<>>]
  /\ nextSend    = [n \in Node |-> 0]
  /\ frameExpect = [n \in Node |-> 0]
  /\ pktSend    = [n \in Node |-> FALSE]
  /\ frmArrive  = [n \in Node |-> FALSE]
  /\ frmTimeout = [n \in Node |-> FALSE]
  /\ timer      = [n \in Node |-> FALSE]
  /\ expirations = [n \in Node |-> 0]
  /\ dlPC = [n \in Node |-> "wait"]

GoTo(n, place) == dlPC' = [dlPC EXCEPT ![n] = place]

-----------------------------------------------------------------------------
(* WaitForEvent.  It polls the three sources in turn; a source that fills  *)
(* up just after it was polled, or whose trylock fails, is passed over, so *)
(* any source with something to report may be the one that ends the wait.  *)

TimeoutEvent(n) ==
  /\ dlPC[n] = "wait"
  /\ frmTimeout[n]
  /\ frmTimeout' = [frmTimeout EXCEPT ![n] = FALSE]
  /\ GoTo(n, "fetch")
  /\ UNCHANGED <<sharedVars, window, ready, reconstructFrames, nextSend, frameExpect,
                 pktSend, frmArrive, timer, expirations>>

\* Mutant of ArrivalEvent: the flag left by FromPhysicalLayer is believed without
\* another look at the queue.
ArrivalEventStale(n) ==
  /\ dlPC[n] = "wait"
  /\ frmArrive[n] \/ recvFrames[n] # <<>>
  /\ frmArrive' = [frmArrive EXCEPT ![n] = TRUE]
  /\ GoTo(n, "receive")
  /\ UNCHANGED <<sharedVars, window, ready, reconstructFrames, nextSend, frameExpect,
                 pktSend, frmTimeout, timer, expirations>>

ArrivalEvent(n) ==
  /\ dlPC[n] = "wait"
  /\ recvFrames[n] # <<>>
  /\ frmArrive' = [frmArrive EXCEPT ![n] = TRUE]
  /\ GoTo(n, "receive")
  /\ UNCHANGED <<sharedVars, window, ready, reconstructFrames, nextSend, frameExpect,
                 pktSend, frmTimeout, timer, expirations>>

PacketEvent(n) ==
  /\ dlPC[n] = "wait"
  /\ ~ pktSend[n]
  /\ sendPackets[n] # <<>>
  /\ pktSend' = [pktSend EXCEPT ![n] = TRUE]
  /\ GoTo(n, "fetch")
  /\ UNCHANGED <<sharedVars, window, ready, reconstructFrames, nextSend, frameExpect,
                 frmArrive, frmTimeout, timer, expirations>>

-----------------------------------------------------------------------------
(* An arrival.  FromPhysicalLayer takes the oldest frame of recvFrames; a  *)
(* data frame also goes to reconstructFrames, whatever its number.         *)

FromPhysicalLayer(n) ==
  /\ dlPC[n] = "receive"
  /\ frmArrive[n]                 \* otherwise NULL, and GoBack1 would spin
  /\ recvFrames[n] # <<>>         \* otherwise the previous frame once more
  /\ recvFrames' = [recvFrames EXCEPT ![n] = Tail(@)]
  /\ frmArrive'  = [frmArrive  EXCEPT ![n] = Len(recvFrames[n]) > 1]

\* Mutant of ReceiveAck: the frame leaves ready but not the window.
ReceiveAckKeepsWindow(n) ==
  /\ FromPhysicalLayer(n)
  /\ Head(recvFrames[n]).type = ACK
  /\ timer' = [timer EXCEPT ![n] = FALSE]
  /\ ready' = [ready EXCEPT ![n] = PopFront(@)]
  /\ GoTo(n, "ackSF")
  /\ UNCHANGED <<sendPackets, recvPackets, sendFrames, mutRP, mutSF, lost, window,
                 reconstructFrames, nextSend, frameExpect, pktSend, frmTimeout, expirations>>

\* GoBack1, the ack branch lines 77-83: stop the timer, drop the frame
\* the ack is for from ready and from the window.
ReceiveAck(n) ==
  /\ FromPhysicalLayer(n)
  /\ Head(recvFrames[n]).type = ACK
  /\ timer'  = [timer  EXCEPT ![n] = FALSE]
  /\ ready'  = [ready  EXCEPT ![n] = PopFront(@)]
  /\ window' = [window EXCEPT ![n] = PopFront(@)]
  /\ GoTo(n, "ackSF")
  /\ UNCHANGED <<sendPackets, recvPackets, sendFrames, mutRP, mutSF, lost,
                 reconstructFrames, nextSend, frameExpect, pktSend, frmTimeout, expirations>>

\* Lines 84-85, without mutSF.
PopSendFrames(n) ==
  /\ dlPC[n] = "ackSF"
  /\ sendFrames' = [sendFrames EXCEPT ![n] = PopFront(@)]
  /\ GoTo(n, "ackRF")
  /\ UNCHANGED <<sendPackets, recvPackets, recvFrames, mutRP, mutSF, lost, window, ready,
                 reconstructFrames, nextSend, frameExpect, pktSend, frmArrive, frmTimeout,
                 timer, expirations>>

\* Lines 86-88: the ack itself is gone already, so this pops whatever frame
\* came in behind it.
PopRecvFrames(n) ==
  /\ dlPC[n] = "ackRF"
  /\ recvFrames' = [recvFrames EXCEPT ![n] = PopFront(@)]
  /\ IF recvFrames[n] = <<>> THEN UNCHANGED lost ELSE Lose(n, "ackPop")
  /\ GoTo(n, "fetch")
  /\ UNCHANGED <<sendPackets, recvPackets, sendFrames, mutRP, mutSF, window, ready,
                 reconstructFrames, nextSend, frameExpect, pktSend, frmArrive, frmTimeout,
                 timer, expirations>>

\* Line 89: does the receiver take this data frame?
Expected(n, r) == r.seq = frameExpect[n]

ReceiveData(n) ==
  LET r == Head(recvFrames[n])
  IN  /\ FromPhysicalLayer(n)
      /\ r.type = DATA
      /\ reconstructFrames' = [reconstructFrames EXCEPT ![n] = Append(@, r)]
      /\ GoTo(n, IF ~ Expected(n, r) THEN "fetch" ELSE IF r.end THEN "up" ELSE "sendAck")
      /\ UNCHANGED <<sendPackets, recvPackets, sendFrames, mutRP, mutSF, lost, window,
                     ready, nextSend, frameExpect, pktSend, frmTimeout, timer, expirations>>

\* Mutant of CheckRecvPackets: giving up throws the frames away as well.
CheckRecvPacketsClears(n) ==
  /\ dlPC[n] = "up"
  /\ IF mutRP[n] = "free" /\ recvPackets[n] # <<>>
     THEN /\ GoTo(n, "sendAck")
          /\ Lose(n, "packetFull")
          /\ reconstructFrames' = [reconstructFrames EXCEPT ![n] = <<>>]
     ELSE GoTo(n, "deliver") /\ UNCHANGED <<lost, reconstructFrames>>
  /\ UNCHANGED <<sendPackets, recvPackets, sendFrames, recvFrames, mutRP, mutSF, window,
                 ready, nextSend, frameExpect, pktSend, frmArrive, frmTimeout, timer,
                 expirations>>

\* ToNetworkLayer, lines 282-289: give up if recvPackets can be seen to hold
\* a packet.  A trylock that fails skips the test.
CheckRecvPackets(n) ==
  /\ dlPC[n] = "up"
  /\ IF mutRP[n] = "free" /\ recvPackets[n] # <<>>
     THEN GoTo(n, "sendAck") /\ Lose(n, "packetFull")
     ELSE GoTo(n, "deliver") /\ UNCHANGED lost
  /\ UNCHANGED <<sendPackets, recvPackets, sendFrames, recvFrames, mutRP, mutSF, window,
                 ready, reconstructFrames, nextSend, frameExpect, pktSend, frmArrive,
                 frmTimeout, timer, expirations>>

\* The packet made of the first frame of q, or of its first two.
Rebuild(q) ==
  Unserialize(IF Len(q) = 1 THEN <<q[1].payload>> ELSE <<q[1].payload, q[2].payload>>)

\* Packet::Unserialize throws when what it finds is too short for a header.
PacketThrows(n) ==
  /\ dlPC[n] = "deliver"
  /\ \E p \in Rebuild(reconstructFrames[n]) : p.msg = 0

\* ToNetworkLayer, the rest; mutRP is polled until it is free.
DeliverPacket(n) ==
  /\ dlPC[n] = "deliver"
  /\ mutRP[n] = "free"
  /\ reconstructFrames' = [reconstructFrames EXCEPT ![n] = PopFront(PopFront(@))]
  /\ \E p \in Rebuild(reconstructFrames[n]) :
       recvPackets' = [recvPackets EXCEPT ![n] = Append(@, p)]
  /\ GoTo(n, "sendAck")
  /\ UNCHANGED <<sendPackets, sendFrames, recvFrames, mutRP, mutSF, lost, window, ready,
                 nextSend, frameExpect, pktSend, frmArrive, frmTimeout, timer, expirations>>

-----------------------------------------------------------------------------
(* ToPhysicalLayer and its callers.                                        *)

\* Mutant of WindowFull: a window of two frames.
WindowOfTwo(n) == Len(window[n]) = 2

\* Line 353: the 1-sliding window, for frames of either type.
WindowFull(n) == Len(window[n]) = 1

\* SendAck, then inc(frameExpect).
AckRefused(n) ==
  /\ dlPC[n] = "sendAck"
  /\ WindowFull(n)
  /\ Lose(n, "ackWindow")
  /\ frameExpect' = [frameExpect EXCEPT ![n] = Inc(@)]
  /\ GoTo(n, "fetch")
  /\ UNCHANGED <<sendPackets, recvPackets, sendFrames, recvFrames, mutRP, mutSF, window,
                 ready, reconstructFrames, nextSend, pktSend, frmArrive, frmTimeout, timer,
                 expirations>>

AckNotLocked(n) ==
  /\ dlPC[n] = "sendAck"
  /\ ~ WindowFull(n)
  /\ mutSF[n] # "free"
  /\ Lose(n, "ackLock")
  /\ frameExpect' = [frameExpect EXCEPT ![n] = Inc(@)]
  /\ GoTo(n, "fetch")
  /\ UNCHANGED <<sendPackets, recvPackets, sendFrames, recvFrames, mutRP, mutSF, window,
                 ready, reconstructFrames, nextSend, pktSend, frmArrive, frmTimeout, timer,
                 expirations>>

AckLocked(n) ==
  /\ dlPC[n] = "sendAck"
  /\ ~ WindowFull(n)
  /\ mutSF[n] = "free"
  /\ mutSF' = [mutSF EXCEPT ![n] = "DL"]
  /\ GoTo(n, "pushAck")
  /\ UNCHANGED <<sendPackets, recvPackets, sendFrames, recvFrames, mutRP, lost, window,
                 ready, reconstructFrames, nextSend, frameExpect, pktSend, frmArrive,
                 frmTimeout, timer, expirations>>

\* Mutant of PushAck: no inc(frameExpect).
PushAckNoInc(n) ==
  /\ dlPC[n] = "pushAck"
  /\ sendFrames' = [sendFrames EXCEPT ![n] = Append(@, Ack(frameExpect[n]))]
  /\ mutSF' = [mutSF EXCEPT ![n] = "free"]
  /\ GoTo(n, "fetch")
  /\ UNCHANGED <<sendPackets, recvPackets, recvFrames, mutRP, lost, window, ready,
                 reconstructFrames, nextSend, frameExpect, pktSend, frmArrive, frmTimeout,
                 timer, expirations>>

PushAck(n) ==
  /\ dlPC[n] = "pushAck"
  /\ sendFrames' = [sendFrames EXCEPT ![n] = Append(@, Ack(frameExpect[n]))]
  /\ mutSF' = [mutSF EXCEPT ![n] = "free"]
  /\ frameExpect' = [frameExpect EXCEPT ![n] = Inc(@)]
  /\ GoTo(n, "fetch")
  /\ UNCHANGED <<sendPackets, recvPackets, recvFrames, mutRP, lost, window, ready,
                 reconstructFrames, nextSend, pktSend, frmArrive, frmTimeout, timer,
                 expirations>>

\* Mutant of MayFetch: room for one frame is enough.
MayFetchAnyRoom(n) == Len(ready[n]) < MaxReady /\ pktSend[n]

\* Line 99: is there room in ready, and a packet to fetch?
MayFetch(n) == Len(ready[n]) < MaxReady - 2 /\ pktSend[n]

Fetch(n) ==
  /\ dlPC[n] = "fetch"
  /\ IF MayFetch(n) /\ sendPackets[n] # <<>>
     THEN LET p == Head(sendPackets[n])
          IN  /\ sendPackets' = [sendPackets EXCEPT ![n] = Tail(@)]
              /\ ready'    = [ready    EXCEPT ![n] = @ \o MakeFrames(p, nextSend[n])]
              /\ nextSend' = [nextSend EXCEPT ![n] = AfterFrames(p, @)]
     ELSE UNCHANGED <<sendPackets, ready, nextSend>>
  /\ pktSend' = [pktSend EXCEPT ![n] = @ /\ ~ MayFetch(n)]
  /\ GoTo(n, "send")
  /\ UNCHANGED <<recvPackets, sendFrames, recvFrames, mutRP, mutSF, lost, window,
                 reconstructFrames, frameExpect, frmArrive, frmTimeout, timer, expirations>>

\* Lines 105-108.  With nothing ready the loop starts again; otherwise the
\* front goes to ToPhysicalLayer, and the timer is (re)started whatever came
\* of it.
NothingReady(n) ==
  /\ dlPC[n] = "send"
  /\ ready[n] = <<>>
  /\ GoTo(n, "wait")
  /\ UNCHANGED <<sharedVars, window, ready, reconstructFrames, nextSend, frameExpect,
                 pktSend, frmArrive, frmTimeout, timer, expirations>>

FrameRefused(n) ==
  /\ dlPC[n] = "send"
  /\ ready[n] # <<>>
  /\ WindowFull(n)
  /\ timer' = [timer EXCEPT ![n] = TRUE]
  /\ GoTo(n, "wait")
  /\ UNCHANGED <<sharedVars, window, ready, reconstructFrames, nextSend, frameExpect,
                 pktSend, frmArrive, frmTimeout, expirations>>

\* Mutant of FrameNotLocked: an early return before the timer is started.
FrameNotLockedNoTimer(n) ==
  /\ dlPC[n] = "send"
  /\ ready[n] # <<>>
  /\ ~ WindowFull(n)
  /\ mutSF[n] # "free"
  /\ window' = [window EXCEPT ![n] = Append(@, Head(ready[n]))]
  /\ Lose(n, "frameLock")
  /\ GoTo(n, "wait")
  /\ UNCHANGED <<sendPackets, recvPackets, sendFrames, recvFrames, mutRP, mutSF, ready,
                 reconstructFrames, nextSend, frameExpect, pktSend, frmArrive, frmTimeout,
                 timer, expirations>>

\* The frame is in the window already when the trylock fails.
FrameNotLocked(n) ==
  /\ dlPC[n] = "send"
  /\ ready[n] # <<>>
  /\ ~ WindowFull(n)
  /\ mutSF[n] # "free"
  /\ window' = [window EXCEPT ![n] = Append(@, Head(ready[n]))]
  /\ Lose(n, "frameLock")
  /\ timer' = [timer EXCEPT ![n] = TRUE]
  /\ GoTo(n, "wait")
  /\ UNCHANGED <<sendPackets, recvPackets, sendFrames, recvFrames, mutRP, mutSF, ready,
                 reconstructFrames, nextSend, frameExpect, pktSend, frmArrive, frmTimeout,
                 expirations>>

FrameLocked(n) ==
  /\ dlPC[n] = "send"
  /\ ready[n] # <<>>
  /\ ~ WindowFull(n)
  /\ mutSF[n] = "free"
  /\ window' = [window EXCEPT ![n] = Append(@, Head(ready[n]))]
  /\ mutSF'  = [mutSF  EXCEPT ![n] = "DL"]
  /\ GoTo(n, "pushFrame")
  /\ UNCHANGED <<sendPackets, recvPackets, sendFrames, recvFrames, mutRP, lost, ready,
                 reconstructFrames, nextSend, frameExpect, pktSend, frmArrive, frmTimeout,
                 timer, expirations>>

PushFrame(n) ==
  /\ dlPC[n] = "pushFrame"
  /\ sendFrames' = [sendFrames EXCEPT ![n] = Append(@, Head(ready[n]))]
  /\ mutSF' = [mutSF EXCEPT ![n] = "free"]
  /\ timer' = [timer EXCEPT ![n] = TRUE]
  /\ GoTo(n, "wait")
  /\ UNCHANGED <<sendPackets, recvPackets, recvFrames, mutRP, lost, window, ready,
                 reconstructFrames, nextSend, frameExpect, pktSend, frmArrive, frmTimeout,
                 expirations>>

-----------------------------------------------------------------------------
(* SIGALRM: the one-shot timer runs out and HandleFrameTimeout sets the    *)
(* flag.  The thread that takes the signal is not modelled.                *)

TimerExpires(n) ==
  /\ timer[n]
  /\ expirations[n] < MaxTimeouts
  /\ timer'       = [timer       EXCEPT ![n] = FALSE]
  /\ frmTimeout'  = [frmTimeout  EXCEPT ![n] = TRUE]
  /\ expirations' = [expirations EXCEPT ![n] = @ + 1]
  /\ UNCHANGED <<sharedVars, window, ready, reconstructFrames, nextSend, frameExpect,
                 pktSend, frmArrive, dlPC>>

-----------------------------------------------------------------------------
DLStep(n) ==
  \/ TimeoutEvent(n)     \/ ArrivalEvent(n)  \/ PacketEvent(n)
  \/ ReceiveAck(n)       \/ PopSendFrames(n) \/ PopRecvFrames(n)
  \/ ReceiveData(n)      \/ CheckRecvPackets(n) \/ DeliverPacket(n)
  \/ AckRefused(n)       \/ AckNotLocked(n)  \/ AckLocked(n)  \/ PushAck(n)
  \/ Fetch(n)            \/ NothingReady(n)  \/ FrameRefused(n)
  \/ FrameNotLocked(n)   \/ FrameLocked(n)   \/ PushFrame(n)
=============================================================================
