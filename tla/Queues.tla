-------------------------------- MODULE Queues --------------------------------
(***************************************************************************)
(* The globals of client.cpp and server.cpp that the three threads of a    *)
(* process share: four queues and the mutexes that guard them.  Each is a  *)
(* function over the two processes.                                        *)
(*                                                                         *)
(* mutSP and mutRF have no variable: every use of sendPackets, and every   *)
(* use of recvFrames, is one critical section behind a lock or a polled    *)
(* trylock that is simply tried again, so it is one atomic step.  mutRP    *)
(* and mutSF are variables because the code does something else when its   *)
(* trylock fails.                                                          *)
(***************************************************************************)
EXTENDS Did

VARIABLES
  sendPackets,   \* network layer -> data link
  recvPackets,   \* data link -> network layer
  sendFrames,    \* data link -> physical layer
  recvFrames,    \* physical layer -> data link
  mutRP,         \* who holds mutRP: "free" or "App"
  mutSF,         \* who holds mutSF: "free", "DL" or "PL"
  lost           \* history: the places of the code that threw a frame or packet away

sharedVars == <<sendPackets, recvPackets, sendFrames, recvFrames, mutRP, mutSF, lost>>

Causes == {"frameLock",   \* ToPhysicalLayer: trylock failed on a data frame
           "ackLock",     \* ToPhysicalLayer: trylock failed on an ack
           "ackWindow",   \* ToPhysicalLayer: ack refused, the window is full
           "ackPop",      \* GoBack1: second pop of recvFrames after an ack
           "packetFull",  \* ToNetworkLayer: recvPackets was not empty
           "merged",      \* ReceiveFrames: one recv returned several frames
           "remnant",     \* ReceiveFrames: the rest of a frame was taken for a frame
           "checkByte"}   \* ReceiveFrames: FrameValid refused a good frame

Lose(n, cause) == lost' = [lost EXCEPT ![n] = @ \cup {cause}]

SharedTypeOK ==
  /\ sendPackets \in [Node -> Seq(Packet)]
  /\ recvPackets \in [Node -> Seq(Packet)]
  /\ sendFrames  \in [Node -> Seq(Frame)]
  /\ recvFrames  \in [Node -> Seq(Frame)]
  /\ mutRP \in [Node -> {"free", "App"}]
  /\ mutSF \in [Node -> {"free", "DL", "PL"}]
  /\ lost  \in [Node -> SUBSET Causes]

SharedInit ==
  /\ sendPackets = [n \in Node |-> <<>>]
  /\ recvPackets = [n \in Node |-> <<>>]
  /\ sendFrames  = [n \in Node |-> <<>>]
  /\ recvFrames  = [n \in Node |-> <<>>]
  /\ mutRP = [n \in Node |-> "free"]
  /\ mutSF = [n \in Node |-> "free"]
  /\ lost  = [n \in Node |-> {}]
=============================================================================
