--------------------------------- MODULE Stack ---------------------------------
(***************************************************************************)
(* One client and the server process forked for it: in each, the main      *)
(* thread (NetworkLayer), the data link thread and the physical layer      *)
(* thread, interleaved at every access to what they share.                 *)
(***************************************************************************)
EXTENDS DataLink, PhysicalLayer, NetworkLayer

VARIABLE ended     \* has n's process ended by an exception that nobody caught?

vars == <<sharedVars, dlVars, plVars, nlVars, ended>>

TypeOK ==
  SharedTypeOK /\ DLTypeOK /\ PLTypeOK /\ NLTypeOK /\ ended \in [Node -> BOOLEAN]

Init == SharedInit /\ DLInit /\ PLInit /\ NLInit /\ ended = [n \in Node |-> FALSE]

\* A process's threads and its timer go on until it ends.
Running(n) == ~ ended[n] /\ UNCHANGED ended

AppThread(n) == Running(n) /\ NLStep(n) /\ UNCHANGED <<dlVars, plVars>>
DLThread(n)  == Running(n) /\ DLStep(n) /\ UNCHANGED <<plVars, nlVars>>
PLThread(n)  == Running(n) /\ PLStep(n) /\ UNCHANGED <<dlVars, nlVars>>
Alarm(n)     == Running(n) /\ TimerExpires(n) /\ UNCHANGED <<plVars, nlVars>>

\* string::substr throws in one of the threads and nothing catches it.  What the
\* process held is gone with it; what the peer sends from now on nobody reads.
Terminate(n) ==
  /\ ~ ended[n]
  /\ FrameThrows(n) \/ PacketThrows(n) \/ MessageThrows(n)
  /\ ended' = [ended EXCEPT ![n] = TRUE]
  /\ UNCHANGED <<sharedVars, dlVars, plVars, nlVars>>

Next == \E n \in Node : AppThread(n) \/ DLThread(n) \/ PLThread(n) \/ Alarm(n) \/ Terminate(n)

Spec == Init /\ [][Next]_vars

-----------------------------------------------------------------------------
(* Fairness.  Each thread is scheduled again and again.  ToNetworkLayer's  *)
(* polled trylock of mutRP, which the main thread takes and gives back all *)
(* the time, succeeds in the end, and TCP delivers what was sent although  *)
(* poll times out now and then: these two are strong.  The user may never  *)
(* type again, and a timer that is stopped in time does not run out.       *)

\* The step takes bytes off the wire.
Reads(n) ==
  \/ wire'[Peer(n)] # wire[Peer(n)]
  \/ remnant'[Peer(n)] # remnant[Peer(n)]

Fairness ==
  \A n \in Node :
    /\ WF_vars(DLThread(n))
    /\ WF_vars(PLThread(n))
    /\ WF_vars(AppThread(n) /\ appPC[n] # "prompt")
    /\ SF_vars(DeliverPacket(n) /\ Running(n) /\ UNCHANGED <<plVars, nlVars>>)
    /\ SF_vars(PLThread(n) /\ Reads(n))

FairSpec == Spec /\ Fairness

-----------------------------------------------------------------------------
(* Go-Back-1 is stop-and-wait.  All this holds until the rest of a frame   *)
(* is taken for a frame (RemnantAccepted); from then on nothing does, for  *)
(* the made-up frame may be an ack, or data with any number.               *)

\* No remnant was ever taken for a frame.
Intact == \A n \in Node : "remnant" \notin lost[n]

HasData(q) == \E i \in 1 .. Len(q) : q[i].type = DATA
HasAck(q)  == \E i \in 1 .. Len(q) : q[i].type = ACK

\* At most one ack, then at most one data frame.
Short(q) == Len(q) <= 2 /\ (Len(q) = 2 => q[1].type = ACK /\ q[2].type = DATA)

\* A node that is handling a data frame and has not acknowledged it yet.
Acking == {"up", "deliver", "sendAck", "pushAck"}

One(b) == IF b THEN 1 ELSE 0

\* Where s's frame can be on its way out, and its ack on the way back.
InFlight(s) ==
  LET r == Peer(s)
  IN  One(dlPC[s] = "pushFrame") + One(HasData(sendFrames[s])) + One(HasData(wire[s]))
        + One(HasData(recvFrames[r])) + One(dlPC[r] \in Acking)
        + One(HasAck(sendFrames[r])) + One(HasAck(wire[r])) + One(HasAck(recvFrames[s]))

\* A node has at most one unacknowledged frame, that frame or its ack is in at
\* most one place, and it is in some place only while the window holds it: no
\* duplicate, no ack without a frame, and no queue ever holds more than an ack
\* and a data frame, in that order (GoBack1, ToPhysicalLayer's window test).
StopAndWait ==
  Intact =>
    \A s \in Node :
      /\ InFlight(s) <= Len(window[s])
      /\ Len(window[s]) <= 1
      /\ Short(sendFrames[s]) /\ Short(wire[s]) /\ Short(recvFrames[s])

\* GoBack1 pops sendFrames without mutSF when an ack arrives (DataLink.cpp:84):
\* it never throws a frame away by that, unless a remnant was taken for an ack.
AckPopsNothing == Intact => \A n \in Node : dlPC[n] = "ackSF" => sendFrames[n] = <<>>

\* SendAFrame's second look at sendFrames (PhysicalLayer.cpp:93) finds what the
\* first one saw, although the mutex may have been given away in between: only the pop for a
\* made-up ack can empty the queue there.
QueueUntouched == Intact => \A n \in Node : plPC[n] = "pop" => sendFrames[n] # <<>>

\* FromPhysicalLayer is called with an arrival behind it, so it never returns
\* NULL, which would make GoBack1 spin, nor the previous frame again.
EventBacked == \A n \in Node : dlPC[n] = "receive" => frmArrive[n] /\ recvFrames[n] # <<>>

\* The data frame a node is about to look at is the one it waits for: the test
\* of the number at DataLink.cpp:89 fails only after a frame was made up.
InOrderArrival ==
  Intact =>
    \A n \in Node :
      dlPC[n] = "receive" /\ recvFrames[n] # <<>> /\ Head(recvFrames[n]).type = DATA
        => Head(recvFrames[n]).seq = frameExpect[n]

\* ready never reaches MAX_READY, even when the last packet takes two frames
\* (the `- 2' of DataLink.cpp:99), and it holds consecutive numbers up to the
\* next one, the frame in the window first.
ReadyInOrder ==
  \A n \in Node :
    /\ Len(ready[n]) < MaxReady
    /\ \A i \in 1 .. Len(ready[n]) - 1 : ready[n][i + 1].seq = Inc(ready[n][i].seq)
    /\ ready[n] # <<>> => nextSend[n] = Inc(ready[n][Len(ready[n])].seq)
    /\ window[n] # <<>> => ready[n] # <<>> /\ ready[n][1] = window[n][1]

\* ToPhysicalLayer's window test stands in the way of acks as well, but an ack
\* is refused only when a frame or ack was thrown away before.
RefusedAckIsSecondary ==
  \A n \in Node : "ackWindow" \in lost[n] => \E m \in Node : lost[m] \ {"ackWindow"} # {}

\* While a frame waits for its ack and the thread waits for an event, the timer
\* runs or its expiration is about to be reported.
TimerCoversWindow ==
  \A n \in Node : dlPC[n] = "wait" /\ window[n] # <<>> => timer[n] \/ frmTimeout[n]

\* Every message arrives as FromDataLinkLayer assembles it, in the order it was
\* sent: no message is lost, repeated or made of two, whatever frames were lost,
\* as long as none was made up.
MessagesMatch ==
  Intact =>
    \A n \in Node :
      /\ Len(received[n]) <= Len(sent[Peer(n)])
      /\ \A k \in 1 .. Len(received[n]) : received[n][k] = Assemble(sent[Peer(n)][k])

-----------------------------------------------------------------------------
(* The stack below the network layer implements a packet channel.          *)

\* The packets whose last frame is in q, in order.
Packets(q) ==
  LET upTo[i \in 0 .. Len(q)] ==
        IF i = 0 THEN <<>>
        ELSE IF q[i].end THEN Append(upTo[i - 1], q[i].payload.pkt) ELSE upTo[i - 1]
  IN  upTo[Len(q)]

\* s's first ready frame has reached its peer's reconstructFrames.
FrontArrived(s) ==
  /\ ready[s] # <<>>
  /\ \/ dlPC[Peer(s)] \in Acking
     \/ ready[s][1].seq # frameExpect[Peer(s)]

InChannel(s) ==
  recvPackets[Peer(s)] \o Packets(reconstructFrames[Peer(s)])
    \o Packets(IF FrontArrived(s) THEN Tail(ready[s]) ELSE ready[s]) \o sendPackets[s]

\* The packets of a run: there are no more messages than commands.
RunPackets ==
  UNION {{Packetize(m, sh)[i] : i \in 1 .. Len(sh)} :
           m \in 1 .. MaxRequests, sh \in RequestShapes \cup ReplyShapes}

Channel == INSTANCE PacketChannel WITH
             Packet <- RunPackets,
             chan   <- [s \in Node |-> IF Intact THEN InChannel(s) ELSE <<>>],
             broken <- ~ Intact

\* The data link and physical layers of both ends, seen from the network
\* layers, are a packet channel: order is kept and nothing is lost, duplicated
\* or made up (a packet whose frame is lost stays in ready), until a remnant is
\* taken for a frame, which breaks the channel.
ChannelSpec == Channel!Spec

-----------------------------------------------------------------------------
\* A client that asked gets an answer, unless a frame or packet was thrown away
\* by one of the places in Causes: nothing else can keep it waiting.
StallHasCause ==
  (appPC[Client] # "prompt") ~> (appPC[Client] = "prompt" \/ \E n \in Node : lost[n] # {})
=============================================================================
