------------------------------ MODULE NetworkLayer ------------------------------
(***************************************************************************)
(* NetworkLayer.cpp with the main thread that calls it: the client's       *)
(* prompt sends a request and waits for the answer, the server waits for a *)
(* request and answers it.  appPC is the place of the main thread:         *)
(*                                                                         *)
(*   prompt  the client reads a command line                               *)
(*   handle  the server is in handleMessage                                *)
(*   down    in FromApplicationLayer, packets left to put in sendPackets   *)
(*   poll    in ReceiveAPacket without mutRP                               *)
(*   hold    in ReceiveAPacket with mutRP                                  *)
(*                                                                         *)
(* What a message says is the business of other modules: here it is a      *)
(* number and the shape of its packets.                                    *)
(***************************************************************************)
EXTENDS Queues

CONSTANTS
  RequestShapes, ReplyShapes,   \* the shapes of the messages each side sends
  MaxRequests                   \* bound on the client's commands

ASSUME ShapesAssumption ==
  \A sh \in RequestShapes \cup ReplyShapes : IsShape(sh)
ASSUME RequestsAssumption == MaxRequests \in Nat

VARIABLES
  appPC,
  outgoing,      \* the packets of the message being sent, not yet in sendPackets
  buildBuffer,   \* the packets of the message being received
  received,      \* history: every message handed to the main thread
  sent           \* history: every message the main thread handed down

nlVars == <<appPC, outgoing, buildBuffer, received, sent>>

AppPlaces == {"prompt", "handle", "down", "poll", "hold"}

NLTypeOK ==
  /\ appPC \in [Node -> AppPlaces]
  /\ outgoing    \in [Node -> Seq(Packet)]
  /\ buildBuffer \in [Node -> Seq(Packet)]
  /\ received \in [Node -> Seq(Seq(Packet))]
  /\ sent     \in [Node -> Seq(Seq(Packet))]

NLInit ==
  /\ appPC = [n \in Node |-> IF n = Client THEN "prompt" ELSE "poll"]
  /\ outgoing    = [n \in Node |-> <<>>]
  /\ buildBuffer = [n \in Node |-> <<>>]
  /\ received = [n \in Node |-> <<>>]
  /\ sent     = [n \in Node |-> <<>>]

AppGoTo(n, place) == appPC' = [appPC EXCEPT ![n] = place]

-----------------------------------------------------------------------------
\* FromApplicationLayer: cut the message into packets.
FromApplicationLayer(n, sh) ==
  LET m == Packetize(Len(sent[n]) + 1, sh)
  IN  /\ outgoing' = [outgoing EXCEPT ![n] = m]
      /\ sent' = [sent EXCEPT ![n] = Append(@, m)]
      /\ AppGoTo(n, "down")
      /\ UNCHANGED <<sharedVars, buildBuffer, received>>

\* client.cpp: a command that reaches the server.
Command(n) ==
  /\ appPC[n] = "prompt"
  /\ Len(sent[n]) < MaxRequests
  /\ \E sh \in RequestShapes : FromApplicationLayer(n, sh)

\* server.cpp: a command that handleMessage knows gets exactly one answer, one
\* that it does not know gets none.  The client sends no command it does not know,
\* but what is left of a damaged one may be either.
Readable(m) == \A i \in 1 .. Len(m) : m[i].msg # 0

HandleMessage(n) ==
  /\ appPC[n] = "handle"
  /\ \/ \E sh \in ReplyShapes : FromApplicationLayer(n, sh)
     \/ /\ ~ Readable(received[n][Len(received[n])])
        /\ AppGoTo(n, "poll")
        /\ UNCHANGED <<sharedVars, outgoing, buildBuffer, received, sent>>

\* ToDataLinkLayer, once per packet; then FromDataLinkLayer.
ToDataLinkLayer(n) ==
  /\ appPC[n] = "down"
  /\ sendPackets' = [sendPackets EXCEPT ![n] = Append(@, Head(outgoing[n]))]
  /\ outgoing' = [outgoing EXCEPT ![n] = Tail(@)]
  /\ AppGoTo(n, IF Len(outgoing[n]) = 1 THEN "poll" ELSE "down")
  /\ UNCHANGED <<recvPackets, sendFrames, recvFrames, mutRP, mutSF, lost, buildBuffer,
                 received, sent>>

-----------------------------------------------------------------------------
\* ReceiveAPacket, line 83.
LockRecvPackets(n) ==
  /\ appPC[n] = "poll"
  /\ mutRP[n] = "free"
  /\ mutRP' = [mutRP EXCEPT ![n] = "App"]
  /\ AppGoTo(n, "hold")
  /\ UNCHANGED <<sendPackets, recvPackets, sendFrames, recvFrames, mutSF, lost, outgoing,
                 buildBuffer, received, sent>>

\* Mutant of NoPacket: the early return without its unlock.
NoPacketKeepsLock(n) ==
  /\ appPC[n] = "hold"
  /\ recvPackets[n] = <<>>
  /\ AppGoTo(n, "poll")
  /\ UNCHANGED <<sendPackets, recvPackets, sendFrames, recvFrames, mutRP, mutSF, lost,
                 outgoing, buildBuffer, received, sent>>

\* Lines 86-93, nothing there: give mutRP back and poll again.
NoPacket(n) ==
  /\ appPC[n] = "hold"
  /\ recvPackets[n] = <<>>
  /\ mutRP' = [mutRP EXCEPT ![n] = "free"]
  /\ AppGoTo(n, "poll")
  /\ UNCHANGED <<sendPackets, recvPackets, sendFrames, recvFrames, mutSF, lost, outgoing,
                 buildBuffer, received, sent>>

\* Mutant of ReceiveAPacket: the packet is copied and not popped.
ReceiveAPacketNoPop(n) ==
  LET p   == Head(recvPackets[n])
      buf == Append(buildBuffer[n], p)
  IN  /\ appPC[n] = "hold"
      /\ recvPackets[n] # <<>>
      /\ mutRP' = [mutRP EXCEPT ![n] = "free"]
      /\ IF p.end
         THEN /\ buildBuffer' = [buildBuffer EXCEPT ![n] = <<>>]
              /\ received' = [received EXCEPT ![n] = Append(@, Assemble(buf))]
              /\ AppGoTo(n, IF n = Client THEN "prompt" ELSE "handle")
         ELSE /\ buildBuffer' = [buildBuffer EXCEPT ![n] = buf]
              /\ UNCHANGED received
              /\ AppGoTo(n, "poll")
      /\ UNCHANGED <<sendPackets, recvPackets, sendFrames, recvFrames, mutSF, lost, outgoing,
                     sent>>

\* Lines 86-93 and FromDataLinkLayer's loop: on a message's last packet, put the
\* message together and hand it to the main thread.
ReceiveAPacket(n) ==
  LET p   == Head(recvPackets[n])
      buf == Append(buildBuffer[n], p)
  IN  /\ appPC[n] = "hold"
      /\ recvPackets[n] # <<>>
      /\ recvPackets' = [recvPackets EXCEPT ![n] = Tail(@)]
      /\ mutRP' = [mutRP EXCEPT ![n] = "free"]
      /\ IF p.end
         THEN /\ buildBuffer' = [buildBuffer EXCEPT ![n] = <<>>]
              /\ received' = [received EXCEPT ![n] = Append(@, Assemble(buf))]
              /\ AppGoTo(n, IF n = Client THEN "prompt" ELSE "handle")
         ELSE /\ buildBuffer' = [buildBuffer EXCEPT ![n] = buf]
              /\ UNCHANGED received
              /\ AppGoTo(n, "poll")
      /\ UNCHANGED <<sendPackets, sendFrames, recvFrames, mutSF, lost, outgoing, sent>>

\* Message::unserialize, which FromDataLinkLayer calls on the bytes of all packets,
\* throws when it finds no message's header at their beginning.
MessageThrows(n) ==
  /\ appPC[n] = "hold"
  /\ recvPackets[n] # <<>>
  /\ Head(recvPackets[n]).end
  /\ Assemble(Append(buildBuffer[n], Head(recvPackets[n])))[1].msg = 0

NLStep(n) ==
  \/ Command(n) \/ HandleMessage(n) \/ ToDataLinkLayer(n)
  \/ LockRecvPackets(n) \/ NoPacket(n) \/ ReceiveAPacket(n)
=============================================================================
