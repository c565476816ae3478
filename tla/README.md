# Models and proofs of the "did" client and server

"did" keeps records of missing persons and of found bodies. A command-line client talks to a
server over one TCP connection, through a protocol stack of its own: messages are cut into
packets (network layer), packets into frames (data link, Go-Back-1), and frames are sent with a
check field (physical layer). The server forks a process for each client, and each process has
its own connection to one MySQL database.

## The system

| component | source | state | operations |
|---|---|---|---|
| network layer | `NetworkLayer.cpp` | `buildBuffer` | `FromApplicationLayer`, `ToDataLinkLayer`, `FromDataLinkLayer` with `ReceiveAPacket` and `Assemble` |
| data link | `DataLink.cpp` | `window`, `ready`, `reconstructFrames`, `nextSend`, `frameExpect`, the flags `pktSend`, `frmArrive`, `frmTimeout`, the interval timer | the loop `GoBack1` and the functions it calls |
| physical layer | `PhysicalLayer.cpp` | the socket, `connected` | the loop `run`: `SendAFrame`, `ReceiveFrames` |
| shared queues | globals of `client.cpp`, `server.cpp` | `sendPackets`, `recvPackets`, `sendFrames`, `recvFrames`, four mutexes | push, pop, lock, trylock |
| codecs | `Frame.cpp`, `Packet.cpp`, `Message.cpp`, `Utils.cpp` | none | serialize, unserialize, digits |
| server | `server.cpp` | `auth`, `u`, `connected` | `main`, `handleMessage`, `AcceptConn` |
| database | `db.cpp` | tables `public`, `admin`, `users` | one function for each command |
| client | `client.cpp` | none between commands | `startPrompt` |

In each process three threads share the queues: the main thread (prompt or `handleMessage`, and
the network layer, which it calls), the data link thread and the physical layer thread. They
poll; nothing blocks on a condition. A signal handler sets `frmTimeout`. The server's processes
share nothing but the database, and the sockets that each inherits from the parent.

What is hard here: three threads that use mutexes inconsistently (a queue popped without its
mutex, a mutex unlocked by a thread that does not hold it, trylocks that drop data on failure);
two data links that acknowledge each other's frames through one window test; TCP, which knows no
frames; functions of `db.cpp` that check in one query and change in another; a MySQL connection
that can be lost before, during and after a query; processes that crash in the middle of a
command; a parent that closes no socket and waits for no child; formats read one byte beside where
they were written; a prompt whose checks are all the server relies on. What makes the components correct:

* data link: at most one frame in flight, no duplicate, no frame taken twice or out of order,
  `ready` within its limit, the timer on while a frame waits;
* network layer: messages arrive in order, once, as they were sent;
* physical layer: it touches `sendFrames` only while it may;
* both together: an answer comes, or there is a reason why not;
* codecs: what is read is what was written, for every length and every byte that can be sent;
* parent and processes: who is served, and for how long;
* prompt: a request that fits one frame, and each argument in its parameter's place;
* server and database: limits of the tables, who may change what, answers that tell what was
  done, and an answer to every command.

## Modules

| module | models |
|---|---|
| `Did` | messages, packets and frames, and which come out of which: `Packetize`, `MakeFrames`, `Unserialize`, `Assemble`, `Inc` |
| `Queues` | the shared queues, the two mutexes whose failing trylock matters, and the history variable `lost` |
| `DataLink` | the data link thread and the timer |
| `PhysicalLayer` | the physical layer thread and TCP (`wire`, `remnant`) |
| `NetworkLayer` | the main thread inside the network layer |
| `Stack` | both processes: all threads interleaved, and the process's end by an exception; the properties of the stack; fairness; the refinement mapping to `PacketChannel` |
| `PacketChannel` | abstract specification: what the network layer may count on, until it breaks |
| `Sessions` | `handleMessage` and `db.cpp`: any number of processes on the same tables |
| `Tables` | abstract specification: a command takes effect on the tables in one step, or is dropped |
| `Codec` | the formats on real bytes: digits, offsets, strings that end at a NUL, the check field |
| `Transfer` | one message on its way through `Codec`: packets, frames, segments of TCP, and back |
| `Processes` | `AcceptConn` and `main`: connections, sockets, processes, MySQL connections and their limits |
| `Prompt` | `startPrompt`, and `handleMessage`'s splitting of the request into arguments |
| `MCStack`, `MCSessions`, `MCTransfer`, `MCProcesses`, `MCPrompt` | instances for TLC |
| `MCClaims`, `MCSessionClaims` | what comments in the source say and the code does not do |
| `StackWindow`, `StackFrames`, `StackMessages`, `SessionsProofs`, `ProcessesProofs`, `PromptProofs`, `TransferProofs` | theorems and proofs |
| `CodecLemmas` | what the conversions of `Codec` return, for `TransferProofs` |

`Stack` puts `DataLink`, `PhysicalLayer` and `NetworkLayer` together. The other state machines stand
by themselves and meet at narrow places. For `Stack` a command is a message that is answered with one
message; which answer is the business of `Sessions`, and which command of `Prompt`. `Stack` counts on
requests of one frame, which is what `Prompt`'s `RequestFitsOneFrame` says, and on frames of text that
are accepted and read as they were sent unless two arrive together, which is what `Transfer` shows;
`Transfer` also shows, byte by byte, the remnants of which `Stack` only says that they may pass for a frame.
`Processes` has the ends of processes and connections for whatever reason, and takes from `Stack` that a
request or an answer may be lost on the way (`LoseFrame`).

### State and actions of the stack

Every variable is a function over `{Client, Server}`. Each thread has a place (`appPC`, `dlPC`,
`plPC`) and each action is the code between two accesses to shared state; actions keep the names
of the functions or say which lines they are. `mutSP` and `mutRF` have no variable, for every use
of `sendPackets` and `recvFrames` is one critical section that is tried until it succeeds; a
critical section is one step. `mutRP` and `mutSF` are variables: a trylock that fails makes the
code drop a frame, drop an ack or skip a test, and the unlock at `PhysicalLayer.cpp:81` may
release the other thread's lock.

The pops of `sendFrames` and pushes to it that can happen without the mutex are single steps too.
That two of them cannot really overlap on the `std::deque` is not assumed: `AckPopsNothing` and
`QueueUntouched` say that the queue is empty, or not, as the code needs at the moments where
another thread might be in it. What remains is a push by the data link thread next to a pop by
the physical layer thread at one end each, for which the model takes the order of the two.

Data is abstract: a packet is known by its message and its number, a frame carries one of the
packet's one or two chunks, and `Unserialize` and `Assemble` say what comes out of wrong or
missing chunks (garbage is the packet `Garbled`, which belongs to message 0). A frame of ASCII
text has a check field below 128; with `Photos` any data frame may have one above, which
`FrameValid` refuses.

TCP delivers bytes in order. One `send` is taken to travel as one segment: `recv` returns one frame or
several whole ones (`ReceiveMerged`), never a part of one, except for the part that does not fit the
receiver's buffer. The rest of such a frame, the remnant, comes first in a later `recv` (`remnant`,
`ReadRemnant`): it is checked as a frame of its own and may be refused (`RemnantRefused`), pushed as an ack
or as data with any number (`RemnantAccepted`, `MadeUp`), or make `Unserialize` throw (`FrameThrows`). What
was made up then goes the way of any frame: it is merged with the next frame's payload into some packet, or
`Packet::Unserialize` or `Message::unserialize` throws (`PacketThrows`, `MessageThrows`). Nobody catches
that: `Terminate` ends the process (`ended`). `LongFrames` says whether there are frames that do not fit the
buffer behind an ack.

`lost` is a history variable: it names the places of the code that threw a frame or packet away.
No action reads it.

### State and actions of the sessions

`phase` is the place of a server process: between messages, or before one of the queries of the function
`handleMessage` called. A query is atomic, which MySQL guarantees for one statement. Two choices stand for
MySQL's environment: `LoseLink` (the connection breaks between two queries) and the second disjunct of
`Executed` (it breaks after the query was carried out and before its result came back). `Ping` may bring the
connection up again or not. `ResultLost`: where rows are to be fetched, `mysql_store_result` returns NULL
when the connection is lost before they are there, and the functions of `db.cpp` fetch from it at once,
which ends the process.

A row is its key: `public` is a set of ids, `admin` maps personIDs to a name and a location, `accounts` maps
usernames to passwords. Of a location only `TextLength` matters, for `locationsWithMissing` throws away a
list of up to 8 characters (`db.cpp:501`). Three history variables, `did`, `faulted` and `blind`, are read
by properties only. The schema is not in the repository; usernames and personIDs are taken to be unique and
each table to have an `AUTO_INCREMENT` column, because the code's own tests (`db.cpp:606-618`,
`mysql_insert_id(&mysql) != 0`) make no sense otherwise.

Undefined behaviour that the build can turn into a fault is a choice: `Crashes` for the
uninitialized list in `locationsWithMissing`, the empty or freed row in `getPhoto`, and the photo
of a failed `getPhoto`. `createmissing` always crashes after its INSERT succeeded, for
`handleMessage` passes the new id to `setCmd` as a string (`server.cpp:130`); the authors' README
lists the command among those that do not work.

`Tables` is the promise behind it. `TablesSpec` maps a session to it by `hand`: the command a process
has in hand, with the name in `u`. `Tables` takes a command, and settles it in one step or drops it.
It is weaker than the comments of `db.cpp` in two places, where the code is: `Most` rows instead of
the limit, and a password that is replaced whatever it is by then.

### Bytes: `Codec` and `Transfer`

`Codec` translates the conversions literally, on sequences of bytes: `itoa` and `ltoa` with their width,
`atoi` with its blanks, sign and stop, `Serialize` and `Unserialize` of a frame or packet (one class in
effect: the same header), `serialize` and `unserialize` of a message, with the offsets of the source.
`substr` throws beyond the end of its string. `CString` cuts at a NUL, as the constructor of
`std::string` does; memory nobody wrote is a sequence of `junk` bytes. `FrameValid` has the signs that `char`
has on the build's platform.

`Transfer`'s actions are the conversions in the order a message meets them, without threads: `MakeFrames`
when the frames before are acknowledged, `ReceiveFrames` on one or more segments at once, as far as they
fit the buffer. An end that owes an ack sends it first, so that one `recv` may hold an ack and a frame.
`TakeFrame` has the test of the number at `DataLink.cpp:89`: a data frame with another number, as a remnant may
have, is kept but not acknowledged.
`last` is a history variable: the frames in the latest `recv`, whether they were whole, what came of them, and
whether this or an earlier `recv` took a remnant for a frame (`torn`): what did not fit the buffer behind an ack
is checked like a frame when it is received, and nothing but the check field tells it from one.

### Processes: `Processes`

`parent` is in `accept` or before `fork`; `child[c]` is the place of the process forked for the connection
`c`; `sockets[c]` are the connections whose sockets that process inherited. Nothing in `server.cpp` closes a
socket or waits for a child, so `accepted` only grows and a child that ended still counts as a process. A
process ends when its `main` returns (no MySQL connection), when `handleMessage` faults, when it sends to a
client that has gone (SIGPIPE), or when `recv` returns -1. When `recv` returns 0 only its physical layer's
thread ends (`PhysicalLayer.cpp:134`), and `main` polls for ever: `left`. A connection ends for the client
when no process holds its socket (`StillOpen`); then its physical layer's thread ends too (`deaf`). `Fault`
may happen in any command: `Sessions` has which. `Answer` hands the answer to the layers (`answers`), which
deliver it (`Deliver`), unless a frame of it, or of the request before, is thrown away (`LoseFrame`); the
history variable `stalled` tells for whom. Which places throw frames away is in `Stack`.

### Lines: `Prompt`

A line is its words, each with its text, place and length. `ReadLine` is one round of `startPrompt`: what
`getline` keeps of the line (`Fitting`, `Cut`), the seven words that are kept of these (`Kept`), the checks
of the command (`Interpret`, `Fields`, `Needed`, `checkLength`) and the request (`Send`). The prompt calls
itself for the next line: `depth`. `failed` is `cin`'s state after a line that is too long; nobody clears
it. `HandleMessage` is the server's side of the same words: `Entry` is an element of `argvNew`, `Unset`
split never wrote it. After its request the prompt is `Answered`, or never will be (`Unanswered`: "stuck"),
as after every `createmissing` that inserts a row. `HeapDamaged` stands for the buffers that are a byte
short of their NUL.

## Runs

| run | instance | checks |
|---|---|---|
| `stack_safety` | two commands, answers of one or two frames, one timeout on each side; up to the first remnant taken for a frame | `StopAndWait`, `AckPopsNothing`, `QueueUntouched`, `InOrderArrival`, `TimerCoversWindow`, `MessagesMatch` |
| `stack_multi` | one command, an answer of two packets with photo bytes, `MaxReady` 4; remnants, and everything behind one that was taken for a frame | `TypeOK`, `EventBacked`, `ReadyInOrder`, `RefusedAckIsSecondary`, `ChannelSpec` (refinement of `PacketChannel`) |
| `stack_live` | one command, an answer of two packets with photo bytes, the first of two frames; fair scheduling | `StallHasCause` |
| `sessions_tables` | two processes, all commands on persons and bodies | `TypeOK`, `TablesBounded`, `TablesSpec` (refinement of `Tables`), `AnswersTell`, `OnlyAdminsChange` |
| `sessions_accounts` | two processes: logins, users, passwords, a table that is filled, lists and photos that are missing; fair | `SignedInAsUser`, `TablesSpec`, `AnswersTell`, `OnlyAdminsChange`, `RequestAnswered` |
| `transfer` | 26 messages: texts of every length at which a format changes, two whose remnant passes for a frame (with the number expected, and with another), photos with bytes above 127 and NUL; three first numbers, the last one among them; two values of unwritten memory | `TypeOK`, `RefusedForCheckByte`, `FrameReadAsSent`, `MergedReadAsAck`, `OnlyRemnantsThrow`, `PacketsReadAsSent`, `TextReadAsSent` |
| `processes` | three clients, two descriptors, two children, one MySQL connection, fair | `TypeOK`, `LifetimeBound`, `EndUnseen`, `WaitHasCause` |
| `prompt` | each command with 0 to 8 arguments, at and beyond each length's limit, and lines of 127, 128 and more characters; four calls fit the stack; fair | `TypeOK`, `RequestFitsOneFrame`, `ServerReadsWritten`, `ArgumentsMatch`, `LongLineFatal` |
| `claim_message`, `claim_retransmit` | one command | a comment of the source that the code contradicts |
| `claim_limit`, `claim_password` | two processes | the same, in `db.cpp` |

Bounds of the stack: `MaxSeq` 2 (the code: 65535) lets numbers wrap within a run; `MaxReady` 3 or 4 (20) is
the least that allows a packet of two frames; `MaxTimeouts` bounds expirations of a timer and
`MaxRequests` the client's commands. Two commands make every queue be used again after it
was left dirty by the first one, and make the sequence numbers wrap; an answer of two frames is
what makes an ack and a data frame meet in both directions.
`stack_safety` explores no further than the first step that takes a remnant for a frame (`CONSTRAINT
Intact`; `lost` never forgets it): of all states behind it, its properties say something in one only,
`TimerCoversWindow`, which is a theorem. The properties that a made-up frame might disturb are
`stack_multi`'s, without a constraint; the states behind a remnant are many, for the made-up frame may be
any, so there it is one command and no timeout. In `stack_live` there is neither a timeout nor a frame
longer than the buffer allows behind an ack: a remnant comes only after `recv` has thrown a frame away
(`merged`), and then `StallHasCause` has its cause already. Its two packets are what makes the second one
come while the first is still in `recvPackets`.
Of the sessions: `Limit` 1 (100) rows and `MaxLosses` 1 lost MySQL connection; two processes with one free
row are the smallest race for the limit, and the theorems cover more of both.
Of `Transfer`: the sizes are the code's own; no behaviour depends on a length except where a digit is
added, a frame, packet or buffer is full, or a check byte's sign turns, and the messages are on both
sides of each.
Of `Processes`: three clients are one more than the descriptors, so that `accept`, `fork` and `connectToDB`
each fail in some behaviour; the safety properties are theorems.
Of `Prompt`: the limits are the code's own; `MaxDepth` 4 is enough, for no call looks at an earlier one.

Deadlock is checked in `stack_live`, where no process can end. In the other stack runs it is not, for an
exception may end both processes and then nothing is left to happen. Nor elsewhere: once every client has
left, the server's processes remain for ever in a loop that nothing can end (`left`), a message arrives
once, and a prompt ends.

What the passing runs show: in spite of the missing mutexes, Go-Back-1 as coded is stop-and-wait (with the
two sides alternating as client and server do), the unlocked pop at `DataLink.cpp:84` never takes a frame,
and the packets that do arrive arrive in order and once, all of it until the physical layer takes a remnant
for a frame. A frame that is lost whole can only stop the exchange, never corrupt it; the remnant of one can
corrupt it: it may pass for an ack, for data with any number, or end the process, and then none of these
properties is left (`Intact` is their condition). `StallHasCause` counts on eight places, the taken remnant
among them, and `claim_retransmit` shows why no timeout heals a loss. In the database, the limit can be
passed only by one row for each further process; answers are right unless the MySQL connection is lost
during the command; and whatever queries come between a command's own, it takes effect in one step.

Bytes: a text message of one packet that does not begin with a digit is read as it was written
although `Message::unserialize` reads its length one byte too late; a frame is refused exactly when a check
byte is above 127, which plain text never causes; an ack and a frame of text received together pass the
check and are read as the ack, so that the frame is lost without a trace. What does not fit the buffer behind
an ack is a remnant that may pass the check as well and is then taken for a frame with contents of its own:
`Remnant` in `MCTransfer` is a plain text to which this happens. No check could repair what follows, so
`PacketsReadAsSent` and `TextReadAsSent` speak of the time before (`~last.torn`), and without that condition
the run refutes `TextReadAsSent`. Left out of these properties
because the code does not do it: the size of a message's content is read as ten times what was
written (`Message.cpp:81`), and a text that begins with a digit, as a list of locations may, makes
`substr` throw (`Message.cpp:82`) or is cut.

Processes: the server gets to serve fewer clients in its whole life than a process may have descriptors,
and when a process ends, its client cannot tell. Prompt: no request needs two frames, the server reads
nothing its split did not write, and each argument is the user's word for that parameter, except that
`createMissing` gets the constant "loc" instead of the location (`server.cpp:127`); a line as long as the
buffer ends the client in the end, or leaves it waiting for an answer that never comes.

Fairness. `Stack!FairSpec`: each of the threads goes on when it can (the operating system schedules them),
except for the prompt, where the user may never type again, and the timer. Two strong conditions: the data
link's polled trylock of `mutRP` succeeds in the end although the main thread takes and releases that mutex
all the time, and bytes that were sent are received in the end although a poll may time out before they
come. `Sessions!FairSpec`: a process that waits for MySQL gets an answer or an error in the end, as the
client library's calls return. `Processes!FairSpec`: the parent and each child go on when they can, and each
waiting connection is accepted if `accept` goes on succeeding (strong, for another connection may be taken
first: the backlog is a queue). What the layers have of an answer for a client that polls, they deliver in
the end or lose. A client need neither type nor leave. `Prompt!FairSpec`: a prompt goes on after a failed
read, and a request is answered in the end or never will be (one weak condition for both: which of them is
the business of the other modules); the user need not type.

## Findings

Four comments of the source are contradicted by the code, each with a run that shows how:
`DataLink.cpp:56` (no retransmission happens), `NetworkLayer.cpp:120` (half of a long message
is reconstructed), `db.cpp:304` (more than 100 rows) and `db.cpp:509` (the old password is checked
too early).

Others have no run of their own; the models do as the code does, and the properties name the case:

| comment | code | in the models |
|---|---|---|
| `DataLink.cpp:79` "clear ack off queues" | the frame behind the ack is popped | `PopRecvFrames`; a cause in `StallHasCause` |
| `PhysicalLayer.cpp:88` "Assumes it has a mutex on mutSF" | line 81 may have given it away | `QueueUntouched` says that it does no harm |
| `db.h:40` true if found, "otherwise false" | true when MySQL cannot be reached | `PingFails`; excepted in `AnswersTell` |
| `db.h:45` "all the locations" | a list of up to 8 characters is told as none | `LocationsWithMissing`; in `AnswersTell` |
| `db.cpp:809` "just a duplicate photo" | also an id that no row has | `AddPhoto` |
| `db.cpp:24` "should call disconnectFromDB at the end of session" | never, when a client leaves | `ClientHasGone`; why `LifetimeBound` is about clients that left, too |
| `Message.cpp:77` "make a Message out of a previously serialized Message" | lengths read one byte too late | `contentSizeRead`, `strSizeRead`; the conditions of `TextReadAsSent` |
| `PhysicalLayer.cpp:120` "Validates it" | a signed byte compared with an unsigned one | `RefusedForCheckByte` |
| `PhysicalLayer.cpp:120` "Checks if a frame is waiting" | the rest of a frame is checked as a frame too | `RemnantAccepted`, `Remnant`; the condition `Intact`, and `~last.torn` |
| `client.cpp:175` "lastKnownLocation" | not used | `Loc`; excepted in `ArgumentsMatch` |
| `client.cpp:444` "restart" | a failed `cin` is never cleared | `LongLineFatal` |

## Proofs

All proofs are checked by tlapm; they hold for every value of the constants that satisfies the
named assumptions of the modules (`NodeAssumption`, `SeqAssumption`, `ReadyAssumption`,
`ShapesAssumption`, ..., `SessionAssumption`, `LimitAssumption`, `RequestsAssumption`,
`AccountsAssumption`, ...), which TLC evaluates in the runs.

* `StackWindow`, types: `Spec => []TypeInv` and `Spec => []TypeOK`. `TypeInv` strengthens `TypeOK` with
  what typing alone needs to be inductive: a thread about to use the front of a queue has one
  there (at `up` and `deliver` a data frame has been put away, at `pushFrame` a frame is in
  `ready`, at `down` a packet is left). One lemma per thread, one step per action.
  And `Spec => []EventBacked`, `[]ReadyInOrder`, `[]TimerCoversWindow`: what a data link thread may rely on
  about its own queues is inductive together with `TypeInv`, once `OneInWindow` is added: with two frames in
  the window an ack would leave one there whose copy in `ready` is gone. Each thread's steps touch one node,
  so the proof is about `QueuesAt(n)`; of the physical layer it uses only that it adds to `recvFrames`.
* `StackWindow`, order: `Spec => []StopAndWait`, `[]AckPopsNothing`, `[]QueueUntouched`, `[]InOrderArrival`.
  All four say `Intact => ...`, and so does what is inductive (`Sound`, and `Delivered` below): `lost` only
  grows, so a step to an intact state starts in one (`IntactBefore`), and the step that takes a remnant ends
  it (`AcceptedBreaks`). `StopAndWait` is not inductive. `Link(s, r)` adds the order that makes it so: an
  ack is pushed only while the window is empty, so it goes ahead of the data frame that may follow, and what
  s's frame (or the ack that it has become) has passed is empty behind it (`LeftSender`, `LeftWire`). That
  gives the two unguarded looks at `sendFrames` as well: when an ack comes back, s's queue is empty, and
  nothing is popped between the physical layer's two looks. A step concerns both links, for the peers'
  frames and acks share the queues. `Numbers(s, r)` adds that the two ends agree on the next number until
  the ack is under way and differ by one from then on; when a frame or an ack is lost neither half says
  anything any more, which is why no loss can put a frame out of order.
* `StackFrames` and `StackMessages`: `Spec => []MessagesMatch`, `Spec => ChannelSpec` (the refinement of
  `PacketChannel`) and `Spec => []RefusedAckIsSecondary`. A message on its way is in several queues at
  once. `Contents(s, r)` puts those of one direction together: the packets r has put together, those whose
  frames r has taken or s has still to send (a frame that arrived and is not yet acknowledged is in both
  places and counts once), and those s has not cut into frames. The invariant is `Turns` (who asks and who
  answers, as sums of the histories' lengths), `Frames(s, r)` (the frames between the two network layers are
  a stream of whole packets, and every data frame below is the first of `ready`) and `Messages(s, r)` (what
  the receiver has of a message, `Contents` and what is not yet handed down are exactly the one message that
  is due). A step of a thread below the network layers keeps `Contents`, which with the steps of the main
  threads is the refinement; where a frame arrives, that is `InOrderArrival`, and where an ack comes back,
  `ReadyInOrder`. The step that takes a remnant is the channel's `Break`, and after it every step is a stutter
  (`BreakMapped`). `Packets` is a recursive function; what it makes of a concatenation is proved by induction
  over the naturals in a form about sets of numbers (`NatSet`, from the well-foundedness of `<`), for the
  library's induction theorem takes an operator as a parameter. `RefusedAckIsSecondary` adds `LossInv`: as
  long as nothing was thrown away, the frame in a window is still under way or on its way back as an ack, and
  by `Turns` only one side has packets under way, so that an ack never finds a frame in its own window.
* `SessionsProofs`, safety: `Spec => []TypeOK`, `Spec => []SignedInAsUser`, `Spec => OnlyAdminsChange`,
  `Spec => []TablesBounded`, `Spec => AnswersTell`.
  The invariant is `TypeOK /\ Working /\ SignedInAsUser`; `Working` says of a process between two
  queries that its request is a command, that whoever gave an administrator's command is signed in
  still, and that the name in `u` is the one the login in hand is for. Without it, the checks of
  `handleMessage` would say nothing about the queries that come later. `TablesBounded` is not inductive:
  `RowsInv` counts the rows together with the processes that found room and have not inserted yet, and this
  sum stays below `Limit + Cardinality(Session)`: finding room needs a row below the limit, whoever else is
  on the way, and an INSERT turns one into the other. `AnswersTell` needs `Honest`: a request in hand has
  changed nothing yet, a connection that is down was lost during this request, and only the commands that
  create a row count rows. That a list of at most 8 characters has no place of more is a fact about a sum
  over a set, for which `NatSet` is used again, and about `admin` being finite, which is part of `RowsInv`.
* `SessionsProofs`, refinement: `Spec => TablesSpec`. Each action is a step of `Tables` or a stutter: taking a
  command is `Take`; a query that changed a row is that command's step, whether its result comes back
  or the process crashes after it; an answer without a change is `Drop`; a query between two of the
  same command keeps `hand`. That the name and the request are still those that were taken is the
  invariant above, and `Most` is `TablesBounded`.
* `ProcessesProofs`: `Spec => []TypeOK`, `[]LifetimeBound`, `[]EndUnseen`. `LifetimeBound` says nothing that
  an action keeps by itself. The invariant says that the processes' sets of sockets are nested, for each
  is what the parent held at its fork and the parent closes none (`Inherited`, `Nested`, `Latest`); that
  whoever was served had room for one more descriptor (`Room`); and that one of them has the
  connections of them all (`Largest`), whose number is thereby below the limit.
* `PromptProofs`: `Spec => []TypeOK`, `[]RequestFitsOneFrame`, `[]ServerReadsWritten`, `[]ArgumentsMatch`,
  for every set of lines. A request's arguments are as many as its command's fields and within their
  limits (`Checked`), they are the line's words while the client waits (`Copied`), and the server's call is
  made of them (`Called`); the sums and the splitting of each command follow.

* `CodecLemmas`: what the conversions return. A byte is the sum of its bits, and `Xor` is the exclusive or
  bit by bit (`NumberBits`, `XorBits`); so `Xor` is associative and undoes itself, and the check field of
  two frames of even length is that of the first if the second one's is right (`MergedCheck`, from
  `FoldConcat`). What `itoa` writes in five digits, `atoi` reads, for every number of sixteen bits
  (`NumberReadBack`), and what `Serialize` writes of a frame or packet without NUL, `Unserialize` reads,
  whatever is behind it in memory (`FormatReadBack`). `Digits`, `Fold`, `Value` and `FlattenSeq` are
  recursive functions; that each exists, and what it does at each place, is proved with `NatSet`.
* `TransferProofs`: `Spec => []TypeOK`, `[]RefusedForCheckByte`, `[]FrameReadAsSent`, `[]MergedReadAsAck`,
  `[]OnlyRemnantsThrow`, `[]PacketsReadAsSent`, `[]TextReadAsSent`, for all messages, first numbers and
  values of unwritten memory. What a `recv` can find is one whole frame, an ack and a frame behind it, or a
  remnant of at most 14 bytes (`OnTheWire`, with `SentFirst`, `OneInFlight` and `DataLast` inductive);
  `Received` says what comes of each, and `Outcomes` carries that to the state. The last two need `InOrder`:
  the frame on the wire and the one received are the front of `ready` (`OnWay`, `FrontRead`), a packet is
  due exactly when its last frame was taken (`Completed`), and for some j the first j packets have been put
  together, the next one's frames are with the receiver up to some place and with the sender from there on,
  and the rest are still `packets` (`Stream`, `Held`). `Like` is the weak relation that holds of every
  payload, `end` only, and says equality without NUL: a frame cut short at a NUL still ends its packet. For
  `TextReadAsSent` follow the offsets of `Message::unserialize`: the misread size is seventeen zeros (the
  last one the first digit of the text's length, which is below ten thousand), the misread length its other
  four digits, which fit a `short` (`AsShortIs`) and which the text's first byte must end (`TextHeader`,
  `TextRead`): hence the condition that it is no digit.

Model-checked only: the properties under fairness (`StallHasCause`, `RequestAnswered`, `WaitHasCause`,
`LongLineFatal`). Liveness and ENABLED are out of the prover's reach. Every safety and action property and
both refinements that the passing runs check are theorems. Induction over data by the library's theorems is
out of reach as well, for these take an operator as a parameter; where it was needed, `NatSet` served. The
theorems are about the model's formulas: that TCP keeps what one `send` sent together, and that a query of
MySQL is atomic, are in the model and not proved of anything.

## Not modelled

* `GoBackN`, which is never called, and the test drivers (`aaron*.cpp`, `chris.cpp`, `ray.cpp`): they call
  single layers by hand and are not part of the program (three of them use a frame type `data` that nothing
  declares any more).
* The makefile and the authors' notes.
* `connectToDB`'s and `disconnectFromDB`'s calls of the MySQL library beyond success or failure, and the
  texts of queries and their escaping; the schema, which is not in the repository.
* `getaddrinfo`, `socket`, `bind` and `listen` failing: either program ends before it begins.
* What the pointer that `Message::unserialize` leaves behind points to when it is read: `Transfer` has the
  text still there or not (`kept`), and no code is there that could be held to account.
* The contents of photo files and the texts the prompt shows.

## Plan

Done in this order: the stack with its safety properties; the channel and liveness; the sessions; types and
session theorems; the bytes; the processes; the prompt; the tables and their refinement, with the theorems
about these; the data links' queues, window and numbers; messages, the refinement of `PacketChannel`, losses
and answers; the conversions and `Transfer`, with the exclusive or defined from bits, for `Bitwise` cannot
be used under a proof. Left is an abstract specification of `Transfer` as a channel of messages, and a
closer look at the steps of the proofs that could share lemmas.
