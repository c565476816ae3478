--------------------------------- MODULE Prompt ---------------------------------
(***************************************************************************)
(* client.cpp's startPrompt, quit and checkLength, and the splitting of    *)
(* the command at the other end (server.cpp, handleMessage): which lines   *)
(* become which requests, and which arguments the functions of db.cpp get. *)
(*                                                                         *)
(* A word of a line is known by its text, its place in the line and its    *)
(* length.  The prompt calls itself for the next line, so `depth' counts   *)
(* the calls on the stack.                                                 *)
(***************************************************************************)
EXTENDS Integers, Sequences, FiniteSets

CONSTANTS
  Text,        \* what a word may say
  Lines,       \* what the user may type: [words, length]
  MaxDepth     \* the calls of startPrompt that fit the stack

MAX_FIRST    == 15
MAX_LAST     == 20
MAX_LOCATION == 36
MAX_ID       == 9
MAX_USER     == 20
InputSize    == 128     \* of startPrompt's buffer
ArgvSize     == 7       \* words kept, the command included

\* The commands and their lengths.
Letters ==
  [locations |-> 9, createmissing |-> 13, login |-> 5, query |-> 5, adduser |-> 7, id |-> 2,
   password |-> 8, removemissing |-> 13, removebody |-> 10, createbody |-> 10, addphoto |-> 8,
   addbodyphoto |-> 12, dlmissingphoto |-> 14]

Op == DOMAIN Letters

\* Commands that need a login.
AdminOps == {"adduser", "id", "removemissing", "removebody", "password", "createbody",
             "dlmissingphoto", "addbodyphoto"}

PhotoOps == {"addphoto", "addbodyphoto", "dlmissingphoto"}

Word == [text : Text, at : Nat, len : Nat \ {0}]

\* What an entry of the server's argvNew may hold besides a word.
NULL  == [text |-> "NULL",  at |-> 0, len |-> 0]
Unset == [text |-> "unset", at |-> 0, len |-> 0]

\* The words of a line in their order, with a blank or more after each.
ASSUME LinesAssumption ==
  \A l \in Lines :
    /\ l.length \in Nat /\ l.words \in Seq(Word)
    /\ \A i \in DOMAIN l.words : l.words[i].at + l.words[i].len <= l.length
    /\ \A i, j \in DOMAIN l.words : i < j => l.words[i].at + l.words[i].len < l.words[j].at
ASSUME TextAssumption  == "cut" \in Text     \* of a word that getline cut
ASSUME DepthAssumption == MaxDepth \in Nat \ {0}

VARIABLES
  place,     \* "prompt", "waiting" for the answer, "stuck" when none will come,
             \* "ended", "crashed"
  depth,
  failed,    \* is cin in a failed state?
  line,      \* the words of the latest line that were kept
  request,   \* the latest command sent: [op, args, content]
  call       \* the server's call of a db function for it: [op, args]

vars == <<place, depth, failed, line, request, call>>

NoRequest == [op |-> "none", args |-> <<>>, content |-> 0]
NoCall    == [op |-> "none", args |-> <<>>]

TypeOK ==
  /\ place \in {"prompt", "waiting", "stuck", "ended", "crashed"}
  /\ depth \in 1 .. MaxDepth
  /\ failed \in BOOLEAN
  /\ Len(line) <= ArgvSize
  /\ request.op \in Op \cup {"none"} /\ Len(request.args) <= 4 /\ request.content \in Nat
  /\ call.op \in Op \cup {"none"}
  /\ place = "waiting" => request.op # "none"

Init ==
  /\ place = "prompt" /\ depth = 1 /\ failed = FALSE
  /\ line = <<>> /\ request = NoRequest /\ call = NoCall

-----------------------------------------------------------------------------
(* Reading a line.                                                         *)

\* getline keeps InputSize - 1 characters; a word may be cut by that.
Fitting(l) == {i \in DOMAIN l.words : l.words[i].at < InputSize - 1}

Cut(w) == IF w.at + w.len < InputSize THEN w
          ELSE [text |-> "cut", at |-> w.at, len |-> InputSize - 1 - w.at]

AtMost(n, max) == IF n < max THEN n ELSE max

\* Mutant of Kept: the loop stops one word too late.
KeptEight(l) == [i \in 1 .. AtMost(Cardinality(Fitting(l)), ArgvSize + 1) |-> Cut(l.words[i])]

\* strtok and the loop that stops at the eighth word.
Kept(l) == [i \in 1 .. AtMost(Cardinality(Fitting(l)), ArgvSize) |-> Cut(l.words[i])]

\* The limits of a command's arguments, by how many the user gave.
Fields(op, n) ==
  CASE op = "locations"     -> <<>>
    [] op = "createmissing" -> <<MAX_FIRST, MAX_LAST, MAX_LOCATION>>
    [] op = "query"         -> <<MAX_FIRST, MAX_LAST>>
    [] op = "id"            -> <<MAX_ID, MAX_FIRST, MAX_LAST>>
    [] op \in {"login", "adduser", "password"} -> <<MAX_USER, MAX_USER>>
    [] op \in {"removemissing", "removebody"} \cup PhotoOps -> <<MAX_ID>>
    [] op = "createbody"    -> IF n >= 4 THEN <<MAX_ID, MAX_LOCATION, MAX_FIRST, MAX_LAST>>
                                         ELSE <<MAX_ID, MAX_LOCATION>>

\* The arguments tested for NULL: a photo's file is not sent.
Needed(op, n) == IF op \in PhotoOps THEN 2 ELSE Len(Fields(op, n))

\* Mutant of checkLength: off by one.
checkLengthOneMore(w, max) == w.len <= max + 1

checkLength(w, max) == w.len <= max

CmdLength(op, args) ==
  LET n == Len(args)
  IN  Letters[op] + (IF n >= 1 THEN 1 + args[1].len ELSE 0) + (IF n >= 2 THEN 1 + args[2].len ELSE 0)
                  + (IF n >= 3 THEN 1 + args[3].len ELSE 0) + (IF n >= 4 THEN 1 + args[4].len ELSE 0)

\* The next call of startPrompt, in the last place where this one does something.
Again == IF depth < MaxDepth THEN depth' = depth + 1 /\ place' = "prompt"
                             ELSE depth' = depth /\ place' = "crashed"

\* Mutant of Send: of a photo the whole file, here of 100 bytes, is sent.
SendFile(op, args) ==
  /\ request' = [op |-> op, args |-> args,
                 content |-> IF op \in {"addphoto", "addbodyphoto"} THEN 100 ELSE 0]
  /\ call' = NoCall
  /\ place' = "waiting" /\ UNCHANGED depth

\* A request; of a photo as many bytes as the command has characters.
Send(op, args) ==
  /\ request' = [op |-> op, args |-> args,
                 content |-> IF op \in {"addphoto", "addbodyphoto"} THEN CmdLength(op, args) ELSE 0]
  /\ call' = NoCall
  /\ place' = "waiting" /\ UNCHANGED depth

\* A line with a command, of which ws are the words.
Interpret(ws) ==
  LET op     == ws[1].text
      n      == Len(ws) - 1
      fields == Fields(op, n)
      args   == [i \in DOMAIN fields |-> ws[i + 1]]
      good   == /\ op \in Op
                /\ n >= Needed(op, n)
                /\ \A i \in DOMAIN fields : checkLength(args[i], fields[i])
  IN  \/ op = "quit" /\ place' = "ended" /\ UNCHANGED <<depth, request, call>>
      \/ op # "quit" /\ good /\ Send(op, args)
      \/ op \in {"addphoto", "addbodyphoto"} /\ good      \* no such file
           /\ Again /\ UNCHANGED <<request, call>>
      \/ op # "quit" /\ ~ good                            \* help, a message on what is wrong
           /\ Again /\ UNCHANGED <<request, call>>

\* A line that is too long is cut and leaves cin failed.
ReadLine ==
  /\ place = "prompt" /\ ~ failed
  /\ \E l \in Lines :
       /\ failed' = (l.length >= InputSize)
       /\ line' = Kept(l)
       /\ \/ l.length = 0 /\ Again /\ UNCHANGED <<request, call>>
          \/ l.length > 0 /\ line' = <<>>       \* blanks only: every call returns
               /\ place' = "ended" /\ UNCHANGED <<depth, request, call>>
          \/ line' # <<>> /\ Interpret(line')

EndOfInput ==
  /\ place = "prompt" /\ ~ failed
  /\ place' = "ended"
  /\ UNCHANGED <<depth, failed, line, request, call>>

\* Mutant of ReadFails: cin is made good again.
ReadFailsClears ==
  /\ place = "prompt" /\ failed
  /\ line' = <<>>
  /\ failed' = FALSE
  /\ Again
  /\ UNCHANGED <<request, call>>

\* Once failed, getline gives an empty line at once, and that is another call.
ReadFails ==
  /\ place = "prompt" /\ failed
  /\ line' = <<>>
  /\ Again
  /\ UNCHANGED <<failed, request, call>>

-----------------------------------------------------------------------------
(* The server's side, and the answer.                                      *)

\* argvNew[i] after the command was split again.
Entry(i) ==
  LET n == Len(request.args)
  IN  IF i <= n THEN request.args[i] ELSE IF i = n + 1 THEN NULL ELSE Unset

\* The word that createmissing's branch puts in the place of the location.
Loc == [text |-> "loc", at |-> 0, len |-> 3]

\* Mutant of ServerArgs: createbody asks only whether there is a last name.
ServerArgsOneTest(op) ==
  CASE op = "locations"     -> <<>>
    [] op = "createmissing" -> <<Entry(1), Entry(2), Loc>>
    [] op \in {"query", "login", "adduser", "password"} -> <<Entry(1), Entry(2)>>
    [] op = "id"            -> <<Entry(1), Entry(2), Entry(3)>>
    [] op \in {"removemissing", "removebody"} \cup PhotoOps -> <<Entry(1)>>
    [] op = "createbody"    -> IF Entry(4) # NULL
                               THEN <<Entry(1), Entry(2), Entry(3), Entry(4)>>
                               ELSE <<Entry(1), Entry(2), NULL, NULL>>

\* The arguments of each branch's call.
ServerArgs(op) ==
  CASE op = "locations"     -> <<>>
    [] op = "createmissing" -> <<Entry(1), Entry(2), Loc>>
    [] op \in {"query", "login", "adduser", "password"} -> <<Entry(1), Entry(2)>>
    [] op = "id"            -> <<Entry(1), Entry(2), Entry(3)>>
    [] op \in {"removemissing", "removebody"} \cup PhotoOps -> <<Entry(1)>>
    [] op = "createbody"    -> IF Entry(3) # NULL /\ Entry(4) # NULL
                               THEN <<Entry(1), Entry(2), Entry(3), Entry(4)>>
                               ELSE <<Entry(1), Entry(2), NULL, NULL>>

\* handleMessage: a call of a db function, unless a login is needed.
HandleMessage ==
  /\ place = "waiting" /\ call = NoCall
  /\ call' = [op |-> request.op, args |-> ServerArgs(request.op)]
  /\ UNCHANGED <<place, depth, failed, line, request>>

\* The answer, from the db function or for want of a login.  Of createmissing it is
\* the one after an error: with a new id the server faults (server.cpp:130).
Answered ==
  /\ place = "waiting"
  /\ call = NoCall => request.op \in AdminOps \cup {"login"}
  /\ Again
  /\ UNCHANGED <<failed, line, request, call>>

\* No answer comes, for the server's process has ended or a frame was thrown away:
\* the client polls for it and never returns to the prompt.
Unanswered ==
  /\ place = "waiting"
  /\ place' = "stuck"
  /\ UNCHANGED <<depth, failed, line, request, call>>

\* Each buffer for a command is one byte short of its last NUL: malloc may find
\* its data damaged when the next block is taken or this one freed.
HeapDamaged ==
  /\ place = "waiting" /\ request.op # "locations"
  /\ place' = "crashed"
  /\ UNCHANGED <<depth, failed, line, request, call>>

Next ==
  \/ ReadLine \/ EndOfInput \/ ReadFails
  \/ HandleMessage \/ Answered \/ Unanswered \/ HeapDamaged

Spec == Init /\ [][Next]_vars

\* The user may stop typing; what does not wait for the user goes on.  A request is
\* answered in the end or never will be: which, is Stack's and Processes' business.
FairSpec ==
  /\ Spec
  /\ WF_vars(ReadFails) /\ WF_vars(HandleMessage) /\ WF_vars(Answered \/ Unanswered)

-----------------------------------------------------------------------------
\* Every request fits one packet, that one frame, and that, with an ack in front,
\* one recv: a request is never cut into two frames.  (startPrompt's limits
\* against MESSAGE_HEAD, PACKET_HEAD, FRAME_HEAD, FRAME_TAIL and MAX_FRAME.)
RequestFitsOneFrame ==
  request.op # "none" =>
    LET packet == 12 + 22 + CmdLength(request.op, request.args) + request.content
    IN  packet <= 150 /\ 2 * (12 + 2) + packet <= 150 + 12 + 2

\* handleMessage, which checks nothing itself, reads no entry of argvNew that the
\* split did not write, and gives NULL to createMissingAdmin only, for both names.
ServerReadsWritten ==
  \A i \in DOMAIN call.args :
    /\ call.args[i] # Unset
    /\ call.args[i] = NULL => call.op = "createbody" /\ {call.args[3], call.args[4]} = {NULL}

\* The parameters of the functions in db.h, in their order, and the columns' widths.
Parameters(op) ==
  CASE op = "createmissing" -> <<"first", "last", "location">>
    [] op = "query"         -> <<"first", "last">>
    [] op = "createbody"    -> <<"id", "location", "first", "last">>
    [] op = "id"            -> <<"id", "first", "last">>
    [] op \in {"login", "adduser"} -> <<"user", "password">>
    [] op = "password"      -> <<"password", "password">>
    [] op \in {"removemissing", "removebody"} \cup PhotoOps -> <<"id">>
    [] OTHER                -> <<>>

Width == [first |-> MAX_FIRST, last |-> MAX_LAST, location |-> MAX_LOCATION, id |-> MAX_ID,
          user |-> MAX_USER, password |-> MAX_USER]

\* Each function of db.cpp gets as many arguments as it has parameters, each of
\* which is the word the user typed in that place (but for createmissing's
\* location), and none is wider than did.h allows.  The server relies on the client.
ArgumentsMatch ==
  call.op # "none" =>
    /\ Len(call.args) = Len(Parameters(call.op))
    /\ \A i \in DOMAIN call.args :
         /\ call.args[i].len <= Width[Parameters(call.op)[i]]
         /\ place = "waiting" => call.args[i] \in {NULL, Loc} \/ call.args[i] = line[i + 1]

\* A line that is too long is fatal: if the command in it does not end the client or
\* leave it without an answer, the calls for the next line, which is never read,
\* exhaust the stack.
LongLineFatal == failed ~> place \in {"ended", "crashed", "stuck"}
=============================================================================
