------------------------------ MODULE PromptProofs ------------------------------
(***************************************************************************)
(* The prompt's requests and the server's reading of them, for every line  *)
(* that can be typed.  The argument: whatever line it was, the words kept  *)
(* are words; a request has as many of them as its command's fields, each  *)
(* within its limit (Checked); and while the client waits they are the     *)
(* line's words (Copied).  The server's call is made of those.             *)
(***************************************************************************)
EXTENDS Prompt, TLAPS, FiniteSetTheorems

IsWord(w) == w.at \in Nat /\ w.len \in Nat \ {0}

\* The fields of a request, by the number of its arguments.
RequestFields == Fields(request.op, Len(request.args))

\* Every argument of a request is a word within its field's limit.
Checked ==
  request.op # "none" =>
    /\ request.op \in Op
    /\ request.args \in Seq(Word)
    /\ Len(request.args) = Len(RequestFields)
    /\ \A i \in 1 .. Len(request.args) : request.args[i].len <= RequestFields[i]
    /\ request.content \in {0, CmdLength(request.op, request.args)}
    /\ request.content # 0 => request.op \in {"addphoto", "addbodyphoto"}

\* While its answer is awaited, a request's arguments are words of the line.
Copied ==
  place = "waiting" =>
    /\ request.op # "none"
    /\ \A i \in DOMAIN request.args : request.args[i] = line[i + 1]

\* The server's call, if any, is for the latest request.
Called ==
  call # NoCall =>
    request.op # "none" /\ call = [op |-> request.op, args |-> ServerArgs(request.op)]

LineOK == line \in Seq(Word) /\ Len(line) <= ArgvSize

IInv ==
  /\ place \in {"prompt", "waiting", "stuck", "ended", "crashed"}
  /\ depth \in 1 .. MaxDepth /\ failed \in BOOLEAN
  /\ request = NoRequest \/ request.op # "none"
  /\ LineOK /\ Checked /\ Copied /\ Called

-----------------------------------------------------------------------------
\* The words that getline keeps a part of are the first ones of the line.
LEMMA FittingIsPrefix ==
  ASSUME NEW l \in Lines, NEW i \in 1 .. Cardinality(Fitting(l))
  PROVE  i \in DOMAIN l.words /\ i \in Fitting(l)
<1> DEFINE n == Len(l.words)
<1>1. n \in Nat /\ DOMAIN l.words = 1 .. n /\ \A k \in 1 .. n : l.words[k] \in Word
  BY LinesAssumption
<1>2. IsFiniteSet(1 .. n) /\ Cardinality(1 .. n) = n
  BY <1>1, FS_Interval
<1>3. Fitting(l) \subseteq 1 .. n
  BY <1>1 DEF Fitting
<1>4. IsFiniteSet(Fitting(l)) /\ Cardinality(Fitting(l)) <= n
  BY <1>2, <1>3, FS_Subset
<1>5. Cardinality(Fitting(l)) \in Nat
  BY <1>4, FS_CardinalityType
<1>6. i \in 1 .. n
  BY <1>1, <1>4, <1>5
<1>7. ASSUME i \notin Fitting(l) PROVE FALSE
  <2>1. \A j \in Fitting(l) : j < i
    <3> SUFFICES ASSUME NEW j \in Fitting(l), j >= i PROVE FALSE
      BY <1>1, <1>3, <1>6
    <3>1. j \in 1 .. n /\ l.words[j].at < InputSize - 1
      BY <1>1 DEF Fitting
    <3>2. ~ (l.words[i].at < InputSize - 1)
      BY <1>1, <1>6, <1>7 DEF Fitting
    <3>3. i # j /\ i < j
      BY <1>6, <3>1, <3>2
    <3>4. l.words[i].at + l.words[i].len < l.words[j].at
      BY <1>1, <1>6, <3>1, <3>3, LinesAssumption
    <3>5. l.words[i] \in Word /\ l.words[j] \in Word
      BY <1>1, <1>6, <3>1
    <3> QED BY <3>1, <3>2, <3>4, <3>5 DEF Word, InputSize
  <2>2. Fitting(l) \subseteq 1 .. (i - 1)
    BY <1>1, <1>3, <1>6, <2>1
  <2>3. IsFiniteSet(1 .. (i - 1)) /\ Cardinality(1 .. (i - 1)) = i - 1
    BY <1>6, FS_Interval
  <2>4. Cardinality(Fitting(l)) <= i - 1
    BY <2>2, <2>3, FS_Subset
  <2> QED BY <1>5, <1>6, <2>4
<1> QED BY <1>1, <1>6, <1>7

\* What is kept of a line: at most seven words, none of them empty.
LEMMA KeptWords ==
  ASSUME NEW l \in Lines
  PROVE  Kept(l) \in Seq(Word) /\ Len(Kept(l)) <= ArgvSize
<1> DEFINE c == Cardinality(Fitting(l))
           m == AtMost(c, ArgvSize)
<1>1. DOMAIN l.words = 1 .. Len(l.words) /\ \A k \in DOMAIN l.words : l.words[k] \in Word
  BY LinesAssumption
<1>2. IsFiniteSet(Fitting(l))
  <2>1. Len(l.words) \in Nat
    BY LinesAssumption
  <2>2. IsFiniteSet(1 .. Len(l.words))
    BY <2>1, FS_Interval
  <2>3. Fitting(l) \subseteq 1 .. Len(l.words)
    BY <1>1 DEF Fitting
  <2> QED BY <2>2, <2>3, FS_Subset
<1>3. c \in Nat
  BY <1>2, FS_CardinalityType
<1>4. m \in Nat /\ m <= ArgvSize /\ m <= c
  BY <1>3 DEF AtMost, ArgvSize
<1>5. ASSUME NEW i \in 1 .. m PROVE Cut(l.words[i]) \in Word
  <2>1. i \in 1 .. c
    BY <1>3, <1>4
  <2>2. i \in DOMAIN l.words /\ l.words[i].at < InputSize - 1
    BY <2>1, FittingIsPrefix DEF Fitting
  <2>3. l.words[i] \in Word
    BY <1>1, <2>2
  <2>4. CASE l.words[i].at + l.words[i].len < InputSize
    BY <2>3, <2>4 DEF Cut
  <2>5. CASE ~ (l.words[i].at + l.words[i].len < InputSize)
    <3>1. l.words[i].at \in Nat /\ InputSize - 1 - l.words[i].at \in Nat \ {0}
      BY <2>2, <2>3 DEF Word, InputSize
    <3> QED BY <2>5, <3>1, TextAssumption DEF Cut, Word
  <2> QED BY <2>4, <2>5
<1> HIDE DEF m
<1>6. Kept(l) = [i \in 1 .. m |-> Cut(l.words[i])]
  BY DEF Kept, m
<1> QED BY <1>4, <1>5, <1>6

-----------------------------------------------------------------------------
LEMMA OpNames ==
  Op = {"locations", "createmissing", "login", "query", "adduser", "id", "password",
        "removemissing", "removebody", "createbody", "addphoto", "addbodyphoto",
        "dlmissingphoto"}
BY DEF Op, Letters

\* A command's fields are no more than the arguments asked for, and are decided by
\* how many of the arguments are sent.
LEMMA FieldsFacts ==
  ASSUME NEW op \in Op, NEW n \in Nat
  PROVE  /\ Fields(op, n) \in Seq(Nat)
         /\ Len(Fields(op, n)) <= 4
         /\ n >= Needed(op, n) => Len(Fields(op, n)) <= n
         /\ Fields(op, Len(Fields(op, n))) = Fields(op, n)
<1> USE DEF Fields, Needed, PhotoOps, MAX_FIRST, MAX_LAST, MAX_LOCATION, MAX_ID, MAX_USER
<1>1. CASE op \in {"locations", "createmissing", "query", "id"}
  BY <1>1
<1>2. CASE op \in {"login", "adduser", "password"}
  BY <1>2
<1>3. CASE op \in {"removemissing", "removebody", "addphoto", "addbodyphoto", "dlmissingphoto"}
  BY <1>3
<1>4. CASE op = "createbody" /\ n >= 4
  BY <1>4
<1>5. CASE op = "createbody" /\ ~ (n >= 4)
  BY <1>5
<1> QED BY <1>1, <1>2, <1>3, <1>4, <1>5, OpNames

LEMMA InitIInv == Init => IInv
<1> SUFFICES ASSUME Init PROVE IInv
  OBVIOUS
<1>1. LineOK
  BY DEF Init, LineOK, ArgvSize
<1>2. request = NoRequest /\ request.op = "none" /\ call = NoCall
  BY DEF Init, NoRequest
<1>3. Checked /\ Called /\ Copied
  BY <1>2 DEF Init, Checked, Called, Copied
<1>4. depth = 1 /\ failed = FALSE /\ place = "prompt"
  BY DEF Init
<1>5. depth \in 1 .. MaxDepth
  BY <1>4, DepthAssumption
<1> QED BY <1>1, <1>2, <1>3, <1>4, <1>5 DEF IInv

LEMMA SeqOf ==
  ASSUME NEW S, NEW n \in Nat, NEW g, DOMAIN g = 1 .. n, g = [i \in 1 .. n |-> g[i]],
         \A i \in 1 .. n : g[i] \in S
  PROVE  g \in Seq(S) /\ Len(g) = n
OBVIOUS

\* The request made of a line.
LEMMA SendStep ==
  ASSUME NEW ws \in Seq(Word), ws # <<>>, ws[1].text \in Op,
         LET op == ws[1].text
             n  == Len(ws) - 1
             f  == Fields(op, n)
         IN  /\ n >= Needed(op, n)
             /\ \A i \in DOMAIN f : checkLength(ws[i + 1], f[i])
             /\ Send(op, [i \in DOMAIN f |-> ws[i + 1]])
  PROVE  /\ Checked' /\ Called'
         /\ request'.op # "none"
         /\ \A i \in DOMAIN request'.args : request'.args[i] = ws[i + 1]
<1> DEFINE op == ws[1].text
           n  == Len(ws) - 1
           f  == Fields(op, n)
           args == [i \in DOMAIN f |-> ws[i + 1]]
<1>1. n \in Nat /\ op # "none"
  BY OpNames
<1>2. f \in Seq(Nat) /\ Len(f) <= n /\ Fields(op, Len(f)) = f
  BY <1>1, FieldsFacts
<1>3. request'.op = op /\ request'.args = args /\ call' = NoCall
      /\ request'.content = IF op \in {"addphoto", "addbodyphoto"} THEN CmdLength(op, args) ELSE 0
  BY DEF Send
<1> HIDE DEF f
<1>4. args \in Seq(Word) /\ Len(args) = Len(f) /\ DOMAIN args = DOMAIN f
  <2>1. \A i \in DOMAIN f : ws[i + 1] \in Word
    BY <1>1, <1>2
  <2>2. Len(f) \in Nat /\ DOMAIN f = 1 .. Len(f) /\ args = [i \in 1 .. Len(f) |-> ws[i + 1]]
    BY <1>2
  <2>3. \A i \in 1 .. Len(f) : args[i] = ws[i + 1] /\ args[i] \in Word
    BY <2>1, <2>2
  <2> HIDE DEF args
  <2> QED BY <2>2, <2>3, SeqOf
<1>5. \A i \in DOMAIN f : args[i] = ws[i + 1] /\ args[i].len <= f[i]
  BY DEF checkLength, f
<1> HIDE DEF args
<1>6. Checked'
  <2>1. RequestFields' = f
    BY <1>2, <1>3, <1>4 DEF RequestFields
  <2>2. \A i \in 1 .. Len(args) : args[i].len <= f[i]
    BY <1>4, <1>5
  <2> QED BY <1>1, <1>3, <1>4, <2>1, <2>2 DEF Checked
<1>7. Called'
  BY <1>3 DEF Called
<1> QED BY <1>1, <1>3, <1>4, <1>5, <1>6, <1>7

LEMMA AgainPlace ==
  ASSUME IInv, Again
  PROVE  place' \in {"prompt", "crashed"} /\ depth' \in 1 .. MaxDepth
BY DepthAssumption DEF IInv, Again

LEMMA ReadLineStep == IInv /\ ReadLine => IInv'
<1> SUFFICES ASSUME IInv, ReadLine PROVE IInv'
  OBVIOUS
<1>1. PICK l \in Lines :
        /\ failed' = (l.length >= InputSize)
        /\ line' = Kept(l)
        /\ \/ l.length = 0 /\ Again /\ UNCHANGED <<request, call>>
           \/ l.length > 0 /\ line' = <<>>
                /\ place' = "ended" /\ UNCHANGED <<depth, request, call>>
           \/ line' # <<>> /\ Interpret(line')
  BY DEF ReadLine
<1>2. LineOK' /\ failed' \in BOOLEAN
  BY <1>1, KeptWords DEF LineOK
<1>3. CASE UNCHANGED <<request, call>> /\ place' # "waiting"
           /\ place' \in {"prompt", "ended", "crashed"} /\ depth' \in 1 .. MaxDepth
  BY <1>2, <1>3 DEF IInv, Checked, Copied, Called, RequestFields, ServerArgs, Entry, LineOK
<1>4. CASE line' # <<>> /\ Interpret(line')
  <2> DEFINE ws == line'
             op == ws[1].text
             n  == Len(ws) - 1
             f  == Fields(op, n)
             args == [i \in DOMAIN f |-> ws[i + 1]]
             good == /\ op \in Op
                     /\ n >= Needed(op, n)
                     /\ \A i \in DOMAIN f : checkLength(args[i], f[i])
  <2>1. \/ place' = "ended" /\ UNCHANGED <<depth, request, call>>
        \/ good /\ Send(op, args)
        \/ Again /\ UNCHANGED <<request, call>>
    BY <1>4 DEF Interpret
  <2>2. CASE good /\ Send(op, args)
    <3>1. \A i \in DOMAIN f : checkLength(ws[i + 1], f[i])
      BY <2>2
    <3>2. /\ Checked' /\ Called' /\ request'.op # "none"
          /\ \A i \in DOMAIN request'.args : request'.args[i] = ws[i + 1]
      BY <1>2, <1>4, <2>2, <3>1, SendStep DEF LineOK
    <3>3. place' = "waiting" /\ depth' = depth
      BY <2>2 DEF Send
    <3> QED BY <1>2, <3>2, <3>3 DEF IInv, Copied
  <2>3. CASE place' = "ended" /\ UNCHANGED <<depth, request, call>>
    BY <1>3, <2>3 DEF IInv
  <2>4. CASE Again /\ UNCHANGED <<request, call>>
    BY <1>3, <2>4, AgainPlace
  <2> QED BY <2>1, <2>2, <2>3, <2>4
<1> QED BY <1>1, <1>3, <1>4, AgainPlace DEF IInv

\* A step after which no answer is awaited and that only the prompt notices.
LEMMA QuietStep ==
  ASSUME IInv, UNCHANGED <<request, call>>, LineOK', failed' \in BOOLEAN,
         place' \in {"prompt", "stuck", "ended", "crashed"}, depth' \in 1 .. MaxDepth
  PROVE  IInv'
BY DEF IInv, Checked, Copied, Called, RequestFields, ServerArgs, Entry

LEMMA NextIInv == IInv /\ [Next]_vars => IInv'
<1> SUFFICES ASSUME IInv, [Next]_vars PROVE IInv'
  OBVIOUS
<1>1. CASE ReadLine
  BY <1>1, ReadLineStep
<1>2. CASE EndOfInput
  BY <1>2, QuietStep DEF EndOfInput, IInv, LineOK
<1>3. CASE ReadFails
  <2>1. LineOK'
    BY <1>3 DEF ReadFails, LineOK, ArgvSize
  <2> QED BY <1>3, <2>1, AgainPlace, QuietStep DEF ReadFails, IInv
<1>4. CASE HandleMessage
  <2>1. UNCHANGED <<place, depth, failed, line, request>>
        /\ call' = [op |-> request.op, args |-> ServerArgs(request.op)]
    BY <1>4 DEF HandleMessage
  <2>2. request.op # "none"
    BY <1>4 DEF HandleMessage, IInv, Copied
  <2>3. Called'
    BY <2>1, <2>2 DEF Called, ServerArgs, Entry
  <2> QED BY <2>1, <2>3 DEF IInv, LineOK, Checked, RequestFields, Copied
<1>5. CASE Answered
  BY <1>5, AgainPlace, QuietStep DEF Answered, IInv, LineOK
<1>6. CASE Unanswered \/ HeapDamaged
  BY <1>6, QuietStep DEF Unanswered, HeapDamaged, IInv, LineOK
<1>7. CASE UNCHANGED vars
  BY <1>7 DEF vars, IInv, LineOK, Checked, Copied, Called, RequestFields, ServerArgs, Entry
<1> QED BY <1>1, <1>2, <1>3, <1>4, <1>5, <1>6, <1>7 DEF Next

THEOREM Inductive == Spec => []IInv
BY InitIInv, NextIInv, PTL DEF Spec

-----------------------------------------------------------------------------
LEMMA WordLength == ASSUME NEW w \in Word PROVE w.len \in Nat
BY DEF Word

LEMMA CmdLengthType ==
  ASSUME NEW op \in Op, NEW args \in Seq(Word)
  PROVE  CmdLength(op, args) \in Nat
<1>1. Letters[op] \in Nat
  BY OpNames DEF Letters
<1>2. \A i \in 1 .. Len(args) : args[i] \in Word
  OBVIOUS
<1>3. \A i \in 1 .. Len(args) : args[i].len \in Nat
  BY <1>2, WordLength
<1>4. Len(args) \in Nat
  OBVIOUS
<1> DEFINE part(i) == IF Len(args) >= i THEN 1 + args[i].len ELSE 0
<1>5. \A i \in 1 .. 4 : part(i) \in Nat
  BY <1>3, <1>4
<1>6. CmdLength(op, args) = Letters[op] + part(1) + part(2) + part(3) + part(4)
  BY DEF CmdLength
<1> HIDE DEF part
<1> QED BY <1>1, <1>5, <1>6

LEMMA TypeFollows == IInv => TypeOK
<1> SUFFICES ASSUME IInv PROVE TypeOK
  OBVIOUS
<1>1. CASE request.op = "none"
  <2>1. request = NoRequest /\ call = NoCall
    BY <1>1 DEF IInv, Called
  <2> QED BY <2>1 DEF IInv, TypeOK, NoRequest, NoCall, LineOK, Copied
<1>2. CASE request.op # "none"
  <2>1. request.op \in Op /\ request.args \in Seq(Word) /\ Len(request.args) = Len(RequestFields)
    BY <1>2 DEF IInv, Checked
  <2>2. Len(request.args) \in Nat /\ RequestFields \in Seq(Nat) /\ Len(RequestFields) <= 4
    BY <2>1, FieldsFacts DEF RequestFields
  <2>3. Len(request.args) <= 4
    BY <2>1, <2>2
  <2>4. request.content \in Nat
    BY <1>2, <2>1, <2>3, CmdLengthType DEF IInv, Checked
  <2>5. call.op \in Op \cup {"none"}
    BY <1>2, <2>1 DEF IInv, Called, NoCall
  <2> QED BY <1>2, <2>1, <2>3, <2>4, <2>5 DEF IInv, TypeOK, LineOK
<1> QED BY <1>1, <1>2

\* Every variable keeps its type: seven words of a line, four arguments.
THEOREM TypeCorrect == Spec => []TypeOK
BY Inductive, TypeFollows, PTL

LEMMA FrameFollows == IInv => RequestFitsOneFrame
<1> SUFFICES ASSUME IInv, request.op # "none" PROVE RequestFitsOneFrame
  BY DEF RequestFitsOneFrame
<1> DEFINE a == request.args
           c == CmdLength(request.op, a)
<1>1. /\ request.op \in Op /\ a \in Seq(Word) /\ Len(a) = Len(RequestFields)
      /\ \A i \in 1 .. Len(a) : a[i].len <= RequestFields[i]
      /\ request.content \in {0, c}
      /\ request.content # 0 => request.op \in {"addphoto", "addbodyphoto"}
  BY DEF IInv, Checked
<1>2. Len(a) \in Nat /\ \A i \in 1 .. Len(a) : a[i].len \in Nat
  BY <1>1, WordLength
<1>3. request.op \notin {"addphoto", "addbodyphoto"} => request.content = 0
  BY <1>1
<1>4. /\ Len(a) >= 1 => a[1].len \in Nat /\ a[1].len <= RequestFields[1]
      /\ Len(a) >= 2 => a[2].len \in Nat /\ a[2].len <= RequestFields[2]
      /\ Len(a) >= 3 => a[3].len \in Nat /\ a[3].len <= RequestFields[3]
      /\ Len(a) >= 4 => a[4].len \in Nat /\ a[4].len <= RequestFields[4]
  <2>1. \A i \in 1 .. Len(a) : a[i].len \in Nat /\ a[i].len <= RequestFields[i]
    BY <1>1, <1>2
  <2> HIDE DEF a
  <2> QED BY <1>2, <2>1
<1> USE DEF MAX_FIRST, MAX_LAST, MAX_LOCATION, MAX_ID, MAX_USER
<1>5. CASE request.op = "locations"
  <2>1. RequestFields = <<>> /\ Letters[request.op] = 9 /\ request.content = 0
    BY <1>3, <1>5 DEF RequestFields, Fields, Letters, PhotoOps
  <2>2. Len(a) = 0
    BY <1>1, <2>1
  <2>3. c = 9
    BY <2>1, <2>2 DEF CmdLength
  <2> QED BY <2>1, <2>3 DEF RequestFitsOneFrame
<1>6. CASE request.op \in {"createmissing", "id"}
  <2>1. /\ RequestFields \in {<<MAX_FIRST, MAX_LAST, MAX_LOCATION>>, <<MAX_ID, MAX_FIRST, MAX_LAST>>}
        /\ Letters[request.op] \in 0 .. 13 /\ request.content = 0
    BY <1>3, <1>6 DEF RequestFields, Fields, Letters, PhotoOps
  <2>2. Len(RequestFields) = 3 /\ RequestFields[1] \in 0 .. 15 /\ RequestFields[2] \in 0 .. 20
        /\ RequestFields[3] \in 0 .. 36
    BY <2>1
  <2>3. Len(a) = 3 /\ a[1].len \in 0 .. 15 /\ a[2].len \in 0 .. 20 /\ a[3].len \in 0 .. 36
    <3>1. Len(a) = 3
      BY <1>1, <2>2
    <3> HIDE DEF a
    <3> QED BY <1>4, <2>2, <3>1
  <2>4. c \in 0 .. 87
    BY <2>1, <2>3 DEF CmdLength
  <2> QED BY <2>1, <2>4 DEF RequestFitsOneFrame
<1>7. CASE request.op \in {"login", "adduser", "password", "query"}
  <2>1. /\ RequestFields \in {<<MAX_USER, MAX_USER>>, <<MAX_FIRST, MAX_LAST>>}
        /\ Letters[request.op] \in 0 .. 8 /\ request.content = 0
    BY <1>3, <1>7 DEF RequestFields, Fields, Letters, PhotoOps
  <2>2. Len(RequestFields) = 2 /\ RequestFields[1] \in 0 .. 20 /\ RequestFields[2] \in 0 .. 20
    BY <2>1
  <2>3. Len(a) = 2 /\ a[1].len \in 0 .. 20 /\ a[2].len \in 0 .. 20
    <3>1. Len(a) = 2
      BY <1>1, <2>2
    <3> HIDE DEF a
    <3> QED BY <1>4, <2>2, <3>1
  <2>4. c \in 0 .. 50
    BY <2>1, <2>3 DEF CmdLength
  <2> QED BY <2>1, <2>4 DEF RequestFitsOneFrame
<1>8. CASE request.op \in {"removemissing", "removebody"} \cup PhotoOps
  <2>1. RequestFields = <<MAX_ID>> /\ Letters[request.op] \in 0 .. 14
    BY <1>8 DEF RequestFields, Fields, Letters, PhotoOps
  <2>2. Len(a) = 1 /\ a[1].len \in 0 .. 9
    BY <1>1, <1>4, <2>1
  <2>3. c \in 0 .. 24
    BY <2>1, <2>2 DEF CmdLength
  <2>4. request.content \in 0 .. 24
    BY <1>1, <2>3
  <2> QED BY <2>3, <2>4 DEF RequestFitsOneFrame
<1>9. CASE request.op = "createbody"
  <2>1. /\ RequestFields \in {<<MAX_ID, MAX_LOCATION, MAX_FIRST, MAX_LAST>>, <<MAX_ID, MAX_LOCATION>>}
        /\ Letters[request.op] = 10 /\ request.content = 0
    BY <1>3, <1>9 DEF RequestFields, Fields, Letters, PhotoOps
  <2>2. CASE RequestFields = <<MAX_ID, MAX_LOCATION>>
    <3>1. Len(a) = 2 /\ RequestFields[1] = 9 /\ RequestFields[2] = 36
      BY <1>1, <2>2
    <3>2. a[1].len \in 0 .. 9 /\ a[2].len \in 0 .. 36
      BY <1>4, <3>1
    <3>3. c \in 0 .. 94
      BY <2>1, <3>1, <3>2 DEF CmdLength
    <3> QED BY <2>1, <3>3 DEF RequestFitsOneFrame
  <2>3. CASE RequestFields = <<MAX_ID, MAX_LOCATION, MAX_FIRST, MAX_LAST>>
    <3>1. /\ Len(a) = 4 /\ RequestFields[1] = 9 /\ RequestFields[2] = 36
          /\ RequestFields[3] = 15 /\ RequestFields[4] = 20
      BY <1>1, <2>3
    <3>2. /\ a[1].len \in 0 .. 9 /\ a[2].len \in 0 .. 36
          /\ a[3].len \in 0 .. 15 /\ a[4].len \in 0 .. 20
      BY <1>4, <3>1
    <3>3. c \in 0 .. 94
      BY <2>1, <3>1, <3>2 DEF CmdLength
    <3> QED BY <2>1, <3>3 DEF RequestFitsOneFrame
  <2> QED BY <2>1, <2>2, <2>3
<1> QED BY <1>1, <1>5, <1>6, <1>7, <1>8, <1>9, OpNames DEF PhotoOps

\* Whatever line is typed, the request made of it goes into one frame (startPrompt's
\* limits against those of the layers below).
THEOREM OneFrame == Spec => []RequestFitsOneFrame
BY Inductive, FrameFollows, PTL

\* What the split of a request gives: its words, and a NULL after the last.
LEMMA EntryFacts ==
  ASSUME IInv, request.op # "none"
  PROVE  /\ Len(request.args) = Len(RequestFields) /\ Len(request.args) \in Nat
         /\ \A i \in 1 .. Len(request.args) :
              /\ Entry(i) = request.args[i] /\ Entry(i) # NULL /\ Entry(i) # Unset
              /\ Entry(i).len <= RequestFields[i]
         /\ Entry(Len(request.args) + 1) = NULL
<1>1. request.args \in Seq(Word) /\ Len(request.args) = Len(RequestFields)
      /\ \A i \in 1 .. Len(request.args) : request.args[i].len <= RequestFields[i]
  BY DEF IInv, Checked
<1>2. Len(request.args) \in Nat /\ Entry(Len(request.args) + 1) = NULL
  BY <1>1 DEF Entry
<1>3. ASSUME NEW i \in 1 .. Len(request.args)
      PROVE  Entry(i) = request.args[i] /\ Entry(i) # NULL /\ Entry(i) # Unset
  <2>1. request.args[i] \in Word /\ Entry(i) = request.args[i]
    BY <1>1, <1>2, <1>3 DEF Entry
  <2>2. request.args[i].len # 0
    BY <2>1 DEF Word
  <2> QED BY <2>1, <2>2 DEF NULL, Unset
<1> QED BY <1>1, <1>2, <1>3

\* The arguments the server's branch takes, one by one.
LEMMA ServerArgsFacts ==
  ASSUME IInv, request.op # "none"
  PROVE  LET a == ServerArgs(request.op)
             p == Parameters(request.op)
         IN  /\ Len(a) = Len(p) /\ Len(a) \in 0 .. 4 /\ DOMAIN a = 1 .. Len(a)
             /\ \A i \in 1 .. Len(a) :
                  /\ a[i] # Unset /\ a[i].len <= Width[p[i]]
                  /\ \/ a[i] = Loc
                     \/ a[i] = NULL /\ request.op = "createbody" /\ a[3] = NULL /\ a[4] = NULL
                     \/ /\ i \in 1 .. Len(request.args)
                        /\ a[i] = request.args[i] /\ a[i] # NULL
<1> DEFINE a == ServerArgs(request.op)
           p == Parameters(request.op)
           n == Len(request.args)
           Plain(i) == i \in 1 .. n /\ a[i] = request.args[i] /\ a[i] # NULL /\ a[i] # Unset
                       /\ a[i].len <= RequestFields[i]
<1>1. request.op \in Op
  BY DEF IInv, Checked
<1>2. /\ n = Len(RequestFields) /\ n \in Nat
      /\ \A i \in 1 .. n : /\ Entry(i) = request.args[i] /\ Entry(i) # NULL /\ Entry(i) # Unset
                           /\ Entry(i).len <= RequestFields[i]
      /\ Entry(n + 1) = NULL
  BY EntryFacts
<1>3. Loc # NULL /\ Loc # Unset /\ Loc.len = 3 /\ NULL # Unset /\ NULL.len = 0
  BY DEF Loc, NULL, Unset
<1> USE DEF MAX_FIRST, MAX_LAST, MAX_LOCATION, MAX_ID, MAX_USER, PhotoOps, Width
<1>4. CASE request.op = "locations"
  BY <1>4 DEF ServerArgs, Parameters
<1>5. CASE request.op = "createmissing"
  <2>1. a = <<Entry(1), Entry(2), Loc>> /\ p = <<"first", "last", "location">>
        /\ RequestFields = <<MAX_FIRST, MAX_LAST, MAX_LOCATION>>
    BY <1>5 DEF ServerArgs, Parameters, RequestFields, Fields
  <2>2. n = 3
    BY <1>2, <2>1
  <2>3. Entry(1).len <= 15 /\ Entry(2).len <= 20
    BY <1>2, <2>1, <2>2
  <2> QED BY <1>2, <1>3, <2>1, <2>2, <2>3
<1>6. CASE request.op = "id"
  <2>1. a = <<Entry(1), Entry(2), Entry(3)>> /\ p = <<"id", "first", "last">>
        /\ RequestFields = <<MAX_ID, MAX_FIRST, MAX_LAST>>
    BY <1>6 DEF ServerArgs, Parameters, RequestFields, Fields
  <2>2. n = 3
    BY <1>2, <2>1
  <2>3. Entry(1).len <= 9 /\ Entry(2).len <= 15 /\ Entry(3).len <= 20
    BY <1>2, <2>1, <2>2
  <2> QED BY <1>2, <1>3, <2>1, <2>2, <2>3
<1>7. CASE request.op \in {"login", "adduser", "password"}
  <2>1. a = <<Entry(1), Entry(2)>> /\ p \in {<<"user", "password">>, <<"password", "password">>}
        /\ RequestFields = <<MAX_USER, MAX_USER>>
    BY <1>7 DEF ServerArgs, Parameters, RequestFields, Fields
  <2>2. n = 2
    BY <1>2, <2>1
  <2>3. Entry(1).len <= 20 /\ Entry(2).len <= 20
    BY <1>2, <2>1, <2>2
  <2> QED BY <1>2, <1>3, <2>1, <2>2, <2>3
<1>8. CASE request.op = "query"
  <2>1. a = <<Entry(1), Entry(2)>> /\ p = <<"first", "last">> /\ RequestFields = <<MAX_FIRST, MAX_LAST>>
    BY <1>8 DEF ServerArgs, Parameters, RequestFields, Fields
  <2>2. n = 2
    BY <1>2, <2>1
  <2>3. Entry(1).len <= 15 /\ Entry(2).len <= 20
    BY <1>2, <2>1, <2>2
  <2> QED BY <1>2, <1>3, <2>1, <2>2, <2>3
<1>9. CASE request.op \in {"removemissing", "removebody"} \cup PhotoOps
  <2>1. a = <<Entry(1)>> /\ p = <<"id">> /\ RequestFields = <<MAX_ID>>
    BY <1>9 DEF ServerArgs, Parameters, RequestFields, Fields
  <2>2. n = 1
    BY <1>2, <2>1
  <2>3. Entry(1).len <= 9
    BY <1>2, <2>1, <2>2
  <2> QED BY <1>2, <1>3, <2>1, <2>2, <2>3
<1>10. CASE request.op = "createbody"
  <2>1. p = <<"id", "location", "first", "last">>
        /\ RequestFields \in {<<MAX_ID, MAX_LOCATION, MAX_FIRST, MAX_LAST>>, <<MAX_ID, MAX_LOCATION>>}
    BY <1>10 DEF Parameters, RequestFields, Fields
  <2>2. CASE RequestFields = <<MAX_ID, MAX_LOCATION>>
    <3>1. n = 2
      BY <1>2, <2>2
    <3>2. Entry(3) = NULL /\ Entry(1).len <= 9 /\ Entry(2).len <= 36
      BY <1>2, <2>2, <3>1
    <3>3. a = <<Entry(1), Entry(2), NULL, NULL>>
      BY <1>10, <3>2 DEF ServerArgs
    <3>4. Plain(1) /\ Plain(2) /\ a[3] = NULL /\ a[4] = NULL
      BY <1>2, <3>1, <3>3
    <3>5. Width[p[1]] = 9 /\ Width[p[2]] = 36 /\ Width[p[3]] = 15 /\ Width[p[4]] = 20
      BY <2>1
    <3>6. Len(p) = 4 /\ Len(a) = 4 /\ DOMAIN a = 1 .. 4
      BY <2>1, <3>3
    <3>7. a[1].len <= 9 /\ a[2].len <= 36 /\ a[3].len = 0 /\ a[4].len = 0
      BY <1>3, <3>2, <3>3
    <3>8. \A i \in 1 .. 4 : a[i].len <= Width[p[i]]
      BY <3>5, <3>7
    <3>9. a[3] # Unset /\ a[4] # Unset
      BY <1>3, <3>4
    <3> HIDE DEF a, p, Width
    <3> QED BY <1>10, <3>4, <3>6, <3>8, <3>9 DEF a, p
  <2>3. CASE RequestFields = <<MAX_ID, MAX_LOCATION, MAX_FIRST, MAX_LAST>>
    <3>1. n = 4
      BY <1>2, <2>3
    <3>2. /\ Entry(1).len <= 9 /\ Entry(2).len <= 36 /\ Entry(3).len <= 15 /\ Entry(4).len <= 20
          /\ Entry(3) # NULL /\ Entry(4) # NULL
      BY <1>2, <2>3, <3>1
    <3>3. a = <<Entry(1), Entry(2), Entry(3), Entry(4)>>
      BY <1>10, <3>2 DEF ServerArgs
    <3> QED BY <1>2, <1>3, <2>1, <3>1, <3>2, <3>3
  <2> QED BY <2>1, <2>2, <2>3
<1> QED BY <1>1, <1>4, <1>5, <1>6, <1>7, <1>8, <1>9, <1>10, OpNames

\* handleMessage checks no argument; that it reads only what its split has written
\* follows from what the prompt sends, whatever was typed.
LEMMA ReadsFollow == IInv => ServerReadsWritten
<1> SUFFICES ASSUME IInv PROVE ServerReadsWritten
  OBVIOUS
<1>1. CASE call = NoCall
  BY <1>1 DEF ServerReadsWritten, NoCall
<1>2. CASE call # NoCall
  <2>1. request.op # "none" /\ call.op = request.op /\ call.args = ServerArgs(request.op)
    BY <1>2 DEF IInv, Called
  <2> QED BY <2>1, ServerArgsFacts DEF ServerReadsWritten, Loc, NULL
<1> QED BY <1>1, <1>2

THEOREM OnlyWrittenRead == Spec => []ServerReadsWritten
BY Inductive, ReadsFollow, PTL

LEMMA MatchFollows == IInv => ArgumentsMatch
<1> SUFFICES ASSUME IInv, call.op # "none" PROVE ArgumentsMatch
  BY DEF ArgumentsMatch
<1>1. request.op # "none" /\ call.op = request.op /\ call.args = ServerArgs(request.op)
  BY DEF IInv, Called, NoCall
<1>2. ASSUME place = "waiting", NEW i \in 1 .. Len(request.args)
      PROVE  request.args[i] = line[i + 1]
  <2>1. DOMAIN request.args = 1 .. Len(request.args)
    BY <1>1 DEF IInv, Checked
  <2> QED BY <1>2, <2>1 DEF IInv, Copied
<1> QED BY <1>1, <1>2, ServerArgsFacts DEF ArgumentsMatch

\* Every function of db.cpp gets its arguments in their places and within the
\* columns' widths, whatever was typed.
THEOREM ArgumentsInPlace == Spec => []ArgumentsMatch
BY Inductive, MatchFollows, PTL
=============================================================================
