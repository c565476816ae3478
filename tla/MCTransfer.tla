------------------------------- MODULE MCTransfer -------------------------------
(* Messages of every length at which a conversion changes, for TLC. *)
EXTENDS Transfer

\* n bytes: a's and, at every third place, b.
Text(n, b) == [i \in 1 .. n |-> IF i % 3 = 0 THEN b ELSE 97]

Command(n) == [cmd |-> Text(n, 120), content |-> <<>>]

\* Commands and answers.  102: the longest that fits one recv with an ack.
\* 103, 104, 107, 116: one frame, which with an ack in front does not fit.  117: two
\* frames.  234: the longest packet.  235 and 500: two and three packets.
Commands == {Command(n) : n \in {1, 8, 9, 10, 99, 100, 102, 103, 104, 107, 116, 117, 118, 234, 235, 500}}

\* A list of locations that begins with the number of a house.
HouseNumber == [cmd |-> <<49, 50>> \o Text(20, 116), content |-> <<>>]

\* A command with some bytes of a photo: text, bytes above 127, a NUL.
Photo(bytes) == [cmd |-> Text(12, 32), content |-> bytes]

\* 103 bytes, such that the last byte of the frame's check field is 0.
Balanced == [cmd |-> [i \in 1 .. 103 |-> IF i = 2 THEN 48 ELSE 97], content |-> <<>>]

\* 116 bytes, such that the last 14 of its frame, which do not fit the buffer behind
\* an ack, have a right check field (if the frame has the number 0), and begin with
\* the digits of a data frame.
Remnant == [cmd |-> [i \in 1 .. 116 |-> CASE i = 103 -> 86 [] i = 104 -> 94 [] i = 105 -> 48
                                          [] i = 111 -> 49 [] OTHER -> 97],
            content |-> <<>>]

\* The same, and the number after that digit is not the expected one.
NumberedRemnant == [Remnant EXCEPT !.cmd[106] = 55]

AllMessages ==
  Commands \cup {HouseNumber, Balanced, Remnant, NumberedRemnant}
    \cup {Photo(Text(14, 98)), Photo(<<200>>), Photo(<<200, 200>>), Photo(<<10, 130, 140>>),
          Photo(<<65, NUL, 66>>), Photo(Text(130, 255))}

Seqs == {0, 10, MAX_SEQ}

Memory == {NUL, 57}
=============================================================================
