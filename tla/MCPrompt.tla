-------------------------------- MODULE MCPrompt --------------------------------
(* Lines for TLC. *)
EXTENDS Prompt, Folds, Functions

ArgText == <<"a1", "a2", "a3", "a4", "a5", "a6", "a7", "a8">>

SomeText == Op \cup {"help", "quit", "bogus", "cut"} \cup Range(ArgText)

\* A line with a command word of a given length and arguments of given lengths,
\* single blanks between them.
At(letters, lens, i) == letters + 1 + FoldFunctionOnSet(+, 0, [j \in DOMAIN lens |-> lens[j] + 1], 1 .. i - 1)

LineOf(op, letters, lens) ==
  [words |-> <<[text |-> op, at |-> 0, len |-> letters]>>
               \o [i \in DOMAIN lens |-> [text |-> ArgText[i], at |-> At(letters, lens, i), len |-> lens[i]]],
   length |-> At(letters, lens, Len(lens) + 1) - 1]

\* Arguments of one letter, up to more than are kept; of the greatest lengths that
\* are allowed; with one of them a letter longer; and so long that the line is 127,
\* 128 or more characters.
Lengths(op) ==
  LET max == Fields(op, 4)
  IN  {[i \in 1 .. n |-> 1] : n \in 0 .. 8}
        \cup {max, max \o <<1>>}
        \cup {[max EXCEPT ![k] = @ + 1] \o <<1>> : k \in DOMAIN max}
        \cup {<<n - Letters[op] - 1>> : n \in {127, 128, 129, 200}}
        \cup {<<1, 1, 1, n - Letters[op] - 7>> : n \in {127, 128}}
        \cup {max \o <<90>>}

SomeLines ==
  UNION {{LineOf(op, Letters[op], lens) : lens \in Lengths(op)} : op \in Op}
    \cup {LineOf("help", 4, <<>>), LineOf("quit", 4, <<>>), LineOf("bogus", 130, <<>>),
          [words |-> <<>>, length |-> 0], [words |-> <<>>, length |-> 3],
          [words |-> <<>>, length |-> 140]}
=============================================================================
