-------------------------------- MODULE MCStack --------------------------------
(* Small instances of Stack for TLC. *)
EXTENDS Stack

ShapesOne   == {<<1>>}
ShapesTwo   == {<<1>>, <<2>>}
ShapesMulti == {<<2, 1>>, <<2, 2>>}
ShapesLong  == {<<2, 1>>}
=============================================================================
