------------------------------ MODULE MCReader ------------------------------
(* Constants for checking Reader. *)
EXTENDS Reader

CONSTANT r1

TwoMessages == {1, 2}
First       == {1}
Second      == {2}
OneRequest  == {r1}
=============================================================================
