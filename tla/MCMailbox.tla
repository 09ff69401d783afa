----------------------------- MODULE MCMailbox -----------------------------
(* Constants and symmetry for checking Mailbox. *)
EXTENDS Mailbox, TLC

CONSTANTS r1, r2

OneMessage  == {1}
TwoMessages == {1, 2}
Second      == {2}
Nobody      == {}
OneRequest  == {r1}
TwoRequests == {r1, r2}

Symmetry == Permutations(TwoRequests)
=============================================================================
