----------------------------- MODULE MCTacNames -----------------------------
(* Constants and symmetry for checking TacNames. *)
EXTENDS TacNames, TLC

CONSTANTS i1, i2, t1, t2, low, up

TwoUuids    == {i1, i2}
TwoThreads == {t1, t2}
TheNames   == {low, up}
TheKeys    == {1, 2}
Own        == {up}

\* One interpreter takes low and up for one name, the next for two.
Plain    == [n \in TheNames |-> IF n = up THEN 2 ELSE 1]
Caseless == [n \in TheNames |-> 1]
Either   == {Plain, Caseless}

Symmetry == Permutations(TwoUuids) \cup Permutations(TwoThreads)
=============================================================================
