----------------------------- MODULE MCDoorbell -----------------------------
(* Constants and symmetry for checking Doorbell. *)
EXTENDS Doorbell, TLC

CONSTANTS a, c, d1, d2, q

OneNode   == {a}
TwoNodes  == {a, c}
OneBell   == {d1}
TwoBells  == {d1, d2}
OneThread == {q}

\* Deliveries 1 and 2, the second of an announcement.
BothForA == [i \in 1..2 |-> a]
OneEach  == [i \in 1..2 |-> IF i = 1 THEN a ELSE c]
Second   == {2}

Iterm == [adapter |-> "iterm2", thread |-> q, enter |-> TRUE]
Queue == [adapter |-> "codex-queue", thread |-> q, enter |-> TRUE]

ItermOnly == {Iterm}
QueueOnly == {Queue}

Symmetry == Permutations(TwoBells)
=============================================================================
