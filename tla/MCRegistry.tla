----------------------------- MODULE MCRegistry -----------------------------
(* Constants and symmetry for checking Registry. *)
EXTENDS Registry, TLC

CONSTANTS n1, n2, t1, t2, x, y, z

TwoNodes   == {n1, n2}
TwoThreads == {t1, t2}

\* Two adapters of one terminal, and another terminal.
Terminals == {x, y, z}
Panes     == {1, 2}
PaneOf    == [r \in Terminals |-> IF r = z THEN 2 ELSE 1]

\* The kinds of call: without a terminal, for one, taking it, proving it.
Claim(n, r, e) == [Bare(n) EXCEPT !.route = r, !.enter = e]
Varied == UNION {{Bare(n), [Bare(n) EXCEPT !.kind = "program"],
                  [Bare(n) EXCEPT !.enter = "off"],
                  Claim(n, x, "keep"), Claim(n, z, "on"),
                  [Claim(n, x, "on") EXCEPT !.take = TRUE],
                  [Claim(n, y, "keep") EXCEPT !.verified = TRUE]} : n \in TwoNodes}

Symmetry == Permutations(TwoNodes) \cup Permutations(TwoThreads)
=============================================================================
