------------------------------- MODULE MCSend -------------------------------
(* Constants and symmetry for checking Send. *)
EXTENDS Send, TLC

CONSTANTS a, b, r1, r2

TwoNodes    == {a, b}
OneId       == {1}
TwoIds      == {1, 2}
OneText     == {"x"}
TwoTexts    == {"x", "y"}
OneRequest  == {r1}
TwoRequests == {r1, r2}

Envelope(i, f, md, t, tx) ==
  [id |-> i, from |-> f, mode |-> md, to |-> t, again |-> {}, text |-> tx]

Direct(i, f, t, tx)  == Envelope(i, f, "direct", t, tx)
Twice(i, f, t)       == [Direct(i, f, t, "x") EXCEPT !.again = t]
ToTac(i, f, tx)      == Envelope(i, f, "tac", {}, tx)
ToAll(i, f, tx)      == Envelope(i, f, "all", {}, tx)
Announce(i, f, tx)   == Envelope(i, f, "broadcast", {}, tx)

\* One id retried, and used for other content and other recipients.
Retries   == {Direct(1, a, {b}, "x"), Direct(1, a, {b}, "y"), Twice(1, a, {b}),
              ToTac(1, a, "x")}
Mixed     == {ToTac(1, a, "x"), ToAll(1, b, "x"), Announce(2, b, "x"), ToTac(2, b, "x"),
              Direct(1, a, {b}, "x"), Direct(2, b, {a}, "x")}
Exchange  == {Direct(1, a, {b}, "x"), Direct(2, b, {a}, "x")}

Symmetry == Permutations(TwoRequests)
=============================================================================
