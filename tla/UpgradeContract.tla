-------------------------- MODULE UpgradeContract --------------------------
(***************************************************************************)
(* What starting tabd may do to a ledger, whatever release wrote it: mail  *)
(* only comes, a new ledger begins on the UUID scheme of the tacs and an   *)
(* old one stays on its strings (comment on the table tacs in              *)
(* src/tabus/bus.py), and the check of deliveries.state is widened once.   *)
(***************************************************************************)
VARIABLES
  rows,      \* the deliveries
  scheme,    \* of the tacs: "none" without a table, "strings" or "uuids"
  widened    \* deliveries.state may be QUARANTINED

Init == /\ scheme \in {"none", "strings", "uuids"}
        /\ widened \in BOOLEAN

Stored  == rows \subseteq rows' /\ UNCHANGED <<scheme, widened>>
Begun   == scheme = "none" /\ scheme' = "uuids" /\ UNCHANGED <<rows, widened>>
Widened == widened' = TRUE /\ UNCHANGED <<rows, scheme>>

Next == Stored \/ Begun \/ Widened

Spec == Init /\ [][Next]_<<rows, scheme, widened>>
=============================================================================
