---------------------------- MODULE SendContract ----------------------------
(***************************************************************************)
(* What a send promises when nothing happens in the middle of it: its      *)
(* checks and its INSERTs are one step on the ledger.  And what is left of *)
(* the promise when other requests overtake its checks.                    *)
(***************************************************************************)
EXTENDS Ledger

\* The nodes an envelope is for.  A name that is not an active node is left out.
Audience(e) ==
  CASE e.mode = "direct"    -> e.to \cap Active
    [] e.mode = "all"       -> Active \ {e.from}
    [] e.mode = "tac"       -> (members \cap Active) \ {e.from}
    [] e.mode = "broadcast" -> {n \in Active : kind[n] = "agent"} \ {e.from}

\* Listen before speaking: in the tac, or to each node one writes to.
MayClaimTheFloor(e) ==
  CASE e.mode = "tac"       -> tac = "open" /\ ~Behind(e.from)
    [] e.mode = "broadcast" -> TRUE
    [] OTHER -> kind[e.from] = "agent" => \A n \in Audience(e) : ~Unheard(e.from, n)

\* One id holds one envelope, whoever retries it and however often.
Send(e) ==
  /\ ~Stored(e.id)
  /\ e.from \in Active
  /\ Audience(e) # {}
  /\ \A n \in Audience(e) : kind[n] = "agent"
  /\ MayClaimTheFloor(e)
  /\ Insert(e, Audience(e))
  /\ UNCHANGED <<kind, removed, tac, members>>

Next == \/ Administration
        \/ Reading
        \/ \E e \in Envelopes : Send(e)

Spec == LedgerInit /\ [][Next]_tables

-----------------------------------------------------------------------------
(* Between its checks and its INSERTs the tables may change.  What the     *)
(* checks found of them may be over then; what they made of the envelope,  *)
(* the keys and the foreign keys are not.                                  *)

\* The recipients the mode of an envelope can mean: none that it does not name, none
\* that it names twice, and the sender only where it names itself.
Addressed(e, to) ==
  IF e.mode = "direct" THEN to \subseteq e.to \ e.again ELSE e.from \notin to

SendOvertaken(e, to) ==
  /\ ~Stored(e.id)
  /\ {e.from} \cup to \subseteq Registered
  /\ to # {}
  /\ Addressed(e, to)
  /\ Insert(e, to)
  /\ UNCHANGED <<kind, removed, tac, members>>

Contested == \/ Administration
             \/ Reading
             \/ \E e \in Envelopes, to \in SUBSET Nodes : SendOvertaken(e, to)

ContestedSpec == LedgerInit /\ [][Contested]_tables
=============================================================================
