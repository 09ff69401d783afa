-------------------------- MODULE MailboxContract --------------------------
(***************************************************************************)
(* What a mailbox promises about each delivery, whoever works on it and    *)
(* however requests overlap: the stages of the module docstring of         *)
(* src/tabus/bus.py, the transition table ALLOWED_DELIVERY_TRANSITIONS and *)
(* the poison rule of claim_new.  A step may move several deliveries.      *)
(***************************************************************************)
EXTENDS Naturals

CONSTANTS Messages, MaxAttempts, TacMail

VARIABLES state, attempts

Init == /\ state    = [m \in Messages |-> "NONE"]
        /\ attempts = [m \in Messages |-> 0]

\* Delivery m moves from the one stage to the other, with its attempt count.
Moves(m, from, to) == state[m] = from /\ state'[m] = to
Untried(m)         == attempts'[m] = attempts[m]

Stored(m)    == Moves(m, "NONE", "ACCEPTED") /\ Untried(m)

\* Taking a delivery is the only thing that counts as an attempt.
Taken(m)     == /\ Moves(m, "ACCEPTED", "CLAIMED")
                /\ attempts[m] < MaxAttempts
                /\ attempts'[m] = attempts[m] + 1

\* The one way back: a claim nobody confirmed, unless it was the last one.
GivenBack(m) == /\ Moves(m, "CLAIMED", "ACCEPTED")
                /\ attempts[m] < MaxAttempts
                /\ Untried(m)
GivenUp(m)   == /\ Moves(m, "CLAIMED", "DEAD")
                /\ attempts[m] = MaxAttempts
                /\ Untried(m)

SetAside(m)  == Moves(m, "ACCEPTED", "QUARANTINED") /\ Untried(m)

Shown(m)     == Moves(m, "CLAIMED", "INJECTED") /\ Untried(m)
CaughtUp(m)  == m \in TacMail /\ Moves(m, "ACCEPTED", "INJECTED") /\ Untried(m)
Read(m)      == Moves(m, "INJECTED", "READ") /\ Untried(m)
Processed(m) == Moves(m, "READ", "PROCESSED") /\ Untried(m)

Stays(m)     == state'[m] = state[m] /\ Untried(m)

Progress(m)  == \/ Stored(m) \/ Taken(m) \/ GivenBack(m) \/ GivenUp(m) \/ SetAside(m)
                \/ Shown(m) \/ CaughtUp(m) \/ Read(m) \/ Processed(m)

Next == \A m \in Messages : Stays(m) \/ Progress(m)

Spec == Init /\ [][Next]_<<state, attempts>>

-----------------------------------------------------------------------------
(* What is left of it when acknowledgements overtake each other.           *)

\* An acknowledgement writes what it was asked for over a later state, or over one
\* the claim it confirms has been lost to: back to INJECTED, for a delivery that has
\* been taken; or READ over PROCESSED; or PROCESSED past READ, after another such.
Overtaken(m) ==
  /\ \/ /\ state[m] \in {"ACCEPTED", "READ", "PROCESSED", "QUARANTINED", "DEAD"}
        /\ state'[m] = "INJECTED"
        /\ attempts[m] > 0
     \/ Moves(m, "PROCESSED", "READ")
     \/ Moves(m, "INJECTED", "PROCESSED")
  /\ Untried(m)

Contested == \A m \in Messages : Stays(m) \/ Progress(m) \/ Overtaken(m)

ContestedSpec == Init /\ [][Contested]_<<state, attempts>>
=============================================================================
