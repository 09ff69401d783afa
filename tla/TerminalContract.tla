-------------------------- MODULE TerminalContract --------------------------
(***************************************************************************)
(* What registration promises about the terminals, whatever overlaps: a    *)
(* request takes effect in one moment between its coming and its end, or   *)
(* not at all.  A seat is a node at a terminal, with or without Enter.     *)
(***************************************************************************)
CONSTANTS Nodes, Routes, Places, Place, None, Threads, Request

VARIABLES
  seats,  \* who is where
  call    \* the request in each thread, or None

Seat == [node: Nodes, route: Routes, enter: BOOLEAN]

Init == seats = {} /\ call = [t \in Threads |-> None]

Begins(t) ==
  /\ call[t] = None /\ call'[t] \in Request
  /\ call' = [call EXCEPT ![t] = call'[t]]
  /\ UNCHANGED seats

Ends(t) == call' = [call EXCEPT ![t] = None]

\* Refused, given up, or with nothing to say about terminals.
Returns(t) == Ends(t) /\ UNCHANGED seats

\* Enter is asked for now, or was asked for in the seat that is registered again.
Presses(q) ==
  \/ q.enter = "on"
  \/ q.enter = "keep" /\ [node |-> q.node, route |-> q.route, enter |-> TRUE] \in seats

\* A terminal somebody else sits at is taken in words only; one seat for a node, and
\* one node for a terminal.
Sits(t) ==
  LET q     == call[t]
      there == {s \in seats : Place[s.route] = Place[q.route] /\ s.node # q.node} IN
  /\ q.route # None
  /\ there # {} => q.take
  /\ seats' = {s \in seats \ there : s.node # q.node}
                \cup {[node |-> q.node, route |-> q.route, enter |-> Presses(q)]}
  /\ Ends(t)

\* A program gives its seat up.
Rises(t) ==
  LET q == call[t] IN
  /\ q.kind = "program"
  /\ seats' = {s \in seats : s.node # q.node}
  /\ Ends(t)

\* A node has Enter turned off where it sits.
TurnsOff(t) ==
  LET q == call[t] IN
  /\ q.enter = "off"
  /\ seats' = {IF s.node = q.node THEN [s EXCEPT !.enter = FALSE] ELSE s : s \in seats}
  /\ Ends(t)

Next == \E t \in Threads :
  \/ Begins(t) \/ Returns(t)
  \/ call[t] \in Request /\ (Sits(t) \/ Rises(t) \/ TurnsOff(t))

Spec == Init /\ [][Next]_<<seats, call>>
=============================================================================
