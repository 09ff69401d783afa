---------------------------- MODULE BellContract ----------------------------
(***************************************************************************)
(* What the notification processes promise about the mail of each node, no *)
(* matter how many there are, in which mode, and where they crash: the     *)
(* ledger, who has been told of what, the watermark of LIVE and what was   *)
(* handed to a queue.  Nothing of a process is seen.                       *)
(***************************************************************************)
EXTENDS Naturals

CONSTANTS Nodes, Last, For, Threads

Ids == 1..Last

VARIABLES
  mail,   \* "none" yet, "unread", or "done" with
  told,   \* the deliveries a node was told of, or has had in hand
  mark,   \* by node: everything up to here has reached someone
  tries   \* submissions by thread and notification

vars == <<mail, told, mark, tries>>

Init ==
  /\ mail  = [i \in Ids |-> "none"]
  /\ told  = {}
  /\ mark  = [n \in Nodes |-> 0]
  /\ tries = [t \in Threads |-> [i \in Ids |-> 0]]

Unread(n) == {i \in Ids : mail[i] = "unread" /\ For[i] = n}

\* Mail comes in the order of its ids, is dealt with, and is unread again only for
\* a node that has had it.
Arrive(i) ==
  /\ mail[i] = "none" /\ \A j \in Ids : j < i => mail[j] # "none"
  /\ mail' = [mail EXCEPT ![i] = "unread"]
  /\ UNCHANGED <<told, mark, tries>>

Settle(i) ==
  /\ mail[i] = "unread"
  /\ mail' = [mail EXCEPT ![i] = "done"]
  /\ UNCHANGED <<told, mark, tries>>

Return(i) ==
  /\ mail[i] = "done"
  /\ mail' = [mail EXCEPT ![i] = "unread"]
  /\ told' = told \cup {i}
  /\ UNCHANGED <<mark, tries>>

\* A ring tells a node of all its unread mail.
Tells(n) == told' = told \cup Unread(n)

Ring(n) == Tells(n) /\ UNCHANGED <<mail, mark, tries>>

\* A notification goes to the queue of a thread once, and may be lost there.
Submit(t, i) ==
  /\ tries[t][i] = 0
  /\ tries' = [tries EXCEPT ![t][i] = 1]
  /\ Tells(For[i]) \/ UNCHANGED told
  /\ UNCHANGED <<mail, mark>>

\* The watermark rises to mail of the node, over no unread mail it was not told of.
Raise(i) ==
  LET n == For[i] IN
  /\ mail[i] # "none"
  /\ mark[n] < i
  /\ \A j \in Unread(n) : j <= i => j \in told
  /\ mark' = [mark EXCEPT ![n] = i]
  /\ UNCHANGED <<mail, told, tries>>

Next ==
  \/ \E i \in Ids : Arrive(i) \/ Settle(i) \/ Return(i) \/ Raise(i)
  \/ \E n \in Nodes : Ring(n)
  \/ \E t \in Threads, i \in Ids : Submit(t, i)

Spec == Init /\ [][Next]_vars
=============================================================================
