------------------------------- MODULE Ledger -------------------------------
(***************************************************************************)
(* The tables a send depends on (src/tabus/bus.py, SCHEMA), one tac of     *)
(* them, and what happens to them outside a send: registration, removal,   *)
(* the life of the tac, and the opening of mail.                           *)
(*                                                                         *)
(* A delivery is "unread" while its row is ACCEPTED or CLAIMED, the states *)
(* that refuse a send, and "opened" in every other state: Mailbox shows    *)
(* how it gets from one to the other.                                      *)
(***************************************************************************)
CONSTANTS
  Nodes,      \* node ids, registered or not
  Ids,        \* message ids, chosen by the clients
  Texts,      \* what the daemon compares of a content: hash of the body, subject,
              \* priority, expiry, thread and the message it replies to
  Envelopes   \* what clients ask the daemon to send

Modes == {"direct", "all", "tac", "broadcast"}

\* again holds the names a client wrote more than once in its recipient list.
ASSUME EnvelopesAssumption ==
  /\ Envelopes \subseteq [id : Ids, from : Nodes, mode : Modes, text : Texts,
                          to : SUBSET Nodes, again : SUBSET Nodes]
  /\ Envelopes # {}

VARIABLES
  kind,       \* nodes: "none" without a row, else is_program as "agent" or "program"
  removed,    \* removed_nodes
  tac,        \* tacs: "none", "open" or "closed"
  members,    \* tac_members
  messages,   \* messages
  deliveries  \* deliveries

tables == <<kind, removed, tac, members, messages, deliveries>>

Rows == [id : Ids, from : Nodes, kind : {"direct", "tac", "broadcast"}, text : Texts]

Row(e) == [id |-> e.id, from |-> e.from, text |-> e.text,
           kind |-> IF e.mode = "all" THEN "direct" ELSE e.mode]

LedgerTypeOK ==
  /\ kind       \in [Nodes -> {"none", "agent", "program"}]
  /\ removed    \in SUBSET Nodes
  /\ tac        \in {"none", "open", "closed"}
  /\ members    \in SUBSET Nodes
  /\ messages   \in SUBSET Rows
  /\ deliveries \in [Ids -> [Nodes -> {"none", "unread", "opened"}]]

LedgerInit ==
  /\ kind       = [n \in Nodes |-> "none"]
  /\ removed    = {}
  /\ tac        = "none"
  /\ members    = {}
  /\ messages   = {}
  /\ deliveries = [i \in Ids |-> [n \in Nodes |-> "none"]]

Registered == {n \in Nodes : kind[n] # "none"}
Active     == Registered \ removed
Stored(i)  == \E m \in messages : m.id = i
SentTo(i)  == {n \in Nodes : deliveries[i][n] # "none"}

\* n has not opened some direct message from s: it is ACCEPTED or CLAIMED.
Unheard(n, s) == \E m \in messages : /\ m.from = s /\ m.kind = "direct"
                                     /\ deliveries[m.id][n] = "unread"

\* n has not opened some message of the tac.
Behind(n) == \E m \in messages : m.kind = "tac" /\ deliveries[m.id][n] = "unread"

-----------------------------------------------------------------------------
\* bus_register: a removed node must be restored first, and an agent cannot
\* become a program.
Register(n, as) ==
  /\ n \notin removed
  /\ ~(as = "program" /\ kind[n] = "agent")
  /\ kind' = [kind EXCEPT ![n] = as]
  /\ UNCHANGED <<removed, tac, members, messages, deliveries>>

\* bus_remove without purge
Remove(n) ==
  /\ n \in Registered
  /\ removed' = removed \cup {n}
  /\ UNCHANGED <<kind, tac, members, messages, deliveries>>

\* bus_restore
Restore(n) ==
  /\ n \in removed
  /\ removed' = removed \ {n}
  /\ UNCHANGED <<kind, tac, members, messages, deliveries>>

\* bus_remove with purge: only a node that has sent and received nothing.  Its
\* memberships stay.
Purge(n) ==
  /\ n \in Registered
  /\ \A m \in messages : m.from # n
  /\ \A i \in Ids : deliveries[i][n] = "none"
  /\ kind' = [kind EXCEPT ![n] = "none"]
  /\ removed' = removed \ {n}
  /\ UNCHANGED <<tac, members, messages, deliveries>>

\* bus_tac_create
TacCreate ==
  /\ tac = "none"
  /\ tac' = "open"
  /\ UNCHANGED <<kind, removed, members, messages, deliveries>>

\* bus_tac_add: any active node, a program too, and a closed tac too
TacAdd(n) ==
  /\ tac # "none"
  /\ n \in Active
  /\ members' = members \cup {n}
  /\ UNCHANGED <<kind, removed, tac, messages, deliveries>>

\* bus_tac_remove_member
TacRemove(n) ==
  /\ n \in members
  /\ members' = members \ {n}
  /\ UNCHANGED <<kind, removed, tac, messages, deliveries>>

\* bus_tac_close: UPDATE ... WHERE closed_at IS NULL
TacClose ==
  /\ tac = "open"
  /\ tac' = "closed"
  /\ UNCHANGED <<kind, removed, members, messages, deliveries>>

\* The mail of a node leaves the unread states.
Open(i, n) ==
  /\ deliveries[i][n] = "unread"
  /\ deliveries' = [deliveries EXCEPT ![i][n] = "opened"]
  /\ UNCHANGED <<kind, removed, tac, members, messages>>

Administration ==
  \/ \E n \in Nodes : \/ Register(n, "agent") \/ Register(n, "program")
                      \/ Remove(n) \/ Restore(n) \/ Purge(n)
                      \/ TacAdd(n) \/ TacRemove(n)
  \/ TacCreate \/ TacClose

Reading == \E i \in Ids, n \in Nodes : Open(i, n)

-----------------------------------------------------------------------------
\* The INSERTs of one send: the message and a delivery for each recipient.
Insert(e, to) ==
  /\ messages' = messages \cup {Row(e)}
  /\ deliveries' = [deliveries EXCEPT ![e.id] =
                      [n \in Nodes |-> IF n \in to THEN "unread" ELSE @[n]]]
=============================================================================
