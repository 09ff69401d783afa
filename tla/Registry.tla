------------------------------ MODULE Registry ------------------------------
(***************************************************************************)
(* bus_register as the threads of tabd run it: the node's row and the      *)
(* terminal route it may claim.  Whether the node is removed and whether a *)
(* newer instance has registered is read first; everything else is read    *)
(* and written in one transaction (BEGIN IMMEDIATE).  A removal runs the   *)
(* same way, a look at the node and then a write.                          *)
(*                                                                         *)
(* A route is an adapter, a target and a host; its place is the target and *)
(* the host, which one node may own.                                       *)
(***************************************************************************)
EXTENDS Naturals

CONSTANTS
  Nodes,
  Routes, Places, Place,  \* the terminals, and where they are
  None,                   \* no route
  Calls,                  \* what clients ask of bus_register
  Threads,
  Last                    \* bound: the clock runs from 1 to Last

Kinds   == {"agent", "program"}
Claims  == Routes \cup {None}
Request == [node: Nodes, kind: Kinds, route: Claims, take: BOOLEAN, verified: BOOLEAN,
            enter: {"keep", "on", "off"}]

\* The refusals that look at the request only: a program has no terminal, and
\* who takes over, proves or presses Enter names a complete route.
WellFormed(q) ==
  /\ q.kind = "program" => q.route = None
  /\ q.take \/ q.verified \/ q.enter = "on" => q.route # None

ASSUME RegistryAssumption ==
  /\ Last \in Nat \ {0}
  /\ None \notin Routes
  /\ Place \in [Routes -> Places]
  /\ Calls \subseteq Request

VARIABLES
  kind,     \* nodes: "none" without a row, else is_program
  boot,     \* nodes: boot_at
  route,    \* tab_routes; live is revoked_at IS NULL
  removed,  \* removed_nodes
  now,      \* the clock, in seconds
  at,       \* where each thread is
  call,     \* the request it handles
  ts,       \* when it came
  \* What the nodes have said, for the properties.
  consent,  \* the route they hold and asked to be pressed Enter at
  proof     \* the route they last proved to be theirs

tables == <<kind, boot, route, removed>>
said   == <<consent, proof>>
vars   == <<tables, now, at, call, ts, said>>

Row     == [is: Routes, live: BOOLEAN, enter: BOOLEAN, proved: BOOLEAN]
NoRoute == [is |-> None, live |-> FALSE, enter |-> FALSE, proved |-> FALSE]
Spots   == {"free", "removed", "fence", "write", "remove"}

\* A request that only names a node.
Bare(n) == [node |-> n, kind |-> "agent", route |-> None, take |-> FALSE,
            verified |-> FALSE, enter |-> "keep"]

TypeOK ==
  /\ kind    \in [Nodes -> Kinds \cup {"none"}]
  /\ boot    \in [Nodes -> 0..Last]
  /\ route   \in [Nodes -> Row \cup {NoRoute}]
  /\ removed \in SUBSET Nodes
  /\ now     \in 1..Last
  /\ at      \in [Threads -> Spots]
  /\ call    \in [Threads -> Request \cup {None}]
  /\ ts      \in [Threads -> 0..Last]
  /\ consent \in [Nodes -> Claims]
  /\ proof   \in [Nodes -> Claims]

Init ==
  /\ kind    = [n \in Nodes |-> "none"]
  /\ boot    = [n \in Nodes |-> 0]
  /\ route   = [n \in Nodes |-> NoRoute]
  /\ removed = {}
  /\ now     = 1
  /\ at      = [t \in Threads |-> "free"]
  /\ call    = [t \in Threads |-> None]
  /\ ts      = [t \in Threads |-> 0]
  /\ consent = [n \in Nodes |-> None]
  /\ proof   = [n \in Nodes |-> None]

Tick ==
  /\ now < Last
  /\ now' = now + 1
  /\ UNCHANGED <<tables, at, call, ts, said>>

-----------------------------------------------------------------------------
(* One registration.                                                       *)

Goes(t, spot) == at' = [at EXCEPT ![t] = spot]

Ends(t) ==
  /\ Goes(t, "free")
  /\ call' = [call EXCEPT ![t] = None]
  /\ ts' = [ts EXCEPT ![t] = 0]

Start(t, q) ==
  /\ at[t] = "free"
  /\ WellFormed(q)
  /\ Goes(t, "removed")
  /\ call' = [call EXCEPT ![t] = q]
  /\ ts' = [ts EXCEPT ![t] = now]
  /\ UNCHANGED <<tables, now, said>>

\* A removed node must be restored first.
CheckRemoved(t) ==
  /\ at[t] = "removed"
  /\ call[t].node \notin removed
  /\ Goes(t, "fence")
  /\ UNCHANGED <<tables, now, call, ts, said>>

\* No newer instance of the node has registered.
CheckFence(t) ==
  /\ at[t] = "fence"
  /\ boot[call[t].node] <= ts[t]
  /\ Goes(t, "write")
  /\ UNCHANGED <<tables, now, call, ts, said>>

SameBug(q) == route[q.node].is = q.route

\* The node holds this very route and registers it again.
Same(q) == route[q.node].live /\ route[q.node].is = q.route

AdapterBug(q) == {m \in Nodes \ {q.node} : route[m].live /\ route[m].is = q.route}

\* The others that own the place.  The UPDATE that revokes them has the same WHERE.
Owners(q) == {m \in Nodes \ {q.node} :
                /\ q.route # None
                /\ route[m].live
                /\ Place[route[m].is] = Place[q.route]}

\* Only a literal take_route moves ownership.
Taken(q) == Owners(q) # {} /\ ~q.take

LiveProof(q) ==
  q.route # None /\ route[q.node].live /\ route[q.node].proved /\ ~q.verified /\ ~Same(q)

\* A proved route, live or not, gives way to a proved one only.
Unproved(q) == q.route # None /\ route[q.node].proved /\ ~q.verified /\ ~Same(q)

\* An agent stays an agent.
Demoted(q) == q.kind = "program" /\ kind[q.node] = "agent"

\* Omission keeps the setting of the same active route, and is off for a new one.
Enter(q) == q.enter = "on" \/ (q.enter = "keep" /\ Same(q) /\ route[q.node].enter)

Claimed(q) == [is |-> q.route, live |-> TRUE, enter |-> Enter(q),
               proved |-> q.verified \/ route[q.node].proved]

NullRoute(q) == Claimed(q)

Revoked(r) == [r EXCEPT !.live = FALSE]

\* The node's own row: claimed; or, if it is live, given up by a program or turned
\* off.
OwnRow(q) ==
  LET old == route[q.node] IN
  IF q.route # None THEN Claimed(q)
  ELSE IF old.live /\ q.kind = "program" THEN Revoked(old)
  ELSE IF old.live /\ q.enter = "off" THEN [old EXCEPT !.enter = FALSE]
  ELSE old

\* The node still holds the route it held.
Keeps(m) == route[m].live /\ route'[m].live /\ route'[m].is = route[m].is

Answer(q) == IF q.enter = "on" THEN q.route ELSE None

\* Consent follows from what happens to the routes, not from how.
Remember(q) ==
  /\ consent' = [m \in Nodes |->
       IF m = q.node /\ q.enter # "keep" THEN Answer(q)
       ELSE IF Keeps(m) THEN consent[m] ELSE None]
  /\ proof' = IF q.verified THEN [proof EXCEPT ![q.node] = q.route] ELSE proof

\* The transaction: the node, the others' claims, its own route.
Write(t) ==
  LET q == call[t] IN
  /\ at[t] = "write"
  /\ ~Taken(q) /\ ~Unproved(q) /\ ~Demoted(q)
  /\ kind' = [kind EXCEPT ![q.node] = q.kind]
  /\ boot' = [boot EXCEPT ![q.node] = ts[t]]
  /\ route' = [m \in Nodes |->
       IF m = q.node THEN OwnRow(q)
       ELSE IF m \in Owners(q) THEN Revoked(route[m]) ELSE route[m]]
  /\ Remember(q)
  /\ Ends(t)
  /\ UNCHANGED <<removed, now>>

\* Refused, or ended by an error: nothing is written.
GiveUp(t) ==
  /\ at[t] # "free"
  /\ Ends(t)
  /\ UNCHANGED <<tables, now, said>>

-----------------------------------------------------------------------------
(* Removal.                                                                *)

\* bus_remove without purge: the node exists, then it is marked.
StartRemove(t, n) ==
  /\ at[t] = "free"
  /\ kind[n] # "none"
  /\ Goes(t, "remove")
  /\ call' = [call EXCEPT ![t] = Bare(n)]
  /\ UNCHANGED <<tables, now, ts, said>>

Remove(t) ==
  /\ at[t] = "remove"
  /\ removed' = removed \cup {call[t].node}
  /\ Ends(t)
  /\ UNCHANGED <<kind, boot, route, now, said>>

Restore(n) ==
  /\ n \in removed
  /\ removed' = removed \ {n}
  /\ UNCHANGED <<kind, boot, route, now, at, call, ts, said>>

\* bus_remove with purge: never a node that has had a route, and the foreign key
\* of tab_routes refuses one that gets it meanwhile.  The rest of its history is
\* not modelled, so it may have some or not.
Purge(n) ==
  /\ kind[n] # "none"
  /\ route[n] = NoRoute
  /\ kind' = [kind EXCEPT ![n] = "none"]
  /\ boot' = [boot EXCEPT ![n] = 0]
  /\ removed' = removed \ {n}
  /\ UNCHANGED <<route, now, at, call, ts, said>>

Registers(t) == (\E q \in Calls : Start(t, q)) \/ CheckRemoved(t) \/ CheckFence(t) \/ Write(t)

Next ==
  \/ Tick
  \/ \E t \in Threads : \/ Registers(t) \/ GiveUp(t) \/ Remove(t)
                        \/ \E n \in Nodes : StartRemove(t, n)
  \/ \E n \in Nodes : Restore(n) \/ Purge(n)

Spec == Init /\ [][Next]_vars

-----------------------------------------------------------------------------
(* Properties.                                                             *)

Holds(n, p) == route[n].live /\ Place[route[n].is] = p

\* "A terminal target can belong to only one node on one installation",
\* whatever two registrations see of each other.
OneOwner ==
  \A n, m \in Nodes, p \in Places : Holds(n, p) /\ Holds(m, p) => n = m

\* A node loses a terminal by its own registration, or by one that names the
\* terminal and takes it: merely seeing a target moves nothing.
OnlyTaken ==
  [][\A n \in Nodes, p \in Places : Holds(n, p) /\ ~Holds(n, p)' =>
       \E t \in Threads : /\ at[t] = "write" /\ at'[t] = "free"
                          /\ \E m \in Nodes :
                               /\ m = call[t].node
                               /\ m = n \/ (call[t].take /\ Holds(m, p)')]_vars

\* Enter is pressed only at a terminal whose owner asked for it there, in words,
\* and has held it without a break since.
EnterConsented ==
  \A n \in Nodes : route[n].live /\ route[n].enter => consent[n] = route[n].is

\* provenance_verified tells of the route in the row, not of an earlier one.
ProofCurrent ==
  \A n \in Nodes : route[n].proved => proof[n] = route[n].is

-----------------------------------------------------------------------------
(* What the tables say of the terminals, and what that comes to.           *)

Seats == {[node |-> n, route |-> route[n].is, enter |-> route[n].enter] :
            n \in {m \in Nodes : route[m].live}}

Contract == INSTANCE TerminalContract WITH seats <- Seats

\* The rows and the threads are a way of running registrations one at a time: of
\* overlapping ones each moves the terminals in one step that its own words allow,
\* given who sits where at that moment, or not at all.
KeepsSeats == Contract!Spec
=============================================================================
