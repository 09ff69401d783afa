-------------------------- MODULE Registry_proofs --------------------------
(* Theorems about Registry, for any nodes, terminals, calls and threads. *)
EXTENDS Registry, TLAPS

USE RegistryAssumption

-----------------------------------------------------------------------------
(* Types: a thread that handles a request has a well-formed one.           *)

Called(t) == at[t] # "free" => call[t] \in Request /\ WellFormed(call[t])

Typed == TypeOK /\ \A t \in Threads : Called(t)

LEMMA TypedInit == Init => Typed
BY DEF Init, Typed, TypeOK, Called, Kinds, Row, NoRoute, Spots, Claims

\* A live row stays one when it is revoked or turned off.
LEMMA LiveRow ==
  ASSUME NEW r \in Row \cup {NoRoute}, r.live
  PROVE  /\ r \in Row /\ Revoked(r) \in Row /\ [r EXCEPT !.enter = FALSE] \in Row
         /\ ~Revoked(r).live /\ Revoked(r).is = r.is /\ Revoked(r).proved = r.proved
         /\ LET off == [r EXCEPT !.enter = FALSE] IN
              off.is = r.is /\ off.live = r.live /\ off.proved = r.proved /\ ~off.enter
<1>1. r \in Row
  BY DEF NoRoute
<1> QED
  BY <1>1 DEF Revoked, Row

\* A node's own row stays one, of the route it names or of the one it had.
LEMMA OwnRowType ==
  ASSUME TypeOK, NEW q \in Request
  PROVE  OwnRow(q) \in Row \cup {NoRoute}
<1> DEFINE old == route[q.node]
<1>1. old \in Row \cup {NoRoute}
  BY DEF TypeOK, Request
<1>2. q.route \in Claims /\ q.verified \in BOOLEAN
  BY DEF Request
<1>3. CASE q.route # None
  <2>1. Enter(q) \in BOOLEAN
    BY DEF Enter
  <2>2. Claimed(q).proved \in BOOLEAN
    BY <1>1, <1>2 DEF Claimed
  <2> QED
    BY <1>2, <1>3, <2>1, <2>2 DEF OwnRow, Claimed, Row, Claims
<1>4. CASE q.route = None /\ old.live
  BY <1>1, <1>4, LiveRow DEF OwnRow
<1>5. CASE q.route = None /\ ~old.live
  BY <1>1, <1>5 DEF OwnRow
<1> QED
  BY <1>3, <1>4, <1>5

\* What a registration does to the routes.
LEMMA WriteRoutes ==
  ASSUME Typed, NEW t \in Threads, Write(t)
  PROVE  /\ call[t] \in Request
         /\ WellFormed(call[t])
         /\ route'[call[t].node] = OwnRow(call[t])
         /\ \A m \in Nodes \ {call[t].node} :
              route'[m] = IF m \in Owners(call[t]) THEN Revoked(route[m]) ELSE route[m]
<1>1. call[t] \in Request /\ WellFormed(call[t])
  BY DEF Write, Typed, Called
<1>2. call[t].node \in Nodes
  BY <1>1 DEF Request
<1> QED
  BY <1>1, <1>2 DEF Write

LEMMA WriteTypes == ASSUME Typed, NEW t \in Threads, Write(t) PROVE Typed'
<1> DEFINE q == call[t]
<1>0. TypeOK
  BY DEF Typed
<1>1. q \in Request /\ q.node \in Nodes /\ q.kind \in Kinds /\ q.route \in Claims
  BY WriteRoutes DEF Request
<1>2. route' \in [Nodes -> Row \cup {NoRoute}]
  <2>1. OwnRow(q) \in Row \cup {NoRoute}
    BY <1>0, <1>1, OwnRowType
  <2>2. ASSUME NEW m \in Owners(q) PROVE Revoked(route[m]) \in Row
    BY <1>0, LiveRow DEF TypeOK, Owners
  <2> QED
    BY <1>0, <2>1, <2>2 DEF Write, TypeOK
<1>3. consent' \in [Nodes -> Claims]
  BY <1>0, <1>1 DEF Write, Remember, Answer, TypeOK, Claims
<1>4. proof' \in [Nodes -> Claims]
  BY <1>0, <1>1 DEF Write, Remember, TypeOK
<1>5. /\ kind' \in [Nodes -> Kinds \cup {"none"}]
      /\ boot' \in [Nodes -> 0..Last]
      /\ removed' = removed /\ now' = now
  BY <1>0, <1>1 DEF Write, TypeOK
<1>6. /\ at' \in [Threads -> Spots] /\ call' \in [Threads -> Request \cup {None}]
      /\ ts' \in [Threads -> 0..Last]
  BY <1>0 DEF Write, Ends, Goes, TypeOK, Spots
<1>7. ASSUME NEW r \in Threads PROVE Called(r)'
  BY <1>0 DEF Write, Ends, Goes, TypeOK, Typed, Called, WellFormed
<1> QED
  BY <1>0, <1>2, <1>3, <1>4, <1>5, <1>6, <1>7 DEF Typed, TypeOK

LEMMA TypedStep == Typed /\ [Next]_vars => Typed'
<1> SUFFICES ASSUME Typed, [Next]_vars PROVE Typed'
  OBVIOUS
<1>0. TypeOK
  BY DEF Typed
<1>1. CASE Tick
  BY <1>0, <1>1 DEF Tick, Typed, TypeOK, Called, tables, said, WellFormed
<1>2. ASSUME NEW t \in Threads, NEW q \in Calls, Start(t, q) PROVE Typed'
  BY <1>0, <1>2 DEF Start, Goes, Typed, TypeOK, Called, tables, said, Spots, WellFormed
<1>3. ASSUME NEW t \in Threads, CheckRemoved(t) \/ CheckFence(t) PROVE Typed'
  BY <1>0, <1>3 DEF CheckRemoved, CheckFence, Goes, Typed, TypeOK, Called, tables, said, Spots,
     WellFormed
<1>4. ASSUME NEW t \in Threads, Write(t) PROVE Typed'
  BY <1>4, WriteTypes
<1>5. ASSUME NEW t \in Threads, GiveUp(t) PROVE Typed'
  BY <1>0, <1>5 DEF GiveUp, Ends, Goes, Typed, TypeOK, Called, tables, said, Spots, WellFormed
<1>6. ASSUME NEW t \in Threads, NEW n \in Nodes, StartRemove(t, n) PROVE Typed'
  <2>1. Bare(n) \in Request /\ WellFormed(Bare(n))
    BY DEF Bare, Request, WellFormed, Kinds, Claims
  <2> QED
    BY <1>0, <1>6, <2>1 DEF StartRemove, Goes, Typed, TypeOK, Called, tables, said, Spots,
       WellFormed
<1>7. ASSUME NEW t \in Threads, Remove(t) PROVE Typed'
  <2>1. call[t].node \in Nodes
    BY <1>7 DEF Remove, Typed, Called, Request
  <2> QED
    BY <1>0, <1>7, <2>1 DEF Remove, Ends, Goes, Typed, TypeOK, Called, said, Spots, WellFormed
<1>8. ASSUME NEW n \in Nodes, Restore(n) \/ Purge(n) PROVE Typed'
  BY <1>0, <1>8 DEF Restore, Purge, Typed, TypeOK, Called, said, WellFormed
<1>9. CASE UNCHANGED vars
  BY <1>0, <1>9 DEF vars, tables, said, Typed, TypeOK, Called, WellFormed
<1> QED
  BY <1>1, <1>2, <1>3, <1>4, <1>5, <1>6, <1>7, <1>8, <1>9 DEF Next, Registers

\* Every variable keeps its type, for any number of threads.
THEOREM TypeCorrect == Spec => []TypeOK
<1>1. Typed => TypeOK
  BY DEF Typed
<1> QED
  BY <1>1, TypedInit, TypedStep, PTL DEF Spec

\* And a thread that handles a request has a well-formed one.
THEOREM TypedHolds == Spec => []Typed
BY TypedInit, TypedStep, PTL DEF Spec

-----------------------------------------------------------------------------
(* What a step does to a route.                                            *)

\* Only a registration touches the routes and what the nodes have said.
LEMMA OnlyWrites ==
  ASSUME [Next]_vars, \A t \in Threads : ~Write(t)
  PROVE  route' = route /\ consent' = consent /\ proof' = proof
BY DEF Next, Registers, Tick, Start, CheckRemoved, CheckFence, GiveUp, StartRemove, Remove,
   Restore, Purge, vars, tables, said

\* A registration without a route leaves the node's own row in its place, and can
\* only revoke it or turn it off.
LEMMA Routeless ==
  ASSUME TypeOK, NEW q \in Request, q.route = None
  PROVE  LET old == route[q.node]
             new == OwnRow(q) IN
         /\ new.is = old.is /\ new.proved = old.proved
         /\ new.live => old.live
         /\ new.live /\ new.enter => old.enter /\ q.enter # "off"
<1> DEFINE old == route[q.node]
<1>1. old \in Row \cup {NoRoute}
  BY DEF TypeOK, Request
<1>2. CASE old.live
  BY <1>1, <1>2, LiveRow DEF OwnRow
<1>3. CASE ~old.live
  BY <1>3 DEF OwnRow
<1> QED
  BY <1>2, <1>3

\* Another node's row is left alone, or revoked if it owns the place.
LEMMA OtherRow ==
  ASSUME Typed, NEW t \in Threads, Write(t), NEW n \in Nodes, n # call[t].node
  PROVE  /\ route'[n].is = route[n].is /\ route'[n].proved = route[n].proved
         /\ n \in Owners(call[t]) => ~route'[n].live
         /\ n \notin Owners(call[t]) => route'[n] = route[n]
<1>1. route[n] \in Row \cup {NoRoute}
  BY DEF Typed, TypeOK
<1>2. CASE n \in Owners(call[t])
  BY <1>1, <1>2, WriteRoutes, LiveRow DEF Owners
<1>3. CASE n \notin Owners(call[t])
  BY <1>3, WriteRoutes
<1> QED
  BY <1>2, <1>3

-----------------------------------------------------------------------------
(* One owner.                                                              *)

\* Who holds a place after a registration claimed it, or held it and was not in
\* the way.
LEMMA HoldsAfter ==
  ASSUME Typed, NEW t \in Threads, Write(t), NEW n \in Nodes, NEW p \in Places, Holds(n, p)'
  PROVE  \/ /\ n = call[t].node
            /\ call[t].route # None /\ Place[call[t].route] = p
         \/ /\ Holds(n, p)
            /\ n = call[t].node => call[t].route = None
            /\ n \notin Owners(call[t])
<1> DEFINE q == call[t]
<1>0. TypeOK /\ q \in Request
  BY WriteRoutes DEF Typed
<1>1. CASE n # q.node
  BY <1>1, OtherRow DEF Holds
<1>2. CASE n = q.node /\ q.route # None
  <2>1. route'[n] = Claimed(q)
    BY <1>2, WriteRoutes DEF OwnRow
  <2>2. route'[n].is = q.route
    BY <2>1 DEF Claimed
  <2> QED
    BY <1>2, <2>2 DEF Holds
<1>3. CASE n = q.node /\ q.route = None
  BY <1>0, <1>3, WriteRoutes, Routeless DEF Holds, Owners
<1> QED
  BY <1>1, <1>2, <1>3

LEMMA OneOwnerStep == Typed /\ OneOwner /\ [Next]_vars => OneOwner'
<1> SUFFICES ASSUME Typed, OneOwner, [Next]_vars,
                    NEW n \in Nodes, NEW m \in Nodes, NEW p \in Places,
                    Holds(n, p)', Holds(m, p)'
             PROVE  n = m
  BY DEF OneOwner
<1>1. CASE \A t \in Threads : ~Write(t)
  BY <1>1, OnlyWrites DEF OneOwner, Holds
<1>2. ASSUME NEW t \in Threads, Write(t) PROVE n = m
  <2> DEFINE q == call[t]
  <2>1. CASE Holds(n, p) /\ Holds(m, p)
    BY <2>1 DEF OneOwner
  <2>2. CASE ~Holds(n, p) \/ ~Holds(m, p)
    \* One of them has just claimed the place, so the other is it, or in the way.
    BY <1>2, <2>2, HoldsAfter DEF Owners, Holds
  <2> QED
    BY <2>1, <2>2
<1> QED
  BY <1>1, <1>2

\* One node at most owns a terminal, however registrations overlap.
THEOREM OneOwnerHolds == Spec => []OneOwner
<1>1. Init => OneOwner
  BY DEF Init, OneOwner, Holds, NoRoute
<1> QED
  BY <1>1, TypedInit, TypedStep, OneOwnerStep, PTL DEF Spec

\* A terminal changes hands only by its owner's registration or by a takeover.
THEOREM OnlyTakenHolds == Spec => OnlyTaken
<1> DEFINE Lost(n, p) == \E t \in Threads :
                           /\ at[t] = "write" /\ at'[t] = "free"
                           /\ \E m \in Nodes :
                                /\ m = call[t].node
                                /\ m = n \/ (call[t].take /\ Holds(m, p)')
<1>1. ASSUME Typed, [Next]_vars, NEW n \in Nodes, NEW p \in Places,
             Holds(n, p), ~Holds(n, p)'
      PROVE  Lost(n, p)
  <2>1. PICK t \in Threads : Write(t)
    BY <1>1, OnlyWrites DEF Holds
  <2> DEFINE q == call[t]
  <2>2. q \in Request /\ q.node \in Nodes /\ q.take \in BOOLEAN
    BY <1>1, <2>1, WriteRoutes DEF Request
  <2>3. at[t] = "write" /\ at'[t] = "free"
    BY <1>1, <2>1 DEF Write, Ends, Goes, Typed, TypeOK
  <2>4. CASE q.node = n
    BY <2>2, <2>3, <2>4
  <2>5. CASE q.node # n
    <3>1. n \in Owners(q)
      BY <1>1, <2>1, <2>5, OtherRow DEF Holds
    <3>2. q.take
      BY <2>1, <2>2, <3>1 DEF Write, Taken
    <3>3. PICK m \in Nodes : m = q.node
      BY <2>2
    <3>4. route'[m] = Claimed(q) /\ Place[q.route] = p
      BY <1>1, <2>1, <3>1, <3>3, WriteRoutes DEF Owners, OwnRow, Holds
    <3>5. Holds(m, p)'
      BY <3>4 DEF Holds, Claimed
    <3> QED
      BY <2>3, <3>2, <3>3, <3>5
  <2> QED
    BY <2>4, <2>5
<1>2. Typed /\ [Next]_vars =>
        [\A n \in Nodes, p \in Places : Holds(n, p) /\ ~Holds(n, p)' => Lost(n, p)]_vars
  BY <1>1
<1> QED
  BY <1>2, TypedInit, TypedStep, PTL DEF Spec, OnlyTaken

-----------------------------------------------------------------------------
(* Consent and proof.                                                      *)

LEMMA ConsentStep == Typed /\ EnterConsented /\ [Next]_vars => EnterConsented'
<1> SUFFICES ASSUME Typed, EnterConsented, [Next]_vars,
                    NEW n \in Nodes, route'[n].live, route'[n].enter
             PROVE  consent'[n] = route'[n].is
  BY DEF EnterConsented
<1>1. CASE \A t \in Threads : ~Write(t)
  BY <1>1, OnlyWrites DEF EnterConsented
<1>2. ASSUME NEW t \in Threads, Write(t) PROVE consent'[n] = route'[n].is
  <2> DEFINE q == call[t]
  <2>1. TypeOK /\ q \in Request /\ WellFormed(q) /\ q.enter \in {"keep", "on", "off"}
    BY <1>2, WriteRoutes DEF Typed, Request
  <2>2. consent'[n] = IF n = q.node /\ q.enter # "keep" THEN Answer(q)
                      ELSE IF Keeps(n) THEN consent[n] ELSE None
    BY <1>2 DEF Write, Remember
  <2>3. ASSUME route[n].live, route[n].enter, route'[n].is = route[n].is,
               n = q.node => q.enter = "keep"
        PROVE  consent'[n] = route'[n].is
    BY <2>2, <2>3 DEF EnterConsented, Keeps
  <2>4. CASE n # q.node
    BY <1>2, <2>3, <2>4, OtherRow
  <2>5. CASE n = q.node /\ q.route = None
    BY <1>2, <2>1, <2>3, <2>5, WriteRoutes, Routeless DEF WellFormed
  <2>6. CASE n = q.node /\ q.route # None
    <3>1. route'[n] = Claimed(q)
      BY <1>2, <2>6, WriteRoutes DEF OwnRow
    <3>2. Enter(q) /\ route'[n].is = q.route
      BY <3>1 DEF Claimed
    <3>3. CASE q.enter = "on"
      BY <2>2, <2>6, <3>2, <3>3 DEF Answer
    <3>4. CASE q.enter = "keep"
      BY <2>3, <2>6, <3>2, <3>4 DEF Enter, Same
    <3> QED
      BY <2>1, <3>2, <3>3, <3>4 DEF Enter
  <2> QED
    BY <2>4, <2>5, <2>6
<1> QED
  BY <1>1, <1>2

\* Enter is pressed only where the owner asked for it and has stayed since.
THEOREM EnterConsentedHolds == Spec => []EnterConsented
<1>1. Init => EnterConsented
  BY DEF Init, EnterConsented, NoRoute
<1> QED
  BY <1>1, TypedInit, TypedStep, ConsentStep, PTL DEF Spec

LEMMA ProofStep == Typed /\ ProofCurrent /\ [Next]_vars => ProofCurrent'
<1> SUFFICES ASSUME Typed, ProofCurrent, [Next]_vars, NEW n \in Nodes, route'[n].proved
             PROVE  proof'[n] = route'[n].is
  BY DEF ProofCurrent
<1>1. CASE \A t \in Threads : ~Write(t)
  BY <1>1, OnlyWrites DEF ProofCurrent
<1>2. ASSUME NEW t \in Threads, Write(t) PROVE proof'[n] = route'[n].is
  <2> DEFINE q == call[t]
  <2>1. TypeOK /\ q \in Request /\ WellFormed(q)
    BY <1>2, WriteRoutes DEF Typed
  <2>2. /\ n = q.node /\ q.verified => proof'[n] = q.route
        /\ n # q.node \/ ~q.verified => proof'[n] = proof[n]
    BY <1>2, <2>1 DEF Write, Remember, TypeOK
  <2>3. CASE n # q.node
    BY <1>2, <2>2, <2>3, OtherRow DEF ProofCurrent
  <2>4. CASE n = q.node /\ q.route = None
    BY <1>2, <2>1, <2>2, <2>4, WriteRoutes, Routeless DEF WellFormed, ProofCurrent
  <2>5. CASE n = q.node /\ q.route # None
    <3>1. route'[n] = Claimed(q)
      BY <1>2, <2>5, WriteRoutes DEF OwnRow
    <3>2. route'[n].is = q.route /\ (q.verified \/ route[n].proved)
      <4>1. Claimed(q).is = q.route /\ (Claimed(q).proved => q.verified \/ route[n].proved)
        BY <2>5 DEF Claimed
      <4> QED
        BY <3>1, <4>1
    <3>3. CASE q.verified
      BY <2>2, <2>5, <3>2, <3>3
    <3>4. CASE ~q.verified
      BY <1>2, <2>2, <2>5, <3>2, <3>4 DEF Write, Unproved, Same, ProofCurrent
    <3> QED
      BY <3>3, <3>4
  <2> QED
    BY <2>3, <2>4, <2>5
<1> QED
  BY <1>1, <1>2

\* A row marked as proved holds the route that was proved last.
THEOREM ProofCurrentHolds == Spec => []ProofCurrent
<1>1. Init => ProofCurrent
  BY DEF Init, ProofCurrent, NoRoute
<1> QED
  BY <1>1, TypedInit, TypedStep, ProofStep, PTL DEF Spec

-----------------------------------------------------------------------------
(* Terminals change hands as TerminalContract says.                        *)

\* A thread that does nothing has no request.
Idle == \A t \in Threads : at[t] = "free" => call[t] = None

LEMMA IdleHolds == Spec => []Idle
<1>1. Init => Idle
  BY DEF Init, Idle
<1>2. Typed /\ Idle /\ [Next]_vars => Idle'
  <2> SUFFICES ASSUME Typed, Idle, [Next]_vars PROVE Idle'
    OBVIOUS
  <2>0. at \in [Threads -> Spots] /\ call \in [Threads -> Request \cup {None}]
    BY DEF Typed, TypeOK
  <2>1. ASSUME NEW t \in Threads, Registers(t) PROVE Idle'
    BY <2>0, <2>1 DEF Registers, Start, CheckRemoved, CheckFence, Write, Ends, Goes, Idle
  <2>2. ASSUME NEW t \in Threads, GiveUp(t) \/ Remove(t) PROVE Idle'
    BY <2>0, <2>2 DEF GiveUp, Remove, Ends, Goes, Idle
  <2>3. ASSUME NEW t \in Threads, NEW n \in Nodes, StartRemove(t, n) PROVE Idle'
    BY <2>0, <2>3 DEF StartRemove, Goes, Idle
  <2>4. CASE UNCHANGED <<at, call>>
    BY <2>4 DEF Idle
  <2> QED
    BY <2>1, <2>2, <2>3, <2>4 DEF Next, Tick, Restore, Purge, vars
<1> QED
  BY <1>1, <1>2, TypedInit, TypedStep, PTL DEF Spec

\* The seat of a node with a live row.
SeatOf(n) == [node |-> n, route |-> route[n].is, enter |-> route[n].enter]

SeatsTrue ==
  /\ \A n \in Nodes : route[n].live <=> SeatOf(n) \in Seats
  /\ \A s \in Seats : /\ s.node \in Nodes /\ route[s.node].live
                      /\ s = SeatOf(s.node)
                      /\ s.route = route[s.node].is /\ s.route \in Routes
                      /\ s.enter = route[s.node].enter /\ s.enter \in BOOLEAN

LEMMA SeatsAre == TypeOK => SeatsTrue
<1> SUFFICES ASSUME TypeOK PROVE SeatsTrue
  OBVIOUS
<1>1. \A n \in Nodes : route[n].live => route[n] \in Row
  BY LiveRow DEF TypeOK
<1>2. ASSUME NEW s \in Seats
      PROVE  /\ s.node \in Nodes /\ route[s.node].live
             /\ s = SeatOf(s.node)
             /\ s.route = route[s.node].is /\ s.route \in Routes
             /\ s.enter = route[s.node].enter /\ s.enter \in BOOLEAN
  <2>1. PICK n \in {m \in Nodes : route[m].live} : s = SeatOf(n)
    BY DEF Seats, SeatOf
  <2>2. s.node = n /\ s.route = route[n].is /\ s.enter = route[n].enter
    BY <2>1 DEF SeatOf
  <2>3. route[n].is \in Routes /\ route[n].enter \in BOOLEAN
    BY <1>1, <2>1 DEF Row
  <2> QED
    BY <2>1, <2>2, <2>3
<1>3. ASSUME NEW n \in Nodes PROVE route[n].live <=> SeatOf(n) \in Seats
  <2>1. route[n].live => SeatOf(n) \in Seats
    BY DEF Seats, SeatOf
  <2>2. SeatOf(n).node = n
    BY DEF SeatOf
  <2> QED
    BY <1>2, <2>1, <2>2
<1> QED
  BY <1>2, <1>3 DEF SeatsTrue

LEMMA SeatsAreNext == TypeOK' => SeatsTrue'
BY SeatsAre, PTL

\* A registration that names a terminal: the seats there and the node's own make way
\* for one seat.
LEMMA WriteSits ==
  ASSUME Typed, NEW t \in Threads, Write(t), call[t].route # None
  PROVE  Contract!Sits(t)
<1> DEFINE q     == call[t]
           there == {s \in Seats : Place[s.route] = Place[q.route] /\ s.node # q.node}
           new   == [node |-> q.node, route |-> q.route, enter |-> Contract!Presses(q)]
<1>0. SeatsTrue /\ SeatsTrue' /\ TypeOK
  BY WriteTypes, SeatsAre, SeatsAreNext DEF Typed
<1>1. q \in Request /\ q.node \in Nodes /\ q.take \in BOOLEAN
  BY WriteRoutes DEF Request
<1>2. \A s \in there : s.node \in Owners(q)
  BY <1>0 DEF Owners, SeatsTrue
<1>3. there # {} => q.take
  BY <1>1, <1>2 DEF Write, Taken
<1>4. Enter(q) <=> Contract!Presses(q)
  <2> DEFINE old == [node |-> q.node, route |-> q.route, enter |-> TRUE]
  <2>1. old \in Seats <=> Same(q) /\ route[q.node].enter
    <3>1. old \in Seats => Same(q) /\ route[q.node].enter
      BY <1>0 DEF Same, SeatsTrue
    <3>2. Same(q) /\ route[q.node].enter => old = SeatOf(q.node)
      <4>1. Same(q) => route[q.node] \in Row
        BY <1>0, <1>1, LiveRow DEF Same, TypeOK
      <4> QED
        BY <4>1 DEF Same, SeatOf, Row
    <3> QED
      BY <1>0, <1>1, <3>1, <3>2 DEF Same, SeatsTrue
  <2> QED
    BY <2>1 DEF Enter, Contract!Presses
<1>5. route'[q.node] = Claimed(q)
  BY WriteRoutes DEF OwnRow
<1>6. route'[q.node].live /\ route'[q.node].is = q.route
      /\ route'[q.node].enter = Contract!Presses(q)
  <2>1. Claimed(q).live /\ Claimed(q).is = q.route /\ Claimed(q).enter = Enter(q)
    BY DEF Claimed
  <2>2. Enter(q) = Contract!Presses(q)
    BY <1>4 DEF Enter, Contract!Presses
  <2> QED
    BY <1>5, <2>1, <2>2
<1>7. ASSUME NEW s \in Seats' PROVE s = new \/ (s \in Seats \ there /\ s.node # q.node)
  <2>1. PICK n \in Nodes : n = s.node /\ route'[n].live /\ s = SeatOf(n)'
    BY <1>0 DEF SeatsTrue
  <2>2. CASE n = q.node
    BY <1>6, <2>1, <2>2 DEF SeatOf
  <2>3. CASE n # q.node
    <3>1. n \notin Owners(q) /\ route'[n] = route[n]
      BY <2>1, <2>3, OtherRow
    <3>2. s = SeatOf(n) /\ s \in Seats /\ s.route = route[n].is
      BY <1>0, <2>1, <3>1 DEF SeatOf, SeatsTrue
    <3> QED
      BY <2>1, <2>3, <3>1, <3>2 DEF Owners
  <2> QED
    BY <2>2, <2>3
<1>8. new \in Seats'
  <2>1. PICK n \in Nodes : n = q.node
    BY <1>1
  <2>2. SeatOf(n)' = new /\ route'[n].live
    BY <1>6, <2>1 DEF SeatOf
  <2> QED
    BY <1>0, <2>2 DEF SeatsTrue
<1>9. ASSUME NEW s \in Seats \ there, s.node # q.node PROVE s \in Seats'
  <2>1. PICK n \in Nodes : n = s.node /\ route[n].live /\ s = SeatOf(n) /\ s.route = route[n].is
    BY <1>0 DEF SeatsTrue
  <2>2. route'[n] = route[n]
    BY <1>9, <2>1, OtherRow DEF Owners
  <2>3. SeatOf(n)' = s /\ route'[n].live
    BY <2>1, <2>2 DEF SeatOf
  <2> QED
    BY <1>0, <2>3 DEF SeatsTrue
<1>10. Seats' = {s \in Seats \ there : s.node # q.node} \cup {new}
  BY <1>7, <1>8, <1>9
<1>11. Contract!Ends(t)
  BY DEF Write, Ends, Contract!Ends
<1> QED
  BY <1>3, <1>10, <1>11 DEF Contract!Sits

\* A registration that names none changes at most the node's own seat.
LEMMA WriteKeepsSeat ==
  ASSUME Typed, NEW t \in Threads, Write(t), call[t].route = None
  PROVE  Contract!Rises(t) \/ Contract!TurnsOff(t) \/ Contract!Returns(t)
<1> DEFINE q   == call[t]
           old == route[q.node]
<1>0. TypeOK /\ SeatsTrue /\ SeatsTrue' /\ q \in Request
  BY WriteTypes, WriteRoutes, SeatsAre, SeatsAreNext DEF Typed
<1>1. PICK n \in Nodes : n = q.node
  BY <1>0 DEF Request
<1>2. \A m \in Nodes \ {n} : route'[m] = route[m]
  BY <1>1, OtherRow DEF Owners
<1>3. \A m \in Nodes \ {n} : SeatOf(m)' = SeatOf(m) /\ (route'[m].live <=> route[m].live)
  BY <1>2 DEF SeatOf
<1>4. Contract!Ends(t)
  BY DEF Write, Ends, Contract!Ends
<1>5. route'[n] = OwnRow(q)
  BY <1>1, WriteRoutes
<1>6. CASE old.live /\ q.kind = "program"
  <2>1. ~route'[n].live
    BY <1>0, <1>1, <1>5, <1>6, LiveRow DEF OwnRow, TypeOK
  <2>2. Seats' = {s \in Seats : s.node # n}
    BY <1>0, <1>3, <2>1 DEF SeatsTrue
  <2> QED
    BY <1>1, <1>4, <1>6, <2>2 DEF Contract!Rises
<1>7. CASE old.live /\ q.kind # "program" /\ q.enter = "off"
  <2> DEFINE Off(s) == IF s.node = n THEN [s EXCEPT !.enter = FALSE] ELSE s
  <2>1. /\ route'[n].live /\ route'[n].is = route[n].is /\ ~route'[n].enter
        /\ route'[n] \in Row
    <3>1. OwnRow(q) = [old EXCEPT !.enter = FALSE]
      BY <1>7 DEF OwnRow
    <3>2. old \in Row \cup {NoRoute}
      BY <1>0, <1>1 DEF TypeOK
    <3> QED
      BY <1>1, <1>5, <1>7, <3>1, <3>2, LiveRow
  <2>2. SeatOf(n)' = Off(SeatOf(n))
    BY <2>1 DEF SeatOf, Row
  <2>3. \A m \in Nodes : m # n => SeatOf(m)' = Off(SeatOf(m))
    BY <1>3 DEF SeatOf
  <2>4. ASSUME NEW s \in Seats PROVE Off(s) \in Seats'
    <3>1. PICK m \in Nodes : s = SeatOf(m) /\ route[m].live
      BY <1>0 DEF SeatsTrue
    <3>2. SeatOf(m)' = Off(s) /\ route'[m].live
      BY <1>3, <2>1, <2>2, <2>3, <3>1
    <3> QED
      BY <1>0, <3>2 DEF SeatsTrue
  <2>5. \A s \in Seats' : \E r \in Seats : s = Off(r)
    BY <1>0, <1>1, <1>3, <1>7, <2>1, <2>2, <2>3 DEF SeatsTrue
  <2>6. Seats' = {Off(s) : s \in Seats}
    BY <2>4, <2>5
  <2> QED
    BY <1>1, <1>4, <1>7, <2>6 DEF Contract!TurnsOff
<1>8. CASE ~old.live \/ (q.kind # "program" /\ q.enter # "off")
  <2>1. route'[n] = route[n]
    BY <1>1, <1>5, <1>8 DEF OwnRow
  <2>2. Seats' = Seats
    BY <1>2, <2>1 DEF Seats
  <2> QED
    BY <1>4, <2>2 DEF Contract!Returns
<1> QED
  BY <1>6, <1>7, <1>8

\* Registrations that overlap are registrations one at a time, as far as the terminals
\* are concerned: each moves them in one step that its words allow, or not at all.
THEOREM ContractKept == Spec => KeepsSeats
<1>1. Init => Contract!Init
  BY DEF Init, Contract!Init, Seats, NoRoute
<1>2. ASSUME Typed, Typed', Idle, [Next]_vars
      PROVE  Contract!Next \/ UNCHANGED <<Seats, call>>
  <2>0. call \in [Threads -> Request \cup {None}]
    BY <1>2 DEF Typed, TypeOK
  <2>1. ASSUME NEW t \in Threads, Write(t) PROVE Contract!Next
    <3>1. call[t] \in Request
      BY <1>2, <2>1, WriteRoutes
    <3> QED
      BY <1>2, <2>1, <3>1, WriteSits, WriteKeepsSeat DEF Contract!Next
  <2>2. CASE \A t \in Threads : ~Write(t)
    <3>1. Seats' = Seats
      BY <1>2, <2>2, OnlyWrites DEF Seats
    <3>2. ASSUME NEW t \in Threads, NEW q \in Request, at[t] = "free",
                 call' = [call EXCEPT ![t] = q]
          PROVE  Contract!Begins(t)
      BY <1>2, <2>0, <3>1, <3>2 DEF Idle, Contract!Begins
    <3>3. ASSUME NEW t \in Threads, NEW q \in Calls, Start(t, q) PROVE Contract!Next
      BY <3>2, <3>3 DEF Start, Contract!Next
    <3>4. ASSUME NEW t \in Threads, NEW n \in Nodes, StartRemove(t, n) PROVE Contract!Next
      <4>1. Bare(n) \in Request
        BY DEF Bare, Request, Kinds, Claims
      <4> QED
        BY <3>2, <3>4, <4>1 DEF StartRemove, Contract!Next
    <3>5. ASSUME NEW t \in Threads, GiveUp(t) \/ Remove(t) PROVE Contract!Next
      BY <3>1, <3>5 DEF GiveUp, Remove, Ends, Contract!Next, Contract!Returns, Contract!Ends
    <3>6. CASE UNCHANGED call
      BY <3>1, <3>6
    <3> QED
      BY <1>2, <2>2, <3>3, <3>4, <3>5, <3>6
      DEF Next, Registers, Tick, CheckRemoved, CheckFence, Restore, Purge, vars
  <2> QED
    BY <2>1, <2>2
<1>3. Typed /\ Typed' /\ Idle /\ [Next]_vars => [Contract!Next]_<<Seats, call>>
  BY <1>2
<1> QED
  BY <1>1, <1>3, TypedHolds, IdleHolds, PTL DEF Spec, KeepsSeats, Contract!Spec

\* The contract alone keeps one node at a place.
Seated == \A r, s \in Seats : Place[r.route] = Place[s.route] => r.node = s.node

LEMMA SeatedSits ==
  ASSUME Seated, NEW t \in Threads, Contract!Sits(t)
  PROVE  Seated'
<1> DEFINE q     == call[t]
           there == {s \in Seats : Place[s.route] = Place[q.route] /\ s.node # q.node}
           new   == [node |-> q.node, route |-> q.route, enter |-> Contract!Presses(q)]
<1>1. Seats' = {s \in Seats \ there : s.node # q.node} \cup {new}
  BY DEF Contract!Sits
<1>2. new.node = q.node /\ new.route = q.route
  OBVIOUS
<1>3. \A s \in Seats' : s = new \/ (s \in Seats /\ Place[s.route] # Place[q.route])
  BY <1>1
<1> HIDE DEF q, new
<1> QED
  BY <1>2, <1>3 DEF Seated

\* The contract is enough for one owner at a terminal.
THEOREM ContractSuffices == KeepsSeats => []OneOwner
<1>1. Contract!Init => Seated
  BY DEF Contract!Init, Seated
<1>2. Seated /\ [Contract!Next]_<<Seats, call>> => Seated'
  <2> SUFFICES ASSUME Seated, [Contract!Next]_<<Seats, call>> PROVE Seated'
    OBVIOUS
  <2>1. CASE UNCHANGED Seats
    BY <2>1 DEF Seated
  <2>2. ASSUME NEW t \in Threads, Contract!Sits(t) PROVE Seated'
    BY <2>2, SeatedSits
  <2>3. ASSUME NEW t \in Threads, Contract!Rises(t) PROVE Seated'
    BY <2>3 DEF Contract!Rises, Seated
  <2>4. ASSUME NEW t \in Threads, Contract!TurnsOff(t) PROVE Seated'
    <3> DEFINE Off(s) == IF s.node = call[t].node THEN [s EXCEPT !.enter = FALSE] ELSE s
    <3>1. Seats' = {Off(s) : s \in Seats}
      BY <2>4 DEF Contract!TurnsOff
    <3>2. \A s \in Seats : Off(s).node = s.node /\ Off(s).route = s.route
      BY DEF Seats
    <3> HIDE DEF Off
    <3> QED
      BY <3>1, <3>2 DEF Seated
  <2> QED
    BY <2>1, <2>2, <2>3, <2>4 DEF Contract!Next, Contract!Begins, Contract!Returns
<1>3. Seated => OneOwner
  <2> SUFFICES ASSUME Seated, NEW n \in Nodes, NEW m \in Nodes, NEW p \in Places,
                      Holds(n, p), Holds(m, p)
               PROVE  n = m
    BY DEF OneOwner
  <2>1. SeatOf(n) \in Seats /\ SeatOf(m) \in Seats
    BY DEF Holds, SeatOf, Seats
  <2> QED
    BY <2>1 DEF Seated, SeatOf, Holds
<1> QED
  BY <1>1, <1>2, <1>3, PTL DEF KeepsSeats, Contract!Spec
=============================================================================
