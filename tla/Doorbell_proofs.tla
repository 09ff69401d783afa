-------------------------- MODULE Doorbell_proofs --------------------------
(* Theorems about Doorbell, for any nodes, deliveries, routes and number of *)
(* processes.                                                               *)
EXTENDS Doorbell, TLAPS

USE DoorbellAssumption DEF Ids, Modes

-----------------------------------------------------------------------------
(* Types: a process that rings has a candidate in hand, and a route while   *)
(* it goes by one.                                                          *)

InHand   == {"look", "route", "type", "receipt", "submit", "confirm", "record"}
ByRoute  == {"type", "receipt", "submit", "confirm"}

Held(b) == /\ at[b] \in InHand => ring[b] \in Candidate
           /\ at[b] \in ByRoute => via[b] \in Routes
           /\ at[b] = "confirm" => result[b] \in {"QUEUED", "UNKNOWN"}

Typed == TypeOK /\ \A b \in Bells : Held(b)

LEMMA TypedInit == Init => Typed
<1> SUFFICES ASSUME Init PROVE Typed
  OBVIOUS
<1>1. TypeOK
  BY DEF Init, TypeOK, Places, Results, States, Nothing, Candidate
<1>2. \A b \in Bells : Held(b)
  BY DEF Init, Held, InHand, ByRoute
<1> QED
  BY <1>1, <1>2 DEF Typed

LEMMA WorldTypes == TypeOK /\ World => TypeOK'
<1> SUFFICES ASSUME TypeOK, World PROVE TypeOK'
  OBVIOUS
<1> USE DEF TypeOK, hands
<1>1. ASSUME NEW i \in Ids, Arrive(i) \/ Settle(i) \/ AckLate(i) PROVE TypeOK'
  BY <1>1 DEF World, Arrive, Settle, AckLate
<1>2. ASSUME NEW n \in Nodes, Hush(n) \/ Rouse(n) PROVE TypeOK'
  BY <1>2 DEF World, Hush, Rouse
<1>3. ASSUME NEW n \in Nodes, Reroute(n) PROVE TypeOK'
  <2>1. PICK r \in Routes \cup {NoRoute} : route' = [route EXCEPT ![n] = r]
    BY <1>3 DEF Reroute
  <2>2. route' \in [Nodes -> Routes \cup {NoRoute}]
    BY <2>1
  <2> QED
    BY <1>3, <2>2 DEF World, Reroute
<1> QED
  BY <1>1, <1>2, <1>3 DEF World

\* What the process has in hand, as data.
LEMMA HandTypes ==
  ASSUME NEW b \in Bells, Typed
  PROVE  /\ at[b] \in InHand => ring[b].high \in Ids /\ To(b) \in Nodes
         /\ at[b] \in ByRoute => via[b].thread \in Threads /\ via[b].enter \in BOOLEAN
BY DEF Typed, Held, To, Candidate, Route

\* Setting one entry of a table of tables.
LEMMA TableSet ==
  ASSUME NEW S, NEW T, NEW V, NEW f \in [S -> [T -> V]], NEW s \in S, NEW x \in T, NEW v \in V
  PROVE  [f EXCEPT ![s][x] = v] \in [S -> [T -> V]]
OBVIOUS

LEMMA BellTypes == ASSUME NEW b \in Bells, Typed, Bell(b) PROVE TypeOK'
<1>0. /\ at[b] \in InHand => ring[b].high \in Ids /\ To(b) \in Nodes
      /\ at[b] \in ByRoute => via[b].thread \in Threads /\ via[b].enter \in BOOLEAN
      /\ TypeOK /\ Held(b)
  BY HandTypes DEF Typed
<1> USE <1>0 DEF TypeOK, world, hands, past, InHand, ByRoute
<1>1. ASSUME NEW m \in Modes, Start(b, m) PROVE TypeOK'
  BY <1>1 DEF Start, Places
<1>2. ASSUME NEW n \in Nodes, Warm(b, n) PROVE TypeOK'
  BY <1>2 DEF Warm
<1>3. CASE Stop(b)
  <2>1. noted' \in [Bells -> [Nodes -> 0..Last]]
    BY <1>3 DEF Stop
  <2> QED
    BY <1>3, <2>1 DEF Stop, Drop, Places, Results, Nothing
<1>4. CASE Decide(b)
  <2>1. {c \in Found : Due(b, c)} \in SUBSET Candidate
    BY DEF Found
  <2> QED
    BY <1>4, <2>1 DEF Decide, Places
<1>5. ASSUME NEW c \in Candidate, Take(b, c) PROVE TypeOK'
  BY <1>5 DEF Take, Ends, Goes, Places, Results
<1>6. CASE Look(b)
  BY <1>6 DEF Look, Ends, Goes, Places, Results
<1>7. CASE FindRoute(b)
  <2>1. via' \in [Bells -> Routes \cup {NoRoute}]
    BY <1>7 DEF FindRoute
  <2>2. at' \in [Bells -> Places] /\ result' \in [Bells -> Results]
    BY <1>7 DEF FindRoute, Ends, Goes, Places, Results
  <2> QED
    BY <1>7, <2>1, <2>2 DEF FindRoute
<1>8. CASE LookFails(b)
  BY <1>8 DEF LookFails, Ends, Places, Results
<1>9. CASE Type(b)
  BY <1>9 DEF Type, Tell, Unread, Ends, Places, Results
<1>10. CASE TypeFails(b)
  BY <1>10 DEF TypeFails, Tell, Unread, Ends, Places, Results
<1>11. CASE Reserve(b)
  <2>0. ring[b].high \in Ids /\ via[b].thread \in Threads
    BY <1>11 DEF Reserve
  <2>1. receipts' \in [Threads -> [Ids -> States]]
    <3>1. [receipts EXCEPT ![via[b].thread][ring[b].high] = "PENDING"]
            \in [Threads -> [Ids -> States]]
      BY <2>0, TableSet DEF States
    <3> QED
      BY <1>11, <3>1 DEF Reserve
  <2>3. receipts[via[b].thread][ring[b].high] \in States
    BY <2>0
  <2>2. at' \in [Bells -> Places] /\ result' \in [Bells -> Results]
    <3>1. CASE receipts[via[b].thread][ring[b].high] = "none"
      BY <1>11, <3>1 DEF Reserve, Fresh, Goes, Places
    <3>2. CASE receipts[via[b].thread][ring[b].high] # "none"
      <4>1. Receipted(receipts[via[b].thread][ring[b].high]) \in Results
        BY <2>3, <3>2 DEF Receipted, Results, States
      <4> QED
        BY <1>11, <3>2, <4>1 DEF Reserve, Fresh, Ends, Places
    <3> QED
      BY <3>1, <3>2
  <2> QED
    BY <1>11, <2>1, <2>2 DEF Reserve
<1>12. CASE Submit(b)
  <2>0. ring[b].high \in Ids /\ via[b].thread \in Threads
    BY <1>12 DEF Submit
  <2>1. tries' \in [Threads -> [Ids -> Nat]]
    <3>0. tries[via[b].thread] \in [Ids -> Nat]
      BY <2>0
    <3>4. tries[via[b].thread][ring[b].high] \in Nat
      BY <2>0, <3>0
    <3>1. tries[via[b].thread][ring[b].high] + 1 \in Nat
      <4>1. \A k \in Nat : k + 1 \in Nat
        OBVIOUS
      <4> QED
        BY <3>4, <4>1, Zenon
    <3>2. [tries EXCEPT ![via[b].thread][ring[b].high] = tries[via[b].thread][ring[b].high] + 1]
            \in [Threads -> [Ids -> Nat]]
      BY <2>0, <3>1, TableSet
    <3>3. tries' = [tries EXCEPT ![via[b].thread][ring[b].high] =
                                   tries[via[b].thread][ring[b].high] + 1]
      BY <1>12, Zenon DEF Submit
    <3> QED
      BY <3>2, <3>3
  <2> QED
    BY <1>12, <2>1 DEF Submit, Tell, Unread, Places, Results
<1>13. CASE Confirm(b)
  <2>0. ring[b].high \in Ids /\ via[b].thread \in Threads /\ result[b] \in States
    BY <1>13 DEF Confirm, Held, States
  <2>1. receipts' \in [Threads -> [Ids -> States]]
    BY <1>13, <2>0 DEF Confirm
  <2> QED
    BY <1>13, <2>1 DEF Confirm, Goes, Places
<1>14. CASE ConfirmFails(b)
  BY <1>14 DEF ConfirmFails, Ends, Places, Results
<1>15. CASE Record(b)
  <2>0. ring[b].high \in 0..Last /\ To(b) \in Nodes /\ mode[b] \in Modes
    BY <1>15 DEF Record
  <2>3. Higher(mark[mode[b]][To(b)], ring[b].high) \in 0..Last
    BY <2>0 DEF Higher
  <2>4. mark' \in [Modes -> [Nodes -> 0..Last]]
    <3>1. [mark EXCEPT ![mode[b]][To(b)] = Higher(mark[mode[b]][To(b)], ring[b].high)]
            \in [Modes -> [Nodes -> 0..Last]]
      BY <2>0, <2>3, TableSet
    <3> QED
      BY <1>15, <3>1 DEF Record
  <2>1. noted' \in [Bells -> [Nodes -> 0..Last]]
    <3>1. [noted EXCEPT ![b][To(b)] = ring[b].high] \in [Bells -> [Nodes -> 0..Last]]
      BY <2>0, TableSet
    <3> QED
      BY <1>15, <3>1 DEF Record
  <2>2. cool' \in [Bells -> SUBSET Nodes]
    BY <1>15 DEF Record, Cool
  <2> QED
    BY <1>15, <2>1, <2>2, <2>4 DEF Record, Places, Results, Nothing
<1>16. CASE RecordFails(b)
  <2>1. cool' \in [Bells -> SUBSET Nodes]
    BY <1>16 DEF RecordFails, Cool
  <2> QED
    BY <1>16, <2>1 DEF RecordFails, Drop, Places, Results, Nothing
<1> QED
  BY <1>1, <1>2, <1>3, <1>4, <1>5, <1>6, <1>7, <1>8, <1>9, <1>10, <1>11, <1>12, <1>13,
     <1>14, <1>15, <1>16 DEF Bell, Works, Fails

LEMMA TableGet ==
  ASSUME NEW S, NEW T, NEW V, NEW f \in [S -> [T -> V]], NEW s \in S, NEW x \in T, NEW v,
         NEW u \in S, NEW y \in T
  PROVE  [f EXCEPT ![s][x] = v][u][y] = IF u = s /\ y = x THEN v ELSE f[u][y]
OBVIOUS

\* A process changes nothing that belongs to another one.
Same(q) == /\ at'[q] = at[q] /\ mode'[q] = mode[q] /\ todo'[q] = todo[q]
           /\ ring'[q] = ring[q] /\ via'[q] = via[q] /\ result'[q] = result[q]
           /\ noted'[q] = noted[q]

LEMMA Others ==
  ASSUME NEW b \in Bells, TypeOK, Bell(b), NEW q \in Bells, q # b
  PROVE  Same(q)
<1> USE DEF TypeOK, world, hands, past, Same
<1>1. ASSUME NEW m \in Modes, Start(b, m) PROVE Same(q)
  BY <1>1 DEF Start
<1>2. ASSUME NEW n \in Nodes, Warm(b, n) PROVE Same(q)
  BY <1>2 DEF Warm
<1>3. CASE Stop(b)
  BY <1>3 DEF Stop, Drop
<1>4. CASE Decide(b)
  BY <1>4 DEF Decide
<1>5. ASSUME NEW c \in Candidate, Take(b, c) PROVE Same(q)
  BY <1>5 DEF Take, Ends, Goes
<1>6. CASE Look(b)
  BY <1>6 DEF Look, Ends, Goes
<1>7. CASE FindRoute(b)
  BY <1>7 DEF FindRoute, Ends, Goes
<1>8. CASE LookFails(b) \/ ConfirmFails(b)
  BY <1>8 DEF LookFails, ConfirmFails, Ends
<1>9. CASE Type(b) \/ TypeFails(b)
  BY <1>9 DEF Type, TypeFails, Ends
<1>10. CASE Reserve(b) \/ Confirm(b)
  BY <1>10 DEF Reserve, Confirm, Ends, Goes
<1>11. CASE Submit(b)
  BY <1>11 DEF Submit
<1>12. CASE Record(b) \/ RecordFails(b)
  BY <1>12 DEF Record, RecordFails, Drop
<1> QED
  BY <1>1, <1>2, <1>3, <1>4, <1>5, <1>6, <1>7, <1>8, <1>9, <1>10, <1>11, <1>12
     DEF Bell, Works, Fails

LEMMA HandStep == ASSUME NEW b \in Bells, Typed, Bell(b) PROVE Held(b)'
<1>0. TypeOK /\ Held(b)
  BY DEF Typed
<1>9. To(b) \in Nodes \/ at[b] \notin InHand
  BY HandTypes
<1> USE <1>0 DEF TypeOK, Held, InHand, ByRoute, world, hands, past
<1>1. ASSUME NEW m \in Modes, Start(b, m) PROVE Held(b)'
  BY <1>1 DEF Start
<1>2. ASSUME NEW n \in Nodes, Warm(b, n) PROVE Held(b)'
  BY <1>2 DEF Warm
<1>3. CASE Stop(b) \/ Decide(b)
  BY <1>3 DEF Stop, Decide
<1>4. ASSUME NEW c \in Candidate, Take(b, c) PROVE Held(b)'
  BY <1>4 DEF Take, Ends, Goes
<1>5. CASE Look(b)
  BY <1>5 DEF Look, Ends, Goes
<1>6. CASE FindRoute(b)
  <2>1. via'[b] = route[To(b)] /\ route[To(b)] \in Routes \cup {NoRoute}
    BY <1>6, <1>9 DEF FindRoute
  <2>2. ring'[b] \in Candidate
    BY <1>6 DEF FindRoute
  <2>3. at'[b] \in ByRoute => route[To(b)].adapter # "none"
    BY <1>6 DEF FindRoute, Ends, Goes, Terminal
  <2>4. at'[b] # "confirm"
    BY <1>6 DEF FindRoute, Ends, Goes
  <2> QED
    BY <2>1, <2>2, <2>3, <2>4 DEF NoRoute
<1>7. CASE LookFails(b) \/ ConfirmFails(b) \/ Type(b) \/ TypeFails(b)
  BY <1>7 DEF LookFails, ConfirmFails, Type, TypeFails, Ends
<1>8. CASE Reserve(b)
  BY <1>8 DEF Reserve, Ends, Goes
<1>10. CASE Submit(b) \/ Confirm(b)
  BY <1>10 DEF Submit, Confirm, Goes
<1>11. CASE Record(b) \/ RecordFails(b)
  BY <1>11 DEF Record, RecordFails, Drop
<1> QED
  BY <1>1, <1>2, <1>3, <1>4, <1>5, <1>6, <1>7, <1>8, <1>10, <1>11 DEF Bell, Works, Fails

LEMMA TypedStep == Typed /\ [Next]_vars => Typed'
<1> SUFFICES ASSUME Typed, [Next]_vars PROVE Typed'
  OBVIOUS
<1>1. CASE World
  BY <1>1, WorldTypes DEF Typed, World, Held, hands
<1>2. ASSUME NEW b \in Bells, Bell(b) PROVE Typed'
  <2>1. ASSUME NEW q \in Bells PROVE Held(q)'
    <3>1. CASE q = b
      BY <1>2, <3>1, HandStep
    <3>2. CASE q # b
      BY <1>2, <3>2, Others DEF Typed, Held, Same
    <3> QED
      BY <3>1, <3>2
  <2> QED
    BY <1>2, <2>1, BellTypes DEF Typed
<1>3. CASE UNCHANGED vars
  BY <1>3 DEF vars, world, hands, past, Typed, TypeOK, Held
<1> QED
  BY <1>1, <1>2, <1>3 DEF Next

\* Every variable keeps its type, for any number of processes.
THEOREM TypeCorrect == Spec => []TypeOK
<1>1. Typed => TypeOK
  BY DEF Typed
<1> QED
  BY <1>1, TypedInit, TypedStep, PTL DEF Spec

\* And so does what a process has in hand.
THEOREM TypedHolds == Spec => []Typed
BY TypedInit, TypedStep, PTL DEF Spec

-----------------------------------------------------------------------------
(* A receipt is written before its one submission.                         *)

Submits(b, t, i) == at[b] = "submit" /\ via[b].thread = t /\ ring[b].high = i

OnceAt(t, i) ==
  /\ receipts[t][i] = "none" => tries[t][i] = 0 /\ \A b \in Bells : ~Submits(b, t, i)
  /\ \A b \in Bells : Submits(b, t, i) => tries[t][i] = 0
  /\ \A b, q \in Bells : Submits(b, t, i) /\ Submits(q, t, i) => b = q
  /\ tries[t][i] <= 1

OnceInv == \A t \in Threads, i \in Ids : OnceAt(t, i)

LEMMA OnceInit == Init => OnceInv
BY DEF Init, OnceInv, OnceAt, Submits

\* A step that submits nothing and reserves nothing.
LEMMA OnceKept ==
  ASSUME OnceInv, UNCHANGED <<receipts, tries>>,
         \A q \in Bells : at'[q] = "submit" =>
            at[q] = "submit" /\ via'[q] = via[q] /\ ring'[q] = ring[q]
  PROVE  OnceInv'
<1> SUFFICES ASSUME NEW t \in Threads, NEW i \in Ids PROVE OnceAt(t, i)'
  BY DEF OnceInv
<1>1. OnceAt(t, i)
  BY DEF OnceInv
<1>2. \A q \in Bells : Submits(q, t, i)' => Submits(q, t, i)
  BY DEF Submits
<1> QED
  BY <1>1, <1>2 DEF OnceAt

LEMMA OnceBell == ASSUME NEW b \in Bells, Typed, OnceInv, Bell(b) PROVE OnceInv'
<1>0. \A q \in Bells : q # b => Same(q)
  BY Others DEF Typed
<1>1. /\ at[b] \in InHand => ring[b].high \in Ids
      /\ at[b] \in ByRoute => via[b].thread \in Threads
      /\ TypeOK
  BY HandTypes DEF Typed
<1>2. CASE Reserve(b)
  <2> DEFINE t == via[b].thread
             i == ring[b].high
  <2>1. t \in Threads /\ i \in Ids
    BY <1>1, <1>2 DEF Reserve, InHand, ByRoute
  <2>2. CASE receipts[t][i] # "none"
    <3>1. UNCHANGED <<receipts, tries>> /\ at'[b] # "submit"
      BY <1>2, <1>1, <2>2 DEF Reserve, Fresh, Ends, TypeOK, past
    <3> QED
      BY <3>1, <1>0, OnceKept DEF Same
  <2>3. CASE receipts[t][i] = "none"
    <3>1. /\ receipts' = [receipts EXCEPT ![t][i] = "PENDING"]
          /\ via' = via /\ ring' = ring /\ tries' = tries
      BY <1>2, <2>3 DEF Reserve, Fresh, past
    <3>2. SUFFICES ASSUME NEW u \in Threads, NEW j \in Ids PROVE OnceAt(u, j)'
      BY DEF OnceInv
    <3>3. OnceAt(u, j) /\ OnceAt(t, i)
      BY <2>1 DEF OnceInv
    <3>4. CASE u = t /\ j = i
      <4>1. receipts'[u][j] # "none"
        BY <3>1, <3>4, <2>1, <1>1 DEF TypeOK
      <4>2. \A q \in Bells : ~Submits(q, u, j)
        BY <3>3, <3>4, <2>3 DEF OnceAt
      <4>3. \A q \in Bells : q # b => ~Submits(q, u, j)'
        BY <4>2, <1>0 DEF Submits, Same
      <4> QED
        BY <4>1, <4>3, <3>1, <3>3, <3>4, <2>3 DEF OnceAt
    <3>5. CASE ~(u = t /\ j = i)
      <4>1. receipts'[u][j] = receipts[u][j]
        BY <3>1, <3>5, <2>1, <1>1 DEF TypeOK
      <4>2. ~Submits(b, u, j)'
        BY <3>1, <3>5 DEF Submits
      <4>3. \A q \in Bells : Submits(q, u, j)' => Submits(q, u, j)
        BY <4>2, <1>0 DEF Submits, Same
      <4> QED
        BY <4>1, <4>3, <3>1, <3>3 DEF OnceAt
    <3> QED
      BY <3>4, <3>5
  <2> QED
    BY <2>2, <2>3
<1>3. CASE Submit(b)
  <2> DEFINE t == via[b].thread
             i == ring[b].high
  <2>1. t \in Threads /\ i \in Ids /\ at[b] = "submit"
    BY <1>1, <1>3 DEF Submit, InHand, ByRoute
  <2>2. /\ tries' = [tries EXCEPT ![t][i] = tries[t][i] + 1] /\ receipts' = receipts
        /\ at'[b] = "confirm"
    BY <1>1, <1>3 DEF Submit, TypeOK
  <2>3. SUFFICES ASSUME NEW u \in Threads, NEW j \in Ids PROVE OnceAt(u, j)'
    BY DEF OnceInv
  <2>4. OnceAt(u, j) /\ OnceAt(t, i)
    BY <2>1 DEF OnceInv
  <2>5. \A q \in Bells : Submits(q, u, j)' => Submits(q, u, j) /\ q # b
    BY <2>2, <1>0 DEF Submits, Same
  <2>6. CASE u = t /\ j = i
    <3>1. tries[t][i] = 0 /\ receipts[t][i] # "none"
      BY <2>4, <2>1 DEF OnceAt, Submits
    <3>2. tries'[u][j] = 1
      BY <2>2, <2>1, <2>6, <3>1, <1>1 DEF TypeOK
    <3>3. \A q \in Bells : ~Submits(q, u, j)'
      BY <2>5, <2>4, <2>6, <2>1 DEF OnceAt, Submits
    <3> QED
      BY <3>1, <3>2, <3>3, <2>2, <2>6 DEF OnceAt
  <2>7. CASE ~(u = t /\ j = i)
    <3>1. tries'[u][j] = tries[u][j]
      BY <2>2, <2>1, <2>7, <1>1 DEF TypeOK
    <3> QED
      BY <3>1, <2>2, <2>4, <2>5 DEF OnceAt
  <2> QED
    BY <2>6, <2>7
<1>4. CASE Confirm(b)
  <2> DEFINE t == via[b].thread
             i == ring[b].high
  <2>1. t \in Threads /\ i \in Ids /\ result[b] # "none"
    BY <1>1, <1>4 DEF Confirm, InHand, ByRoute, Typed, Held
  <2>2. /\ receipts' = [receipts EXCEPT ![t][i] = result[b]] /\ tries' = tries
        /\ at'[b] = "record"
    BY <1>1, <1>4 DEF Confirm, Goes, TypeOK, past
  <2>3. SUFFICES ASSUME NEW u \in Threads, NEW j \in Ids PROVE OnceAt(u, j)'
    BY DEF OnceInv
  <2>4. OnceAt(u, j)
    BY DEF OnceInv
  <2>5. \A q \in Bells : Submits(q, u, j)' => Submits(q, u, j)
    BY <2>2, <1>0 DEF Submits, Same
  <2>6. receipts'[u][j] = "none" => receipts[u][j] = "none"
    BY <2>1, <2>2, <1>1 DEF TypeOK
  <2> QED
    BY <2>2, <2>4, <2>5, <2>6 DEF OnceAt
<1>5. ASSUME /\ UNCHANGED <<receipts, tries>>
             /\ at'[b] = "submit" => at[b] = "submit" /\ via'[b] = via[b] /\ ring'[b] = ring[b]
      PROVE  OnceInv'
  BY <1>5, <1>0, OnceKept DEF Same
<1> USE DEF past
<1>6. ASSUME NEW m \in Modes, Start(b, m) PROVE OnceInv'
  BY <1>6, <1>1, <1>5 DEF Start, TypeOK
<1>7. ASSUME NEW n \in Nodes, Warm(b, n) PROVE OnceInv'
  BY <1>7, <1>5 DEF Warm, hands
<1>8. CASE Stop(b) \/ Decide(b)
  BY <1>8, <1>1, <1>5 DEF Stop, Decide, TypeOK
<1>9. ASSUME NEW c \in Candidate, Take(b, c) PROVE OnceInv'
  BY <1>9, <1>1, <1>5 DEF Take, Ends, Goes, TypeOK
<1>10. CASE Look(b) \/ FindRoute(b)
  BY <1>10, <1>1, <1>5 DEF Look, FindRoute, Ends, Goes, TypeOK
<1>11. CASE LookFails(b) \/ ConfirmFails(b) \/ Type(b) \/ TypeFails(b)
  BY <1>11, <1>1, <1>5 DEF LookFails, ConfirmFails, Type, TypeFails, Ends, TypeOK
<1>12. CASE Record(b) \/ RecordFails(b)
  BY <1>12, <1>1, <1>5 DEF Record, RecordFails, TypeOK
<1> QED
  BY <1>2, <1>3, <1>4, <1>6, <1>7, <1>8, <1>9, <1>10, <1>11, <1>12 DEF Bell, Works, Fails

LEMMA OnceStep == Typed /\ OnceInv /\ [Next]_vars => OnceInv'
<1> SUFFICES ASSUME Typed, OnceInv, [Next]_vars PROVE OnceInv'
  OBVIOUS
<1>1. CASE World
  BY <1>1, OnceKept DEF World, hands
<1>2. CASE UNCHANGED vars
  BY <1>2, OnceKept DEF vars, hands, past
<1> QED
  BY <1>1, <1>2, OnceBell DEF Next

\* A notification is handed to the queue of a thread once at most, whatever
\* crashes, times out or runs at the same time.
THEOREM QueueOnceHolds == Spec => []QueueOnce
<1>1. OnceInv => QueueOnce
  BY DEF OnceInv, OnceAt, QueueOnce
<1> QED
  BY <1>1, OnceInit, OnceStep, TypedHolds, PTL DEF Spec

-----------------------------------------------------------------------------
(* What a process has noted is never above the watermark of its mode.      *)

Noted(b) ==
  /\ \A n \in Nodes : noted[b][n] <= mark[mode[b]][n]
  /\ at[b] = "off" => \A n \in Nodes : noted[b][n] = 0

\* What it has yet to handle is above what it has noted, one candidate a node.
Above(b) ==
  /\ \A c \in todo[b] : c.high > noted[b][For[c.high]]
  /\ \A c, d \in todo[b] : For[c.high] = For[d.high] => c = d
  /\ at[b] \in InHand => /\ ring[b].high > noted[b][To(b)]
                         /\ \A c \in todo[b] : For[c.high] # To(b)

NotedInv == \A b \in Bells : Noted(b) /\ Above(b)

LEMMA NotedInit == Init => NotedInv
BY DEF Init, NotedInv, Noted, Above, InHand

\* Watermarks only rise.
MarkRises == \A m \in Modes, n \in Nodes : mark[m][n] <= mark'[m][n]

LEMMA MarkRisen == ASSUME Typed, [Next]_vars PROVE MarkRises
<1>0. TypeOK
  BY DEF Typed
<1>1. mark' = mark => MarkRises
  BY <1>0 DEF TypeOK, MarkRises
<1>2. ASSUME NEW b \in Bells, Record(b) PROVE MarkRises
  <2>1. ring[b].high \in 0..Last /\ To(b) \in Nodes /\ mode[b] \in Modes
    BY <1>2, <1>0, HandTypes DEF Record, InHand, TypeOK
  <2>2. \/ mark' = mark
        \/ mark' = [mark EXCEPT ![mode[b]][To(b)] =
                      Higher(mark[mode[b]][To(b)], ring[b].high)]
    BY <1>2 DEF Record
  <2>3. CASE mark' = mark
    BY <1>1, <2>3
  <2>4. CASE mark' = [mark EXCEPT ![mode[b]][To(b)] =
                        Higher(mark[mode[b]][To(b)], ring[b].high)]
    <3> SUFFICES ASSUME NEW m \in Modes, NEW n \in Nodes PROVE mark[m][n] <= mark'[m][n]
      BY DEF MarkRises
    <3>0. mark[m] \in [Nodes -> 0..Last] /\ mark[m][n] \in 0..Last
      BY <1>0 DEF TypeOK
    <3>1. CASE m = mode[b] /\ n = To(b)
      <4>1. mark'[m][n] = Higher(mark[m][n], ring[b].high)
        BY <2>1, <2>4, <3>0, <3>1, <1>0 DEF TypeOK
      <4> QED
        BY <4>1, <2>1, <3>0 DEF Higher
    <3>2. CASE ~(m = mode[b] /\ n = To(b))
      <4>1. mark'[m][n] = mark[m][n]
        BY <2>1, <2>4, <3>0, <3>2, <1>0 DEF TypeOK
      <4> QED
        BY <4>1, <3>0
    <3> QED
      BY <3>1, <3>2
  <2> QED
    BY <2>2, <2>3, <2>4
<1>3. ASSUME NEW b \in Bells, Bell(b) PROVE MarkRises
  BY <1>1, <1>2, <1>3
     DEF Bell, Works, Fails, Start, Warm, Stop, Decide, Take, Look, FindRoute, LookFails, Type,
         TypeFails, Reserve, Submit, Confirm, ConfirmFails, RecordFails
<1> QED
  BY <1>1, <1>3 DEF Next, World, vars

\* A step by which a process gets no new work and notes nothing.
LEMMA NotedKept ==
  ASSUME NEW b \in Bells, Typed, Typed', MarkRises, Noted(b), Above(b),
         mode'[b] = mode[b], noted'[b] = noted[b], todo'[b] = todo[b],
         at'[b] # "off", at'[b] \in InHand => at[b] \in InHand /\ ring'[b] = ring[b]
  PROVE  (Noted(b) /\ Above(b))'
<1>1. \A n \in Nodes : /\ noted[b][n] \in 0..Last /\ mark[mode[b]][n] \in 0..Last
                       /\ mark'[mode[b]][n] \in 0..Last /\ mode[b] \in Modes
  BY DEF Typed, TypeOK
<1>2. Noted(b)'
  BY <1>1 DEF Noted, MarkRises
<1>3. at'[b] \in InHand => To(b)' = To(b)
  BY DEF To
<1>4. Above(b)'
  BY <1>3 DEF Above
<1> QED
  BY <1>2, <1>4

LEMMA NotedBell == ASSUME NEW b \in Bells, Typed, Typed', MarkRises, NotedInv, Bell(b)
                   PROVE (Noted(b) /\ Above(b))'
<1>1. /\ at[b] \in InHand => ring[b].high \in Ids /\ To(b) \in Nodes
      /\ TypeOK /\ TypeOK' /\ Noted(b) /\ Above(b)
  BY HandTypes DEF Typed, NotedInv
<1>2. ASSUME NEW m \in Modes, Start(b, m) PROVE (Noted(b) /\ Above(b))'
  <2>1. mode'[b] = m /\ noted' = noted /\ todo' = todo /\ at'[b] = "idle" /\ at[b] = "off"
        /\ mark' = mark
    BY <1>1, <1>2 DEF Start, TypeOK, hands, past
  <2>2. \A n \in Nodes : mark[m][n] \in 0..Last
    BY <1>1 DEF TypeOK
  <2> QED
    BY <2>1, <2>2, <1>1 DEF Noted, Above, InHand
<1>3. CASE Stop(b)
  <2>1. noted'[b] = [n \in Nodes |-> 0] /\ todo'[b] = {} /\ at'[b] = "off"
    BY <1>1, <1>3 DEF Stop, Drop, TypeOK
  <2>2. \A n \in Nodes : mark'[mode'[b]][n] \in 0..Last
    BY <1>1 DEF TypeOK
  <2> QED
    BY <2>1, <2>2 DEF Noted, Above, InHand
<1>4. CASE Decide(b)
  <2>1. /\ todo'[b] = {c \in Found : Due(b, c)} /\ at'[b] = "next"
        /\ noted' = noted /\ mark' = mark /\ mode' = mode /\ at[b] # "off"
    BY <1>1, <1>4 DEF Decide, TypeOK, past
  <2>2. ASSUME NEW c \in Found, NEW d \in Found, For[c.high] = For[d.high] PROVE c = d
    <3>1. c \in Candidate /\ d \in Candidate
      BY DEF Found
    <3>2. c.high \in Unread(For[d.high]) /\ d.high \in Unread(For[c.high])
      BY <2>2, <3>1 DEF Found, Unread, Candidate
    <3>3. c.high <= d.high /\ d.high <= c.high
      <4>1. /\ \A i \in Unread(For[c.high]) : i <= c.high
            /\ \A i \in Unread(For[d.high]) : i <= d.high
        BY DEF Found
      <4> QED
        BY <4>1, <3>2
    <3>4. c.high = d.high
      BY <3>1, <3>3 DEF Candidate
    <3>5. c.loud = d.loud
      BY <2>2, <3>4 DEF Found
    <3> QED
      BY <3>1, <3>4, <3>5 DEF Candidate
  <2>3. ASSUME NEW c \in todo'[b] PROVE c.high > noted'[b][For[c.high]]
    <3>1. c \in Candidate /\ c.high > mark[mode[b]][For[c.high]]
      BY <2>1, <2>3 DEF Found, Due
    <3>2. /\ For[c.high] \in Nodes /\ c.high \in Ids
          /\ noted[b][For[c.high]] \in 0..Last /\ mark[mode[b]][For[c.high]] \in 0..Last
      <4>1. c.high \in Ids /\ For[c.high] \in Nodes
        BY <3>1 DEF Candidate
      <4>2. noted[b] \in [Nodes -> 0..Last] /\ mark[mode[b]] \in [Nodes -> 0..Last]
        BY <1>1 DEF TypeOK
      <4> QED
        BY <4>1, <4>2
    <3>3. noted[b][For[c.high]] <= mark[mode[b]][For[c.high]]
      BY <3>2, <1>1 DEF Noted
    <3> QED
      BY <3>1, <3>2, <3>3, <2>1
  <2> QED
    BY <2>1, <2>2, <2>3, <1>1 DEF Noted, Above, InHand
<1>5. ASSUME NEW c \in Candidate, Take(b, c) PROVE (Noted(b) /\ Above(b))'
  <2>1. /\ c \in todo[b] /\ ring'[b] = c /\ todo'[b] = todo[b] \ {c} /\ at'[b] # "off"
        /\ noted' = noted /\ mark' = mark /\ mode' = mode /\ at[b] # "off"
    BY <1>1, <1>5 DEF Take, Ends, Goes, TypeOK, past
  <2>2. To(b)' = For[c.high]
    BY <2>1 DEF To
  <2>3. \A d \in todo[b] \ {c} : For[d.high] # For[c.high]
    BY <2>1, <1>1 DEF Above
  <2> QED
    BY <2>1, <2>2, <2>3, <1>1 DEF Noted, Above
<1>6. CASE Record(b)
  <2>1. To(b) \in Nodes /\ ring[b].high \in Ids /\ mode[b] \in Modes /\ at[b] \in InHand
    BY <1>1, <1>6 DEF Record, InHand, TypeOK
  <2>2. todo' = todo /\ mode' = mode /\ at'[b] \in {"idle", "next"}
    BY <1>1, <1>6 DEF Record, TypeOK
  <2>3. CASE result[b] \in Suppressing
    <3>1. /\ noted' = [noted EXCEPT ![b][To(b)] = ring[b].high]
          /\ mark' = [mark EXCEPT ![mode[b]][To(b)] =
                        Higher(mark[mode[b]][To(b)], ring[b].high)]
      BY <1>6, <2>3 DEF Record
    <3>2. ASSUME NEW n \in Nodes PROVE noted'[b][n] <= mark'[mode'[b]][n]
      <4>1. CASE n = To(b)
        <5>1. noted'[b][n] = ring[b].high
          BY <3>1, <4>1, <2>1, <1>1 DEF TypeOK
        <5>2. mark'[mode'[b]][n] = Higher(mark[mode[b]][n], ring[b].high)
          BY <3>1, <4>1, <2>1, <2>2, <1>1 DEF TypeOK
        <5>3. mark[mode[b]][n] \in 0..Last
          BY <2>1, <1>1 DEF TypeOK
        <5> QED
          BY <5>1, <5>2, <5>3, <2>1 DEF Higher
      <4>2. CASE n # To(b)
        <5>1. noted'[b][n] = noted[b][n] /\ mark'[mode'[b]][n] = mark[mode[b]][n]
          BY <3>1, <4>2, <2>1, <2>2, <1>1 DEF TypeOK
        <5> QED
          BY <5>1, <1>1 DEF Noted
      <4> QED
        BY <4>1, <4>2
    <3>3. ASSUME NEW c \in todo[b] PROVE noted'[b][For[c.high]] = noted[b][For[c.high]]
      <4>1. For[c.high] # To(b) /\ For[c.high] \in Nodes
        BY <2>1, <1>1 DEF Above, TypeOK, Candidate
      <4> QED
        BY <3>1, <4>1, <2>1, <1>1 DEF TypeOK
    <3> QED
      BY <3>2, <3>3, <2>2, <1>1 DEF Noted, Above, InHand
  <2>4. CASE result[b] \notin Suppressing
    <3>1. noted' = noted /\ mark' = mark
      BY <1>6, <2>4 DEF Record
    <3> QED
      BY <3>1, <2>2, <2>1, <1>1 DEF Noted, Above, InHand
  <2> QED
    BY <2>3, <2>4
<1>7. CASE RecordFails(b)
  <2>1. /\ todo'[b] = {} /\ at'[b] = "idle" /\ noted' = noted /\ mark' = mark /\ mode' = mode
        /\ at[b] # "off"
    BY <1>1, <1>7 DEF RecordFails, Drop, TypeOK, past
  <2> QED
    BY <2>1, <1>1 DEF Noted, Above, InHand
<1>8. ASSUME /\ mode'[b] = mode[b] /\ noted'[b] = noted[b] /\ todo'[b] = todo[b]
             /\ at'[b] # "off" /\ at[b] \in InHand /\ ring'[b] = ring[b]
      PROVE  (Noted(b) /\ Above(b))'
  BY <1>1, <1>8, NotedKept
<1> USE DEF past, hands, InHand
<1>9. ASSUME NEW n \in Nodes, Warm(b, n) PROVE (Noted(b) /\ Above(b))'
  <2>1. UNCHANGED <<at, mode, noted, todo, ring, mark>>
    BY <1>9 DEF Warm
  <2> QED
    BY <2>1, <1>1 DEF Noted, Above, To
<1>10. CASE Look(b) \/ FindRoute(b)
  BY <1>10, <1>1, <1>8 DEF Look, FindRoute, Ends, Goes, TypeOK
<1>11. CASE LookFails(b) \/ ConfirmFails(b) \/ Type(b) \/ TypeFails(b)
  BY <1>11, <1>1, <1>8 DEF LookFails, ConfirmFails, Type, TypeFails, Ends, TypeOK
<1>12. CASE Reserve(b) \/ Submit(b) \/ Confirm(b)
  BY <1>12, <1>1, <1>8 DEF Reserve, Submit, Confirm, Ends, Goes, TypeOK
<1> QED
  BY <1>2, <1>3, <1>4, <1>5, <1>6, <1>7, <1>9, <1>10, <1>11, <1>12 DEF Bell, Works, Fails

LEMMA NotedStep == Typed /\ NotedInv /\ [Next]_vars => NotedInv'
<1> SUFFICES ASSUME Typed, NotedInv, [Next]_vars, NEW q \in Bells
             PROVE  (Noted(q) /\ Above(q))'
  BY DEF NotedInv
<1>0. MarkRises /\ Typed' /\ Noted(q) /\ Above(q)
  BY MarkRisen, TypedStep DEF NotedInv
<1>1. CASE World \/ UNCHANGED vars
  <2>1. UNCHANGED <<at, mode, noted, todo, ring, mark>>
    BY <1>1 DEF World, vars, hands, past
  <2> QED
    BY <2>1, <1>0 DEF Noted, Above, To
<1>2. ASSUME NEW b \in Bells, Bell(b), q # b PROVE (Noted(q) /\ Above(q))'
  <2>1. Same(q)
    BY <1>2, Others DEF Typed
  <2>2. \A n \in Nodes : /\ noted[q][n] \in 0..Last /\ mark[mode[q]][n] \in 0..Last
                         /\ mark'[mode[q]][n] \in 0..Last /\ mode[q] \in Modes
    BY <1>0 DEF Typed, TypeOK
  <2>3. Noted(q)'
    BY <2>1, <2>2, <1>0 DEF Noted, MarkRises, Same
  <2>4. Above(q)'
    BY <2>1, <1>0 DEF Above, Same, To
  <2> QED
    BY <2>3, <2>4
<1> QED
  BY <1>0, <1>1, <1>2, NotedBell DEF Next

\* A process rings a node only for mail above all it has recorded as rung.
THEOREM RingsOnceHolds == Spec => []RingsOnce
<1>1. NotedInv => RingsOnce
  BY DEF NotedInv, Above, RingsOnce, InHand
<1> QED
  BY <1>1, NotedInit, NotedStep, TypedHolds, PTL DEF Spec

-----------------------------------------------------------------------------
(* What has rung in LIVE covers all unread mail up to its id.              *)

\* The node of i was told of all its unread mail up to i.
Covered(i) ==
  /\ i \in Ids /\ mail[i] # "none"
  /\ \A j \in Ids : j <= i /\ For[j] = For[i] /\ mail[j] = "unread" => j \in told

InOrder == \A i, j \in Ids : j < i /\ mail[i] # "none" => mail[j] # "none"

MarkCovers ==
  \A n \in Nodes : LET i == mark["LIVE"][n] IN i = 0 \/ (For[i] = n /\ Covered(i))

ReceiptCovers == \A t \in Threads, i \in Ids : receipts[t][i] = "QUEUED" => Covered(i)

RingCovers(b) ==
  /\ \A c \in todo[b] : mail[c.high] # "none"
  /\ at[b] \in InHand => mail[ring[b].high] # "none"
  /\ at[b] = "confirm" /\ result[b] = "QUEUED" => Covered(ring[b].high)
  /\ at[b] = "record" /\ result[b] \in {"SUCCESS", "TEXT_ONLY", "QUEUED"}
       => Covered(ring[b].high)
  /\ at[b] = "record" /\ result[b] = "SHADOW_ONLY" => mode[b] = "SHADOW"

CoverInv == InOrder /\ MarkCovers /\ ReceiptCovers /\ \A b \in Bells : RingCovers(b)

LEMMA CoverInit == Init => CoverInv
<1> SUFFICES ASSUME Init PROVE CoverInv
  OBVIOUS
<1>1. InOrder /\ ReceiptCovers
  BY DEF Init, InOrder, ReceiptCovers
<1>2. MarkCovers
  BY DEF Init, MarkCovers
<1>3. \A b \in Bells : RingCovers(b)
  BY DEF Init, RingCovers, InHand
<1> QED
  BY <1>1, <1>2, <1>3 DEF CoverInv

\* Processes leave the mail alone, and nobody forgets what it was told.
LEMMA BellMail == ASSUME NEW b \in Bells, Bell(b) PROVE mail' = mail /\ told \subseteq told'
BY DEF Bell, Works, Fails, Start, Warm, Stop, Decide, Take, Look, FindRoute, LookFails, Type,
       TypeFails, Tell, Reserve, Submit, Confirm, ConfirmFails, Record, RecordFails, world, past

\* Mail does not vanish, and is unread again only for one who has had it.
LEMMA MailStep ==
  ASSUME TypeOK, InOrder, [Next]_vars
  PROVE  /\ told \subseteq told'
         /\ \A i \in Ids : mail[i] # "none" => mail'[i] # "none"
         /\ \A i \in Ids : mail'[i] = "unread" =>
              mail[i] = "unread" \/ i \in told' \/ \A j \in Ids : mail[j] # "none" => j < i
         /\ InOrder'
<1>1. ASSUME NEW i \in Ids, Arrive(i) PROVE
         /\ told' = told /\ mail' = [mail EXCEPT ![i] = "unread"] /\ mail[i] = "none"
         /\ \A j \in Ids : j < i => mail[j] # "none"
  BY <1>1 DEF Arrive
<1>2. ASSUME NEW i \in Ids, Arrive(i), NEW j \in Ids, mail[j] # "none" PROVE j < i
  BY <1>1, <1>2 DEF InOrder
<1>3. CASE \E i \in Ids : Arrive(i)
  <2>1. PICK i \in Ids : Arrive(i)
    BY <1>3
  <2>2. \A j \in Ids : mail'[j] = IF j = i THEN "unread" ELSE mail[j]
    BY <2>1, <1>1 DEF TypeOK
  <2> QED
    BY <2>1, <2>2, <1>1, <1>2 DEF InOrder
<1>4. CASE \E i \in Ids : Settle(i)
  BY <1>4 DEF Settle, TypeOK, InOrder
<1>5. CASE \E i \in Ids : AckLate(i)
  BY <1>5 DEF AckLate, TypeOK, InOrder
<1>6. CASE mail' = mail /\ told \subseteq told'
  BY <1>6 DEF InOrder
<1> QED
  BY <1>3, <1>4, <1>5, <1>6, BellMail DEF Next, World, Hush, Rouse, Reroute, vars, world, past

LEMMA CoveredStays ==
  ASSUME TypeOK, InOrder, [Next]_vars, NEW i, Covered(i)
  PROVE  Covered(i)'
<1>1. i \in Ids /\ mail'[i] # "none" /\ told \subseteq told'
  BY MailStep DEF Covered
<1>2. ASSUME NEW j \in Ids, j <= i, For[j] = For[i], mail'[j] = "unread" PROVE j \in told'
  <2>1. mail[j] = "unread" \/ j \in told' \/ i < j
    BY <1>2, MailStep DEF Covered
  <2>2. CASE mail[j] = "unread"
    BY <2>2, <1>1, <1>2 DEF Covered
  <2>3. CASE i < j
    BY <2>3, <1>1, <1>2
  <2> QED
    BY <2>1, <2>2, <2>3
<1> QED
  BY <1>1, <1>2 DEF Covered

\* A ring that arrives covers what it was for.
LEMMA TellCovers ==
  ASSUME NEW b \in Bells, ring[b].high \in Ids, mail[ring[b].high] # "none", Tell(To(b)),
         mail' = mail
  PROVE  ring'[b] = ring[b] => Covered(ring[b].high)'
<1> SUFFICES ASSUME ring'[b] = ring[b] PROVE Covered(ring[b].high)'
  OBVIOUS
<1>1. told' = told \cup {j \in Ids : mail[j] = "unread" /\ For[j] = For[ring[b].high]}
  BY DEF Tell, To, Unread
<1> QED
  BY <1>1 DEF Covered

LEMMA RingStep ==
  ASSUME NEW b \in Bells, Typed, CoverInv, Bell(b)
  PROVE  RingCovers(b)'
<1>0. /\ at[b] \in InHand => ring[b].high \in Ids
      /\ at[b] \in ByRoute => via[b].thread \in Threads
      /\ TypeOK /\ RingCovers(b) /\ mail' = mail /\ Held(b)
  BY HandTypes, BellMail DEF Typed, CoverInv
<1>1. \A i : Covered(i) => Covered(i)'
  BY <1>0, CoveredStays DEF CoverInv, Next
<1>2. ASSUME NEW m \in Modes, Start(b, m) PROVE RingCovers(b)'
  BY <1>0, <1>2 DEF Start, TypeOK, RingCovers, InHand, hands
<1>3. ASSUME NEW n \in Nodes, Warm(b, n) PROVE RingCovers(b)'
  BY <1>0, <1>1, <1>3 DEF Warm, RingCovers, hands
<1>4. CASE Stop(b) \/ RecordFails(b)
  BY <1>0, <1>4 DEF Stop, RecordFails, Drop, TypeOK, RingCovers, InHand
<1>5. CASE Decide(b)
  <2>1. todo'[b] = {c \in Found : Due(b, c)} /\ at'[b] = "next"
    BY <1>0, <1>5 DEF Decide, TypeOK
  <2> QED
    BY <2>1, <1>0 DEF RingCovers, InHand, Found
<1>6. ASSUME NEW c \in Candidate, Take(b, c) PROVE RingCovers(b)'
  <2>1. c \in todo[b] /\ ring'[b] = c /\ todo'[b] \subseteq todo[b] /\ mode' = mode
    BY <1>0, <1>6 DEF Take, TypeOK
  <2>2. \/ at'[b] = "record" /\ result'[b] = "SHADOW_ONLY" /\ mode[b] = "SHADOW"
        \/ at'[b] = "look"
    BY <1>0, <1>6 DEF Take, Ends, Goes, Muted, TypeOK
  <2> QED
    BY <2>1, <2>2, <1>0 DEF RingCovers, InHand
<1>7. ASSUME /\ todo'[b] = todo[b] /\ ring'[b] = ring[b] /\ at[b] \in InHand
             /\ at'[b] # "confirm"
             /\ at'[b] = "record" =>
                  /\ result'[b] \notin Suppressing \/ Covered(ring[b].high)'
                  /\ result'[b] # "SHADOW_ONLY"
      PROVE  RingCovers(b)'
  BY <1>0, <1>7 DEF RingCovers, Suppressing
<1>8. CASE Look(b) \/ FindRoute(b) \/ LookFails(b) \/ ConfirmFails(b)
  BY <1>0, <1>7, <1>8 DEF Look, FindRoute, LookFails, ConfirmFails, Ends, Goes, TypeOK,
     InHand, Suppressing
<1>9. CASE Type(b) \/ TypeFails(b)
  <2>1. /\ todo' = todo /\ ring' = ring /\ at[b] = "type" /\ at'[b] = "record"
        /\ result'[b] # "SHADOW_ONLY"
        /\ result'[b] \in Suppressing => Tell(To(b))
    BY <1>0, <1>9 DEF Type, TypeFails, Ends, TypeOK, Suppressing
  <2> QED
    BY <2>1, <1>0, <1>7, TellCovers DEF InHand, RingCovers
<1>10. CASE Reserve(b)
  <2>1. ring[b].high \in Ids /\ via[b].thread \in Threads
    BY <1>0, <1>10 DEF Reserve, InHand, ByRoute
  <2>2. receipts[via[b].thread][ring[b].high] \in States
    <3>1. receipts[via[b].thread] \in [Ids -> States]
      BY <2>1, <1>0 DEF TypeOK
    <3> QED
      BY <3>1, <2>1
  <2>3. /\ todo' = todo /\ ring' = ring /\ at[b] = "receipt" /\ at'[b] # "confirm"
        /\ at'[b] = "record" =>
              result'[b] = Receipted(receipts[via[b].thread][ring[b].high])
              /\ receipts[via[b].thread][ring[b].high] # "none"
    BY <1>0, <1>10 DEF Reserve, Fresh, Ends, Goes, TypeOK
  <2>4. receipts[via[b].thread][ring[b].high] = "QUEUED" => Covered(ring[b].high)'
    <3>1. PICK i \in Ids : i = ring[b].high
      BY <2>1
    <3>2. receipts[via[b].thread][ring[b].high] = "QUEUED" => Covered(i)'
      BY <3>1, <2>1, <1>1 DEF CoverInv, ReceiptCovers
    <3>3. ring'[b].high = i
      BY <3>1, <2>3
    <3> QED
      BY <3>2, <3>3 DEF Covered
  <2> QED
    BY <2>2, <2>3, <2>4, <1>7 DEF Receipted, States, Suppressing, InHand
<1>11. CASE Submit(b)
  <2>1. /\ todo' = todo /\ ring' = ring /\ at[b] = "submit" /\ at'[b] = "confirm"
        /\ result'[b] = "QUEUED" => Tell(To(b))
    BY <1>0, <1>11 DEF Submit, TypeOK
  <2> QED
    BY <2>1, <1>0, TellCovers DEF InHand, RingCovers
<1>12. CASE Confirm(b)
  <2>1. /\ todo' = todo /\ ring' = ring /\ at[b] = "confirm" /\ at'[b] = "record"
        /\ result' = result
    BY <1>0, <1>12 DEF Confirm, Goes, TypeOK
  <2> QED
    BY <2>1, <1>0, <1>1 DEF InHand, RingCovers, Held
<1>13. CASE Record(b)
  BY <1>0, <1>13 DEF Record, TypeOK, RingCovers, InHand
<1> QED
  BY <1>2, <1>3, <1>4, <1>5, <1>6, <1>8, <1>9, <1>10, <1>11, <1>12, <1>13
     DEF Bell, Works, Fails

LEMMA CoverStep == Typed /\ CoverInv /\ [Next]_vars => CoverInv'
<1> SUFFICES ASSUME Typed, CoverInv, [Next]_vars PROVE CoverInv'
  OBVIOUS
<1>0. TypeOK /\ Typed' /\ TypeOK' /\ InOrder'
  BY TypedStep, MailStep DEF Typed, CoverInv
<1>1. \A i : Covered(i) => Covered(i)'
  BY <1>0, CoveredStays DEF CoverInv
<1>2. ASSUME mark' = mark PROVE MarkCovers'
  <2> SUFFICES ASSUME NEW n \in Nodes, NEW i, i = mark'["LIVE"][n], i # 0
               PROVE  For[i] = n /\ Covered(i)'
    BY DEF MarkCovers, Covered
  <2> QED
    BY <1>1, <1>2 DEF CoverInv, MarkCovers
<1>3. ASSUME receipts' = receipts PROVE ReceiptCovers'
  BY <1>1, <1>3 DEF CoverInv, ReceiptCovers
<1>4. CASE World \/ UNCHANGED vars
  <2>1. UNCHANGED <<mark, receipts, at, mode, todo, ring, result>>
    BY <1>4 DEF World, vars, hands
  <2>2. ASSUME NEW b \in Bells PROVE RingCovers(b)'
    <3>1. RingCovers(b)
      BY DEF CoverInv
    <3>2. \A c \in todo[b] : c.high \in Ids
      BY <1>0 DEF TypeOK, Candidate
    <3>3. at[b] \in InHand => ring[b].high \in Ids
      BY HandTypes
    <3>4. /\ \A c \in todo[b] : mail'[c.high] # "none"
          /\ at[b] \in InHand => mail'[ring[b].high] # "none"
      BY <3>1, <3>2, <3>3, <1>0, MailStep DEF RingCovers, CoverInv
    <3>5. Covered(ring[b].high) => Covered(ring[b].high)'
      <4>1. PICK i : i = ring[b].high
        OBVIOUS
      <4>2. ring'[b].high = i
        BY <4>1, <2>1
      <4> QED
        BY <4>1, <4>2, <1>1 DEF Covered
    <3> QED
      BY <2>1, <3>1, <3>4, <3>5 DEF RingCovers
  <2> QED
    BY <1>0, <1>2, <1>3, <2>1, <2>2 DEF CoverInv
<1>5. ASSUME NEW b \in Bells, Bell(b) PROVE CoverInv'
  <2>1. ASSUME NEW q \in Bells, q # b PROVE RingCovers(q)'
    <3>1. Same(q) /\ RingCovers(q) /\ mail' = mail
      BY <1>5, <2>1, <1>0, Others, BellMail DEF CoverInv
    <3>2. Covered(ring[q].high) => Covered(ring[q].high)'
      <4>1. PICK i : i = ring[q].high
        OBVIOUS
      <4>2. ring'[q].high = i
        BY <4>1, <3>1 DEF Same
      <4> QED
        BY <4>1, <4>2, <1>1 DEF Covered
    <3> QED
      BY <3>1, <3>2 DEF RingCovers, Same
  <2>2. RingCovers(b)'
    BY <1>5, RingStep
  <2>3. MarkCovers'
    <3>1. CASE Record(b) /\ result[b] \in Suppressing
      <4>1. /\ ring[b].high \in Ids /\ To(b) \in Nodes /\ mode[b] \in Modes
            /\ RingCovers(b) /\ at[b] = "record"
        BY <3>1, <1>0, HandTypes DEF Record, InHand, TypeOK, CoverInv
      <4>2. mark' = [mark EXCEPT ![mode[b]][To(b)] =
                       Higher(mark[mode[b]][To(b)], ring[b].high)]
        BY <3>1 DEF Record
      <4> SUFFICES ASSUME NEW n \in Nodes, NEW i, i = mark'["LIVE"][n], i # 0
                   PROVE  For[i] = n /\ Covered(i)'
        BY DEF MarkCovers, Covered
      <4>3. CASE mode[b] = "LIVE" /\ n = To(b)
        <5>1. i = Higher(mark["LIVE"][n], ring[b].high)
          BY <4>1, <4>2, <4>3, <1>0 DEF TypeOK
        <5>2. Covered(ring[b].high) /\ For[ring[b].high] = n
          BY <3>1, <4>1, <4>3 DEF RingCovers, Suppressing, To
        <5>3. i = mark["LIVE"][n] \/ i = ring[b].high
          BY <5>1 DEF Higher
        <5> QED
          BY <5>2, <5>3, <1>1 DEF CoverInv, MarkCovers
      <4>4. CASE ~(mode[b] = "LIVE" /\ n = To(b))
        <5>1. i = mark["LIVE"][n]
          BY <4>1, <4>2, <4>4, <1>0 DEF TypeOK
        <5> QED
          BY <5>1, <1>1 DEF CoverInv, MarkCovers
      <4> QED
        BY <4>3, <4>4
    <3>2. CASE ~(Record(b) /\ result[b] \in Suppressing)
      <4>1. mark' = mark
        BY <1>5, <3>2
           DEF Bell, Works, Fails, Start, Warm, Stop, Decide, Take, Look, FindRoute, LookFails,
               Type, TypeFails, Reserve, Submit, Confirm, ConfirmFails, Record, RecordFails
      <4> QED
        BY <4>1, <1>2
    <3> QED
      BY <3>1, <3>2
  <2>4. ReceiptCovers'
    <3>1. CASE Reserve(b) \/ Confirm(b)
      <4>1. /\ ring[b].high \in Ids /\ via[b].thread \in Threads /\ RingCovers(b)
        BY <3>1, HandTypes DEF Reserve, Confirm, InHand, ByRoute, CoverInv
      <4>2. \/ receipts' = receipts
            \/ receipts' = [receipts EXCEPT ![via[b].thread][ring[b].high] = "PENDING"]
            \/ /\ receipts' = [receipts EXCEPT ![via[b].thread][ring[b].high] = result[b]]
               /\ at[b] = "confirm"
        BY <3>1 DEF Reserve, Confirm
      <4> SUFFICES ASSUME NEW t \in Threads, NEW i \in Ids, receipts'[t][i] = "QUEUED"
                   PROVE  Covered(i)'
        BY DEF ReceiptCovers
      <4>3. CASE t = via[b].thread /\ i = ring[b].high
        <5>1. receipts[t][i] = "QUEUED" \/ (at[b] = "confirm" /\ result[b] = "QUEUED")
          <6>1. receipts \in [Threads -> [Ids -> States]]
            BY <1>0 DEF TypeOK
          <6> QED
            BY <4>1, <4>2, <4>3, <6>1, TableGet
        <5>2. Covered(i)
          BY <5>1, <4>1, <4>3 DEF CoverInv, ReceiptCovers, RingCovers
        <5> QED
          BY <5>2, <1>1
      <4>4. CASE ~(t = via[b].thread /\ i = ring[b].high)
        <5>1. receipts[t][i] = "QUEUED"
          <6>1. receipts \in [Threads -> [Ids -> States]]
            BY <1>0 DEF TypeOK
          <6> QED
            BY <4>1, <4>2, <4>4, <6>1, TableGet
        <5> QED
          BY <5>1, <1>1 DEF CoverInv, ReceiptCovers
      <4> QED
        BY <4>3, <4>4
    <3>2. CASE ~(Reserve(b) \/ Confirm(b))
      <4>1. receipts' = receipts
        BY <1>5, <3>2
           DEF Bell, Works, Fails, Start, Warm, Stop, Decide, Take, Look, FindRoute, LookFails,
               Type, TypeFails, Submit, ConfirmFails, Record, RecordFails
      <4> QED
        BY <4>1, <1>3
    <3> QED
      BY <3>1, <3>2
  <2> QED
    BY <1>0, <2>1, <2>2, <2>3, <2>4 DEF CoverInv
<1> QED
  BY <1>4, <1>5 DEF Next

\* No unread mail is at or below the watermark of LIVE unless its node was told.
THEOREM NothingBuriedHolds == Spec => []NothingBuried
<1>1. Typed /\ CoverInv => NothingBuried
  <2> SUFFICES ASSUME Typed, CoverInv, NEW i \in Ids, mail[i] = "unread",
                      i <= mark["LIVE"][For[i]]
               PROVE  i \in told
    BY DEF NothingBuried
  <2>1. For[i] \in Nodes
    OBVIOUS
  <2>2. mark["LIVE"][For[i]] # 0
    BY <2>1 DEF Typed, TypeOK
  <2> QED
    BY <2>1, <2>2 DEF CoverInv, MarkCovers, Covered
<1> QED
  BY <1>1, CoverInit, CoverStep, TypedHolds, PTL DEF Spec

-----------------------------------------------------------------------------
(* The processes as one bell.                                              *)

\* The mail as the contract reads it.
LEMMA BellReading ==
  /\ Contract!Ids = Ids
  /\ \A n : Contract!Unread(n) = Unread(n)
  /\ \A n : Contract!Tells(n) = Tell(n)
BY DEF Contract!Ids, Contract!Unread, Unread, Contract!Tells, Tell

\* What the world does to the mail, the contract allows.
LEMMA WorldKeeps ==
  ASSUME World
  PROVE  Contract!Next \/ UNCHANGED <<mail, told, mark["LIVE"], tries>>
<1>1. ASSUME NEW i \in Ids, Arrive(i) \/ Settle(i) \/ AckLate(i) PROVE Contract!Next
  <2>1. Contract!Arrive(i) \/ Contract!Settle(i) \/ Contract!Return(i)
    BY <1>1, BellReading DEF World, Arrive, Settle, AckLate, Contract!Arrive,
       Contract!Settle, Contract!Return
  <2> QED
    BY <2>1, BellReading DEF Contract!Next
<1>2. ASSUME NEW n \in Nodes, Hush(n) \/ Rouse(n) \/ Reroute(n)
      PROVE  UNCHANGED <<mail, told, mark["LIVE"], tries>>
  BY <1>2 DEF World, Hush, Rouse, Reroute
<1> QED
  BY <1>1, <1>2 DEF World

\* A ring that arrives is one of the contract, whoever rings and whatever it records.
LEMMA TypeKeeps ==
  ASSUME NEW b \in Bells, Typed, Type(b) \/ TypeFails(b)
  PROVE  Contract!Next \/ UNCHANGED <<mail, told, mark["LIVE"], tries>>
<1>1. To(b) \in Nodes
  BY HandTypes DEF Type, TypeFails, InHand
<1>2. /\ UNCHANGED <<mail, mark, tries>>
      /\ Tell(To(b)) \/ UNCHANGED told
  BY DEF Type, TypeFails, world
<1>3. CASE Tell(To(b))
  <2>1. Contract!Ring(To(b))
    BY <1>2, <1>3, BellReading DEF Contract!Ring
  <2> QED
    BY <1>1, <2>1 DEF Contract!Next
<1> QED
  BY <1>2, <1>3

\* So is a submission: the receipt is there before it, and no attempt was.
LEMMA SubmitKeeps ==
  ASSUME NEW b \in Bells, Typed, OnceInv, Submit(b)
  PROVE  Contract!Next
<1>1. PICK t \in Threads, i \in Ids : t = via[b].thread /\ i = ring[b].high
  BY HandTypes DEF Submit, InHand, ByRoute
<1>2. tries[t][i] = 0
  BY <1>1 DEF OnceInv, OnceAt, Submits, Submit
<1>3. tries' = [tries EXCEPT ![t][i] = 1]
  <2>1. tries' = [tries EXCEPT ![t][i] = tries[t][i] + 1]
    BY <1>1, Zenon DEF Submit
  <2>2. tries[t][i] + 1 = 1
    BY <1>2
  <2> QED
    BY <2>1, <2>2, Zenon
<1>4. UNCHANGED <<mail, mark>> /\ (Tell(For[i]) \/ UNCHANGED told)
  BY <1>1 DEF Submit, To, world
<1>5. Contract!Submit(t, i)
  BY <1>2, <1>3, <1>4, BellReading DEF Contract!Submit
<1> QED
  BY <1>5, BellReading DEF Contract!Next

\* What is recorded as rung in LIVE has reached its node, so the watermark may rise.
LEMMA RecordKeeps ==
  ASSUME NEW b \in Bells, Typed, CoverInv, Record(b)
  PROVE  Contract!Next \/ UNCHANGED <<mail, told, mark["LIVE"], tries>>
<1>0. UNCHANGED <<mail, told, tries>> /\ at[b] = "record"
  BY DEF Record, world
<1>1. PICK i \in Ids : i = ring[b].high
  BY <1>0, HandTypes DEF InHand
<1>2. /\ TypeOK /\ RingCovers(b) /\ To(b) = For[i] /\ For[i] \in Nodes
      /\ mark["LIVE"] \in [Nodes -> 0..Last] /\ mode[b] \in Modes
  BY <1>1 DEF Typed, TypeOK, CoverInv, To
<1>3. CASE result[b] \in Suppressing /\ mode[b] = "LIVE" /\ mark["LIVE"][For[i]] < i
  <2>1. mark' = [mark EXCEPT !["LIVE"][For[i]] = i]
    <3>1. mark' = [mark EXCEPT !["LIVE"][For[i]] = Higher(mark["LIVE"][For[i]], i)]
      BY <1>1, <1>2, <1>3 DEF Record
    <3>2. Higher(mark["LIVE"][For[i]], i) = i
      BY <1>2, <1>3 DEF Higher
    <3> QED
      BY <3>1, <3>2
  <2>2. mark'["LIVE"] = [mark["LIVE"] EXCEPT ![For[i]] = i]
    BY <2>1, <1>2 DEF TypeOK
  <2>3. mail[i] # "none" /\ \A j \in Unread(For[i]) : j <= i => j \in told
    BY <1>0, <1>1, <1>2, <1>3 DEF RingCovers, Suppressing, Covered, Unread
  <2>4. Contract!Raise(i)
    BY <1>0, <1>3, <2>2, <2>3, BellReading DEF Contract!Raise
  <2> QED
    BY <2>4, BellReading DEF Contract!Next
<1>4. CASE result[b] \in Suppressing /\ mode[b] = "LIVE" /\ ~(mark["LIVE"][For[i]] < i)
  <2>1. Higher(mark["LIVE"][For[i]], i) = mark["LIVE"][For[i]]
    BY <1>2, <1>4 DEF Higher
  <2>2. mark' = [mark EXCEPT !["LIVE"][For[i]] = mark["LIVE"][For[i]]]
    BY <1>1, <1>2, <1>4, <2>1 DEF Record
  <2>3. mark'["LIVE"] = mark["LIVE"]
    BY <2>2, <1>2 DEF TypeOK
  <2> QED
    BY <1>0, <2>3
<1>5. CASE result[b] \in Suppressing /\ mode[b] # "LIVE"
  <2>1. mark'["LIVE"] = mark["LIVE"]
    BY <1>2, <1>5 DEF Record, TypeOK
  <2> QED
    BY <1>0, <2>1
<1>6. CASE result[b] \notin Suppressing
  BY <1>0, <1>6 DEF Record
<1> QED
  BY <1>3, <1>4, <1>5, <1>6

\* No other step of a process is seen.
LEMMA BellHidden ==
  ASSUME NEW b \in Bells, Bell(b),
         ~Type(b), ~TypeFails(b), ~Submit(b), ~Record(b)
  PROVE  UNCHANGED <<mail, told, mark["LIVE"], tries>>
BY DEF Bell, Works, Fails, Start, Warm, Stop, Decide, Take, Look, FindRoute, LookFails,
       Reserve, Confirm, ConfirmFails, RecordFails, world, past

\* However many doorbell processes there are, and wherever they fail and crash, all of
\* them together are one bell: its watermark rises over nothing untold, and it submits
\* each notification once.
THEOREM ContractKept == Spec => KeepsContract
<1>1. Init => Contract!Init
  BY BellReading DEF Init, Contract!Init
<1>2. Typed /\ OnceInv /\ CoverInv /\ [Next]_vars
        => [Contract!Next]_<<mail, told, mark["LIVE"], tries>>
  <2> SUFFICES ASSUME Typed, OnceInv, CoverInv, [Next]_vars
               PROVE  Contract!Next \/ UNCHANGED <<mail, told, mark["LIVE"], tries>>
    OBVIOUS
  <2>1. CASE UNCHANGED vars
    BY <2>1 DEF vars, world, past
  <2> QED
    BY <2>1, WorldKeeps, TypeKeeps, SubmitKeeps, RecordKeeps, BellHidden DEF Next
<1>3. Spec => [](OnceInv /\ CoverInv)
  BY OnceInit, OnceStep, CoverInit, CoverStep, TypedHolds, PTL DEF Spec
<1> QED
  BY <1>1, <1>2, <1>3, TypedHolds, PTL
     DEF Spec, KeepsContract, Contract!Spec, Contract!vars

\* What the contract keeps: each watermark stands at mail of its node, all of it told.
PromiseInv ==
  /\ mail \in [Ids -> {"none", "unread", "done"}]
  /\ mark["LIVE"] \in [Nodes -> 0..Last]
  /\ InOrder
  /\ MarkCovers

LEMMA PromiseMail ==
  ASSUME PromiseInv, NEW i \in Ids,
         Contract!Arrive(i) \/ Contract!Settle(i) \/ Contract!Return(i)
  PROVE  PromiseInv'
<1>0. /\ mail \in [Ids -> {"none", "unread", "done"}] /\ InOrder /\ MarkCovers
      /\ mark["LIVE"] \in [Nodes -> 0..Last]
  BY DEF PromiseInv
<1>1. /\ mark'["LIVE"] = mark["LIVE"]
      /\ \/ /\ mail[i] = "none" /\ mail' = [mail EXCEPT ![i] = "unread"] /\ told' = told
            /\ \A j \in Ids : j < i => mail[j] # "none"
         \/ mail[i] = "unread" /\ mail' = [mail EXCEPT ![i] = "done"] /\ told' = told
         \/ /\ mail[i] = "done" /\ mail' = [mail EXCEPT ![i] = "unread"]
            /\ told' = told \cup {i}
  BY BellReading DEF Contract!Arrive, Contract!Settle, Contract!Return
<1>2. /\ mail' \in [Ids -> {"none", "unread", "done"}]
      /\ \A j \in Ids : mail'[j] = IF j = i THEN mail'[i] ELSE mail[j]
      /\ mail'[i] \in {"unread", "done"} /\ told \subseteq told'
  BY <1>0, <1>1
<1>3. mail[i] = "none" => \A j \in Ids : mail[j] # "none" => j < i
  BY <1>0, <1>1 DEF InOrder
<1>4. InOrder'
  <2> SUFFICES ASSUME NEW k \in Ids, NEW j \in Ids, j < k, mail'[k] # "none"
               PROVE  mail'[j] # "none"
    BY DEF InOrder
  <2>1. CASE j = i
    BY <2>1, <1>2
  <2>2. CASE j # i /\ k = i
    BY <2>2, <1>0, <1>1, <1>2 DEF InOrder
  <2>3. CASE j # i /\ k # i
    BY <2>3, <1>0, <1>2 DEF InOrder
  <2> QED
    BY <2>1, <2>2, <2>3
<1>5. ASSUME NEW k, Covered(k) PROVE Covered(k)'
  <2>1. k \in Ids /\ mail'[k] # "none"
    BY <1>2, <1>5 DEF Covered
  <2>2. ASSUME NEW j \in Ids, j <= k, For[j] = For[k], mail'[j] = "unread" PROVE j \in told'
    <3>1. CASE mail[j] = "unread"
      BY <3>1, <2>2, <1>2, <1>5 DEF Covered
    <3>2. CASE mail[j] # "unread"
      <4>1. j = i /\ (mail[i] = "none" \/ i \in told')
        BY <3>2, <2>2, <1>1, <1>2
      <4>2. mail[i] = "none" => k < i
        BY <1>3, <1>5 DEF Covered
      <4> QED
        BY <4>1, <4>2, <2>1, <2>2
    <3> QED
      BY <3>1, <3>2
  <2> QED
    BY <2>1, <2>2 DEF Covered
<1>6. MarkCovers'
  <2> SUFFICES ASSUME NEW n \in Nodes, NEW k, k = mark'["LIVE"][n], k # 0
               PROVE  For[k] = n /\ Covered(k)'
    BY DEF MarkCovers, Covered
  <2> QED
    BY <1>0, <1>1, <1>5 DEF MarkCovers
<1> QED
  BY <1>0, <1>1, <1>2, <1>4, <1>6 DEF PromiseInv

LEMMA PromiseRing ==
  ASSUME PromiseInv, NEW i \in Ids, UNCHANGED mail, told \subseteq told',
         \/ mark'["LIVE"] = mark["LIVE"]
         \/ Contract!Raise(i)
  PROVE  PromiseInv'
<1>0. /\ mail' = mail /\ MarkCovers /\ InOrder' /\ told \subseteq told'
      /\ mark["LIVE"] \in [Nodes -> 0..Last] /\ For[i] \in Nodes
  BY DEF PromiseInv, InOrder
<1>1. \A k : Covered(k) => Covered(k)'
  BY <1>0 DEF Covered
<1>2. CASE mark'["LIVE"] = mark["LIVE"]
  <2>1. MarkCovers'
    <3> SUFFICES ASSUME NEW n \in Nodes, NEW k, k = mark'["LIVE"][n], k # 0
                 PROVE  For[k] = n /\ Covered(k)'
      BY DEF MarkCovers, Covered
    <3> QED
      BY <1>0, <1>1, <1>2 DEF MarkCovers
  <2> QED
    BY <1>0, <1>2, <2>1 DEF PromiseInv
<1>3. CASE Contract!Raise(i)
  <2>1. /\ mark'["LIVE"] = [mark["LIVE"] EXCEPT ![For[i]] = i]
        /\ mail[i] # "none" /\ \A j \in Unread(For[i]) : j <= i => j \in told
    BY <1>3, BellReading DEF Contract!Raise
  <2>2. Covered(i)
    BY <2>1 DEF Covered, Unread
  <2>3. MarkCovers'
    <3> SUFFICES ASSUME NEW n \in Nodes, NEW k, k = mark'["LIVE"][n], k # 0
                 PROVE  For[k] = n /\ Covered(k)'
      BY DEF MarkCovers, Covered
    <3> QED
      BY <1>0, <1>1, <2>1, <2>2 DEF MarkCovers
  <2> QED
    BY <1>0, <2>1, <2>3 DEF PromiseInv
<1> QED
  BY <1>2, <1>3

\* The contract is enough: whoever keeps it buries no mail, and the steps of no process
\* have to be looked at.
THEOREM ContractSuffices == KeepsContract => []NothingBuried
<1>1. Contract!Init => PromiseInv
  BY BellReading DEF Contract!Init, PromiseInv, InOrder, MarkCovers
<1>2. ASSUME PromiseInv, Contract!Next PROVE PromiseInv'
  <2>1. ASSUME NEW n \in Nodes, Contract!Ring(n) PROVE PromiseInv'
    <3>1. CASE Ids = {}
      BY <2>1, <3>1, <1>2 DEF Contract!Ring, PromiseInv, InOrder, MarkCovers, Covered
    <3> QED
      BY <2>1, <3>1, <1>2, PromiseRing DEF Contract!Ring, Contract!Tells
  <2>2. ASSUME NEW t \in Threads, NEW i \in Ids, Contract!Submit(t, i) PROVE PromiseInv'
    BY <2>2, <1>2, PromiseRing DEF Contract!Submit, Contract!Tells
  <2>3. ASSUME NEW i \in Ids, Contract!Raise(i) PROVE PromiseInv'
    BY <2>3, <1>2, PromiseRing DEF Contract!Raise
  <2> QED
    BY <1>2, <2>1, <2>2, <2>3, PromiseMail, BellReading DEF Contract!Next
<1>3. PromiseInv /\ [Contract!Next]_(Contract!vars) => PromiseInv'
  <2>1. UNCHANGED Contract!vars /\ PromiseInv => PromiseInv'
    <3> SUFFICES ASSUME mail' = mail, told' = told, mark'["LIVE"] = mark["LIVE"], PromiseInv
                 PROVE  PromiseInv'
      BY DEF Contract!vars
    <3> QED
      BY DEF PromiseInv, InOrder, MarkCovers, Covered
  <2> QED
    BY <1>2, <2>1
<1>4. PromiseInv => NothingBuried
  <2> SUFFICES ASSUME PromiseInv, NEW i \in Ids, mail[i] = "unread",
                      i <= mark["LIVE"][For[i]]
               PROVE  i \in told
    BY DEF NothingBuried
  <2>1. For[i] \in Nodes /\ mark["LIVE"][For[i]] # 0
    BY DEF PromiseInv
  <2> QED
    BY <2>1 DEF PromiseInv, MarkCovers, Covered
<1> QED
  BY <1>1, <1>3, <1>4, PTL DEF KeepsContract, Contract!Spec
=============================================================================
