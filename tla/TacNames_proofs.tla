-------------------------- MODULE TacNames_proofs --------------------------
(* Theorems about TacNames, for any names, interpreters and threads. *)
EXTENDS TacNames, TLAPS

USE TacNamesAssumption

-----------------------------------------------------------------------------
(* Types: a thread with a request has an id and a name in hand; one that   *)
(* renames has a UUID, and before the UPDATE it has read the old name.     *)

Busy(t) == /\ at[t] # "free" => tac[t] \in Ids /\ want[t] \in Names
           /\ at[t] = "row" \/ saw[t] # None => tac[t] \in Uuids
           /\ at[t] = "update" => saw[t] \in Names
           /\ at[t] \in {"free", "row", "insert"} => saw[t] = None

Typed == TypeOK /\ \A t \in Threads : Busy(t)

LEMMA TypedInit == Init => Typed
BY DEF Init, Typed, TypeOK, Busy, Renamed, Spots

\* The hands of the threads after one of them has ended.
LEMMA EndTypes ==
  ASSUME Typed, NEW t \in Threads, Ends(t)
  PROVE  /\ at' \in [Threads -> Spots] /\ tac' \in [Threads -> Ids \cup {None}]
         /\ want' \in [Threads -> Names \cup {None}]
         /\ saw' \in [Threads -> Names \cup {None}]
         /\ \A r \in Threads : Busy(r)'
BY DEF Ends, Goes, Typed, TypeOK, Busy, Spots

\* Where a write leaves the rows.
LEMMA NamedTypes ==
  ASSUME Typed, NEW t \in Threads, Named(t), at[t] # "free"
  PROVE  /\ tac[t] \in Uuids /\ want[t] \in Names
         /\ name' \in [Uuids -> Names \cup {None}]
         /\ key' \in [Uuids -> Keys \cup {None}]
         /\ had' \in Renamed
<1>1. tac[t] \in Uuids /\ want[t] \in Names /\ fold[want[t]] \in Keys
  BY DEF Typed, TypeOK, Busy, Named
<1>2. /\ name' \in [Uuids -> Names \cup {None}]
      /\ key' \in [Uuids -> Keys \cup {None}]
  BY <1>1 DEF Named, Folded, Typed, TypeOK
<1>3. had' \in Renamed
  BY <1>1 DEF Named, Typed, TypeOK, Renamed
<1> QED
  BY <1>1, <1>2, <1>3

\* Where a conversion leaves them.
LEMMA ConvertTypes ==
  ASSUME Typed, NEW c \in [strings -> Names], NEW was \in [Uuids -> strings \cup {None}],
         Convert(c, was)
  PROVE  Typed'
<1>1. None \notin strings /\ \A i \in Uuids : was[i] # None => c[was[i]] \in Names /\ fold[c[was[i]]] \in Keys
  BY DEF Typed, TypeOK
<1>2. /\ name' \in [Uuids -> Names \cup {None}]
      /\ key' \in [Uuids -> Keys \cup {None}]
  BY <1>1 DEF Convert, Folded, Typed, TypeOK
<1>3. legacy' \in [Uuids -> Names \cup {None}]
  BY DEF Convert, Typed, TypeOK
<1>4. had' \in Renamed
  BY <1>1 DEF Convert, Typed, TypeOK, Renamed
<1>5. refs' \in SUBSET Ids
  BY DEF Convert, Rewritten, Ids
<1>6. /\ columns' \in BOOLEAN /\ strings' \in SUBSET Names
      /\ UNCHANGED <<olds, news, nodes, fold, at, tac, want, saw>>
  BY DEF Convert, changes, hands
<1> QED
  BY <1>2, <1>3, <1>4, <1>5, <1>6 DEF Typed, TypeOK, Busy

LEMMA TypedStep == Typed /\ [Next]_vars => Typed'
<1> SUFFICES ASSUME Typed, [Next]_vars PROVE Typed'
  OBVIOUS
<1> USE DEF Typed, TypeOK, Busy
<1>1. ASSUME NEW t \in Threads, NEW n \in Names, StartCreate(t, n) PROVE Typed'
  BY <1>1 DEF StartCreate, Asks, Goes, rows, changes, ids, Spots, Ids
<1>2. ASSUME NEW t \in Threads, NEW n \in Names, StartString(t, n) PROVE Typed'
  BY <1>2 DEF StartString, Asks, Goes, rows, changes, ids, Spots, Ids
<1>3. ASSUME NEW t \in Threads, NEW i \in Uuids, NEW n \in Names, StartRename(t, i, n) PROVE Typed'
  BY <1>3 DEF StartRename, Asks, Goes, rows, changes, ids, Spots, Ids
<1>4. ASSUME NEW t \in Threads, ReadRow(t) PROVE Typed'
  <2>1. /\ at[t] = "row" /\ tac[t] \in Uuids /\ want[t] \in Names
        /\ name[tac[t]] \in Names
    BY <1>4 DEF ReadRow, Exists
  <2> QED
    BY <1>4, <2>1 DEF ReadRow, Goes, rows, changes, ids, Spots
<1>5. ASSUME NEW t \in Threads, CheckNode(t) PROVE Typed'
  BY <1>5 DEF CheckNode, Goes, rows, changes, ids, hands, Spots
<1>6. ASSUME NEW t \in Threads, CheckTaken(t) PROVE Typed'
  BY <1>6 DEF CheckTaken, Goes, rows, changes, ids, hands, Spots
<1>7. ASSUME NEW t \in Threads, Insert(t) PROVE Typed'
  BY <1>7, NamedTypes, EndTypes DEF Insert, Named, changes, ids
<1>8. ASSUME NEW t \in Threads, InsertString(t) PROVE Typed'
  BY <1>8, EndTypes DEF InsertString, rows, changes
<1>9. ASSUME NEW t \in Threads, Update(t) PROVE Typed'
  <2>1. /\ at[t] = "update" /\ Named(t) /\ tac[t] \in Uuids
        /\ saw[t] \in Names /\ want[t] \in Names
    BY <1>9 DEF Update
  <2>2. CASE NameChanged(t)
    <3>1. /\ olds' = [olds EXCEPT ![tac[t]] = @ \cup {saw[t]}]
          /\ news' = [news EXCEPT ![tac[t]] = @ \cup {want[t]}]
      BY <1>9, <2>2 DEF Update
    <3>2. olds' \in Renamed /\ news' \in Renamed
      BY <2>1, <3>1 DEF Renamed
    <3> QED
      BY <2>1, <3>2, NamedTypes, EndTypes DEF Named, ids
  <2>3. CASE ~NameChanged(t)
    BY <1>9, <2>1, <2>3, NamedTypes, EndTypes DEF Update, Named, changes, ids
  <2> QED
    BY <2>2, <2>3
<1>10. ASSUME NEW t \in Threads, GiveUp(t) PROVE Typed'
  BY <1>10, EndTypes DEF GiveUp, rows, changes, ids
<1>11. ASSUME NEW n \in Nodes, Register(n) PROVE Typed'
  BY <1>11 DEF Register, rows, changes, ids, hands
<1>12. ASSUME NEW i \in Ids, Refer(i) PROVE Typed'
  BY <1>12 DEF Refer, rows, changes, hands
<1>13. ASSUME NEW n \in Names, CreateRolledBack(n) PROVE Typed'
  BY <1>13 DEF CreateRolledBack, rows, changes, hands
<1>14. CASE Upgrade
  BY <1>14 DEF Upgrade, rows, changes, ids, Spots
<1>15. CASE Migrate
  BY <1>15, ConvertTypes DEF Migrate
<1>16. CASE UNCHANGED vars
  BY <1>16 DEF vars, rows, changes, ids, hands
<1> QED
  BY <1>1, <1>2, <1>3, <1>4, <1>5, <1>6, <1>7, <1>8, <1>9, <1>10, <1>11, <1>12, <1>13, <1>14,
     <1>15, <1>16 DEF Next, Request

\* Every variable keeps its type, for any number of threads.
THEOREM TypeCorrect == Spec => []TypeOK
<1>1. Typed => TypeOK
  BY DEF Typed
<1> QED
  BY <1>1, TypedInit, TypedStep, PTL DEF Spec

-----------------------------------------------------------------------------
(* Which steps touch the rows.                                             *)

Writes(t) == at[t] \in {"insert", "update"} /\ Named(t)

LEMMA OnlyWrites ==
  ASSUME [Next]_vars, ~Migrate, \A t \in Threads : ~Insert(t) /\ ~Update(t)
  PROVE  UNCHANGED <<rows, columns, legacy>>
BY DEF Next, Request, StartCreate, StartString, StartRename, Asks, ReadRow, CheckNode, CheckTaken,
   InsertString, GiveUp, Register, Refer, CreateRolledBack, Upgrade, vars, rows, ids

\* The name and the key of one tac change, and no other's.
LEMMA NamedRows ==
  ASSUME Typed, NEW t \in Threads, Writes(t)
  PROVE  /\ tac[t] \in Uuids /\ want[t] \in Names
         /\ name'[tac[t]] = want[t] /\ key'[tac[t]] = fold[want[t]]
         /\ had'[tac[t]] = had[tac[t]] \cup {want[t]}
         /\ \A i \in Uuids \ {tac[t]} :
              name'[i] = name[i] /\ key'[i] = key[i] /\ had'[i] = had[i]
         /\ \A j \in Uuids : Exists(j) /\ key[j] = fold[want[t]] => j = tac[t]
BY DEF Writes, Named, Unique, Holder, Folded, Exists, Typed, TypeOK, Busy, Renamed

\* A conversion adds rows, and leaves those that there are.
LEMMA ConvertRows ==
  ASSUME Typed, NEW c \in [strings -> Names], NEW was \in [Uuids -> strings \cup {None}],
         Convert(c, was), NEW i \in Uuids
  PROVE  \/ /\ was[i] = None
            /\ name'[i] = name[i] /\ key'[i] = key[i] /\ legacy'[i] = legacy[i] /\ had'[i] = had[i]
         \/ /\ was[i] \in strings /\ ~Exists(i) /\ was[i] \in Names /\ was[i] # None
            /\ c[was[i]] \in Names /\ name'[i] = c[was[i]] /\ key'[i] = fold[c[was[i]]]
            /\ legacy'[i] = was[i] /\ had'[i] = {c[was[i]]}
BY DEF Convert, Folded, Typed, TypeOK

LEMMA UniqueStep == Typed /\ UniqueKeys /\ [Next]_vars => UniqueKeys'
<1> SUFFICES ASSUME Typed, UniqueKeys, [Next]_vars,
                    NEW i \in Uuids, NEW j \in Uuids,
                    name'[i] # None, name'[j] # None, key'[i] = key'[j]
             PROVE  i = j
  BY DEF UniqueKeys, Exists
<1>1. CASE ~Migrate /\ \A t \in Threads : ~Insert(t) /\ ~Update(t)
  BY <1>1, OnlyWrites DEF rows, UniqueKeys, Exists
<1>2. ASSUME NEW t \in Threads, Insert(t) \/ Update(t) PROVE i = j
  <2>1. Writes(t)
    BY <1>2 DEF Insert, Update, Writes
  <2> QED
    BY <2>1, NamedRows DEF UniqueKeys, Exists
<1>3. CASE Migrate
  <2> PICK c \in [strings -> Names], was \in [Uuids -> strings \cup {None}] : Convert(c, was)
    BY <1>3 DEF Migrate
  <2>1. /\ \A s \in strings : Holder(c[s]) = {}
        /\ \A r, s \in strings : fold[c[r]] = fold[c[s]] => r = s
        /\ was[i] = was[j] /\ was[i] # None => i = j
    BY DEF Convert, Plan, Folded
  <2>2. ASSUME NEW k \in Uuids, NEW s \in strings, Exists(k) PROVE key[k] # fold[c[s]]
    BY <2>1, <2>2 DEF Holder, Folded
  <2> QED
    BY <2>1, <2>2, ConvertRows DEF UniqueKeys, Exists
<1> QED
  BY <1>1, <1>2, <1>3

\* No two tacs have one key, although the check and the write are apart.
THEOREM UniqueKeysHolds == Spec => []UniqueKeys
<1>1. Init => UniqueKeys
  BY DEF Init, UniqueKeys, Exists
<1> QED
  BY <1>1, TypedInit, TypedStep, UniqueStep, PTL DEF Spec

\* Of two tacs with one name to this interpreter the startup report lists one.
THEOREM DuplicatesReportedHolds == Spec => []DuplicatesReported
<1>1. UniqueKeys => DuplicatesReported
  BY DEF UniqueKeys, DuplicatesReported, Mismatched
<1> QED
  BY <1>1, UniqueKeysHolds, PTL

-----------------------------------------------------------------------------
(* Old letters: only a conversion records a string, and it records none    *)
(* that is recorded.                                                       *)

LEMMA LettersStep == Typed /\ OldLettersRead /\ [Next]_vars => OldLettersRead'
<1> SUFFICES ASSUME Typed, OldLettersRead, [Next]_vars,
                    NEW i \in Uuids, NEW j \in Uuids,
                    legacy'[i] = legacy'[j], legacy'[i] # None
             PROVE  i = j
  BY DEF OldLettersRead
<1>1. CASE Migrate
  <2> PICK c \in [strings -> Names], was \in [Uuids -> strings \cup {None}] : Convert(c, was)
    BY <1>1 DEF Migrate
  <2>1. /\ \A k \in Uuids : legacy[k] \notin strings
        /\ was[i] = was[j] /\ was[i] # None => i = j
    BY DEF Convert, OldIdsFresh
  <2> QED
    BY <2>1, ConvertRows DEF OldLettersRead
<1>2. CASE ~Migrate
  <2>1. UNCHANGED legacy
    BY <1>2, OnlyWrites DEF Insert, Update, Named, ids
  <2> QED
    BY <2>1 DEF OldLettersRead
<1> QED
  BY <1>1, <1>2

\* The string in an old letter leads to one tac.
THEOREM OldLettersReadHolds == Spec => []OldLettersRead
<1>1. Init => OldLettersRead
  BY DEF Init, OldLettersRead
<1> QED
  BY <1>1, TypedInit, TypedStep, LettersStep, PTL DEF Spec

-----------------------------------------------------------------------------
(* References: each is to a row, and a row goes only in a conversion, which *)
(* replaces it.                                                            *)

Attached == refs \subseteq Rows

LEMMA RowsStay ==
  ASSUME Typed, [Next]_vars, ~Migrate
  PROVE  Rows \subseteq Rows'
<1>1. CASE \A t \in Threads : ~Insert(t) /\ ~Update(t)
  <2>1. name' = name
    BY <1>1, OnlyWrites DEF rows
  <2>2. strings \subseteq strings'
    BY <1>1 DEF Next, Request, StartCreate, StartString, StartRename, Asks, ReadRow, CheckNode,
       CheckTaken, InsertString, GiveUp, Register, Refer, CreateRolledBack, Upgrade, vars, ids
  <2> QED
    BY <2>1, <2>2 DEF Rows, Exists
<1>2. ASSUME NEW t \in Threads, Insert(t) \/ Update(t) PROVE Rows \subseteq Rows'
  <2>1. Writes(t) /\ strings' = strings
    BY <1>2 DEF Insert, Update, Writes, Named, ids
  <2>2. \A i \in Uuids : Exists(i) => name'[i] # None
    BY <2>1, NamedRows DEF Exists
  <2> QED
    BY <2>1, <2>2 DEF Rows, Exists
<1> QED
  BY <1>1, <1>2

\* Outside a conversion references are only added, to rows.
LEMMA RefsStay ==
  ASSUME Typed, Attached, [Next]_vars, ~Migrate
  PROVE  refs \subseteq refs' /\ refs' \subseteq Rows'
<1>1. refs \subseteq refs' /\ refs' \subseteq refs \cup Rows
  <2>1. CASE \A t \in Threads : ~Insert(t) /\ ~Update(t)
    BY <2>1 DEF Next, Request, StartCreate, StartString, StartRename, Asks, ReadRow, CheckNode,
       CheckTaken, InsertString, GiveUp, Register, Refer, CreateRolledBack, Upgrade, vars, ids
  <2>2. CASE \E t \in Threads : Insert(t) \/ Update(t)
    BY <2>2 DEF Insert, Update, Named, ids
  <2> QED
    BY <2>1, <2>2
<1> QED
  BY <1>1, RowsStay DEF Attached

LEMMA RefsConverted ==
  ASSUME Typed, Attached, NEW c \in [strings -> Names], NEW was \in [Uuids -> strings \cup {None}],
         Convert(c, was)
  PROVE  /\ refs' \subseteq Rows'
         /\ \A r \in refs : \/ r \in refs' /\ r \in Rows'
                           \/ \E i \in refs' \cap Uuids : /\ legacy[i] # r /\ legacy'[i] = r
                                                       /\ name'[i] # None
<1>1. /\ refs' = {i \in Uuids : i \in refs \/ was[i] \in refs}
      /\ \A s \in strings : \E i \in Uuids : was[i] = s
      /\ \A i \in Uuids : legacy[i] \notin strings
  BY DEF Convert, Rewritten, OldIdsFresh
<1>2. None \notin refs
  BY DEF Typed, TypeOK, Ids
<1>3. ASSUME NEW i \in Uuids, i \in refs PROVE i \in refs' /\ name'[i] # None
  <2>1. Exists(i)
    BY <1>3 DEF Attached, Rows, Typed, TypeOK
  <2> QED
    BY <1>1, <1>3, <2>1, ConvertRows DEF Exists
<1>4. ASSUME NEW i \in Uuids, was[i] \in refs
      PROVE  i \in refs' /\ name'[i] # None /\ legacy'[i] = was[i] /\ legacy[i] # was[i]
  BY <1>1, <1>2, <1>4, ConvertRows
<1>5. refs' \subseteq Rows'
  BY <1>1, <1>3, <1>4 DEF Rows, Exists
<1>6. ASSUME NEW r \in refs
      PROVE  \/ r \in refs' /\ r \in Rows'
             \/ \E i \in refs' \cap Uuids : legacy[i] # r /\ legacy'[i] = r /\ name'[i] # None
  <2>1. CASE r \in Uuids
    BY <1>3, <1>5, <2>1
  <2>2. CASE r \in strings
    BY <1>1, <1>4, <2>2
  <2> QED
    BY <2>1, <2>2 DEF Attached, Rows
<1> QED
  BY <1>5, <1>6

LEMMA AttachedStep == Typed /\ Attached /\ [Next]_vars => Attached'
<1>1. ASSUME Typed, Attached, Migrate PROVE Attached'
  BY <1>1, RefsConverted DEF Migrate, Attached
<1>2. ASSUME Typed, Attached, [Next]_vars, ~Migrate PROVE Attached'
  BY <1>2, RefsStay DEF Attached
<1> QED
  BY <1>1, <1>2

\* Mail, members and links stay with their tac.
THEOREM ReferencesFollowHolds == Spec => ReferencesFollow
<1>1. Init => Attached
  BY DEF Init, Attached
<1>2. Typed /\ Attached /\ [Next]_vars
        => [\A r \in refs : \/ r \in refs' /\ r \in Rows'
                            \/ \E i \in refs' \cap Uuids :
                                 legacy[i] # r /\ legacy'[i] = r /\ Exists(i)']_vars
  <2> SUFFICES ASSUME Typed, Attached, [Next]_vars, NEW r \in refs
               PROVE  \/ r \in refs' /\ r \in Rows'
                      \/ \E i \in refs' \cap Uuids :
                           legacy[i] # r /\ legacy'[i] = r /\ Exists(i)'
    OBVIOUS
  <2>1. CASE Migrate
    BY <2>1, RefsConverted DEF Migrate, Exists
  <2>2. CASE ~Migrate
    BY <2>2, RefsStay
  <2> QED
    BY <2>1, <2>2
<1> QED
  BY <1>1, <1>2, TypedInit, TypedStep, AttachedStep, PTL DEF Spec, ReferencesFollow

-----------------------------------------------------------------------------
(* Names: a UUID under creation is in nobody else's hands but those of a   *)
(* rename that has found no row yet; a name that a rename has read is one  *)
(* the tac has had; and its names are recorded once there are two.         *)

Creating(t) == tac[t] \in Uuids /\ at[t] \in {"node", "taken", "insert"} /\ saw[t] = None

Alone(t) == Creating(t) => /\ ~Exists(tac[t])
                           /\ \A r \in Threads \ {t} : tac[r] = tac[t] => at[r] = "row"

SawOne(t) == saw[t] # None => saw[t] \in had[tac[t]]

Kept(i) == /\ ~Exists(i) => had[i] = {}
           /\ Exists(i) => name[i] \in had[i]
           /\ had[i] \subseteq {name[i]} \/ had[i] \subseteq olds[i] \cup news[i]

Recorded == /\ \A t \in Threads : Alone(t) /\ SawOne(t)
            /\ \A i \in Uuids : Kept(i)

LEMMA RecordedInit == Init => Recorded
BY DEF Init, Recorded, Creating, Alone, SawOne, Kept, Exists

\* A step that writes no row: the histories stay as they are.
LEMMA KeptStays ==
  ASSUME Typed, Recorded, UNCHANGED rows
  PROVE  \A i \in Uuids : Kept(i)'
BY DEF Recorded, Kept, Exists, rows, changes

\* The tac that is written has its names recorded.
LEMMA KeptWritten ==
  ASSUME Typed, Recorded, NEW t \in Threads, Insert(t) \/ Update(t)
  PROVE  \A i \in Uuids : Kept(i)'
<1> DEFINE u == tac[t]
<1>1. Writes(t) /\ u \in Uuids /\ want[t] \in Names
  BY NamedRows DEF Insert, Update, Writes
<1>2. /\ name'[u] = want[t] /\ had'[u] = had[u] \cup {want[t]} /\ name'[u] # None
      /\ \A i \in Uuids \ {u} : name'[i] = name[i] /\ had'[i] = had[i]
  BY <1>1, NamedRows
<1>3. \A i \in Uuids \ {u} : olds'[i] = olds[i] /\ news'[i] = news[i]
  BY <1>1 DEF Insert, Update, changes, Typed, TypeOK, Renamed
<1>4. ASSUME NEW i \in Uuids \ {u} PROVE Kept(i)'
  BY <1>2, <1>3 DEF Recorded, Kept, Exists
<1>5. CASE Insert(t)
  <2>1. Creating(t)
    BY <1>1, <1>5 DEF Insert, Creating, Typed, Busy
  <2>2. had[u] = {}
    BY <1>1, <2>1 DEF Recorded, Alone, Kept
  <2> QED
    BY <1>1, <1>2, <1>4, <2>2 DEF Kept, Exists
<1>6. CASE Update(t)
  <2>1. saw[t] \in had[u] /\ saw[t] \in Names /\ Kept(u)
    BY <1>1, <1>6 DEF Update, Recorded, SawOne, Typed, Busy
  <2>2. CASE NameChanged(t)
    <3>1. olds'[u] = olds[u] \cup {saw[t]} /\ news'[u] = news[u] \cup {want[t]}
      BY <1>1, <1>6, <2>2 DEF Update, Typed, TypeOK, Renamed
    <3>2. had[u] \subseteq {saw[t]} \/ had[u] \subseteq olds[u] \cup news[u]
      BY <2>1 DEF Kept
    <3>3. had'[u] \subseteq olds'[u] \cup news'[u]
      BY <1>2, <3>1, <3>2
    <3> QED
      BY <1>1, <1>2, <1>4, <3>3 DEF Kept, Exists
  <2>3. CASE ~NameChanged(t)
    <3>1. UNCHANGED changes /\ want[t] = saw[t]
      BY <1>6, <2>3 DEF Update, NameChanged
    <3>2. had'[u] = had[u]
      BY <1>2, <2>1, <3>1
    <3>3. had'[u] \subseteq {name'[u]} \/ had'[u] \subseteq olds'[u] \cup news'[u]
      BY <1>2, <2>1, <3>1, <3>2 DEF Kept, changes
    <3> QED
      BY <1>1, <1>2, <1>4, <3>3 DEF Kept, Exists
  <2> QED
    BY <2>2, <2>3
<1> QED
  BY <1>5, <1>6

\* The threads after one of them has ended, where every other finds the rows it knew.
LEMMA AloneEnds ==
  ASSUME Typed, Recorded, NEW t \in Threads, Ends(t), at[t] # "free",
         \A i \in Uuids : had[i] \subseteq had'[i],
         \A i \in Uuids : ~Exists(i) /\ name'[i] # None => i = tac[t] /\ at[t] # "row"
  PROVE  \A r \in Threads : Alone(r)' /\ SawOne(r)'
<1>1. /\ at'[t] = "free" /\ tac'[t] = None /\ saw'[t] = None
      /\ \A r \in Threads \ {t} : at'[r] = at[r] /\ tac'[r] = tac[r] /\ saw'[r] = saw[r]
  BY DEF Ends, Goes, Typed, TypeOK
<1>2. Alone(t)' /\ SawOne(t)'
  BY <1>1 DEF Alone, Creating, SawOne
<1>3. ASSUME NEW r \in Threads \ {t} PROVE SawOne(r)'
  <2>1. saw[r] # None => tac[r] \in Uuids /\ saw[r] \in had[tac[r]]
    BY DEF Typed, Busy, Recorded, SawOne
  <2> QED
    BY <1>1, <2>1 DEF SawOne
<1>4. ASSUME NEW r \in Threads \ {t} PROVE Alone(r)'
  <2> SUFFICES ASSUME Creating(r)'
               PROVE  /\ ~Exists(tac[r])'
                      /\ \A q \in Threads \ {r} : tac'[q] = tac'[r] => at'[q] = "row"
    BY DEF Alone
  <2>1. Creating(r)
    BY <1>1 DEF Creating
  <2>2. /\ tac[r] \in Uuids /\ ~Exists(tac[r])
        /\ \A q \in Threads \ {r} : tac[q] = tac[r] => at[q] = "row"
    BY <2>1 DEF Creating, Recorded, Alone
  <2>3. name'[tac[r]] = None
    BY <2>2
  <2> QED
    BY <1>1, <2>2, <2>3 DEF Exists
<1> QED
  BY <1>2, <1>3, <1>4

LEMMA RecordedConverted ==
  ASSUME Typed, Recorded, NEW c \in [strings -> Names], NEW was \in [Uuids -> strings \cup {None}],
         Convert(c, was)
  PROVE  Recorded'
<1>1. \A t \in Threads : /\ at[t] = "free" /\ saw[t] = None
                        /\ at'[t] = at[t] /\ saw'[t] = saw[t]
  BY DEF Convert, Stopped, hands, Typed, Busy
<1>2. \A t \in Threads : Alone(t)' /\ SawOne(t)'
  BY <1>1 DEF Alone, Creating, SawOne
<1>3. ASSUME NEW i \in Uuids PROVE Kept(i)'
  <2>1. olds' = olds /\ news' = news
    BY DEF Convert, changes
  <2>2. CASE was[i] = None
    BY <2>1, <2>2, ConvertRows DEF Recorded, Kept, Exists
  <2>3. CASE was[i] # None
    BY <2>3, ConvertRows DEF Kept, Exists
  <2> QED
    BY <2>2, <2>3
<1> QED
  BY <1>2, <1>3 DEF Recorded

LEMMA RecordedStep == Typed /\ Recorded /\ [Next]_vars => Recorded'
<1> SUFFICES ASSUME Typed, Recorded, [Next]_vars PROVE Recorded'
  OBVIOUS
<1> DEFINE Threaded == \A r \in Threads : Alone(r) /\ SawOne(r)
<1>a. Threaded
  BY DEF Recorded
<1>b. UNCHANGED rows /\ Threaded' => Recorded'
  BY KeptStays DEF Recorded
<1> HIDE DEF Threaded
<1>1. ASSUME NEW t \in Threads, NEW n \in Names, StartCreate(t, n) PROVE Recorded'
  BY <1>1, <1>a, <1>b DEF Threaded, Alone, Creating, SawOne, Exists, StartCreate, Asks, Goes, rows,
     Typed, TypeOK, Busy
<1>2. ASSUME NEW t \in Threads, NEW n \in Names, StartString(t, n) PROVE Recorded'
  BY <1>2, <1>a, <1>b DEF Threaded, Alone, Creating, SawOne, Exists, StartString, Asks, Goes, rows,
     Typed, TypeOK, Busy
<1>3. ASSUME NEW t \in Threads, NEW i \in Uuids, NEW n \in Names, StartRename(t, i, n)
      PROVE  Recorded'
  BY <1>3, <1>a, <1>b DEF Threaded, Alone, Creating, SawOne, Exists, StartRename, Asks, Goes, rows,
     Typed, TypeOK, Busy
<1>4. ASSUME NEW t \in Threads, ReadRow(t) PROVE Recorded'
  <2>1. /\ at[t] = "row" /\ tac[t] \in Uuids /\ Exists(tac[t]) /\ name[tac[t]] \in had[tac[t]]
    BY <1>4 DEF ReadRow, Typed, Busy, Recorded, Kept
  <2> QED
    BY <1>4, <2>1, <1>a, <1>b DEF Threaded, Alone, Creating, SawOne, Exists, ReadRow, Goes, rows,
       Typed, TypeOK
<1>5. ASSUME NEW t \in Threads, CheckNode(t) PROVE Recorded'
  BY <1>5, <1>a, <1>b DEF Threaded, Alone, Creating, SawOne, Exists, CheckNode, Goes, rows, hands,
     Typed, TypeOK
<1>6. ASSUME NEW t \in Threads, CheckTaken(t) PROVE Recorded'
  BY <1>6, <1>a, <1>b DEF Threaded, Alone, Creating, SawOne, Exists, CheckTaken, Goes, rows, hands,
     Typed, TypeOK
<1>7. ASSUME NEW t \in Threads, Insert(t) \/ Update(t) PROVE Recorded'
  <2>1. Writes(t) /\ Ends(t) /\ at[t] \in {"insert", "update"}
    BY <1>7 DEF Insert, Update, Writes, Named
  <2>2. /\ \A i \in Uuids : had[i] \subseteq had'[i]
        /\ \A i \in Uuids : ~Exists(i) /\ name'[i] # None => i = tac[t]
    BY <2>1, NamedRows DEF Exists
  <2>3. \A r \in Threads : Alone(r)' /\ SawOne(r)'
    BY <2>1, <2>2, AloneEnds
  <2> QED
    BY <1>7, <2>3, KeptWritten DEF Recorded
<1>8. ASSUME NEW t \in Threads, InsertString(t) \/ GiveUp(t) PROVE Recorded'
  <2>1. Ends(t) /\ at[t] # "free" /\ UNCHANGED rows
    BY <1>8 DEF InsertString, GiveUp
  <2>2. /\ \A i \in Uuids : had[i] \subseteq had'[i]
        /\ \A i \in Uuids : ~(~Exists(i) /\ name'[i] # None)
    BY <2>1 DEF rows, Exists
  <2>3. Threaded'
    BY <2>1, <2>2, AloneEnds DEF Threaded
  <2> QED
    BY <2>1, <2>3, <1>b
<1>9. CASE \/ \E n \in Nodes : Register(n)
           \/ \E i \in Ids : Refer(i)
           \/ \E n \in Names : CreateRolledBack(n)
           \/ UNCHANGED vars
  <2>1. UNCHANGED <<rows, at, hands>>
    BY <1>9 DEF Register, Refer, CreateRolledBack, vars
  <2> QED
    BY <2>1, <1>a, <1>b DEF Threaded, Alone, Creating, SawOne, Exists, rows, hands
<1>10. CASE Upgrade
  BY <1>10, <1>b DEF Upgrade, Threaded, Alone, Creating, SawOne
<1>11. CASE Migrate
  BY <1>11, RecordedConverted DEF Migrate
<1> QED
  BY <1>1, <1>2, <1>3, <1>4, <1>5, <1>6, <1>7, <1>8, <1>9, <1>10, <1>11 DEF Next, Request

\* No name that a tac has had is forgotten.
THEOREM NamesRecordedHolds == Spec => []NamesRecorded
<1>1. Recorded => NamesRecorded
  BY DEF Recorded, Kept, NamesRecorded
<1> QED
  BY <1>1, TypedInit, TypedStep, RecordedInit, RecordedStep, PTL DEF Spec

-----------------------------------------------------------------------------
(* The tacs without the threads.                                           *)

\* The history tells of nothing that has not been.
Honest == \A i \in Uuids : olds[i] \cup news[i] \subseteq had[i]

\* A request that works on a UUID has found no string beside them, and none comes while
\* it runs; a request that works on a string runs before any conversion.
OneScheme ==
  \A t \in Threads : at[t] # "free" => IF tac[t] \in Uuids THEN columns /\ strings = {}
                                                          ELSE ~columns

LEMMA HonestStep == Typed /\ Recorded /\ Honest /\ [Next]_vars => Honest'
<1> SUFFICES ASSUME Typed, Recorded, Honest, [Next]_vars, NEW i \in Uuids
             PROVE  olds'[i] \cup news'[i] \subseteq had'[i]
  BY DEF Honest
<1>1. CASE ~Migrate /\ \A t \in Threads : ~Insert(t) /\ ~Update(t)
  BY <1>1, OnlyWrites DEF rows, changes, Honest
<1>2. ASSUME NEW t \in Threads, Insert(t) PROVE olds'[i] \cup news'[i] \subseteq had'[i]
  <2>1. Writes(t) /\ UNCHANGED changes
    BY <1>2 DEF Insert, Writes
  <2>2. had[i] \subseteq had'[i]
    BY <2>1, NamedRows
  <2> QED
    BY <2>1, <2>2 DEF changes, Honest
<1>3. ASSUME NEW t \in Threads, Update(t) PROVE olds'[i] \cup news'[i] \subseteq had'[i]
  <2>1. Writes(t) /\ saw[t] \in Names /\ saw[t] # None
    BY <1>3 DEF Update, Writes, Typed, Busy
  <2>2. tac[t] \in Uuids /\ saw[t] \in had[tac[t]] /\ had[i] \subseteq had'[i]
    BY <2>1, NamedRows DEF Recorded, SawOne
  <2>3. /\ olds'[i] \subseteq olds[i] \cup (IF i = tac[t] THEN {saw[t]} ELSE {})
        /\ news'[i] \subseteq news[i] \cup (IF i = tac[t] THEN {want[t]} ELSE {})
    BY <1>3, <2>2 DEF Update, changes, Typed, TypeOK, Renamed
  <2>4. i = tac[t] => want[t] \in had'[i]
    BY <2>1, NamedRows
  <2> QED
    BY <2>2, <2>3, <2>4 DEF Honest
<1>4. CASE Migrate
  <2> PICK c \in [strings -> Names], was \in [Uuids -> strings \cup {None}] : Convert(c, was)
    BY <1>4 DEF Migrate
  <2>1. olds' = olds /\ news' = news
    BY DEF Convert, changes
  <2> QED
    BY <2>1, ConvertRows DEF Honest, Recorded, Kept
<1> QED
  BY <1>1, <1>2, <1>3, <1>4

LEMMA OneSchemeStep == Typed /\ OneScheme /\ [Next]_vars => OneScheme'
<1> SUFFICES ASSUME Typed, OneScheme, [Next]_vars, NEW r \in Threads, at'[r] # "free"
             PROVE  IF tac'[r] \in Uuids THEN columns' /\ strings' = {} ELSE ~columns'
  BY DEF OneScheme
<1> DEFINE Held == /\ at[r] # "free" /\ tac'[r] = tac[r]
                   /\ columns' = columns /\ strings' = strings
<1>0. Held => IF tac'[r] \in Uuids THEN columns' /\ strings' = {} ELSE ~columns'
  BY DEF OneScheme
<1> USE DEF Typed, TypeOK
<1>1. ASSUME NEW t \in Threads, NEW n \in Names, StartCreate(t, n) \/ StartString(t, n)
      PROVE  IF tac'[r] \in Uuids THEN columns' /\ strings' = {} ELSE ~columns'
  BY <1>0, <1>1 DEF StartCreate, StartString, Asks, Goes, ids
<1>2. ASSUME NEW t \in Threads, NEW i \in Uuids, NEW n \in Names, StartRename(t, i, n)
      PROVE  IF tac'[r] \in Uuids THEN columns' /\ strings' = {} ELSE ~columns'
  BY <1>0, <1>2 DEF StartRename, Asks, Goes, ids
<1>3. ASSUME NEW t \in Threads, ReadRow(t) \/ CheckNode(t) \/ CheckTaken(t)
      PROVE  Held
  BY <1>3 DEF ReadRow, CheckNode, CheckTaken, Goes, ids, hands
<1>4. ASSUME NEW t \in Threads, Insert(t) \/ Update(t) \/ GiveUp(t)
      PROVE  Held
  BY <1>4 DEF Insert, Update, Named, GiveUp, Ends, Goes, ids
<1>5. ASSUME NEW t \in Threads, InsertString(t)
      PROVE  IF tac'[r] \in Uuids THEN columns' /\ strings' = {} ELSE ~columns'
  <2>1. at[t] = "insert" /\ tac[t] \notin Uuids /\ columns' = columns /\ Ends(t)
    BY <1>5 DEF InsertString
  <2>2. ~columns
    BY <2>1 DEF OneScheme
  <2>3. at[r] # "free" /\ tac'[r] = tac[r]
    BY <2>1 DEF Ends, Goes
  <2> QED
    BY <2>1, <2>2, <2>3 DEF OneScheme
<1>6. CASE \E n \in Nodes : Register(n)
  BY <1>0, <1>6 DEF Register, ids, hands
<1>7. CASE \E i \in Ids : Refer(i)
  BY <1>0, <1>7 DEF Refer, hands
<1>8. CASE \E n \in Names : CreateRolledBack(n)
  BY <1>8 DEF CreateRolledBack, Stopped
<1>9. CASE Upgrade \/ Migrate
  BY <1>9 DEF Upgrade, Migrate, Convert, Stopped
<1>10. CASE UNCHANGED vars
  BY <1>0, <1>10 DEF vars, ids, hands
<1> QED
  BY <1>0, <1>1, <1>2, <1>3, <1>4, <1>5, <1>6, <1>7, <1>8, <1>9, <1>10 DEF Next, Request

\* What a thread relies on while it works.
Told == Typed /\ Recorded /\ Honest /\ OneScheme

LEMMA ToldHolds == Spec => []Told
<1>1. Init => Honest /\ OneScheme
  BY DEF Init, Honest, OneScheme
<1> QED
  BY <1>1, TypedInit, TypedStep, RecordedInit, RecordedStep, HonestStep, OneSchemeStep, PTL
     DEF Spec, Told

\* The contract reads the rows as TacNames does.
LEMMA TacReading ==
  /\ \A i : Contract!Exists(i) = Exists(i)
  /\ \A n \in Names : \A u \in Uuids : Contract!Free(n, {u}) = (Holder(n) \subseteq {u})
  /\ \A n \in Names : Contract!Free(n, {}) = (Holder(n) = {})
<1>1. \A i : Contract!Exists(i) = Exists(i)
  BY DEF Contract!Exists, Exists
<1>2. ASSUME NEW n \in Names, NEW u \in Uuids
      PROVE  Contract!Free(n, {u}) = (Holder(n) \subseteq {u})
  BY <1>1 DEF Contract!Free, Holder, Folded
<1>3. ASSUME NEW n \in Names
      PROVE  Contract!Free(n, {}) = (Holder(n) = {})
  BY <1>1 DEF Contract!Free, Holder, Folded
<1> QED
  BY <1>1, <1>2, <1>3

\* What is told of a tac grows by the name that is written, though the record of a
\* rename may leave the replaced name out: then that name was recorded before.
LEMMA ToldWritten ==
  ASSUME Told, NEW t \in Threads, Insert(t) \/ Update(t), NEW u \in Uuids, u = tac[t]
  PROVE  /\ Recalled(u)' = Recalled(u) \cup {want[t]}
         /\ \A i \in Uuids \ {u} : Recalled(i)' = Recalled(i)
<1>1. Writes(t) /\ want[t] \in Names /\ want[t] # None /\ Typed
  BY NamedRows DEF Insert, Update, Writes, Told
<1>2. name'[u] = want[t] /\ \A i \in Uuids \ {u} : name'[i] = name[i]
  BY <1>1, NamedRows
<1>3. \A i \in Uuids \ {u} : olds'[i] = olds[i] /\ news'[i] = news[i]
  BY <1>1 DEF Insert, Update, changes, Typed, TypeOK, Renamed
<1>4. \A i \in Uuids \ {u} : Recalled(i)' = Recalled(i)
  BY <1>2, <1>3 DEF Recalled
<1>5. /\ olds[u] \cup news[u] \subseteq had[u] /\ had[u] \subseteq Names /\ None \notin had[u]
      /\ Kept(u) /\ SawOne(t) /\ Alone(t)
  BY <1>1 DEF Told, Honest, Recorded, Typed, TypeOK, Renamed
<1>6. CASE Insert(t)
  <2>1. Creating(t) /\ UNCHANGED changes
    BY <1>1, <1>6 DEF Insert, Creating, Typed, Busy
  <2>2. name[u] = None /\ had[u] = {}
    BY <2>1, <1>5 DEF Alone, Kept, Exists
  <2>3. Recalled(u) = {} /\ Recalled(u)' = {want[t]}
    BY <1>1, <1>2, <1>5, <2>1, <2>2 DEF Recalled, changes
  <2> QED
    BY <1>4, <2>3
<1>7. CASE Update(t)
  <2>1. saw[t] \in had[u] /\ saw[t] \in Names /\ saw[t] # None
    BY <1>1, <1>5, <1>7 DEF Update, SawOne, Typed, Busy
  <2>2. name[u] \in had[u] /\ Recalled(u) = {name[u]} \cup olds[u] \cup news[u]
    BY <1>5, <2>1 DEF Kept, Exists, Recalled
  <2>3. CASE NameChanged(t)
    <3>1. olds'[u] = olds[u] \cup {saw[t]} /\ news'[u] = news[u] \cup {want[t]}
      BY <1>1, <1>7, <2>3 DEF Update, Typed, TypeOK, Renamed
    <3>2. Recalled(u)' = {want[t]} \cup olds[u] \cup {saw[t]} \cup news[u]
      BY <1>1, <1>2, <1>5, <2>1, <3>1 DEF Recalled
    <3>3. CASE had[u] \subseteq {name[u]}
      BY <1>4, <2>1, <2>2, <3>2, <3>3
    <3>4. CASE had[u] \subseteq olds[u] \cup news[u]
      BY <1>4, <2>1, <2>2, <3>2, <3>4
    <3> QED
      BY <3>3, <3>4, <1>5 DEF Kept
  <2>4. CASE ~NameChanged(t)
    <3>1. UNCHANGED changes /\ want[t] = saw[t]
      BY <1>7, <2>4 DEF Update, NameChanged
    <3>2. Recalled(u)' = {want[t]} \cup olds[u] \cup news[u]
      BY <1>1, <1>2, <1>5, <3>1 DEF Recalled, changes
    <3> QED
      BY <1>4, <1>5, <2>1, <2>2, <3>1, <3>2 DEF Kept
  <2> QED
    BY <2>3, <2>4
<1> QED
  BY <1>6, <1>7

\* A write is the one moment of its request.
LEMMA WriteKeeps ==
  ASSUME Told, NEW t \in Threads, Insert(t) \/ Update(t)
  PROVE  Contract!Next
<1> DEFINE K(i) == Recalled(i)
<1> PICK u \in Uuids : u = tac[t]
  BY NamedRows DEF Insert, Update, Writes, Told
<1>1. /\ Writes(t) /\ want[t] \in Names /\ Typed /\ at[t] # "free"
      /\ Named(t)
  BY NamedRows DEF Insert, Update, Writes, Told
<1>2. strings = {} /\ Holder(want[t]) \subseteq {u}
  BY <1>1 DEF Told, OneScheme, Named, Unique
<1>3. /\ name' = [name EXCEPT ![u] = want[t]] /\ key' = [key EXCEPT ![u] = fold[want[t]]]
      /\ UNCHANGED <<strings, legacy, refs, fold>>
  BY <1>1 DEF Named, Folded, ids
<1>4. [i \in Uuids |-> K(i)'] = [[i \in Uuids |-> K(i)] EXCEPT ![u] = @ \cup {want[t]}]
  <2>1. K(u)' = K(u) \cup {want[t]} /\ \A i \in Uuids \ {u} : K(i)' = K(i)
    BY ToldWritten
  <2> HIDE DEF K
  <2> QED
    BY <1>1, <2>1
<1>5. Contract!Gets(u, want[t])
  BY <1>1, <1>2, <1>3, <1>4, TacReading DEF Contract!Gets
<1>6. Contract!Create(u, want[t]) \/ Contract!Rename(u, want[t])
  BY <1>5 DEF Contract!Create, Contract!Rename
<1> QED
  BY <1>1, <1>6 DEF Contract!Next

\* What is told of the tacs stays as it is where no row is written.
LEMMA ToldStays ==
  ASSUME UNCHANGED rows
  PROVE  /\ name' = name /\ key' = key
         /\ [i \in Uuids |-> Recalled(i)]' = [i \in Uuids |-> Recalled(i)]
BY DEF rows, changes, Recalled

LEMMA OtherKeeps ==
  ASSUME Told, [Next]_vars, ~Migrate, \A t \in Threads : ~Insert(t) /\ ~Update(t)
  PROVE  Contract!Next \/ UNCHANGED Contract!vars
<1>1. UNCHANGED rows /\ UNCHANGED legacy
  BY OnlyWrites
<1>2. CASE UNCHANGED <<strings, refs, fold>>
  BY <1>1, <1>2, ToldStays DEF Contract!vars
<1>3. ASSUME NEW t \in Threads, InsertString(t) PROVE Contract!Next
  <2>1. tac[t] \in Names /\ strings' = strings \cup {tac[t]} /\ UNCHANGED <<refs, fold>>
    BY <1>3 DEF InsertString
  <2>2. Contract!CreateString(tac[t])
    BY <1>1, <2>1, ToldStays DEF Contract!CreateString
  <2> QED
    BY <2>1, <2>2 DEF Contract!Next
<1>4. ASSUME NEW n \in Names, CreateRolledBack(n) PROVE Contract!Next
  <2>1. Contract!CreateString(n)
    BY <1>1, <1>4, ToldStays DEF CreateRolledBack, Contract!CreateString
  <2> QED
    BY <2>1 DEF Contract!Next
<1>5. ASSUME NEW i \in Ids, Refer(i) PROVE Contract!Next
  <2>1. i \in strings \/ (i \in Uuids /\ Exists(i))
    BY <1>5 DEF Refer, Rows
  <2>2. Contract!Refer(i)
    BY <1>1, <1>5, <2>1, ToldStays, TacReading DEF Refer, Contract!Refer
  <2> QED
    BY <2>2 DEF Contract!Next, Ids
<1>6. CASE Upgrade
  <2>1. Contract!Refold
    BY <1>1, <1>6, ToldStays DEF Upgrade, ids, Contract!Refold
  <2> QED
    BY <2>1 DEF Contract!Next
<1> QED
  BY <1>2, <1>3, <1>4, <1>5, <1>6 DEF Next, Request, StartCreate, StartString, StartRename, Asks,
     ReadRow, CheckNode, CheckTaken, GiveUp, Register, vars, ids

\* A conversion keeps each string, each letter and each name.
LEMMA ConvertKeeps ==
  ASSUME Told, Migrate
  PROVE  Contract!Next
<1> PICK c \in [strings -> Names], was \in [Uuids -> strings \cup {None}] : Convert(c, was)
  BY DEF Migrate
<1> DEFINE into == [s \in strings |-> CHOOSE i \in Uuids : was[i] = s]
           fresh == {into[s] : s \in strings}
           Was(i) == CHOOSE s \in strings : into[s] = i
<1>1. Typed /\ strings \subseteq Names /\ None \notin strings
  BY TacNamesAssumption DEF Told, Typed, TypeOK
<1>2. \A s \in strings : into[s] \in Uuids /\ was[into[s]] = s
  BY DEF Convert
<1>3. \A i \in Uuids : was[i] # None => was[i] \in strings /\ into[was[i]] = i
  BY <1>2 DEF Convert
<1> HIDE DEF into
<1>4. \A i \in Uuids : i \in fresh <=> was[i] # None
  <2> SUFFICES ASSUME NEW i \in Uuids PROVE i \in fresh <=> was[i] # None
    OBVIOUS
  <2>1. ASSUME NEW s \in strings, i = into[s] PROVE was[i] # None
    BY <1>1, <1>2, <2>1
  <2>2. CASE was[i] # None
    BY <1>3, <2>2
  <2> QED
    BY <2>1, <2>2
<1>5. \A i \in Uuids : was[i] # None => Was(i) = was[i]
  BY <1>2, <1>3
<1> HIDE DEF fresh, Was
<1>6. /\ \A r, s \in strings : into[r] = into[s] => r = s
      /\ \A r, s \in strings : fold[c[r]] = fold[c[s]] => r = s
  BY <1>2 DEF Convert, Plan, Folded
<1>7. \A s \in strings : /\ ~Contract!Exists(into[s])
                         /\ Contract!Free(c[s], {})
                         /\ \A i \in Uuids : legacy[i] # s
  <2> SUFFICES ASSUME NEW s \in strings
               PROVE  /\ ~Contract!Exists(into[s])
                      /\ Contract!Free(c[s], {})
                      /\ \A i \in Uuids : legacy[i] # s
    OBVIOUS
  <2>1. ~Exists(into[s]) /\ Holder(c[s]) = {} /\ c[s] \in Names
    BY <1>1, <1>2 DEF Convert, Plan
  <2>2. ~Contract!Exists(into[s]) /\ Contract!Free(c[s], {})
    BY <2>1, TacReading
  <2>3. \A i \in Uuids : legacy[i] # s
    BY DEF Convert, OldIdsFresh
  <2> QED
    BY <2>2, <2>3
<1>8. /\ strings' = {} /\ fold' = fold
      /\ name' = [i \in Uuids |-> IF i \in fresh THEN c[Was(i)] ELSE name[i]]
      /\ key' = [i \in Uuids |-> IF i \in fresh THEN fold[c[Was(i)]] ELSE key[i]]
      /\ legacy' = [i \in Uuids |-> IF i \in fresh THEN Was(i) ELSE legacy[i]]
  BY <1>4, <1>5 DEF Convert, Folded
<1>9. \A i \in Uuids : Recalled(i)' = IF i \in fresh THEN {c[Was(i)]} ELSE Recalled(i)
  <2> SUFFICES ASSUME NEW i \in Uuids
               PROVE  Recalled(i)' = IF i \in fresh THEN {c[Was(i)]} ELSE Recalled(i)
    OBVIOUS
  <2>1. olds' = olds /\ news' = news
    BY DEF Convert, changes
  <2>2. CASE i \in fresh
    <3>1. olds[i] = {} /\ news[i] = {}
      BY <1>4, <2>2 DEF Convert, Told, Honest, Recorded, Kept
    <3>2. name'[i] = c[Was(i)] /\ c[Was(i)] # None
      BY <1>3, <1>4, <1>5, <1>8, <2>2, TacNamesAssumption
    <3> QED
      BY <2>1, <2>2, <3>1, <3>2 DEF Recalled
  <2>3. CASE i \notin fresh
    BY <1>8, <2>1, <2>3 DEF Recalled
  <2> QED
    BY <2>2, <2>3
<1>10. [i \in Uuids |-> Recalled(i)]'
         = [i \in Uuids |-> IF i \in fresh THEN {c[Was(i)]} ELSE [j \in Uuids |-> Recalled(j)][i]]
  BY <1>9
<1>11. refs' = (refs \ strings) \cup {into[s] : s \in refs \cap strings}
  <2>1. refs' = {i \in Uuids : i \in refs \/ was[i] \in refs} /\ refs \subseteq Rows
    BY DEF Convert, Rewritten, Plan
  <2>2. refs \ strings = refs \cap Uuids /\ None \notin refs
    BY <1>1, <2>1, TacNamesAssumption DEF Rows
  <2>3. \A i \in Uuids : was[i] \in refs <=> \E s \in refs \cap strings : i = into[s]
    <3> SUFFICES ASSUME NEW i \in Uuids
                 PROVE  was[i] \in refs <=> \E s \in refs \cap strings : i = into[s]
      OBVIOUS
    <3>1. was[i] \in refs => was[i] \in refs \cap strings /\ i = into[was[i]]
      BY <1>3, <2>2
    <3>2. ASSUME NEW s \in refs \cap strings, i = into[s] PROVE was[i] \in refs
      BY <1>2, <3>2
    <3> QED
      BY <3>1, <3>2
  <2> QED
    BY <1>2, <2>1, <2>2, <2>3
<1>12. Contract!Convert(c, into)
  BY <1>6, <1>7, <1>8, <1>10, <1>11 DEF Contract!Convert, fresh, Was
<1>13. into \in [strings -> Uuids]
  BY <1>2 DEF into
<1> QED
  BY <1>12, <1>13 DEF Contract!Next

\* However requests overlap and interpreters change, each tac is created, renamed and
\* converted in one moment, and what is told of it grows by exactly the name it gets.
THEOREM ContractKept == Spec => KeepsContract
<1>1. Init => Contract!Init
  <2> SUFFICES ASSUME Init PROVE Contract!Init
    OBVIOUS
  <2>1. \A i \in Uuids : Recalled(i) = {}
    BY DEF Init, Recalled
  <2>2. [i \in Uuids |-> Recalled(i)] = [i \in Uuids |-> {}]
    BY <2>1
  <2> QED
    BY <2>2 DEF Init, Contract!Init
<1>2. Told /\ [Next]_vars => [Contract!Next]_(Contract!vars)
  BY WriteKeeps, OtherKeeps, ConvertKeeps
<1> QED
  BY <1>1, <1>2, ToldHolds, PTL DEF Spec, KeepsContract, Contract!Spec

\* The contract alone keeps the keys and the old ids apart.
Apart ==
  /\ name = [i \in Uuids |-> name[i]] /\ key = [i \in Uuids |-> key[i]]
  /\ UniqueKeys /\ OldLettersRead

LEMMA ApartGets ==
  ASSUME Apart, NEW u \in Uuids, NEW n \in Names, Contract!Gets(u, n)
  PROVE  Apart'
<1>1. /\ name' = [name EXCEPT ![u] = n] /\ key' = [key EXCEPT ![u] = fold[n]]
      /\ legacy' = legacy
      /\ \A i \in Uuids \ {u} : name[i] # None => key[i] # fold[n]
  BY DEF Contract!Gets, Contract!Free, Contract!Exists
<1>2. /\ name' = [i \in Uuids |-> IF i = u THEN n ELSE name[i]]
      /\ key' = [i \in Uuids |-> IF i = u THEN fold[n] ELSE key[i]]
  BY <1>1 DEF Apart
<1>3. UniqueKeys'
  BY <1>1, <1>2 DEF Apart, UniqueKeys, Exists
<1> QED
  BY <1>1, <1>2, <1>3 DEF Apart, OldLettersRead

LEMMA ApartConverted ==
  ASSUME Apart, NEW c \in [strings -> Names], NEW into \in [strings -> Uuids],
         Contract!Convert(c, into)
  PROVE  Apart'
<1> DEFINE fresh == {into[s] : s \in strings}
           Was(i) == CHOOSE s \in strings : into[s] = i
<1>1. \A i \in fresh : Was(i) \in strings /\ into[Was(i)] = i
  OBVIOUS
<1>2. /\ \A r, s \in strings : fold[c[r]] = fold[c[s]] => r = s
      /\ \A s \in strings, i \in Uuids : /\ name[i] # None => key[i] # fold[c[s]]
                                         /\ legacy[i] # s
  BY DEF Contract!Convert, Contract!Free, Contract!Exists
<1>3. /\ name' = [i \in Uuids |-> IF i \in fresh THEN c[Was(i)] ELSE name[i]]
      /\ key' = [i \in Uuids |-> IF i \in fresh THEN fold[c[Was(i)]] ELSE key[i]]
      /\ legacy' = [i \in Uuids |-> IF i \in fresh THEN Was(i) ELSE legacy[i]]
  BY DEF Contract!Convert
<1> HIDE DEF fresh, Was
<1>4. UniqueKeys'
  BY <1>1, <1>2, <1>3 DEF Apart, UniqueKeys, Exists
<1>5. OldLettersRead'
  BY <1>1, <1>2, <1>3 DEF Apart, OldLettersRead
<1> QED
  BY <1>3, <1>4, <1>5 DEF Apart

\* The contract is enough for two of its consequences: no two tacs have one key, and a
\* string leads to one tac.
THEOREM ContractSuffices == KeepsContract => [](UniqueKeys /\ OldLettersRead)
<1>1. Contract!Init => Apart
  BY DEF Contract!Init, Apart, UniqueKeys, OldLettersRead, Exists
<1>2. Apart /\ [Contract!Next]_(Contract!vars) => Apart'
  <2> SUFFICES ASSUME Apart, [Contract!Next]_(Contract!vars) PROVE Apart'
    OBVIOUS
  <2>1. CASE UNCHANGED <<name, key, legacy>>
    BY <2>1 DEF Apart, UniqueKeys, OldLettersRead, Exists
  <2>2. ASSUME NEW i \in Uuids, NEW n \in Names, Contract!Create(i, n) \/ Contract!Rename(i, n)
        PROVE  Apart'
    BY <2>2, ApartGets DEF Contract!Create, Contract!Rename
  <2>3. ASSUME NEW c \in [strings -> Names], NEW into \in [strings -> Uuids],
               Contract!Convert(c, into)
        PROVE  Apart'
    BY <2>3, ApartConverted
  <2> QED
    BY <2>1, <2>2, <2>3
       DEF Contract!Next, Contract!CreateString, Contract!Refer, Contract!Refold, Contract!vars
<1>3. Apart => UniqueKeys /\ OldLettersRead
  BY DEF Apart
<1> QED
  BY <1>1, <1>2, <1>3, PTL DEF KeepsContract, Contract!Spec
=============================================================================
