------------------------------ MODULE TacNames ------------------------------
(***************************************************************************)
(* The identifiers and names of tacs (tac_store.py, tac_migration.py).     *)
(*                                                                         *)
(* A ledger from before 0.2.0 identifies a tac by a string; a conversion,  *)
(* made while tabd is stopped, gives every such tac a UUID and makes the   *)
(* string its name.  After that the threads of tabd create and rename:     *)
(* every check is a SELECT of its own; the write is a transaction that     *)
(* only the unique index on name_key can stop.  The key is folded by the   *)
(* interpreter that writes it, and an upgrade may fold a name differently. *)
(***************************************************************************)
CONSTANTS
  Uuids,
  Names,    \* display names that check_name accepts; string ids are among them
  None,     \* no name
  Keys,
  Foldings, \* name_key, as the interpreters that may come to run compute it
  Nodes,    \* node ids, some of which are names a tac may be given
  Threads

ASSUME TacNamesAssumption ==
  /\ None \notin Names /\ None \notin Keys /\ None \notin Uuids
  /\ Uuids \cap Names = {}
  /\ Foldings \subseteq [Names -> Keys]
  /\ Foldings # {}

VARIABLES
  columns,  \* converted(con): tacs has name and name_key
  strings,  \* the rows of tacs whose tac_id is not a UUID
  name,     \* tacs.name of the UUID, or None without a row
  key,      \* tacs.name_key
  legacy,   \* tac_legacy_ids: the string it had before, or None
  olds,     \* tac_name_changes: the names recorded as old_name of a tac
  news,     \*                   and as new_name
  refs,     \* the tac ids in tac_members, messages and tac_links
  nodes,    \* the registered node ids
  fold,     \* name_key of the running interpreter
  at,       \* where each thread is
  tac,      \* the tac it renames, or the id it creates
  want,     \* the name it is to have
  saw,      \* the name the thread has read of it
  had       \* every name a UUID has had, for the properties

changes == <<olds, news>>
rows    == <<name, key, changes, had>>
ids     == <<columns, strings, legacy, refs>>
hands   == <<tac, want, saw>>
vars    == <<rows, ids, nodes, fold, at, hands>>

Ids     == Uuids \cup Names
Spots   == {"free", "row", "node", "taken", "insert", "update"}
Renamed == [Uuids -> SUBSET Names]

TypeOK ==
  /\ columns \in BOOLEAN
  /\ strings \in SUBSET Names
  /\ name  \in [Uuids -> Names \cup {None}]
  /\ key   \in [Uuids -> Keys \cup {None}]
  /\ legacy \in [Uuids -> Names \cup {None}]
  /\ olds  \in Renamed
  /\ news  \in Renamed
  /\ refs  \in SUBSET Ids
  /\ nodes \in SUBSET Nodes
  /\ fold  \in Foldings
  /\ at    \in [Threads -> Spots]
  /\ tac   \in [Threads -> Ids \cup {None}]
  /\ want  \in [Threads -> Names \cup {None}]
  /\ saw   \in [Threads -> Names \cup {None}]
  /\ had   \in Renamed

\* A ledger of 0.2.0 or of a release before it.
Init ==
  /\ columns \in BOOLEAN
  /\ strings = {} /\ refs = {} /\ nodes = {}
  /\ name   = [i \in Uuids |-> None]
  /\ key    = [i \in Uuids |-> None]
  /\ legacy = [i \in Uuids |-> None]
  /\ olds   = [i \in Uuids |-> {}]
  /\ news   = [i \in Uuids |-> {}]
  /\ had    = [i \in Uuids |-> {}]
  /\ fold \in Foldings
  /\ at   = [t \in Threads |-> "free"]
  /\ tac  = [t \in Threads |-> None]
  /\ want = [t \in Threads |-> None]
  /\ saw  = [t \in Threads |-> None]

Exists(i) == name[i] # None

\* The rows of tacs.
Rows == strings \cup {i \in Uuids : Exists(i)}

Stopped == \A t \in Threads : at[t] = "free"

-----------------------------------------------------------------------------
(* A request.                                                              *)

Goes(t, spot) == at' = [at EXCEPT ![t] = spot]

Asks(t, i, n) ==
  /\ at[t] = "free"
  /\ tac' = [tac EXCEPT ![t] = i]
  /\ want' = [want EXCEPT ![t] = n]
  /\ UNCHANGED <<rows, ids, nodes, fold, saw>>

Ends(t) ==
  /\ Goes(t, "free")
  /\ tac' = [tac EXCEPT ![t] = None]
  /\ want' = [want EXCEPT ![t] = None]
  /\ saw' = [saw EXCEPT ![t] = None]

\* tac_create on the UUID scheme.  The UUID is drawn until nobody has it.
StartCreate(t, n) ==
  /\ columns /\ strings = {}
  /\ \E i \in Uuids : /\ ~Exists(i)
                      /\ \A r \in Threads : tac[r] # i
                      /\ Asks(t, i, n)
  /\ Goes(t, "node")

\* tac_create before the conversion: the string sent is the id.
StartString(t, n) == ~columns /\ Asks(t, n, n) /\ Goes(t, "node")

\* tac_rename, of any UUID.
StartRename(t, i, n) == columns /\ strings = {} /\ Asks(t, i, n) /\ Goes(t, "row")

\* The tac to rename has a row.
ReadRow(t) ==
  /\ at[t] = "row"
  /\ Exists(tac[t])
  /\ saw' = [saw EXCEPT ![t] = name[tac[t]]]
  /\ Goes(t, "node")
  /\ UNCHANGED <<rows, ids, nodes, fold, tac, want>>

\* The name is not that of a node.
CheckNode(t) ==
  /\ at[t] = "node"
  /\ want[t] \notin nodes
  /\ Goes(t, "taken")
  /\ UNCHANGED <<rows, ids, nodes, fold, hands>>

RawName(n) == n

\* name_key
Folded(n) == fold[n]

ExactName(n) == {i \in Uuids : name[i] = n}

\* The tac that holds the name: the folded keys are compared.
Holder(n) == {i \in Uuids : Exists(i) /\ key[i] = Folded(n)}

\* The name, or the string id, is not another's: what the SELECT before the write
\* asks, and what ux_tacs_name_key and the primary key ask again.
Unique(t) == IF tac[t] \in Uuids THEN Holder(want[t]) \subseteq {tac[t]} ELSE tac[t] \notin strings

\* Creating comes from no row, renaming from one.
CheckTaken(t) ==
  /\ at[t] = "taken"
  /\ Unique(t)
  /\ Goes(t, IF saw[t] = None THEN "insert" ELSE "update")
  /\ UNCHANGED <<rows, ids, nodes, fold, hands>>

\* The row of a UUID as the write leaves it.
Named(t) ==
  /\ tac[t] \in Uuids
  /\ Unique(t)
  /\ name' = [name EXCEPT ![tac[t]] = want[t]]
  /\ key' = [key EXCEPT ![tac[t]] = Folded(want[t])]
  /\ had' = [had EXCEPT ![tac[t]] = @ \cup {want[t]}]
  /\ Ends(t)
  /\ UNCHANGED <<ids, nodes, fold>>

Insert(t) ==
  /\ at[t] = "insert"
  /\ Named(t)
  /\ UNCHANGED changes

InsertString(t) ==
  /\ at[t] = "insert"
  /\ tac[t] \in Names
  /\ Unique(t)
  /\ strings' = strings \cup {tac[t]}
  /\ Ends(t)
  /\ UNCHANGED <<rows, columns, legacy, refs, nodes, fold>>

KeyChanged(t) == fold[saw[t]] # fold[want[t]]

\* A rename that changes nothing leaves no record.
NameChanged(t) == saw[t] # want[t]

Update(t) ==
  /\ at[t] = "update"
  /\ Named(t)
  /\ IF NameChanged(t)
       THEN /\ olds' = [olds EXCEPT ![tac[t]] = @ \cup {saw[t]}]
            /\ news' = [news EXCEPT ![tac[t]] = @ \cup {want[t]}]
       ELSE UNCHANGED changes

\* Refused, or ended by an exception: IntegrityError of the index among them.
GiveUp(t) ==
  /\ at[t] # "free"
  /\ Ends(t)
  /\ UNCHANGED <<rows, ids, nodes, fold>>

Request(t) ==
  \/ \E n \in Names : \/ StartCreate(t, n) \/ StartString(t, n)
                      \/ \E i \in Uuids : StartRename(t, i, n)
  \/ ReadRow(t) \/ CheckNode(t) \/ CheckTaken(t)
  \/ Insert(t) \/ InsertString(t) \/ Update(t) \/ GiveUp(t)

\* bus_register and a purge: neither looks at the tacs.
Register(n) ==
  /\ nodes' \in {nodes \cup {n}, nodes \ {n}}
  /\ UNCHANGED <<rows, ids, fold, at, hands>>

\* A message to the tac, a member or a link.
Refer(i) ==
  /\ i \in Rows
  /\ refs' = refs \cup {i}
  /\ UNCHANGED <<rows, columns, strings, legacy, nodes, fold, at, hands>>

\* tabd is stopped, and starts under another interpreter.
Upgrade ==
  /\ fold' \in Foldings
  /\ at' = [t \in Threads |-> "free"]
  /\ tac' = [t \in Threads |-> None]
  /\ want' = [t \in Threads |-> None]
  /\ saw' = [t \in Threads |-> None]
  /\ UNCHANGED <<rows, ids, nodes>>

\* A release before 0.2.0, run on the converted ledger after a rollback, creates a tac.
CreateRolledBack(n) ==
  /\ Stopped /\ columns
  /\ strings' = strings \cup {n}
  /\ UNCHANGED <<rows, columns, legacy, refs, nodes, fold, at, hands>>

-----------------------------------------------------------------------------
(* The conversion, on a copy that replaces the ledger if all of it passed. *)

Unkeyed == {i \in Uuids : Exists(i) /\ key[i] = None}

\* key_mismatches: the rows whose key this interpreter would not produce.
Mismatched == {i \in Uuids : Exists(i) /\ key[i] # fold[name[i]]}

\* plan, where c gives every string the name that its tac is to have: itself, or what
\* the operator says instead.
Plan(c) ==
  /\ Mismatched = {}
  /\ \A r, s \in strings : Folded(c[r]) = Folded(c[s]) => r = s
  /\ \A s \in strings : Holder(c[s]) = {}
  /\ refs \subseteq Rows

NotRewritten(was) == refs

\* The references, each string replaced by the UUID that stands for it.
Rewritten(was) == {i \in Uuids : i \in refs \/ was[i] \in refs}

AnyOldId == TRUE

\* The primary key of tac_legacy_ids lets every string be recorded.
OldIdsFresh == \A i \in Uuids : legacy[i] \notin strings

\* convert, where was gives each UUID it draws the string it replaces.
Convert(c, was) ==
  /\ Stopped
  /\ Plan(c)
  /\ \A s \in strings : \E i \in Uuids : was[i] = s
  /\ \A i, j \in Uuids : was[i] = was[j] /\ was[i] # None => i = j
  /\ \A i \in Uuids : was[i] # None => ~Exists(i)
  /\ OldIdsFresh
  /\ columns' = TRUE
  /\ strings' = {}
  /\ name' = [i \in Uuids |-> IF was[i] = None THEN name[i] ELSE c[was[i]]]
  /\ key' = [i \in Uuids |-> IF was[i] = None THEN key[i] ELSE Folded(c[was[i]])]
  /\ legacy' = [i \in Uuids |-> IF was[i] = None THEN legacy[i] ELSE was[i]]
  /\ had' = [i \in Uuids |-> IF was[i] = None THEN had[i] ELSE {c[was[i]]}]
  /\ refs' = Rewritten(was)
  /\ UNCHANGED <<changes, nodes, fold, at, hands>>

Migrate == \E c \in [strings -> Names], was \in [Uuids -> strings \cup {None}] : Convert(c, was)

-----------------------------------------------------------------------------
Next ==
  \/ \E t \in Threads : Request(t)
  \/ \E n \in Nodes : Register(n)
  \/ \E i \in Ids : Refer(i)
  \/ \E n \in Names : CreateRolledBack(n)
  \/ Upgrade
  \/ Migrate

Spec == Init /\ [][Next]_vars

-----------------------------------------------------------------------------
(* Properties.                                                             *)

\* "Names are unique on the folded key": what a lookup finds is at most one row,
\* though the check and the write are apart.
UniqueKeys == \A i, j \in Uuids : Exists(i) /\ Exists(j) /\ key[i] = key[j] => i = j

\* If two tacs have names that are one name to this interpreter, whatever other
\* interpreter let them in, the startup report lists at least one of the two.
DuplicatesReported ==
  \A i, j \in Uuids : Exists(i) /\ Exists(j) /\ fold[name[i]] = fold[name[j]]
                        => i = j \/ i \in Mismatched \/ j \in Mismatched

\* No name is forgotten: each a tac has had is its name now, or is in its history,
\* although a rename records the name it read and not the one it replaces.
NamesRecorded ==
  \A i \in Uuids : had[i] \subseteq {name[i]} \cup olds[i] \cup news[i]

\* Mail, members and links stay with their tac through a conversion.
ReferencesFollow ==
  [][\A r \in refs : \/ r \in refs' /\ r \in Rows'
                     \/ \E i \in refs' \cap Uuids : legacy[i] # r /\ legacy'[i] = r /\ Exists(i)']_vars

\* The string in an old letter leads to one tac, through any number of rollbacks.
OldLettersRead == \A i, j \in Uuids : legacy[i] = legacy[j] /\ legacy[i] # None => i = j

-----------------------------------------------------------------------------
(* The tacs without the threads: what is told of each of them.             *)

\* The names its row and its history tell.
Recalled(i) == ({name[i]} \cup olds[i] \cup news[i]) \ {None}

Contract == INSTANCE TacContract WITH known <- [i \in Uuids |-> Recalled(i)]

\* However requests overlap and interpreters change, a tac is created, renamed and
\* converted in one moment each, under a name nobody else has then, and what its row
\* and its history tell of it grows by exactly that name.
KeepsContract == Contract!Spec
=============================================================================
