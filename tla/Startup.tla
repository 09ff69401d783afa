------------------------------ MODULE Startup ------------------------------
(***************************************************************************)
(* How tabd starts on a ledger: SCHEMA and migrate (src/tabus/bus.py),     *)
(* then init_extras and main (src/tabus/daemon.py).  Several processes may *)
(* be at it, one that is started again while another works or serves; an   *)
(* earlier release may still serve; and any of them may be stopped between *)
(* two statements.                                                         *)
(*                                                                         *)
(* Python's sqlite3 opens no transaction for CREATE, ALTER and DROP, so    *)
(* each statement commits by itself, and the columns of a table are read   *)
(* once, before the statements that add what is missing.  Only the rebuild *)
(* of deliveries is a transaction.  Left out: the tables no statement      *)
(* changes later, and idx_deliveries_pull, which is there for speed only.  *)
(***************************************************************************)
EXTENDS Sequences, Naturals

CONSTANTS
  Starters,    \* processes of this release that are started, and started again
  Mail,        \* deliveries
  Ledgers,     \* what the ledgers that a start may find hold
  None, Earlier

VARIABLES
  schema,    \* what the ledger holds: tables, columns, a constraint, indexes
  clash,     \* two live routes have one target: no unique index can be made
  rows,      \* the deliveries in the ledger
  lock,      \* the process in a write transaction
  port,      \* the process that has the port
  phase,     \* what a process is doing
  line,      \* its next statement
  have,      \* what it read of a table before altering it
  copy       \* the deliveries in the table it rebuilds

ledger == <<schema, clash, rows>>
vars   == <<ledger, lock, port, phase, line, have, copy>>

-----------------------------------------------------------------------------
(* The statements.                                                         *)

Table(t)     == <<t, "table">>
Column(t, c) == <<t, c>>
Index(t, x)  == <<t, x>>

Make(x)  == [do |-> "make", item |-> x]     \* CREATE ... IF NOT EXISTS
Look(t)  == [do |-> "look", item |-> Table(t)]     \* PRAGMA table_info
Add(x)   == [do |-> "add",  item |-> x]     \* if it was missing: ALTER TABLE ADD COLUMN
Shed(x)  == [do |-> "shed", item |-> x]     \* DROP IF EXISTS
Try(x)   == [do |-> "try",  item |-> x]     \* if it was there: DROP COLUMN, may fail
Named(x) == [do |-> "named", item |-> x]    \* CREATE, if the tacs had names
Check    == [do |-> "check", item |-> Column("deliveries", "QUARANTINED")]

TacIndex    == Index("messages", "idx_messages_tac")
OwnerIndex  == Index("tab_routes", "ux_tab_routes_target_active")
NameIndex   == Index("tacs", "ux_tacs_name_key")
Quarantine  == Column("deliveries", "QUARANTINED")
Names       == {Column("tacs", "name"), Column("tacs", "name_key")}

IndexFirstBug ==
  <<Make(Table("nodes")), Make(Table("tacs")), Make(Table("messages")), Make(TacIndex),
    Make(Table("deliveries")), Make(Table("tab_routes"))>>

\* SCHEMA, as far as later statements meet it.
Base ==
  <<Make(Table("nodes")), Make(Table("tacs")), Make(Table("messages")),
    Make(Table("deliveries")), Make(Table("tab_routes"))>>

Keys == <<Shed(Table("node_tokens")), Make(Table("key_rotations"))>>

OfNodes ==
  <<Look("nodes"),
    Add(Column("nodes", "owner_email")), Add(Column("nodes", "owner_email_verified")),
    Add(Column("nodes", "node_pubkey")), Add(Column("nodes", "dnd")),
    Add(Column("nodes", "snooze_until")), Add(Column("nodes", "is_team")),
    Add(Column("nodes", "is_program"))>>

OfMessages ==
  <<Look("messages"),
    Add(Column("messages", "tac_id")), Add(Column("messages", "broadcast")),
    Make(TacIndex)>>

OfTacs ==
  <<Look("tacs"),
    Add(Column("tacs", "closed_at")), Add(Column("tacs", "close_summary")),
    Add(Column("tacs", "closed_by")), Try(Column("tacs", "prev_tac_id")),
    Named(NameIndex), Named(Table("tac_name_changes")), Named(Table("tac_legacy_ids"))>>

OfRoutes ==
  <<Look("tab_routes"),
    Add(Column("tab_routes", "host_id")), Add(Column("tab_routes", "provenance_verified")),
    Add(Column("tab_routes", "auto_enter")),
    Make(OwnerIndex)>>

LateBlockBug == Base \o Keys \o OfNodes \o OfMessages \o OfTacs \o <<Check>> \o OfRoutes

NoCheckBug == Base \o Keys \o OfNodes \o OfMessages \o OfTacs \o OfRoutes

\* migrate returns at the check of deliveries when there is nothing to rebuild.
Script == Base \o Keys \o OfNodes \o OfMessages \o OfTacs \o OfRoutes \o <<Check>>

-----------------------------------------------------------------------------

Added == {Column("nodes", "owner_email"), Column("nodes", "owner_email_verified"),
          Column("nodes", "node_pubkey"), Column("nodes", "dnd"),
          Column("nodes", "snooze_until"), Column("nodes", "is_team"),
          Column("nodes", "is_program"),
          Column("messages", "tac_id"), Column("messages", "broadcast"),
          Column("tacs", "closed_at"), Column("tacs", "close_summary"),
          Column("tacs", "closed_by"),
          Column("tab_routes", "host_id"), Column("tab_routes", "provenance_verified"),
          Column("tab_routes", "auto_enter")}

Tables == {Table(t) : t \in {"nodes", "tacs", "messages", "deliveries", "tab_routes",
             "node_tokens", "key_rotations", "mailbox_opens", "tac_name_changes",
             "tac_legacy_ids"}}

Items == Tables \cup Added \cup Names
           \cup {Quarantine, Column("tacs", "prev_tac_id"), TacIndex, OwnerIndex, NameIndex}

ASSUME LedgersAssumption == Ledgers \subseteq SUBSET Items
ASSUME NamesAssumption == None # Earlier /\ {None, Earlier} \cap Starters = {}

Phases == {"off", "script", "rebuild", "copying", "copied", "extras", "bind", "serves"}

TypeOK ==
  /\ schema \in SUBSET Items /\ clash \in BOOLEAN /\ rows \in SUBSET Mail
  /\ lock \in Starters \cup {None}
  /\ port \in Starters \cup {None, Earlier}
  /\ phase \in [Starters -> Phases]
  /\ line \in [Starters -> 1..Len(Script)]
  /\ have \in [Starters -> SUBSET Items]
  /\ copy \in [Starters -> SUBSET Mail]

\* An earlier release serves only what it has made.
Init ==
  /\ schema \in Ledgers
  /\ clash \in (IF Table("tab_routes") \in schema /\ OwnerIndex \notin schema
                  THEN BOOLEAN ELSE {FALSE})
  /\ rows = {}
  /\ lock = None
  /\ port \in (IF Table("deliveries") \in schema THEN {None, Earlier} ELSE {None})
  /\ phase = [p \in Starters |-> "off"]
  /\ line = [p \in Starters |-> 1]
  /\ have = [p \in Starters |-> {}]
  /\ copy = [p \in Starters |-> {}]

-----------------------------------------------------------------------------
(* A process.                                                              *)

Now(p) == Script[line[p]]

At(p, do) == phase[p] = "script" /\ Now(p).do = do

Goes(p, where, n, read, rebuilt) ==
  /\ phase' = [phase EXCEPT ![p] = where]
  /\ line'  = [line EXCEPT ![p] = n]
  /\ have'  = [have EXCEPT ![p] = read]
  /\ copy'  = [copy EXCEPT ![p] = rebuilt]

Enters(p, where) == Goes(p, where, line[p], have[p], copy[p])

\* The last line is the check, which goes elsewhere.
Continues(p, read) == Goes(p, "script", line[p] + 1, read, {})

\* The process ends, and what it had not committed is rolled back.
Ends(p) ==
  /\ Goes(p, "off", 1, {}, {})
  /\ lock' = IF lock = p THEN None ELSE lock
  /\ port' = IF port = p THEN None ELSE port

\* What CREATE makes: a table with all its columns of today.
Made(x) ==
  {x} \cup {c \in Added \cup Names \cup {Quarantine} : x = Table(c[1])}

\* An index needs its columns, and a unique one rows that differ.
Possible(x) ==
  /\ x = TacIndex => Column("messages", "tac_id") \in schema
  /\ x = OwnerIndex => Column("tab_routes", "host_id") \in schema /\ ~clash

\* connect and executescript.
Start(p) ==
  /\ phase[p] = "off"
  /\ Goes(p, "script", 1, {}, {})
  /\ UNCHANGED <<ledger, lock, port>>

Changes(p, items) ==
  /\ lock = None
  /\ schema' = items
  /\ Continues(p, have[p])
  /\ UNCHANGED <<clash, rows, lock, port>>

Skips(p) ==
  /\ Continues(p, have[p])
  /\ UNCHANGED <<ledger, lock, port>>

Creates(p) ==
  LET x == Now(p).item IN
  /\ At(p, "make") \/ (At(p, "named") /\ Names \subseteq have[p])
  /\ \/ x \in schema /\ Skips(p)
     \/ x \notin schema /\ Possible(x) /\ Changes(p, schema \cup Made(x))

CreatesNoNames(p) ==
  /\ At(p, "named") /\ ~(Names \subseteq have[p])
  /\ Skips(p)

Looks(p) ==
  /\ At(p, "look")
  /\ Continues(p, {x \in schema : x[1] = Now(p).item[1]})
  /\ UNCHANGED <<ledger, lock, port>>

Adds(p) ==
  LET x == Now(p).item IN
  /\ At(p, "add")
  /\ \/ x \in have[p] /\ Skips(p)
     \/ x \notin have[p] /\ x \notin schema /\ Changes(p, schema \cup {x})

Drops(p) ==
  LET x == Now(p).item IN
  \/ At(p, "shed") /\ x \in schema /\ Changes(p, schema \ {x})
  \/ At(p, "shed") /\ x \notin schema /\ Skips(p)
  \/ At(p, "try") /\ x \in have[p] /\ Changes(p, schema \ {x})
  \/ At(p, "try") /\ Skips(p)

\* An exception ends the process: "no such column" or a row twice in a unique index,
\* and "duplicate column" when another process has added it since.
Fails(p) ==
  LET x == Now(p).item IN
  /\ \/ At(p, "make") /\ x \notin schema /\ ~Possible(x)
     \/ At(p, "add") /\ x \notin have[p] /\ x \in schema
  /\ Ends(p)
  /\ UNCHANGED ledger

-----------------------------------------------------------------------------
(* The rebuild of deliveries: BEGIN, RENAME, CREATE, INSERT, DROP, COMMIT. *)

Checks(p) ==
  /\ At(p, "check")
  /\ Enters(p, IF Quarantine \in schema THEN "extras" ELSE "rebuild")
  /\ UNCHANGED <<ledger, lock, port>>

Renames(p) ==
  /\ phase[p] = "rebuild" /\ lock = None
  /\ lock' = p
  /\ Enters(p, "copying")
  /\ UNCHANGED <<ledger, port>>

Copies(p) ==
  /\ phase[p] = "copying"
  /\ Goes(p, "copied", line[p], have[p], rows)
  /\ UNCHANGED <<ledger, lock, port>>

Commits(p) ==
  /\ phase[p] = "copied"
  /\ schema' = schema \cup {Quarantine}
  /\ rows' = copy[p]
  /\ lock' = None
  /\ Goes(p, "extras", line[p], have[p], {})
  /\ UNCHANGED <<clash, port>>

-----------------------------------------------------------------------------
(* init_extras, main, and the service.                                     *)

Extras(p) ==
  /\ phase[p] = "extras"
  /\ lock = None \/ Table("mailbox_opens") \in schema
  /\ schema' = schema \cup {Table("mailbox_opens")}
  /\ Enters(p, "bind")
  /\ UNCHANGED <<clash, rows, lock, port>>

\* The port is taken last; a process that finds it taken ends.
Binds(p) ==
  /\ phase[p] = "bind"
  /\ IF port = None
     THEN port' = p /\ Enters(p, "serves") /\ UNCHANGED lock
     ELSE Ends(p)
  /\ UNCHANGED ledger

\* Whoever has the port stores what is sent, whatever others do to the ledger.
Stores(d) ==
  /\ port # None /\ lock = None
  /\ rows' = rows \cup {d}
  /\ UNCHANGED <<schema, clash, lock, port, phase, line, have, copy>>

EarlierStops ==
  /\ port = Earlier
  /\ port' = None
  /\ UNCHANGED <<ledger, lock, phase, line, have, copy>>

NoBeginBug(p) == IF phase[p] = "copying" THEN {} ELSE rows

\* A process that is stopped in the rebuild leaves the table it found.
Left(p) == rows

\* Stopped, or out of patience with a lock (busy_timeout).
Crash(p) ==
  /\ phase[p] # "off"
  /\ rows' = Left(p)
  /\ Ends(p)
  /\ UNCHANGED <<schema, clash>>

Works(p) ==
  \/ Creates(p) \/ CreatesNoNames(p) \/ Looks(p) \/ Adds(p) \/ Drops(p) \/ Fails(p)
  \/ Checks(p) \/ Renames(p) \/ Copies(p) \/ Commits(p)
  \/ Extras(p) \/ Binds(p)

Next ==
  \/ \E p \in Starters : Start(p) \/ Works(p) \/ Crash(p)
  \/ \E d \in Mail : Stores(d)
  \/ EarlierStops

Spec == Init /\ [][Next]_vars

-----------------------------------------------------------------------------
(* Properties.                                                             *)

\* What the requests of this release read and write, beyond the tables.
Needed == Added \cup {Quarantine, OwnerIndex, TacIndex, Table("key_rotations"),
                      Table("mailbox_opens")}

\* "A migration placed after [the early return] would never run on exactly the
\* installations that need it": whatever ledger a process found, and whoever
\* else was starting, when it serves there is all its requests need, names come
\* with their index and history, and node_tokens is gone.
ServesWhole ==
  \A p \in Starters : phase[p] = "serves" =>
    /\ Needed \subseteq schema
    /\ Names \subseteq schema =>
         {NameIndex, Table("tac_name_changes"), Table("tac_legacy_ids")} \subseteq schema
    /\ Table("node_tokens") \notin schema

Scheme == IF Table("tacs") \notin schema THEN "none"
          ELSE IF Names \subseteq schema THEN "uuids" ELSE "strings"

Upgrade == INSTANCE UpgradeContract
             WITH scheme <- Scheme, widened <- Quarantine \in schema

\* "Existing ledgers without identity columns stay untouched", and the rebuild
\* copies the rows across: no start, crash or overlap takes mail away or moves
\* tacs to another scheme.
KeepsLedger == Upgrade!Spec

-----------------------------------------------------------------------------
(* Progress.  tabd is started again when it has ended, the earlier release *)
(* is stopped, statements end, and at some time no process is stopped      *)
(* from outside any more.  An exception, or a port that is taken, is no    *)
(* stop of this kind.                                                      *)

Stopped(p) == Crash(p) /\ ~Works(p)

Fairness ==
  /\ \A p \in Starters : WF_vars(Start(p)) /\ WF_vars(Works(p))
  /\ WF_vars(EarlierStops)
  /\ <>[][\A p \in Starters : ~Stopped(p)]_vars

FairSpec == Spec /\ Fairness

\* Whatever an upgrade was stopped at, restarting tabd brings it to its end and
\* to service, unless two live routes have one target.
GetsUp == ~clash => <>[](\E p \in Starters : phase[p] = "serves")
=============================================================================
