--------------------------- MODULE Startup_proofs ---------------------------
(* Proofs about Startup, for any processes, mail and older ledgers.        *)
EXTENDS Startup, TLAPS

LEMMA LinesAre ==
  /\ Len(Script) = 33
  /\ Script[1] = Make(Table("nodes"))
  /\ Script[2] = Make(Table("tacs"))
  /\ Script[3] = Make(Table("messages"))
  /\ Script[4] = Make(Table("deliveries"))
  /\ Script[5] = Make(Table("tab_routes"))
  /\ Script[6] = Shed(Table("node_tokens"))
  /\ Script[7] = Make(Table("key_rotations"))
  /\ Script[8] = Look("nodes")
  /\ Script[9] = Add(Column("nodes", "owner_email"))
  /\ Script[10] = Add(Column("nodes", "owner_email_verified"))
  /\ Script[11] = Add(Column("nodes", "node_pubkey"))
  /\ Script[12] = Add(Column("nodes", "dnd"))
  /\ Script[13] = Add(Column("nodes", "snooze_until"))
  /\ Script[14] = Add(Column("nodes", "is_team"))
  /\ Script[15] = Add(Column("nodes", "is_program"))
  /\ Script[16] = Look("messages")
  /\ Script[17] = Add(Column("messages", "tac_id"))
  /\ Script[18] = Add(Column("messages", "broadcast"))
  /\ Script[19] = Make(TacIndex)
  /\ Script[20] = Look("tacs")
  /\ Script[21] = Add(Column("tacs", "closed_at"))
  /\ Script[22] = Add(Column("tacs", "close_summary"))
  /\ Script[23] = Add(Column("tacs", "closed_by"))
  /\ Script[24] = Try(Column("tacs", "prev_tac_id"))
  /\ Script[25] = Named(NameIndex)
  /\ Script[26] = Named(Table("tac_name_changes"))
  /\ Script[27] = Named(Table("tac_legacy_ids"))
  /\ Script[28] = Look("tab_routes")
  /\ Script[29] = Add(Column("tab_routes", "host_id"))
  /\ Script[30] = Add(Column("tab_routes", "provenance_verified"))
  /\ Script[31] = Add(Column("tab_routes", "auto_enter"))
  /\ Script[32] = Make(OwnerIndex)
  /\ Script[33] = Check
  BY DEF Script, Base, Keys, OfNodes, OfMessages, OfTacs, OfRoutes

USE DEF Table, Column, Index

\* What a statement is by its line.
LEMMA Kinds ==
  ASSUME NEW i \in 1..Len(Script)
  PROVE  /\ Script[i].item \in Items
         /\ Script[i].do = "check" <=> i = 33
         /\ Script[i].do = "add" => Script[i].item \in Added
         /\ Script[i].do = "shed" => Script[i].item = Table("node_tokens")
         /\ Script[i].do = "try" => Script[i].item = Column("tacs", "prev_tac_id")
         /\ Script[i].do = "named" => i \in 25..27
         /\ Script[i].do = "look" => i \in {8, 16, 20, 28}
         /\ Script[i].do \in {"make", "named"} =>
              Script[i].item \in {Table(t) : t \in {"nodes", "tacs", "messages", "deliveries",
                                  "tab_routes", "key_rotations", "tac_name_changes",
                                  "tac_legacy_ids"}} \cup {TacIndex, OwnerIndex, NameIndex}
<1>1. i \in 1..33
  BY LinesAre
<1>2. CASE i \in 1..7
  BY <1>2, LinesAre DEF Make, Shed, Items, Tables
<1>3. CASE i \in 8..19
  BY <1>3, LinesAre DEF Make, Look, Add, Items, Tables, Added
<1>4. CASE i \in 20..27
  BY <1>4, LinesAre DEF Look, Add, Try, Named, Items, Tables, Added
<1>5. CASE i \in 28..33
  BY <1>5, LinesAre DEF Make, Look, Add, Check, Items, Tables, Added, Quarantine
<1>. QED
  BY <1>1, <1>2, <1>3, <1>4, <1>5

-----------------------------------------------------------------------------
(* Types.                                                                  *)

LEMMA MadeAreItems ==
  ASSUME NEW x \in Items
  PROVE  Made(x) \subseteq Items
  BY DEF Made, Items

LEMMA GoesTypes ==
  ASSUME TypeOK, NEW p \in Starters, NEW where \in Phases, NEW n \in 1..Len(Script),
         NEW read \in SUBSET Items, NEW rebuilt \in SUBSET Mail,
         Goes(p, where, n, read, rebuilt)
  PROVE  /\ phase' \in [Starters -> Phases]
         /\ line' \in [Starters -> 1..Len(Script)]
         /\ have' \in [Starters -> SUBSET Items]
         /\ copy' \in [Starters -> SUBSET Mail]
  BY DEF Goes, TypeOK

LEMMA NextLine ==
  ASSUME TypeOK, NEW p \in Starters, Now(p).do # "check"
  PROVE  line[p] \in 1..32 /\ line[p] + 1 \in 1..Len(Script)
<1>1. line[p] \in 1..33
  BY LinesAre DEF TypeOK
<1>2. line[p] # 33
  BY <1>1, LinesAre, Kinds DEF Now
<1>. QED
  BY <1>1, <1>2, LinesAre

LEMMA TypesStay ==
  ASSUME TypeOK, [Next]_vars
  PROVE  TypeOK'
<1>. USE DEF Phases
<1>1. ASSUME NEW p \in Starters, Ends(p), UNCHANGED <<schema, clash>>, rows' \in SUBSET Mail
      PROVE  TypeOK'
  <2>1. 1 \in 1..Len(Script)
    BY LinesAre
  <2>2. "off" \in Phases /\ {} \in SUBSET Items /\ {} \in SUBSET Mail
    OBVIOUS
  <2>3. /\ phase' \in [Starters -> Phases] /\ line' \in [Starters -> 1..Len(Script)]
        /\ have' \in [Starters -> SUBSET Items] /\ copy' \in [Starters -> SUBSET Mail]
    BY <1>1, <2>1, <2>2, GoesTypes DEF Ends
  <2>. QED
    BY <1>1, <2>3 DEF Ends, TypeOK
<1>2. ASSUME NEW p \in Starters, NEW read \in SUBSET Items, Now(p).do # "check",
             Continues(p, read), schema' \in SUBSET Items, UNCHANGED <<clash, rows, lock, port>>
      PROVE  TypeOK'
  <2>1. line[p] + 1 \in 1..Len(Script) /\ "script" \in Phases /\ {} \in SUBSET Mail
    BY <1>2, NextLine
  <2>2. /\ phase' \in [Starters -> Phases] /\ line' \in [Starters -> 1..Len(Script)]
        /\ have' \in [Starters -> SUBSET Items] /\ copy' \in [Starters -> SUBSET Mail]
    BY <1>2, <2>1, GoesTypes DEF Continues
  <2>. QED
    BY <1>2, <2>2 DEF TypeOK
<1>3. ASSUME NEW p \in Starters, NEW where \in Phases, NEW rebuilt \in SUBSET Mail,
             Goes(p, where, line[p], have[p], rebuilt),
             schema' \in SUBSET Items, clash' = clash, rows' \in SUBSET Mail,
             lock' \in Starters \cup {None}, port' \in Starters \cup {None, Earlier}
      PROVE  TypeOK'
  <2>1. line[p] \in 1..Len(Script) /\ have[p] \in SUBSET Items
    BY DEF TypeOK
  <2>2. /\ phase' \in [Starters -> Phases] /\ line' \in [Starters -> 1..Len(Script)]
        /\ have' \in [Starters -> SUBSET Items] /\ copy' \in [Starters -> SUBSET Mail]
    BY <1>3, <2>1, GoesTypes
  <2>. QED
    BY <1>3, <2>2 DEF TypeOK
<1>4. ASSUME NEW p \in Starters PROVE have[p] \in SUBSET Items /\ copy[p] \in SUBSET Mail
                                      /\ Now(p).item \in Items
  BY Kinds DEF TypeOK, Now
<1>5. ASSUME NEW p \in Starters, Start(p) PROVE TypeOK'
  <2>1. 1 \in 1..Len(Script) /\ "script" \in Phases /\ {} \in SUBSET Items /\ {} \in SUBSET Mail
    BY LinesAre
  <2>2. /\ phase' \in [Starters -> Phases] /\ line' \in [Starters -> 1..Len(Script)]
        /\ have' \in [Starters -> SUBSET Items] /\ copy' \in [Starters -> SUBSET Mail]
    BY <1>5, <2>1, GoesTypes DEF Start
  <2>. QED
    BY <1>5, <2>2 DEF Start, ledger, TypeOK
<1>6. ASSUME NEW p \in Starters, Skips(p), Now(p).do # "check" PROVE TypeOK'
  BY <1>2, <1>4, <1>6 DEF Skips, ledger, TypeOK
<1>7. ASSUME NEW p \in Starters, NEW items \in SUBSET Items, Changes(p, items),
             Now(p).do # "check"
      PROVE  TypeOK'
  BY <1>2, <1>4, <1>7 DEF Changes
<1>8. ASSUME NEW p \in Starters, Creates(p) PROVE TypeOK'
  <2>1. schema \cup Made(Now(p).item) \in SUBSET Items
    BY <1>4, MadeAreItems DEF TypeOK
  <2>2. Now(p).do # "check"
    BY <1>8 DEF Creates, At
  <2>. QED
    BY <1>6, <1>7, <1>8, <2>1, <2>2 DEF Creates
<1>9. ASSUME NEW p \in Starters, CreatesNoNames(p) PROVE TypeOK'
  BY <1>6, <1>9 DEF CreatesNoNames, At
<1>10. ASSUME NEW p \in Starters, Looks(p) PROVE TypeOK'
  <2>1. {x \in schema : x[1] = Now(p).item[1]} \in SUBSET Items /\ schema \in SUBSET Items
    BY DEF TypeOK
  <2>. QED
    BY <1>2, <1>10, <2>1 DEF Looks, At, ledger
<1>11. ASSUME NEW p \in Starters, Adds(p) PROVE TypeOK'
  <2>1. schema \cup {Now(p).item} \in SUBSET Items
    BY <1>4 DEF TypeOK
  <2>2. Now(p).do # "check"
    BY <1>11 DEF Adds, At
  <2>. QED
    BY <1>6, <1>7, <1>11, <2>1, <2>2 DEF Adds
<1>12. ASSUME NEW p \in Starters, Drops(p) PROVE TypeOK'
  <2>1. schema \ {Now(p).item} \in SUBSET Items
    BY DEF TypeOK
  <2>2. Now(p).do # "check"
    BY <1>12 DEF Drops, At
  <2>. QED
    BY <1>6, <1>7, <1>12, <2>1, <2>2 DEF Drops
<1>13. ASSUME NEW p \in Starters, Fails(p) PROVE TypeOK'
  BY <1>1, <1>13 DEF Fails, ledger, TypeOK
<1>14. ASSUME NEW p \in Starters, Checks(p) PROVE TypeOK'
  <2>1. (IF Quarantine \in schema THEN "extras" ELSE "rebuild") \in Phases
    OBVIOUS
  <2>. QED
    BY <1>3, <1>4, <1>14, <2>1 DEF Checks, Enters, ledger, TypeOK
<1>15. ASSUME NEW p \in Starters, Renames(p) PROVE TypeOK'
  <2>1. "copying" \in Phases
    OBVIOUS
  <2>. QED
    BY <1>3, <1>4, <1>15, <2>1 DEF Renames, Enters, ledger, TypeOK
<1>16. ASSUME NEW p \in Starters, Copies(p) PROVE TypeOK'
  <2>1. "copied" \in Phases /\ rows \in SUBSET Mail
    BY DEF TypeOK
  <2>. QED
    BY <1>3, <1>16, <2>1 DEF Copies, ledger, TypeOK
<1>17. ASSUME NEW p \in Starters, Commits(p) PROVE TypeOK'
  <2>1. "extras" \in Phases /\ {} \in SUBSET Mail /\ schema \cup {Quarantine} \in SUBSET Items
    BY DEF TypeOK, Items
  <2>. QED
    BY <1>3, <1>4, <1>17, <2>1 DEF Commits, TypeOK
<1>18. ASSUME NEW p \in Starters, Extras(p) PROVE TypeOK'
  <2>1. "bind" \in Phases /\ schema \cup {Table("mailbox_opens")} \in SUBSET Items
    BY DEF TypeOK, Items, Tables
  <2>. QED
    BY <1>3, <1>4, <1>18, <2>1 DEF Extras, Enters, TypeOK
<1>19. ASSUME NEW p \in Starters, Binds(p) PROVE TypeOK'
  <2>1. CASE port = None
    <3>1. "serves" \in Phases
      OBVIOUS
    <3>. QED
      BY <1>3, <1>4, <1>19, <2>1, <3>1 DEF Binds, Enters, ledger, TypeOK
  <2>2. CASE port # None
    BY <1>1, <1>19, <2>2 DEF Binds, ledger, TypeOK
  <2>. QED
    BY <2>1, <2>2
<1>20. ASSUME NEW p \in Starters, Crash(p) PROVE TypeOK'
  BY <1>1, <1>20 DEF Crash, Left, TypeOK
<1>21. ASSUME NEW d \in Mail, Stores(d) PROVE TypeOK'
  BY <1>21 DEF Stores, TypeOK
<1>22. CASE EarlierStops \/ UNCHANGED vars
  BY <1>22 DEF EarlierStops, vars, ledger, TypeOK
<1>. QED
  BY <1>5, <1>8, <1>9, <1>10, <1>11, <1>12, <1>13, <1>14, <1>15, <1>16, <1>17, <1>18, <1>19,
     <1>20, <1>21, <1>22 DEF Next, Works

\* The schema, the rows, the lock, the port and what each process holds keep their types.
THEOREM TypeCorrect == Spec => []TypeOK
<1>1. ASSUME Init PROVE TypeOK
  <2>1. schema \in SUBSET Items
    BY <1>1, LedgersAssumption DEF Init
  <2>2. clash \in BOOLEAN /\ port \in Starters \cup {None, Earlier}
    BY <1>1 DEF Init
  <2>3. 1 \in 1..Len(Script)
    BY LinesAre
  <2>4. "off" \in Phases /\ rows \in SUBSET Mail /\ lock = None
    BY <1>1 DEF Init, Phases
  <2>. QED
    BY <1>1, <2>1, <2>2, <2>3, <2>4 DEF Init, TypeOK
<1>. QED
  BY <1>1, TypesStay, PTL DEF Spec

-----------------------------------------------------------------------------
(* What no statement undoes.                                               *)

Stable == Items \ {Table("node_tokens"), Column("tacs", "prev_tac_id")}

\* Everything stays but the table and the column that are dropped, the table is
\* not made again, and tacs that are there get no names.
Grows ==
  /\ schema \cap Stable \subseteq schema'
  /\ Table("node_tokens") \in schema' => Table("node_tokens") \in schema
  /\ Table("tacs") \in schema => Names \cap schema' = Names \cap schema

LEMMA MakingGrows ==
  ASSUME TypeOK, NEW p \in Starters, Now(p).do \in {"make", "named"},
         Now(p).item \notin schema, schema' = schema \cup Made(Now(p).item)
  PROVE  Grows
<1>1. Now(p).item \in {Table(t) : t \in {"nodes", "tacs", "messages", "deliveries",
                         "tab_routes", "key_rotations", "tac_name_changes",
                         "tac_legacy_ids"}} \cup {TacIndex, OwnerIndex, NameIndex}
  BY Kinds DEF TypeOK, Now
<1>2. Table("node_tokens") \notin Made(Now(p).item)
  BY <1>1 DEF Made, TacIndex, OwnerIndex, NameIndex, Added, Names, Quarantine
<1>3. ASSUME Table("tacs") \in schema PROVE Names \cap Made(Now(p).item) = {}
  <2>1. Now(p).item # Table("tacs")
    BY <1>3
  <2>2. \A c \in Names : c[1] = "tacs" /\ c # Now(p).item
    BY <1>1 DEF Names, TacIndex, OwnerIndex, NameIndex
  <2>. QED
    BY <2>1, <2>2 DEF Made
<1>. QED
  BY <1>2, <1>3 DEF Grows

LEMMA StepGrows ==
  ASSUME TypeOK, [Next]_vars
  PROVE  Grows
<1>1. CASE schema' = schema
  BY <1>1 DEF Grows
<1>2. ASSUME NEW p \in Starters, Creates(p) PROVE Grows
  BY <1>1, <1>2, MakingGrows DEF Creates, At, Skips, Changes, ledger
<1>3. ASSUME NEW p \in Starters, Adds(p) PROVE Grows
  <2>1. Now(p).item \in Added
    BY <1>3, Kinds DEF Adds, At, TypeOK, Now
  <2>2. Now(p).item \notin Names /\ Now(p).item # Table("node_tokens")
    BY <2>1 DEF Added, Names
  <2>3. schema' = schema \cup {Now(p).item} \/ schema' = schema
    BY <1>3 DEF Adds, Skips, Changes, ledger
  <2>. QED
    BY <2>2, <2>3 DEF Grows
<1>4. ASSUME NEW p \in Starters, Drops(p) PROVE Grows
  <2>1. Now(p).item \in {Table("node_tokens"), Column("tacs", "prev_tac_id")}
    BY <1>4, Kinds DEF Drops, At, TypeOK, Now
  <2>2. Now(p).item \notin Names
    BY <2>1 DEF Names
  <2>3. schema' = schema \ {Now(p).item} \/ schema' = schema
    BY <1>4 DEF Drops, Skips, Changes, ledger
  <2>. QED
    BY <2>1, <2>2, <2>3 DEF Grows, Stable
<1>5. ASSUME NEW x \in {Quarantine, Table("mailbox_opens")}, schema' = schema \cup {x}
      PROVE  Grows
  BY <1>5 DEF Grows, Quarantine, Names
<1>6. ASSUME NEW p \in Starters, Commits(p) \/ Extras(p) PROVE Grows
  BY <1>5, <1>6 DEF Commits, Extras
<1>7. ASSUME NEW p \in Starters,
             \/ Start(p) \/ CreatesNoNames(p) \/ Looks(p) \/ Fails(p) \/ Checks(p)
             \/ Renames(p) \/ Copies(p) \/ Binds(p) \/ Crash(p)
      PROVE  schema' = schema
  BY <1>7 DEF Start, CreatesNoNames, Looks, Skips, Fails, Checks, Renames, Copies, Binds, Crash,
              ledger
<1>8. ASSUME NEW d \in Mail, Stores(d) PROVE schema' = schema
  BY <1>8 DEF Stores
<1>9. CASE EarlierStops \/ UNCHANGED vars
  BY <1>1, <1>9 DEF EarlierStops, vars, ledger
<1>. QED
  BY <1>1, <1>2, <1>3, <1>4, <1>6, <1>7, <1>8, <1>9 DEF Next, Works

-----------------------------------------------------------------------------
(* What a process has done is done.                                        *)

\* What the ledger owes to a line that some process has left behind.
Kept(i) ==
  /\ Script[i].do \in {"make", "add"} => Script[i].item \in schema
  /\ Script[i].do = "shed" => Script[i].item \notin schema
  /\ Script[i].do = "named" => (Names \subseteq schema => Script[i].item \in schema)

Behind(p) ==
  /\ phase[p] # "off" => \A i \in 1..(line[p] - 1) : Kept(i)
  /\ phase[p] \notin {"off", "script"} => line[p] = 33
  /\ phase[p] \in {"extras", "bind", "serves"} => Quarantine \in schema
  /\ phase[p] \in {"bind", "serves"} => Table("mailbox_opens") \in schema

\* What it has read still holds as far as it relies on it.
Informed(p) ==
  /\ have[p] \cap Added \subseteq schema
  /\ phase[p] = "script" /\ line[p] \in 21..27 /\ Names \subseteq schema
       => Names \subseteq have[p]

IInv == TypeOK /\ \A p \in Starters : Behind(p) /\ Informed(p)

LEMMA KeptStays ==
  ASSUME Grows, NEW i \in 1..33, Kept(i), i \in 25..27 => Table("tacs") \in schema
  PROVE  Kept(i)'
<1>1. /\ Script[i].item \in Items
      /\ Script[i].do \in {"make", "add", "named"} => Script[i].item \in Stable
      /\ Script[i].do = "shed" => Script[i].item = Table("node_tokens")
      /\ Script[i].do = "named" => i \in 25..27
  <2>1. i \in 1..Len(Script)
    BY LinesAre
  <2>2. Added \subseteq Stable
    BY DEF Added, Stable, Items
  <2>3. {Table(t) : t \in {"nodes", "tacs", "messages", "deliveries", "tab_routes",
           "key_rotations", "tac_name_changes", "tac_legacy_ids"}}
           \cup {TacIndex, OwnerIndex, NameIndex} \subseteq Stable
    BY DEF Stable, Items, Tables, TacIndex, OwnerIndex, NameIndex
  <2>. QED
    BY <2>1, <2>2, <2>3, Kinds
<1>2. Table("tacs") \in schema /\ Names \subseteq schema' => Names \subseteq schema
  BY DEF Grows
<1>. QED
  BY <1>1, <1>2 DEF Kept, Grows

\* A process past line 2 has made the tacs, so their names are settled.
LEMMA TacsMade ==
  ASSUME TypeOK, NEW p \in Starters, Behind(p), phase[p] # "off", line[p] > 2
  PROVE  Table("tacs") \in schema
<1>1. 2 \in 1..(line[p] - 1)
  BY LinesAre DEF TypeOK
<1>2. Kept(2)
  BY <1>1 DEF Behind
<1>. QED
  BY <1>2, LinesAre DEF Kept, Make

\* A process that does not move stays where it is.
LEMMA OthersStay ==
  ASSUME TypeOK, Grows, NEW p \in Starters, Behind(p), Informed(p),
         phase'[p] = phase[p], line'[p] = line[p], have'[p] = have[p]
  PROVE  Behind(p)' /\ Informed(p)'
<1>1. line[p] \in 1..33
  BY LinesAre DEF TypeOK
<1>2. ASSUME phase[p] # "off", NEW i \in 1..(line[p] - 1) PROVE Kept(i)'
  <2>1. i \in 1..33 /\ Kept(i)
    BY <1>1, <1>2 DEF Behind
  <2>2. i \in 25..27 => Table("tacs") \in schema
    BY <1>1, <1>2, TacsMade
  <2>. QED
    BY <2>1, <2>2, KeptStays
<1>3. {Quarantine, Table("mailbox_opens")} \subseteq Stable /\ Added \subseteq Stable
  BY DEF Stable, Items, Tables, Quarantine, Added
<1>4. phase[p] = "script" /\ line[p] \in 21..27 => Names \cap schema' = Names \cap schema
  BY <1>1, TacsMade DEF Grows
<1>5. Behind(p)'
  BY <1>2, <1>3 DEF Behind, Grows
<1>6. Informed(p)'
  BY <1>3, <1>4 DEF Informed, Grows
<1>. QED
  BY <1>5, <1>6

\* A process that ends owes nothing.
LEMMA EndsWell ==
  ASSUME TypeOK, NEW p \in Starters, Ends(p)
  PROVE  Behind(p)' /\ Informed(p)'
<1>1. phase'[p] = "off" /\ have'[p] = {}
  BY DEF Ends, Goes, TypeOK
<1>. QED
  BY <1>1 DEF Behind, Informed

\* A statement that is done is added to what is behind.
LEMMA LineDone ==
  ASSUME TypeOK, Grows, NEW p \in Starters, Behind(p), Informed(p), phase[p] = "script",
         NEW read \in SUBSET Items, Continues(p, read), Now(p).do # "check",
         NEW n, n = line[p], Kept(n)', read \cap Added \subseteq schema',
         n \in 20..26 /\ Names \subseteq schema' => Names \subseteq read
  PROVE  Behind(p)' /\ Informed(p)'
<1>1. n \in 1..32
  BY NextLine
<1>2. phase'[p] = "script" /\ line'[p] = n + 1 /\ have'[p] = read
  BY DEF Continues, Goes, TypeOK
<1>3. ASSUME NEW i \in 1..n PROVE Kept(i)'
  <2>1. CASE i = n
    BY <2>1
  <2>2. CASE i # n
    <3>1. i \in 1..33 /\ i \in 1..(line[p] - 1)
      BY <1>1, <2>2
    <3>2. Kept(i)
      BY <3>1 DEF Behind
    <3>3. i \in 25..27 => Table("tacs") \in schema
      BY <1>1, <3>1, TacsMade
    <3>. QED
      BY <3>1, <3>2, <3>3, KeptStays
  <2>. QED
    BY <2>1, <2>2
<1>4. Behind(p)'
  <2>1. line'[p] - 1 = n
    BY <1>1, <1>2
  <2>. QED
    BY <1>2, <1>3, <2>1 DEF Behind
<1>5. Informed(p)'
  BY <1>1, <1>2 DEF Informed
<1>. QED
  BY <1>4, <1>5

\* A statement that leaves what was read as it is.
LEMMA LineDoneAsRead ==
  ASSUME TypeOK, Grows, NEW p \in Starters, Behind(p), Informed(p), phase[p] = "script",
         Continues(p, have[p]), Now(p).do # "check", Now(p).do # "look",
         NEW n, n = line[p], Kept(n)'
  PROVE  Behind(p)' /\ Informed(p)'
<1>1. n \in 1..32
  BY NextLine
<1>2. have[p] \cap Added \subseteq schema'
  <2>1. Added \subseteq Stable
    BY DEF Added, Stable, Items
  <2>. QED
    BY <2>1 DEF Informed, Grows
<1>3. n # 20
  BY LinesAre DEF Now, Look
<1>4. n \in 21..26 /\ Names \subseteq schema' => Names \subseteq have[p]
  BY TacsMade DEF Informed, Grows
<1>5. PICK read : read = have[p]
  OBVIOUS
<1>6. read \in SUBSET Items
  BY <1>5 DEF TypeOK
<1>. QED
  BY <1>1, <1>2, <1>3, <1>4, <1>5, <1>6, LineDone

LEMMA MovesOn ==
  ASSUME IInv, Grows, NEW p \in Starters, Start(p) \/ Works(p) \/ Crash(p)
  PROVE  Behind(p)' /\ Informed(p)'
<1>. TypeOK /\ Behind(p) /\ Informed(p)
  BY DEF IInv
<1>. PICK n : n = line[p]
  OBVIOUS
<1>. n \in 1..Len(Script) /\ Now(p) = Script[n]
  BY DEF TypeOK, Now
<1>1. CASE Start(p)
  <2>1. phase'[p] = "script" /\ line'[p] = 1 /\ have'[p] = {}
    BY <1>1 DEF Start, Goes, TypeOK
  <2>. QED
    BY <2>1 DEF Behind, Informed
<1>2. CASE Creates(p)
  <2>1. Now(p).do \in {"make", "named"} /\ phase[p] = "script" /\ Continues(p, have[p])
    BY <1>2 DEF Creates, At, Skips, Changes
  <2>2. Now(p).item \in schema'
    BY <1>2 DEF Creates, Skips, Changes, ledger, Made
  <2>3. Kept(n)'
    BY <2>1, <2>2 DEF Kept, Now
  <2>. QED
    BY <2>1, <2>3, LineDoneAsRead
<1>3. CASE CreatesNoNames(p)
  <2>1. /\ Now(p).do = "named" /\ phase[p] = "script" /\ Continues(p, have[p])
        /\ ~(Names \subseteq have[p]) /\ schema' = schema
    BY <1>3 DEF CreatesNoNames, At, Skips, ledger
  <2>2. n \in 25..27
    BY <2>1, Kinds DEF Now, TypeOK
  <2>3. Kept(n)'
    BY <2>1, <2>2 DEF Kept, Now, Informed
  <2>. QED
    BY <2>1, <2>3, LineDoneAsRead
<1>4. CASE Looks(p)
  <2>. DEFINE read == {x \in schema : x[1] = Now(p).item[1]}
  <2>1. Now(p).do = "look" /\ phase[p] = "script" /\ Continues(p, read) /\ schema' = schema
    BY <1>4 DEF Looks, At, ledger
  <2>2. n \in {8, 16, 20, 28}
    BY <2>1, Kinds DEF Now, TypeOK
  <2>3. n = 20 /\ Names \subseteq schema => Names \subseteq read
    BY LinesAre DEF Now, Look, Names
  <2>4. read \in SUBSET Items
    BY DEF TypeOK
  <2>5. Kept(n)'
    BY <2>1 DEF Kept, Now
  <2>. QED
    BY <2>1, <2>2, <2>3, <2>4, <2>5, LineDone
<1>5. CASE Adds(p)
  <2>1. Now(p).do = "add" /\ phase[p] = "script" /\ Continues(p, have[p])
    BY <1>5 DEF Adds, At, Skips, Changes
  <2>2. Now(p).item \in schema'
    <3>1. Now(p).item \in Added
      BY <2>1, Kinds DEF Now, TypeOK
    <3>. QED
      BY <1>5, <3>1 DEF Adds, Skips, Changes, ledger, Informed
  <2>3. Kept(n)'
    BY <2>1, <2>2 DEF Kept, Now
  <2>. QED
    BY <2>1, <2>3, LineDoneAsRead
<1>6. CASE Drops(p)
  <2>1. Now(p).do \in {"shed", "try"} /\ phase[p] = "script" /\ Continues(p, have[p])
    BY <1>6 DEF Drops, At, Skips, Changes
  <2>2. Now(p).do = "shed" => Now(p).item \notin schema'
    BY <1>6 DEF Drops, At, Skips, Changes, ledger
  <2>3. Kept(n)'
    BY <2>1, <2>2 DEF Kept, Now
  <2>. QED
    BY <2>1, <2>3, LineDoneAsRead
<1>7. CASE Fails(p) \/ Crash(p)
  BY <1>7, EndsWell DEF Fails, Crash
<1>8. ASSUME NEW where \in {"extras", "rebuild", "copying", "copied", "bind", "serves"},
             NEW rebuilt, Goes(p, where, line[p], have[p], rebuilt), line[p] = 33,
             phase[p] # "off", where \in {"extras", "bind", "serves"} => Quarantine \in schema',
             where \in {"bind", "serves"} => Table("mailbox_opens") \in schema'
      PROVE  Behind(p)' /\ Informed(p)'
  <2>1. phase'[p] = where /\ line'[p] = 33 /\ have'[p] = have[p]
    BY <1>8 DEF Goes, TypeOK
  <2>2. ASSUME NEW i \in 1..32 PROVE Kept(i)'
    <3>1. i \in 1..33 /\ i \in 1..(line[p] - 1) /\ \A k \in 1..(line[p] - 1) : Kept(k)
      BY <1>8 DEF Behind
    <3>2. Table("tacs") \in schema
      BY <1>8, TacsMade
    <3>3. Kept(i)
      BY <3>1
    <3>. QED
      BY <3>1, <3>2, <3>3, KeptStays
  <2>3. Added \subseteq Stable
    BY DEF Added, Stable, Items
  <2>4. 1..(line'[p] - 1) = 1..32
    BY <2>1
  <2>. QED
    BY <1>8, <2>1, <2>2, <2>3, <2>4 DEF Behind, Informed, Grows
<1>9. CASE Checks(p)
  <2>1. phase[p] = "script" /\ Now(p).do = "check"
    BY <1>9 DEF Checks, At
  <2>2. line[p] = 33
    BY <2>1, Kinds DEF Now, TypeOK
  <2>. QED
    BY <1>8, <1>9, <2>1, <2>2 DEF Checks, Enters, ledger
<1>10. CASE Renames(p) \/ Copies(p) \/ Commits(p)
  <2>1. line[p] = 33 /\ phase[p] # "off"
    BY <1>10 DEF Renames, Copies, Commits, Behind
  <2>2. Commits(p) => Quarantine \in schema'
    BY DEF Commits
  <2>. QED
    BY <1>8, <1>10, <2>1, <2>2 DEF Renames, Copies, Commits, Enters
<1>11. CASE Extras(p)
  <2>1. line[p] = 33 /\ phase[p] # "off" /\ Quarantine \in schema
    BY <1>11 DEF Extras, Behind
  <2>2. schema \subseteq schema' /\ Table("mailbox_opens") \in schema'
    BY <1>11 DEF Extras
  <2>. QED
    BY <1>8, <1>11, <2>1, <2>2 DEF Extras, Enters
<1>12. CASE Binds(p)
  <2>1. /\ line[p] = 33 /\ phase[p] # "off" /\ Quarantine \in schema
        /\ Table("mailbox_opens") \in schema /\ schema' = schema
    BY <1>12 DEF Binds, Behind, ledger
  <2>2. CASE port = None
    BY <1>8, <1>12, <2>1, <2>2 DEF Binds, Enters
  <2>3. CASE port # None
    BY <1>12, <2>3, EndsWell DEF Binds
  <2>. QED
    BY <2>2, <2>3
<1>. QED
  BY <1>1, <1>2, <1>3, <1>4, <1>5, <1>6, <1>7, <1>9, <1>10, <1>11, <1>12 DEF Works

\* No step touches what another process has got to.
LEMMA OnlyOneMoves ==
  ASSUME TypeOK, NEW p \in Starters, NEW q \in Starters, p # q,
         Start(p) \/ Works(p) \/ Crash(p)
  PROVE  phase'[q] = phase[q] /\ line'[q] = line[q] /\ have'[q] = have[q] /\ copy'[q] = copy[q]
<1>1. \E where, n, read, rebuilt : Goes(p, where, n, read, rebuilt)
  BY DEF Start, Works, Crash, Creates, CreatesNoNames, Looks, Adds, Drops, Fails, Checks, Renames,
         Copies, Commits, Extras, Binds, Skips, Changes, Continues, Ends, Enters
<1>. QED
  BY <1>1 DEF Goes, TypeOK

LEMMA IInvHolds == Spec => []IInv
<1>1. Init => \A p \in Starters : Behind(p) /\ Informed(p)
  BY DEF Init, Behind, Informed
<1>2. ASSUME IInv, TypeOK', [Next]_vars PROVE IInv'
  <2>1. Grows
    BY <1>2, StepGrows DEF IInv
  <2>2. ASSUME NEW p \in Starters, Start(p) \/ Works(p) \/ Crash(p) PROVE IInv'
    <3>1. Behind(p)' /\ Informed(p)'
      BY <1>2, <2>1, <2>2, MovesOn
    <3>2. ASSUME NEW q \in Starters, q # p PROVE Behind(q)' /\ Informed(q)'
      BY <1>2, <2>1, <2>2, <3>2, OnlyOneMoves, OthersStay DEF IInv
    <3>. QED
      BY <1>2, <3>1, <3>2 DEF IInv
  <2>3. CASE UNCHANGED <<phase, line, have>>
    BY <1>2, <2>1, <2>3, OthersStay DEF IInv
  <2>. QED
    BY <1>2, <2>2, <2>3 DEF Next, Stores, EarlierStops, vars
<1>. QED
  BY <1>1, <1>2, TypeCorrect, PTL DEF Spec, IInv

-----------------------------------------------------------------------------
(* What the service finds.                                                 *)

LEMMA WholeWhenServing ==
  ASSUME IInv
  PROVE  ServesWhole
<1>. SUFFICES ASSUME NEW p \in Starters, phase[p] = "serves"
              PROVE  /\ Needed \subseteq schema
                     /\ Names \subseteq schema =>
                          {NameIndex, Table("tac_name_changes"), Table("tac_legacy_ids")}
                             \subseteq schema
                     /\ Table("node_tokens") \notin schema
  BY DEF ServesWhole
<1>1. \A i \in 1..32 : Kept(i)
  BY DEF IInv, Behind
<1>2. Quarantine \in schema /\ Table("mailbox_opens") \in schema
  BY DEF IInv, Behind
<1>3. Table("node_tokens") \notin schema /\ Table("key_rotations") \in schema
  <2>1. Kept(6) /\ Kept(7)
    BY <1>1
  <2>2. Script[6] = Shed(Table("node_tokens")) /\ Script[7] = Make(Table("key_rotations"))
    BY LinesAre
  <2>. QED
    BY <2>1, <2>2 DEF Kept, Make, Shed
<1>4. {TacIndex, OwnerIndex} \subseteq schema
  <2>1. Kept(19) /\ Kept(32)
    BY <1>1
  <2>2. Script[19] = Make(TacIndex) /\ Script[32] = Make(OwnerIndex)
    BY LinesAre
  <2>. QED
    BY <2>1, <2>2 DEF Kept, Make
<1>5. Names \subseteq schema =>
        {NameIndex, Table("tac_name_changes"), Table("tac_legacy_ids")} \subseteq schema
  <2>1. Kept(25) /\ Kept(26) /\ Kept(27)
    BY <1>1
  <2>2. Script[25] = Named(NameIndex) /\ Script[26] = Named(Table("tac_name_changes"))
        /\ Script[27] = Named(Table("tac_legacy_ids"))
    BY LinesAre
  <2>. QED
    BY <2>1, <2>2 DEF Kept, Named
<1>6. ASSUME NEW i \in 1..32, NEW x, Script[i] = Add(x) PROVE x \in schema
  BY <1>1, <1>6 DEF Kept, Add
<1>7. Added \subseteq schema
  <2>1. Column("nodes", "owner_email") \in schema
    <3>1. Script[9] = Add(Column("nodes", "owner_email"))
      BY LinesAre
    <3>. QED
      BY <1>6, <3>1
  <2>2. Column("nodes", "owner_email_verified") \in schema
    <3>1. Script[10] = Add(Column("nodes", "owner_email_verified"))
      BY LinesAre
    <3>. QED
      BY <1>6, <3>1
  <2>3. Column("nodes", "node_pubkey") \in schema
    <3>1. Script[11] = Add(Column("nodes", "node_pubkey"))
      BY LinesAre
    <3>. QED
      BY <1>6, <3>1
  <2>4. Column("nodes", "dnd") \in schema
    <3>1. Script[12] = Add(Column("nodes", "dnd"))
      BY LinesAre
    <3>. QED
      BY <1>6, <3>1
  <2>5. Column("nodes", "snooze_until") \in schema
    <3>1. Script[13] = Add(Column("nodes", "snooze_until"))
      BY LinesAre
    <3>. QED
      BY <1>6, <3>1
  <2>6. Column("nodes", "is_team") \in schema
    <3>1. Script[14] = Add(Column("nodes", "is_team"))
      BY LinesAre
    <3>. QED
      BY <1>6, <3>1
  <2>7. Column("nodes", "is_program") \in schema
    <3>1. Script[15] = Add(Column("nodes", "is_program"))
      BY LinesAre
    <3>. QED
      BY <1>6, <3>1
  <2>8. Column("messages", "tac_id") \in schema
    <3>1. Script[17] = Add(Column("messages", "tac_id"))
      BY LinesAre
    <3>. QED
      BY <1>6, <3>1
  <2>9. Column("messages", "broadcast") \in schema
    <3>1. Script[18] = Add(Column("messages", "broadcast"))
      BY LinesAre
    <3>. QED
      BY <1>6, <3>1
  <2>10. Column("tacs", "closed_at") \in schema
    <3>1. Script[21] = Add(Column("tacs", "closed_at"))
      BY LinesAre
    <3>. QED
      BY <1>6, <3>1
  <2>11. Column("tacs", "close_summary") \in schema
    <3>1. Script[22] = Add(Column("tacs", "close_summary"))
      BY LinesAre
    <3>. QED
      BY <1>6, <3>1
  <2>12. Column("tacs", "closed_by") \in schema
    <3>1. Script[23] = Add(Column("tacs", "closed_by"))
      BY LinesAre
    <3>. QED
      BY <1>6, <3>1
  <2>13. Column("tab_routes", "host_id") \in schema
    <3>1. Script[29] = Add(Column("tab_routes", "host_id"))
      BY LinesAre
    <3>. QED
      BY <1>6, <3>1
  <2>14. Column("tab_routes", "provenance_verified") \in schema
    <3>1. Script[30] = Add(Column("tab_routes", "provenance_verified"))
      BY LinesAre
    <3>. QED
      BY <1>6, <3>1
  <2>15. Column("tab_routes", "auto_enter") \in schema
    <3>1. Script[31] = Add(Column("tab_routes", "auto_enter"))
      BY LinesAre
    <3>. QED
      BY <1>6, <3>1
  <2>. QED
    BY <2>1, <2>2, <2>3, <2>4, <2>5, <2>6, <2>7, <2>8, <2>9, <2>10, <2>11, <2>12, <2>13, <2>14, <2>15 DEF Added
<1>. QED
  BY <1>2, <1>3, <1>4, <1>5, <1>7 DEF Needed

\* ServesWhole: a statement that a process has left behind stays done whatever others do
\* (Kept), and where it skips one for want of names, the ledger has none.
THEOREM ServesWholeHolds == Spec => []ServesWhole
  BY IInvHolds, WholeWhenServing, PTL

-----------------------------------------------------------------------------
(* A start keeps the contract of an upgrade.                               *)

\* One process is in the rebuild, it has the lock, and its copy is up to date.
Alone ==
  /\ \A p \in Starters : phase[p] \in {"copying", "copied"} <=> lock = p
  /\ \A p \in Starters : phase[p] = "copied" => copy[p] = rows

LEMMA AloneStays ==
  ASSUME TypeOK, Alone, [Next]_vars
  PROVE  Alone'
<1>0. None \notin Starters
  BY NamesAssumption
<1>1. ASSUME NEW p \in Starters, NEW where, NEW n, NEW read, NEW rebuilt,
             Goes(p, where, n, read, rebuilt)
      PROVE  /\ phase' = [phase EXCEPT ![p] = where] /\ phase'[p] = where /\ copy'[p] = rebuilt
             /\ \A q \in Starters \ {p} : phase'[q] = phase[q] /\ copy'[q] = copy[q]
  BY <1>1 DEF Goes, TypeOK
<1>2. ASSUME NEW p \in Starters, NEW where, NEW n, NEW read, NEW rebuilt,
             Goes(p, where, n, read, rebuilt), where \notin {"copying", "copied"},
             phase[p] \notin {"copying", "copied"}, UNCHANGED <<rows, lock>>
      PROVE  Alone'
  BY <1>1, <1>2 DEF Alone
<1>3. ASSUME NEW p \in Starters, Ends(p), rows' = rows PROVE Alone'
  <2>1. phase'[p] = "off" /\ \A q \in Starters \ {p} : phase'[q] = phase[q] /\ copy'[q] = copy[q]
    BY <1>1, <1>3 DEF Ends
  <2>2. CASE lock = p
    BY <1>0, <1>3, <2>1, <2>2 DEF Alone, Ends
  <2>3. CASE lock # p
    BY <1>3, <2>1, <2>3 DEF Alone, Ends
  <2>. QED
    BY <2>2, <2>3
<1>4. ASSUME NEW p \in Starters,
             \/ Creates(p) \/ CreatesNoNames(p) \/ Looks(p) \/ Adds(p) \/ Drops(p)
      PROVE  Alone'
  <2>1. phase[p] = "script" /\ UNCHANGED <<rows, lock>>
    BY <1>4 DEF Creates, CreatesNoNames, Looks, Adds, Drops, At, Skips, Changes, ledger
  <2>2. \E n, read : Goes(p, "script", n, read, {})
    BY <1>4 DEF Creates, CreatesNoNames, Looks, Adds, Drops, Skips, Changes, Continues
  <2>. QED
    BY <1>2, <2>1, <2>2
<1>5. ASSUME NEW p \in Starters, Start(p) \/ Checks(p) \/ Extras(p) PROVE Alone'
  <2>1. phase[p] \in {"off", "script", "extras"} /\ UNCHANGED <<rows, lock>>
    BY <1>5 DEF Start, Checks, Extras, At, ledger
  <2>2. \E where \in {"script", "extras", "rebuild", "bind"} :
          \E n, read, rebuilt : Goes(p, where, n, read, rebuilt)
    BY <1>5 DEF Start, Checks, Extras, Enters
  <2>. QED
    BY <1>2, <2>1, <2>2
<1>6. ASSUME NEW p \in Starters, Fails(p) \/ Crash(p) PROVE Alone'
  BY <1>3, <1>6 DEF Fails, Crash, Left, ledger
<1>7. ASSUME NEW p \in Starters, Binds(p) PROVE Alone'
  <2>1. CASE port = None
    <3>1. Goes(p, "serves", line[p], have[p], copy[p]) /\ phase[p] = "bind" /\ UNCHANGED <<rows, lock>>
      BY <1>7, <2>1 DEF Binds, Enters, ledger
    <3>. QED
      BY <1>2, <3>1
  <2>2. CASE port # None
    BY <1>3, <1>7, <2>2 DEF Binds, ledger
  <2>. QED
    BY <2>1, <2>2
<1>8. ASSUME NEW p \in Starters, Renames(p) PROVE Alone'
  <2>1. lock = None /\ lock' = p /\ rows' = rows /\ Goes(p, "copying", line[p], have[p], copy[p])
    BY <1>8 DEF Renames, Enters, ledger
  <2>. QED
    BY <1>0, <1>1, <2>1 DEF Alone
<1>9. ASSUME NEW p \in Starters, Copies(p) PROVE Alone'
  <2>1. phase[p] = "copying" /\ lock' = lock /\ rows' = rows
        /\ Goes(p, "copied", line[p], have[p], rows)
    BY <1>9 DEF Copies, ledger
  <2>. QED
    BY <1>1, <2>1 DEF Alone
<1>10. ASSUME NEW p \in Starters, Commits(p) PROVE Alone'
  <2>1. phase[p] = "copied" /\ lock' = None /\ rows' = copy[p]
        /\ Goes(p, "extras", line[p], have[p], {})
    BY <1>10 DEF Commits
  <2>2. lock = p /\ copy[p] = rows
    BY <2>1 DEF Alone
  <2>. QED
    BY <1>0, <1>1, <2>1, <2>2 DEF Alone
<1>11. ASSUME NEW d \in Mail, Stores(d) PROVE Alone'
  <2>1. \A p \in Starters : phase[p] # "copied"
    BY <1>0, <1>11 DEF Stores, Alone
  <2>. QED
    BY <1>11, <2>1 DEF Stores, Alone
<1>12. CASE EarlierStops \/ UNCHANGED vars
  BY <1>12 DEF EarlierStops, vars, ledger, Alone
<1>. QED
  BY <1>4, <1>5, <1>6, <1>7, <1>8, <1>9, <1>10, <1>11, <1>12 DEF Next, Works

LEMMA StepKeepsLedger ==
  ASSUME TypeOK, Alone, [Next]_vars
  PROVE  [Upgrade!Next]_<<rows, Scheme, Quarantine \in schema>>
<1>. USE DEF Upgrade!Next, Upgrade!Stored, Upgrade!Begun, Upgrade!Widened
<1>1. Grows
  BY StepGrows
<1>2. CASE UNCHANGED schema /\ rows \subseteq rows'
  BY <1>2 DEF Scheme
<1>3. ASSUME NEW x, schema' = schema \cup {x} \/ schema' = schema \ {x}, rows' = rows,
             x \notin Names \cup {Table("tacs"), Quarantine}
      PROVE  [Upgrade!Next]_<<rows, Scheme, Quarantine \in schema>>
  BY <1>3 DEF Scheme, Names
<1>4. ASSUME NEW p \in Starters, Now(p).do \in {"make", "named"}, rows' = rows,
             Now(p).item \notin schema, schema' = schema \cup Made(Now(p).item)
      PROVE  [Upgrade!Next]_<<rows, Scheme, Quarantine \in schema>>
  <2>. PICK x : x = Now(p).item
    OBVIOUS
  <2>1. x \in {Table(t) : t \in {"nodes", "tacs", "messages", "deliveries",
                         "tab_routes", "key_rotations", "tac_name_changes",
                         "tac_legacy_ids"}} \cup {TacIndex, OwnerIndex, NameIndex}
    BY <1>4, Kinds DEF TypeOK, Now
  <2>2. CASE x = Table("tacs")
    <3>1. Names \subseteq Made(x) /\ Quarantine \notin Made(x) /\ x \in Made(x)
      BY <2>2 DEF Made, Names, Quarantine
    <3>2. Scheme = "none" /\ Scheme' = "uuids" /\ (Quarantine \in schema')= (Quarantine \in schema)
      BY <1>4, <2>2, <3>1 DEF Scheme
    <3>. QED
      BY <1>4, <3>2
  <2>3. CASE x = Table("deliveries")
    <3>1. Quarantine \in Made(x) /\ Made(x) \cap (Names \cup {Table("tacs")}) = {}
      BY <2>3 DEF Made, Names, Quarantine, Added
    <3>2. Scheme' = Scheme /\ Quarantine \in schema'
      BY <1>4, <3>1 DEF Scheme
    <3>. QED
      BY <1>4, <3>2
  <2>4. CASE x \notin {Table("tacs"), Table("deliveries")}
    <3>1. Made(x) \cap (Names \cup {Table("tacs"), Quarantine}) = {}
      BY <2>1, <2>4 DEF Made, Names, Quarantine, Added, TacIndex, OwnerIndex, NameIndex
    <3>2. Scheme' = Scheme /\ (Quarantine \in schema') = (Quarantine \in schema)
      BY <1>4, <3>1 DEF Scheme
    <3>. QED
      BY <1>4, <3>2
  <2>. QED
    BY <2>2, <2>3, <2>4
<1>5. ASSUME NEW p \in Starters, Creates(p)
      PROVE  [Upgrade!Next]_<<rows, Scheme, Quarantine \in schema>>
  BY <1>2, <1>4, <1>5 DEF Creates, At, Skips, Changes, ledger
<1>6. ASSUME NEW p \in Starters, Adds(p) \/ Drops(p)
      PROVE  [Upgrade!Next]_<<rows, Scheme, Quarantine \in schema>>
  <2>1. Now(p).item \in Added \cup {Table("node_tokens"), Column("tacs", "prev_tac_id")}
    BY <1>6, Kinds DEF Adds, Drops, At, TypeOK, Now
  <2>2. Now(p).item \notin Names \cup {Table("tacs"), Quarantine}
    BY <2>1 DEF Added, Names, Quarantine
  <2>3. /\ rows' = rows
        /\ schema' = schema \/ schema' = schema \cup {Now(p).item} \/ schema' = schema \ {Now(p).item}
    BY <1>6 DEF Adds, Drops, Skips, Changes, ledger
  <2>. QED
    BY <1>2, <1>3, <2>2, <2>3
<1>7. ASSUME NEW p \in Starters, Commits(p)
      PROVE  [Upgrade!Next]_<<rows, Scheme, Quarantine \in schema>>
  <2>1. rows' = rows /\ schema' = schema \cup {Quarantine}
    BY <1>7 DEF Commits, Alone
  <2>2. Scheme' = Scheme
    BY <2>1 DEF Scheme, Names, Quarantine
  <2>. QED
    BY <2>1, <2>2
<1>8. ASSUME NEW p \in Starters, Extras(p)
      PROVE  [Upgrade!Next]_<<rows, Scheme, Quarantine \in schema>>
  <2>1. Table("mailbox_opens") \notin Names \cup {Table("tacs"), Quarantine}
    BY DEF Names, Quarantine
  <2>. QED
    BY <1>3, <1>8, <2>1 DEF Extras
<1>9. ASSUME NEW p \in Starters,
             \/ Start(p) \/ CreatesNoNames(p) \/ Looks(p) \/ Fails(p) \/ Checks(p)
             \/ Renames(p) \/ Copies(p) \/ Binds(p) \/ Crash(p)
      PROVE  schema' = schema /\ rows' = rows
  BY <1>9 DEF Start, CreatesNoNames, Looks, Skips, Fails, Checks, Renames, Copies, Binds, Crash,
              Left, ledger
<1>10. ASSUME NEW d \in Mail, Stores(d) PROVE UNCHANGED schema /\ rows \subseteq rows'
  BY <1>10 DEF Stores
<1>11. CASE EarlierStops \/ UNCHANGED vars
  BY <1>2, <1>11 DEF EarlierStops, vars, ledger
<1>. QED
  BY <1>2, <1>5, <1>6, <1>7, <1>8, <1>9, <1>10, <1>11 DEF Next, Works

\* KeepsLedger, the refinement: no start, crash or overlap takes mail away, moves tacs to
\* another scheme or narrows deliveries.state again.
THEOREM ContractKept == Spec => KeepsLedger
<1>1. Init => Alone
  BY NamesAssumption DEF Init, Alone
<1>2. Init => Upgrade!Init
  BY DEF Init, Upgrade!Init, Scheme
<1>3. TypeOK /\ Alone /\ [Next]_vars => Alone'
  BY AloneStays
<1>4. TypeOK /\ Alone /\ [Next]_vars => [Upgrade!Next]_<<rows, Scheme, Quarantine \in schema>>
  BY StepKeepsLedger
<1>. QED
  BY <1>1, <1>2, <1>3, <1>4, TypeCorrect, PTL DEF Spec, KeepsLedger, Upgrade!Spec
=============================================================================
