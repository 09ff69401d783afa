------------------------------ MODULE Doorbell ------------------------------
(***************************************************************************)
(* The notification processes: doorbell.py polls the ledger with           *)
(* doorbell_poll.py, rings a node whose unread mail reaches above what it  *)
(* was last rung for, and records the outcome.  A ring is typed into a     *)
(* terminal, or handed to a queue command under a receipt of               *)
(* codex_queue.py.  The process keeps a cooldown in memory, everything     *)
(* else is in files; nothing stops two processes from running at once.     *)
(*                                                                         *)
(* A delivery is its row id; the ids are handed out in order and never     *)
(* used again (AUTOINCREMENT).                                             *)
(***************************************************************************)
EXTENDS Naturals

CONSTANTS
  Nodes, Bells,
  Last,       \* bound: deliveries 1..Last
  For,        \* the recipient of each delivery
  Announced,  \* the deliveries of an announcement
  Threads,    \* codex threads
  Routes      \* the routes a node may have, of Route below

Ids      == 1..Last
Modes    == {"LIVE", "SHADOW"}
Route    == [adapter: {"iterm2", "tmux", "codex-queue", "other"},
             thread: Threads, enter: BOOLEAN]
NoRoute  == [adapter |-> "none"]
Terminal == {"iterm2", "tmux"}
States   == {"none", "PENDING", "QUEUED", "UNKNOWN"}

ASSUME DoorbellAssumption ==
  /\ Last \in Nat
  /\ For \in [Ids -> Nodes]
  /\ Announced \subseteq Ids
  /\ Routes \subseteq Route

VARIABLES
  mail,      \* "none" yet, "unread", or "done" with
  quiet,     \* the nodes that snooze or are removed
  route,     \* the active row of tab_routes, or NoRoute
  mark,      \* rings: by mode and node, the highest id that has rung
  receipts,  \* codex_queue_receipts, by thread and id notified
  at,        \* where each doorbell process is; "off" when it does not run
  mode,      \* its DOORBELL_MODE
  cool,      \* _unknown_attempts not yet 30 seconds old
  todo,      \* what decide returned and is not yet handled
  ring,      \* the one in hand
  via,       \* the route it goes by
  result,    \* and what came of it
  \* What happened outside the files, for the properties.
  told,      \* deliveries unread when a ring reached their node, or acknowledged by it
  noted,     \* by process and node, the highest id it has recorded as rung
  tries      \* how often a notification was handed to the queue of a thread

world == <<mail, quiet, route>>
hands == <<todo, ring, via, result>>
past  == <<told, noted, tries>>
vars  == <<world, mark, receipts, at, mode, cool, hands, past>>

\* A candidate of decide: the highest unread delivery of its node, and whether
\* any of the unread is an announcement.
Candidate == [high: Ids, loud: BOOLEAN]
Nothing   == [high |-> 0, loud |-> FALSE]

Places  == {"off", "idle", "next", "look", "route", "type", "receipt", "submit",
            "confirm", "record"}
Results == {"SUCCESS", "TEXT_ONLY", "QUEUED", "SHADOW_ONLY", "GONE", "FAILED", "UNKNOWN",
            "STALE", "NOT_MINE", "UNSUPPORTED", "DISABLED"}

TypeOK ==
  /\ mail     \in [Ids -> {"none", "unread", "done"}]
  /\ quiet    \in SUBSET Nodes
  /\ route    \in [Nodes -> Routes \cup {NoRoute}]
  /\ mark     \in [Modes -> [Nodes -> 0..Last]]
  /\ receipts \in [Threads -> [Ids -> States]]
  /\ at       \in [Bells -> Places]
  /\ mode     \in [Bells -> Modes]
  /\ cool     \in [Bells -> SUBSET Nodes]
  /\ todo     \in [Bells -> SUBSET Candidate]
  /\ ring     \in [Bells -> Candidate \cup {Nothing}]
  /\ via      \in [Bells -> Routes \cup {NoRoute}]
  /\ result   \in [Bells -> Results]
  /\ told     \in SUBSET Ids
  /\ noted    \in [Bells -> [Nodes -> 0..Last]]
  /\ tries    \in [Threads -> [Ids -> Nat]]

Init ==
  /\ mail     = [i \in Ids |-> "none"]
  /\ quiet    = {}
  /\ route    = [n \in Nodes |-> NoRoute]
  /\ mark     = [m \in Modes |-> [n \in Nodes |-> 0]]
  /\ receipts = [t \in Threads |-> [i \in Ids |-> "none"]]
  /\ at       = [b \in Bells |-> "off"]
  /\ mode     = [b \in Bells |-> "SHADOW"]
  /\ cool     = [b \in Bells |-> {}]
  /\ todo     = [b \in Bells |-> {}]
  /\ ring     = [b \in Bells |-> Nothing]
  /\ via      = [b \in Bells |-> NoRoute]
  /\ result   = [b \in Bells |-> "STALE"]
  /\ told     = {}
  /\ noted    = [b \in Bells |-> [n \in Nodes |-> 0]]
  /\ tries    = [t \in Threads |-> [i \in Ids |-> 0]]

-----------------------------------------------------------------------------
(* The ledger and the routes, as the doorbell sees them.                   *)

Arrive(i) ==
  /\ mail[i] = "none"
  /\ \A j \in Ids : j < i => mail[j] # "none"
  /\ mail' = [mail EXCEPT ![i] = "unread"]
  /\ UNCHANGED <<quiet, route, told>>

\* Read, quarantined or dead.
Settle(i) ==
  /\ mail[i] = "unread"
  /\ mail' = [mail EXCEPT ![i] = "done"]
  /\ UNCHANGED <<quiet, route, told>>

\* An acknowledgement that read the row before it was settled writes INJECTED
\* after it (bus_ack): unread again, for a reader that has had it.
AckLate(i) ==
  /\ mail[i] = "done"
  /\ mail' = [mail EXCEPT ![i] = "unread"]
  /\ told' = told \cup {i}
  /\ UNCHANGED <<quiet, route>>

\* snooze, remove; their end or restore.
Hush(n)  == n \notin quiet /\ quiet' = quiet \cup {n} /\ UNCHANGED <<mail, route, told>>
Rouse(n) == n \in quiet /\ quiet' = quiet \ {n} /\ UNCHANGED <<mail, route, told>>

\* bus_register replaces or revokes the route.
Reroute(n) ==
  /\ \E r \in Routes \cup {NoRoute} : route' = [route EXCEPT ![n] = r]
  /\ UNCHANGED <<mail, quiet, told>>

World ==
  /\ \/ \E i \in Ids : Arrive(i) \/ Settle(i) \/ AckLate(i)
     \/ \E n \in Nodes : Hush(n) \/ Rouse(n) \/ Reroute(n)
  /\ UNCHANGED <<mark, receipts, at, mode, cool, hands, noted, tries>>

-----------------------------------------------------------------------------
(* A doorbell process.                                                     *)

Start(b, m) ==
  /\ at[b] = "off"
  /\ at' = [at EXCEPT ![b] = "idle"]
  /\ mode' = [mode EXCEPT ![b] = m]
  /\ UNCHANGED <<world, mark, receipts, cool, hands, past>>

Drop(b) ==
  /\ todo' = [todo EXCEPT ![b] = {}]
  /\ ring' = [ring EXCEPT ![b] = Nothing]
  /\ via' = [via EXCEPT ![b] = NoRoute]
  /\ result' = [result EXCEPT ![b] = "STALE"]

\* It ends at any point, killed or after SIGTERM.
Stop(b) ==
  /\ at[b] # "off"
  /\ at' = [at EXCEPT ![b] = "off"]
  /\ cool' = [cool EXCEPT ![b] = {}]
  /\ noted' = [noted EXCEPT ![b] = [n \in Nodes |-> 0]]
  /\ Drop(b)
  /\ UNCHANGED <<world, mark, receipts, mode, told, tries>>

\* UNKNOWN_RETRY_SECONDS are over.
Warm(b, n) ==
  /\ n \in cool[b]
  /\ cool' = [cool EXCEPT ![b] = @ \ {n}]
  /\ UNCHANGED <<world, mark, receipts, at, mode, hands, past>>

Unread(n) == {i \in Ids : mail[i] = "unread" /\ For[i] = n}

\* scan_unread: one candidate for each node with unread mail, at its highest id.
Found == {c \in Candidate :
            /\ mail[c.high] = "unread"
            /\ \A i \in Unread(For[c.high]) : i <= c.high
            /\ c.loud = (Unread(For[c.high]) \cap Announced # {})
            /\ For[c.high] \notin quiet}

AgainBug(b, c) == c.high >= mark[mode[b]][For[c.high]] /\ For[c.high] \notin cool[b]

AnyModeBug(b, c) == /\ \A m \in Modes : c.high > mark[m][For[c.high]]
                    /\ For[c.high] \notin cool[b]

\* decide: above the watermark of this mode, and not cooling.
Due(b, c) == c.high > mark[mode[b]][For[c.high]] /\ For[c.high] \notin cool[b]

\* A poll that finds nothing, or fails, changes nothing here.
Decide(b) ==
  /\ at[b] = "idle"
  /\ \E c \in Found : Due(b, c)
  /\ todo' = [todo EXCEPT ![b] = {c \in Found : Due(b, c)}]
  /\ at' = [at EXCEPT ![b] = "next"]
  /\ UNCHANGED <<world, mark, receipts, mode, cool, ring, via, result, past>>

To(b) == For[ring[b].high]

\* The attempt has come to an end, to be recorded.
Ends(b, r) ==
  /\ at' = [at EXCEPT ![b] = "record"]
  /\ result' = [result EXCEPT ![b] = r]

Goes(b, place) == at' = [at EXCEPT ![b] = place] /\ UNCHANGED result

Muted(b, c) == mode[b] = "SHADOW" /\ ~c.loud

Take(b, c) ==
  /\ at[b] = "next"
  /\ c \in todo[b]
  /\ ring' = [ring EXCEPT ![b] = c]
  /\ todo' = [todo EXCEPT ![b] = @ \ {c}]
  /\ IF Muted(b, c) THEN Ends(b, "SHADOW_ONLY") ELSE Goes(b, "look")
  /\ UNCHANGED <<world, mark, receipts, mode, cool, via, past>>

\* unread_senders: has it been read since?
Look(b) ==
  /\ at[b] = "look"
  /\ IF Unread(To(b)) = {} THEN Ends(b, "STALE") ELSE Goes(b, "route")
  /\ UNCHANGED <<world, mark, receipts, mode, cool, todo, ring, via, past>>

\* route_for, and the adapter it names.
FindRoute(b) ==
  /\ at[b] = "route"
  /\ via' = [via EXCEPT ![b] = route[To(b)]]
  /\ LET r == route[To(b)] IN
     CASE r.adapter = "none"        -> Ends(b, "NOT_MINE")
       [] r.adapter = "codex-queue" -> IF r.enter THEN Goes(b, "receipt")
                                                  ELSE Ends(b, "DISABLED")
       [] r.adapter \in Terminal    -> Goes(b, "type")
       [] OTHER                     -> Ends(b, "UNSUPPORTED")
  /\ UNCHANGED <<world, mark, receipts, mode, cool, todo, ring, past>>

\* The database or the queue command cannot be read or found.
LookFails(b) ==
  /\ at[b] \in {"look", "route", "receipt"}
  /\ Ends(b, "UNKNOWN")
  /\ UNCHANGED <<world, mark, receipts, mode, cool, todo, ring, via, past>>

\* The ring reaches the node, which then knows of all its unread mail.
Tell(n) == told' = told \cup Unread(n)

\* send_to_iterm_session, send_to_tmux_pane.
Type(b) ==
  /\ at[b] = "type"
  /\ Tell(To(b))
  /\ Ends(b, "SUCCESS")
  /\ UNCHANGED <<world, mark, receipts, mode, cool, todo, ring, via, noted, tries>>

\* The text without Enter; a time-out with the text or without; no such
\* session; or, for iTerm, more than one.
TypeFails(b) ==
  /\ at[b] = "type"
  /\ \/ via[b].enter /\ Ends(b, "TEXT_ONLY") /\ Tell(To(b))
     \/ Ends(b, "UNKNOWN") /\ (Tell(To(b)) \/ UNCHANGED told)
     \/ Ends(b, "GONE") /\ UNCHANGED told
     \/ via[b].adapter = "iterm2" /\ Ends(b, "FAILED") /\ UNCHANGED told
  /\ UNCHANGED <<world, mark, receipts, mode, cool, todo, ring, via, noted, tries>>

AsItIsBug(s) == s

\* What a notification with this receipt comes to without a submission.
Receipted(s) == IF s = "PENDING" THEN "UNKNOWN" ELSE s

RetryBug(s) == s # "QUEUED"

\* No attempt has been made under this receipt.
Fresh(s) == s = "none"

\* BEGIN IMMEDIATE: an earlier attempt is not repeated, a new one is noted
\* before it is made.
Reserve(b) ==
  LET t == via[b].thread
      i == ring[b].high IN
  /\ at[b] = "receipt"
  /\ IF Fresh(receipts[t][i])
       THEN /\ receipts' = [receipts EXCEPT ![t][i] = "PENDING"]
            /\ Goes(b, "submit")
       ELSE Ends(b, Receipted(receipts[t][i])) /\ UNCHANGED receipts
  /\ UNCHANGED <<world, mark, mode, cool, todo, ring, via, past>>

\* The queue command: accepted and said so, or not known.
Submit(b) ==
  /\ at[b] = "submit"
  /\ at' = [at EXCEPT ![b] = "confirm"]
  /\ \/ result' = [result EXCEPT ![b] = "QUEUED"] /\ Tell(To(b))
     \/ result' = [result EXCEPT ![b] = "UNKNOWN"] /\ (Tell(To(b)) \/ UNCHANGED told)
  /\ tries' = [tries EXCEPT ![via[b].thread][ring[b].high] = @ + 1]
  /\ UNCHANGED <<world, mark, receipts, mode, cool, todo, ring, via, noted>>

Confirm(b) ==
  /\ at[b] = "confirm"
  /\ receipts' = [receipts EXCEPT ![via[b].thread][ring[b].high] = result[b]]
  /\ Goes(b, "record")
  /\ UNCHANGED <<world, mark, mode, cool, todo, ring, via, past>>

ConfirmFails(b) ==
  /\ at[b] = "confirm"
  /\ Ends(b, "UNKNOWN")
  /\ UNCHANGED <<world, mark, receipts, mode, cool, todo, ring, via, past>>

GoneToo == {"SUCCESS", "SHADOW_ONLY", "TEXT_ONLY", "QUEUED", "GONE", "UNKNOWN"}

\* The outcomes that count as having rung.
Suppressing == {"SUCCESS", "SHADOW_ONLY", "TEXT_ONLY", "QUEUED"}

Higher(i, j) == IF i > j THEN i ELSE j

\* record_ring: the cooldown first,
Cool(b) == cool' = [cool EXCEPT ![b] = IF result[b] = "UNKNOWN" THEN @ \cup {To(b)}
                                                                ELSE @ \ {To(b)}]

\* then the row, of which only the highest suppressing one of a mode matters.
Record(b) ==
  /\ at[b] = "record"
  /\ Cool(b)
  /\ IF result[b] \in Suppressing
       THEN /\ mark' = [mark EXCEPT ![mode[b]][To(b)] = Higher(@, ring[b].high)]
            /\ noted' = [noted EXCEPT ![b][To(b)] = ring[b].high]
       ELSE UNCHANGED <<mark, noted>>
  /\ at' = [at EXCEPT ![b] = IF todo[b] = {} THEN "idle" ELSE "next"]
  /\ ring' = [ring EXCEPT ![b] = Nothing]
  /\ via' = [via EXCEPT ![b] = NoRoute]
  /\ result' = [result EXCEPT ![b] = "STALE"]
  /\ UNCHANGED <<world, receipts, mode, todo, told, tries>>

\* The row is not written, and the round ends with the exception.
RecordFails(b) ==
  /\ at[b] = "record"
  /\ Cool(b)
  /\ at' = [at EXCEPT ![b] = "idle"]
  /\ Drop(b)
  /\ UNCHANGED <<world, mark, receipts, mode, past>>

Works(b) ==
  \/ Decide(b) \/ (\E c \in Candidate : Take(b, c)) \/ Look(b) \/ FindRoute(b)
  \/ Type(b) \/ Reserve(b) \/ Submit(b) \/ Confirm(b) \/ Record(b)

Fails(b) ==
  LookFails(b) \/ TypeFails(b) \/ ConfirmFails(b) \/ RecordFails(b)

Bell(b) ==
  \/ \E m \in Modes : Start(b, m)
  \/ \E n \in Nodes : Warm(b, n)
  \/ Stop(b) \/ Works(b) \/ Fails(b)

Next == World \/ \E b \in Bells : Bell(b)

Spec == Init /\ [][Next]_vars

-----------------------------------------------------------------------------
(* Properties.                                                             *)

\* The watermark of LIVE means that "everything up to here definitely reached
\* someone": no unread mail is at or below it unless its node was told, whatever
\* failed, timed out or crashed, in whichever mode a process ran before.
NothingBuried ==
  \A i \in Ids : mail[i] = "unread" /\ i <= mark["LIVE"][For[i]] => i \in told

\* A process rings a node, or hands its notification to a queue, only for mail
\* above all that this process has recorded as rung for the node.
RingsOnce ==
  \A b \in Bells :
    at[b] \in {"look", "route", "type", "receipt", "submit"} =>
      ring[b].high > noted[b][To(b)]

\* "One attempted submission per (thread, notification identity)": whatever
\* crashes, times out or runs at the same time.
QueueOnce == \A t \in Threads, i \in Ids : tries[t][i] <= 1

-----------------------------------------------------------------------------
(* The processes as one bell: the mail, who was told of it, the watermark  *)
(* of LIVE and the submissions, with every process hidden.                 *)

Contract == INSTANCE BellContract WITH mark <- mark["LIVE"]

\* The comment on the watermark, "everything up to here definitely reached someone",
\* step by step: however many processes ring, fail and crash, the watermark only
\* rises, over no mail its node was not told of, and each notification is submitted
\* once.
KeepsContract == Contract!Spec

-----------------------------------------------------------------------------
(* Progress: the processes run on, their polls come round, and after some  *)
(* time nothing fails any more.  Nothing is assumed of a Stop or a Start,  *)
(* or of the world.  A step that is also the normal one is no failure.     *)

Trouble(b) == Fails(b) /\ ~Works(b)

Fairness ==
  /\ \A b \in Bells :
       /\ WF_vars(Works(b))
       /\ \A n \in Nodes : WF_vars(Warm(b, n))
  /\ <>[][~ \E b \in Bells : Trouble(b)]_vars

FairSpec == Spec /\ Fairness

\* A process runs in mode LIVE, and the node is not quiet and has a terminal.
Rings(b, n) == /\ at[b] # "off" /\ mode[b] = "LIVE"
               /\ n \notin quiet
               /\ route[n].adapter \in Terminal

\* "If unread mail is still there, it rings": while a process runs in LIVE and a
\* node can be rung, each unread delivery of the node is told or settled in the
\* end, whatever was missed, failed or observed in SHADOW before.
UnreadRings ==
  \A i \in Ids : (\E b \in Bells : <>[]Rings(b, For[i]))
                   => (mail[i] = "unread" ~> (mail[i] # "unread" \/ i \in told))
=============================================================================
