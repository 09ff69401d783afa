# tabc: a verification development

tabc is a message bus between sessions on one machine: `tabd` keeps messages in a
SQLite ledger and serves signed HTTP requests; `tabc`, an MCP adapter and a Java
client pull, open, acknowledge and send; a doorbell process types a one-line hint
into the terminal of a node with unread mail. This directory holds TLA+ models of
that code, the TLC runs that check them on small instances and the TLAPS proofs of
what holds for every instance. `PROJECT.json` lists runs, mutants, findings, hazards
and theorems, and maps every definition to the lines it stands for.

## The system

State is in files; every request runs on a thread of tabd with a database connection
of its own. Python's sqlite3 opens a transaction at the first INSERT, UPDATE or DELETE
and the code commits explicitly, so a SELECT before that sees only what is committed
when it runs and locks nothing. This is the source of most interleavings below.

| component | state | operations | interacts through |
| --- | --- | --- | --- |
| mailbox (`bus.py`, `daemon.py`) | `deliveries`: state, attempts, lease, stamps | `/pull` (`claim_new`), `/reopen` (`reopen_unread`), `/ack` (`bus_ack`), `/tac_messages?node=` (`bus_tac_mark_read`) | rows created by a send; read by the gates of a send, the counts and the doorbell |
| sending (`bus.py`, `daemon.py`) | `messages`, `deliveries` | `/send` (`bus_send`): direct, all, tac, broadcast; retries under one id | reads nodes, removed_nodes, tacs, tac_members; creates mailbox rows; writes the spool |
| registration, routes (`bus.py`) | `nodes`, `tab_routes`, keys, boot times, presence | `bus_register`, `bus_beat`, `bus_rotate_key`, `bus_remove`, `bus_restore`, snooze | who may send and receive; where the doorbell types |
| tacs (`bus.py`, `tac_*.py`) | `tacs`, `tac_members`, `tac_links`, names and their folded keys | create, rename, add, remove, close, link, list, search, catch-up | fan-out of a send; catch-up moves mailbox rows |
| doorbell (`doorbell.py`, `doorbell_poll.py`) | `rings`, `observations`, `rounds`; a cooldown in memory | one round: scan, decide, deliver, record | reads the ledger only; types into a terminal or calls the codex queue |
| codex queue (`codex_queue.py`) | receipts PENDING, QUEUED, UNKNOWN | `QueueDelivery.deliver` | an external command whose outcome may be unknown |
| request pipeline (`daemon.py`, `nodekey.py`) | threads, deadlines | accept, read body, verify signature, dispatch, answer | every handler |
| client sessions (`cli.py`, `mcp_server.py`, Java) | what a command has listed and has in hand; files of keys | read, open, pull, ack, `tac show --node` and the tools of the same names: requests in a row, with a body printed in between | HTTP; each request is a thread of tabd |
| startup, schema (`daemon.py`, `bus.py`) | the tables, columns and indexes of the ledger; the port | SCHEMA, `migrate`, `init_extras`, bind | every handler relies on what it has made; an earlier release may be serving from the same file |
| tac migration (`tac_migration.py`) | a copy of the ledger | convert, check, publish | run by hand, tabd stopped |
| route capture (`route_capture.py`, `terminal_frontend.py`, `process_argv.py`) | none | find the terminal that owns a process | registration |
| payload rules, texts, paths, scripts | none | | |

What is hard in it: two requests on one delivery; a send whose checks and transaction
are apart; a response that is lost after its commit; a lease that lapses under a slow
reader; a retry under the same id; a ring that is typed and not recorded; a queue
command that may or may not have been carried out; a route that two nodes claim; a client that is stopped between printing
and marking; an upgrade that is stopped between two statements or meets another.

What makes each part correct, in short: a delivery is handed out at most five times,
to one winner at a time, climbs its ladder in order, and ends settled; what a send
answers is true and is never stored twice or changed afterwards, and its rules (read
before you send, programs receive nothing, removed nodes are inactive, closed tacs are
silent) hold; one active node owns a terminal; what is unread is rung in the end and
what is rung is not rung again; a queue submission happens at most once; nothing is marked
read that was not on a screen, and everything gets there; what serves finds the schema its
requests need, and no start loses mail.

## Modules

| module | models |
| --- | --- |
| `Mailbox` | the deliveries of one node and the request threads on them |
| `MailboxContract` | what one delivery may do in one step |
| `Mailbox_proofs` | theorems about Mailbox |
| `Ledger` | the tables a send depends on and what else changes them |
| `Send` | `bus_send` as request threads run it, on Ledger |
| `SendContract` | a send as one step on Ledger |
| `Send_proofs` | theorems about Send |
| `Doorbell` | doorbell processes, their watermarks, and the receipts of the codex queue |
| `BellContract` | what notification processes promise about the mail of each node |
| `Doorbell_proofs` | theorems about Doorbell |
| `Registry` | registration of nodes and their terminals |
| `TerminalContract` | registrations one at a time, as they move the terminals |
| `Registry_proofs` | theorems about Registry |
| `TacNames` | identifiers and names of tacs, and the conversion of old ledgers |
| `TacContract` | what the tacs are to those who name them |
| `TacNames_proofs` | theorems about TacNames |
| `Reader` | the programs that read mail, composed with Mailbox |
| `ReaderContract` | what reading promises the reader |
| `Reader_proofs` | theorems about Reader, on top of those about Mailbox |
| `Startup` | processes that start on a ledger and upgrade it, statement by statement |
| `UpgradeContract` | what a start may do to a ledger |
| `Startup_proofs` | theorems about Startup |
| `MCMailbox`, `MCSend`, `MCDoorbell`, `MCRegistry`, `MCTacNames`, `MCReader`, `MCStartup` | constants for TLC |

### Mailbox

The columns of a row are the functions `state`, `attempts`, `lease` and `stamps`
(injected_at, read_at, processed_at). A SELECT is one step, a group of UPDATEs with its
commit another; in between, a thread keeps the rows it selected (`rows`) and, where the
code keeps it, the state it read (`saw`). `StartPull`, `PullCheck`, `PullRecover`,
`PullSelect` and `PullClaim` are the phases of `claim_new`; an empty round of the long
poll starts over or ends. `ReopenSelect` and its three outcomes are `reopen_unread` with
the handler of `/reopen`; `AckRead` and `AckWrite` are `bus_ack`; `CatchUpSelect` and
`CatchUpMark` are `bus_tac_messages` and `bus_tac_mark_read`. `Reply` is the response
going out, read or not; `Die` is any end without one. Around them a send deposits a row,
a lease runs out, an envelope becomes unfit (expired, most of all), and the node is removed and
restored.

Time is the order of two events: a lease has run out, an envelope has expired. Messages
are numbered in the order the selection serves them. Requests that change nothing (an
unknown id, a transition the table forbids, a message that is not unread) have no action.
The resolution of an id prefix to one message is left out: it reads only.

### Ledger and Send

`Ledger` has nodes and their kind, removed nodes, one tac with its members, messages and
deliveries. A delivery is *unread* while ACCEPTED or CLAIMED, the states the gates of a
send count, and *opened* after that: `Mailbox` shows the way from one to the other. Its
actions are registration, removal, restoring, purging, the life of the tac, and opening
mail. `Insert` is what one send writes.

`Send` cuts `bus_send` where it reads: the sender, the tac and whether it is closed, the
unread mail of the tac, the recipients of a tac, a broadcast or `all`, programs among
them, which of them are active, unread direct mail, and then the transaction, which ends
in `Store`, in `Resend` (IntegrityError by UNIQUE or PRIMARY KEY, compared with what is
stored) or in `Raise` (a foreign key failed: the handler dies). A text stands for all the
columns the comparison looks at. A client may send any of `Envelopes` at any time, which
covers retries with and without an answer, overlapping retries and reuse of an id.
Payload limits (`check_send_payload`) and the format of an expiry are refused before
anything is read; an envelope here is one that passed. A reply to a message that does not
exist (a failing foreign key) is not enumerated.

### Doorbell

A delivery is its row id, *unread* while the scan would count it, and *done* once it is
read, quarantined or dead. It does not come back, but for an acknowledgement that was
overtaken (`AckLate`; see `MailboxAckRace`). `quiet` are the nodes that snooze or are
removed, `route` the active row of each node.

A round of `doorbell.py` is `Decide` (`decide` with `scan_unread` and the watermarks, one
snapshot), then for each candidate `Take` (`SHADOW_ONLY` or go on), `Look`
(`unread_senders`), `FindRoute` (`route_for` and the choice of the adapter), the delivery,
and `Record` (`record_ring` with the cooldown). The delivery is `Type` for a terminal, and
`Reserve`, `Submit`, `Confirm` for the queue: the receipt PENDING is committed, the command
runs, the receipt is overwritten with its outcome. `LookFails`, `TypeFails`,
`ConfirmFails` and `RecordFails` are the error paths; a poll that fails changes nothing and
has no action. `Stop` ends a process at any point, so between any two of these steps.
A process keeps the candidates (`todo`), the one in hand (`ring`), its route (`via`) and
result, and the cooldown (`cool`).

Of the rows of `rings` only what is read back is kept: `mark`, for each mode and node the
highest id with a suppressing outcome. `told`, `noted` and `tries` are history: the
deliveries a ring has announced, what a process has recorded, and how often a
notification was handed to the queue. The text of a ring, the audit tables and the lookup
of the queue command are left out. A node that snoozes after `decide` is still rung in
that round, as in the code.

### Registry

A registration takes its time stamp (`Start`), reads whether the node is removed
(`CheckRemoved`) and whether a newer instance is there (`CheckFence`), and then does the
rest in one transaction begun with BEGIN IMMEDIATE (`Write`): the refusals that look at
rows (`Taken`, `Unproved`, `Demoted`), the node, the other owners of the place
(`Owners`, `Revoked`) and its own route (`Claimed`, `OwnRow`). Every refusal and every
error ends the request with nothing written (`GiveUp`); a request refused for its form
alone (`WellFormed`) never starts. A removal looks at the node and then writes
(`StartRemove`, `Remove`). A route is an adapter at a place, the pair of host and target
that the unique index is on. `consent` and `proof` are history: the route a node has asked
Enter for and held since, and the route it proved last. The node's key is left out, and with
it the signature that admits a request: any node may ask for any of `Calls`.

`Ledger` in the model of sending has the part of this that a send sees, and `Doorbell`
lets routes change in any way.

### TacNames

The rows of `tacs` are those on the string scheme (`strings`) and those with a UUID
(`name`, `key`). On a ledger without the identity columns a create takes the string it was
sent as the id (`StartString`, `InsertString`); on one that has them it draws a UUID, and
creating and renaming are refused while a string row is left. A request reads, in SELECTs of
their own, the row to rename (`ReadRow`), whether a node has the name (`CheckNode`) and
whether a tac has it (`CheckTaken`); its write (`Insert`, `Update`) is a transaction that
only the unique index on the key, or the primary key, can refuse: `Unique` is asked twice.
The interpreter is a function from names to keys and changes when tabd is restarted
(`Upgrade`), for name folding follows the Unicode version. `Migrate` is the conversion: the
preflight (`Plan`), with the names the operator chooses, and `Convert`, one step because it
works on a copy while tabd is stopped and all of it is published or nothing.
`CreateRolledBack` is the old release on a converted ledger, which the code (and
`tests/test_tac_migration.py`) expects. `refs` are the ids in messages, members and links;
labels, closing summaries, lookup and search are left out. `had` is history.

### Reader

`Reader` extends Mailbox with the clients. Session `r` talks to the request thread `r`: the
step that sends a request is also the first step of the thread, the one that receives the
answer is also its `Reply`, and `Serves` is the thread at work in between. A session has a
command (`doing`), a place in it (`turn`), the messages it still goes through (`todo`), the
one in hand (`held`) and its closing line (`said`). `fn_read` is `ReadLists`, then for each
title `ReadOpens`, `BodyArrives` (which prints), `Inject` where the answer said CLAIMED,
`Mark`, and at the end `ReadReports` with a fresh query. `fn_open` and `tabc_open` are
`Opened`, `BodyArrives` and `Inject`; `fn_pull` is `PullBegins`, `PullArrives`, and
`PullPrints` and `Inject` in turn; `tabc_pull` shows what it got at once; titles show
nothing. `AckByHand` acknowledges a message by hand, and only one that somebody was
shown: the protocol has no defence against a user who acknowledges what he has not seen.
`ShowTac` is the catch-up of a tac. `shown` is history: the bodies that were on some screen.

Both sides may be gone before the other knows: `HandlerFails` is the thread that dies and
`call()` that raises, `ClientGone` the client that is stopped while its request is worked on
(`AnswerToNobody`). Refused acknowledgements change nothing and let the command go on, as in
the code. Commands that only look at titles (`who`, `sent`, `mailbox`, `tac ls`) have no
action.

### Startup

A process runs `Script`, the statements of SCHEMA and `migrate` in their order, as data: make,
look (PRAGMA table_info), add if it was missing when looked at, shed, try, and the ones that
depend on the names of tacs (`ensure_columns`). Each statement is a step, because Python's
sqlite3 opens no transaction for them; `have` is what the process read before it alters a
table. `Possible` says when SQLite can build an index. `Fails` is the exception of a column that another
process has added since, of an index without its column, or of two live routes with one
target (`clash`). The rebuild of deliveries is a transaction that holds `lock` from `Renames`
to `Commits`; `Left` is what a process that is stopped in it leaves. `Extras` and `Binds`
are the rest of `init_extras` and `main`: the port is taken last, so a second start runs all
of this under a daemon that serves, and `Stores` goes on meanwhile. `Crash` ends a process
anywhere, `EarlierStops` is the operator who stops an old release. Tables that no later
statement touches are left out; a ledger that a start may find is any member of `Ledgers`.

### What is abstract and what is detailed

`MailboxContract` says what happens to each delivery and `KeepsContract` in Mailbox that
every step of the threads is such a step. `SendContract` makes a send one atomic step with
its rules as guards, and `KeepsContract` in Send says that the sequence of SELECTs and the
transaction together are that step. Both hold when nothing happens between a check and the
write that relies on it (`CalmSpec`), and the violation runs show what happens otherwise.
What then is left of them is stated too, without any assumption on overlaps: the
`ContestedSpec` of either contract. Of a mailbox that is all of it but for one action,
`Overtaken`, the three ways in which an ack can write over a state it did not read. Of a send it
is that it happens in one step, whole, under a new id, for registered recipients the envelope
can mean; the rules about what the checks found are gone, since nothing keeps them true until the
INSERT. `KeepsContested` in Mailbox and in Send says so.

The two models also meet in what others assume of a mailbox: `GatesOpenForGood` is the
mailbox that `Ledger` has, `ComesBackTaken` the one that `Doorbell` has. Both are
proved of Mailbox, for any overlap: no ack, however late, writes ACCEPTED or CLAIMED, and one
that writes INJECTED has read CLAIMED, so that the row was once taken.

Five contracts are stated over variables of their own and implemented under a refinement
mapping. `TerminalContract` has only the seats, who is at which terminal and with or without
Enter, and the requests that are under way; `KeepsSeats` in Registry maps the rows of
`tab_routes` to that and says that overlapping registrations act one at a time, each in one moment between
its coming and its end. `BellContract` has no process in it: the mail, who was told of what, the
watermark of LIVE and the submissions; `KeepsContract` in Doorbell hides rounds, snapshots,
modes, receipts, cooldowns and crashes. `TacContract` has no request in it: a tac is created,
renamed and converted in one moment, under a name that is free for the interpreter that runs
then; `KeepsContract` in TacNames maps the name and the history of a tac to the one set of names it is
known by (`Recalled`). `ReaderContract` knows of each message only whether its reader has nothing, or has it
unseen, seen, read or set aside; `KeepsInbox` in Reader maps delivery states and `shown` to
that (`MailOf`), so that leases, claims and attempts are hidden. `UpgradeContract` knows the
deliveries, the scheme of the tacs and whether the check of deliveries is widened;
`KeepsLedger` in Startup maps the schema to that (`Scheme`) and hides statements and processes.

## Runs

| run | specification and bounds | shows |
| --- | --- | --- |
| `Mailbox` | `Spec`, two messages (one perishable, one of a tac), two threads, two attempts, page of one | types, the poison rule, one winner for each attempt, stages recorded in order, no unfit body, that only the write of an ack goes back, and the contested contract |
| `MailboxAlone` | `FairSpec`, one thread | the contract (which leaves no way back), and that everything settles |
| `MailboxAckRace` | `Spec`, one message, two threads | *violation*: an ack overwrites a state it did not read |
| `SendRetries` | `Spec`, two nodes, one id in four envelopes (two contents, a repeated name, a tac), two threads | every positive answer is true, and the contested contract: a send is one step, whole, under a new id |
| `SendCalm` | `FairSpec`, two nodes, two ids, six envelopes in all modes, one thread | the contract with its rules, no cross talk, and that nodes that read get through |
| `SendCrossTalk` | `Spec`, two nodes, two threads | *violation*: both of two simultaneous sends pass the gate |
| `Doorbell` | `Spec`, two processes, one node, two deliveries, the codex queue | types, no unread mail below the watermark of LIVE without a ring, one submission for each receipt |
| `DoorbellAlone` | `FairSpec`, one process, two nodes with one delivery each, iTerm | nothing rung again after it is recorded, the contract of notification, and unread mail is rung in the end |
| `Registry` | `Spec`, two threads, two nodes, seven kinds of call each, two routes at one place and one at another, a clock of two | types, the contract of the terminals (one owner of a place, takeovers only in words), Enter and proof only for the route they were given for |
| `TacNames` | `Spec`, two threads, two UUIDs, two names (one of them also a node's), an interpreter that tells them apart and one that does not | types, the contract of the tacs (a free name at every write, nothing lost in a conversion), duplicates reported at startup, no name forgotten, old ids lead to one tac, references stay with their tac |
| `Reader` | `FairReaderSpec`, one session after another, two messages (one perishable, one of a tac), two attempts, page of one | types, nothing marked that was not shown, a true closing count, the contract of the reader, and that repeated reading shows everything |
| `Startup` | `FairSpec`, two processes, one delivery, ledgers of four ages, an earlier release that may be serving | types, a whole schema under every service, the contract of an upgrade, and that restarting ends in service |

Why the bounds are enough: the code treats messages of one mailbox alike except for their
order, so two suffice to let one take the page from the other; each race needs two threads,
because every write is conditional on, or compared with, one row; MAX_ATTEMPTS is five in
the code and two here, enough to have a first, a last and a refused attempt; a page of one
is the smallest LIMIT. In Send two nodes are sender and recipient in both directions, and
one id is enough for retries because ids share no row. In Doorbell two processes are what
it takes to race for a receipt or a watermark, and two deliveries to have one above and one
below it; nodes meet only in the order of the candidates of a round. In Registry two nodes and two routes at one place are what a
conflict needs, a third route somewhere else is where a node can move, and two ticks tell
earlier from later. In TacNames two tacs and two names are what a collision needs, and with
two interpreters a name can be free to one and taken to the other; two UUIDs leave room for a
conversion, a rollback and a second conversion. In Reader one session after another is
enough for liveness and for the refinement, which are about what a session leaves behind when
it is cut off, and a second message is what can stand in front of the first or be beyond the
page; that sessions overlap is left to the theorems, which are for any number of them. In
Startup two processes are what it takes to read the same columns or meet in the rebuild; the
four ledgers are an empty one, the first release, one from before tacs had names and the last
one before this, so that each statement meets a ledger that needs it and one that does not;
and the ledgers that crashes leave are reached from them. The theorems lift the bounds.

Deadlock is checked in every run. In no run does the system have to stop: nodes can
always be registered or a request started.

### Fairness

In `Mailbox!FairSpec` a lease runs out (time passes), a thread does not hang (SQLite's
busy timeout and the hold time of the poll end its waits), and the steps of a pull are
strongly fair: a node that keeps pulling gets each step done now and then, although any
pull may die. `Settles` needs no acknowledgement: the lease and the poison rule are enough.
`Send!FairSpec` assumes that a client repeats its direct envelope until it is stored, that
not every one of its tries dies before it is answered (the answer may be lost), and that nodes open
their mail. Nothing is assumed about administration.
`Doorbell!FairSpec` assumes that a running process goes on, that a cooldown ends, and that
after some time nothing fails any more; how often processes are stopped, and in which mode
they run, is open. `UnreadRings` is about a node for which from some time on a process runs
in LIVE and which is reachable and not quiet.
`Reader!FairReaderSpec` assumes that the user runs `read` again and again, whatever else is run in
between, that requests and commands end (every one has a timeout), and that at some time no
answer is lost and no client stopped any more; an exception that the handler raises by itself
is not assumed away, and neither is a step that is both (`Unlucky`). `EverythingShown` is then
about every message but those behind one that makes `/reopen` raise (`Blocked`).
`Startup!FairSpec` assumes that tabd is started again whenever it has ended, that statements end,
that the earlier release is stopped, and that at some time no process is stopped from outside
any more. A process that ends by an exception or because the port is taken is not excluded: that
the last one wins through such ends is what `GetsUp` says. It is for ledgers without two live
routes of one target, on which tabd never starts.

## What is proved

All theorems are for any finite or infinite sets of messages, nodes, ids, envelopes and
threads, from the assumptions on the constants only.

*Mailbox.* `TypeCorrect`; then `PoisonRuleHolds`, from the invariant that a thread between
the two transactions of `claim_new` may hold stale rows, but rows on offer always have attempts left, so
the condition `state='ACCEPTED'` of the UPDATE is what carries the bound; `OneWinnerHolds`,
because the attempt number in a response is at most the row's and was counted by that
claim; `RungsClimbedHolds`, although acks overwrite states they did not read, because an
ack's old state was once reached with its stamp; `TakenWhenFreeHolds`,
`UnfitBodyWithheldHolds` and `OnlyAckGoesBackHolds` are facts about single steps;
`ContractKept` and `NeverBackwardsHolds`, under CalmSpec, from the invariant that the state
an ack has read is still one its transition allows. Without CalmSpec there is `ContestedKept`: what
an ack writes its transition allowed for a state that the row was in, so INJECTED only for a row
that was once taken, and that leaves the moves of `Overtaken`.
`GatesOpenForGoodHolds` and `ComesBackTakenHolds` say what this comes to for the other models.

*Send.* `TypeCorrect`; `StoredForGoodHolds` from the single step in which `Store` writes and only under
an id that is free; `AnswerTrueHolds` from the invariant `IInv`: no delivery stands without
its message (so a first store finds no old recipients), a thread has an outcome only when it
is about to answer (so nothing changes its recipients afterwards), and what is stored stays.
Under CalmSpec, `AllKnown` says for each place in the sequence of checks that all that has
been found so far still holds; it is inductive because either the tables stand still or no
thread is in the middle of a send (`CalmCases`). At the INSERT it gives exactly the guards of
`SendContract`, hence `ContractKept`, and from the contract follow
`ProgramsReceiveNothingHolds` (strengthened to: only agents have mail),
`NoCrossTalkHolds`, `ClosedTacSilentHolds` and `RemovedInactiveHolds`.
Under Spec, where anything overlaps, `Narrowed` keeps what a thread makes of its envelope: the
recipients in its hands are always some the mode can mean, whatever has happened to them. With the
keys and the foreign keys, which are asked at the INSERT, that gives `ContestedKept`, and
`AccountedHolds`: ids are unique, and sender and recipients stay registered, since a purge
refuses a node that a message names. `OnlyRacesCrossHolds` says what is left of "listen before speaking" in the code as it
is, and so how wide the gap behind `SendCrossTalk` is: a request is let through with nothing unheard
(`Listened`), while it waits for its INSERTs only those of another send can change that
(`OutrunByStore`), and two nodes come to have unopened mail of each other only by a send that was
outrun like this, or that nobody gated, because its sender was a program when it was looked
at (`CrossedByStore`). The counterexample of `SendCrossTalk` takes the first way.

*Doorbell.* `TypeCorrect`; `QueueOnceHolds`, because a submission follows its receipt, and
at most one process is between the two (`Receipted`); `RingsOnceHolds`, because
what a process has recorded is at or below the watermark and watermarks only rise, so a
candidate of a later `Decide` is above it; `NothingBuriedHolds` from the invariant that the
watermark of LIVE, a receipt QUEUED, and a success in hand but not yet recorded each cover
all unread mail of their node up to their id. A watermark covers because ids are handed out
in order: what is new is above it. `ContractKept` needs all of this at once: a `Record` that
raises the watermark is a `Raise` of the contract because its success covers what is below, and
a submission is the first because of `Receipted`. `ContractSuffices` goes the other way, from
BellContract alone to `NothingBuried`: a process that is added, or replaced, need only
keep the contract.

*Registry.* `TypeCorrect`; `OneOwnerHolds` is inductive with the types, because who holds a
place after a registration claimed it, or held it and was not among the owners it revoked
(`HoldsAfter`); `OnlyTakenHolds` from the single step; `EnterConsentedHolds` and
`ProofCurrentHolds` are inductive too, because `Enter` looks at the live route of the same
node and a proved row gives way to a proof only. None of them leans on the unique index.
`ContractKept` is the refinement: seats are read back from the rows (`SeatsAre`), and the write
is compared with `Sits`, `Rises` and `TurnsOff`; what was read before the transaction
decides only whether there is a write. `ContractSuffices` derives one owner from the contract alone.

*TacNames.* `TypeCorrect`; `UniqueKeysHolds` is inductive with the types, by the index for a
write and by the preflight for a conversion, and `DuplicatesReportedHolds` follows from it:
two rows that are one name to this interpreter have different stored keys, so one is stale.
`NamesRecordedHolds` rests on the invariant `Recorded`: a UUID under creation is in no other
thread's hands but those of a rename that has found no row yet, a name that a rename has read
is one the tac has had, and once a tac has had two names all are in its history.
`OldLettersReadHolds` comes from the primary key of `tac_legacy_ids`; `ReferencesFollowHolds`
from the invariant that every reference is to a row, which only a conversion replaces.
`ContractKept` needs besides that the history tells of nothing that has not been (`Honest`) and
that no string appears while a request works on a UUID (`OneScheme`). The hard step is a
rename that records another old name than the one it replaces: the set of known names grows by the new
name all the same (`ToldWritten`), since the replaced name was recorded when it came.
`ContractSuffices` derives unique keys and single old ids from the contract alone.

*Reader.* `ReaderUsesMailbox`: every behaviour of the sessions is one of Mailbox, so its theorems
hold for them; `ReaderTypeCorrect`; `SeenBeforeMarkedHolds` from the invariant `SeenInd`, which
follows a body from the claim over the response to the hand of the session: what a thread is
about to write as READ or INJECTED is in a hand, and what is in a hand was printed;
`ClearMeansSeenHolds` from the step of `ReadReports`, with that invariant for the rows that
are past the unread states. `InboxKept` is the refinement, step by step: what Mailbox may do to a
delivery (`ContractKept`) is under `MailOf` a step of ReaderContract or a stutter, and only the
steps that print move a message from unseen to seen.

*Startup.* `TypeCorrect`; `ServesWholeHolds` from the invariant `IInv`: for each process, every
statement behind it is still done (`Kept`), whatever others have done since, and what it has read
and still goes by is true (`Informed`). It is inductive because no statement undoes another
(`Grows`): the two things that are dropped are made by none, and a table of tacs that is there
gets no names. `ContractKept` is the refinement, from the invariant that the process in the
rebuild holds the lock and its copy is up to date (`Alone`), and from `Grows`.

Proved and not checked by a run of their own, because the contract that a run checks covers
the same steps: of Mailbox `NeverBackwards` (its violation without CalmSpec is a run),
`TakenWhenFree`, `GatesOpenForGood` and `ComesBackTaken`; of Send `StoredForGood`,
`ProgramsReceiveNothing`, `ClosedTacSilent`, `RemovedInactive` and `Accounted`; of Registry
`OneOwner` and `OnlyTaken`; of TacNames `UniqueKeys`.
`OnlyRacesCross` of Send has no run either: it states what is left of `NoCrossTalk` under Spec, whose
violation is a run.

Only model-checked: liveness (`Settles`, `GetsThrough`, `UnreadRings`, `EverythingShown`,
`GetsUp`), which the prover cannot treat. The findings are shown by counterexamples.

## What the code does otherwise than it says

* `MailboxAckRace`: the UPDATE of `bus_ack` does not name the state it read, so of two
  overlapping requests the slower takes a delivery back. Every other step is proved
  innocent of this (`OnlyAckGoesBack`).
* `SendCrossTalk`: the rules of a send are checked outside the transaction that stores it,
  so a message, a removal, a closing or a registration in between escapes them.

More were met on the way. The models have them, and no run is spent on them:

* `bus_register` compares the boot order before the transaction that overwrites `boot_at`
  without a condition (`CheckFence` and `Write` in Registry), so of two instances that register
  at once the one that booted earlier may stay, against the comment on the table nodes
  (`src/tabus/bus.py:156`). The check for removal has the same gap.
* `plan` does not look at `tac_legacy_ids` (`Plan` and `OldIdsFresh` in TacNames), so a tac
  created again, after a rollback, under a string that was converted before passes the preflight
  and ends the conversion with an IntegrityError, now and on every further run; until the row is
  removed by hand, no tac can be created or renamed.
* The `/reopen` handler reads `sender_id` of a quarantined row that has none, and the client
  gets no answer (`ReopenUnfit` in Mailbox ends in "raised"). Such a message stays unread, and
  `tabc read` stops at it with an exception every time, so mail that is listed after it is not
  shown by `read` (`Blocked` in Reader).
* A recipient named twice breaks the uniqueness of deliveries and is reported as a reused id with
  nothing stored (`Resend` in Send).
* `attach` and a pull with titles only claim what they list. Repeated often enough without an
  open they use up the attempts, and a message goes DEAD that nobody has been shown; in
  `EverythingShown` it counts as set aside.
* Two live routes that name one target, in a ledger without the unique index, make every start of
  tabd end in an IntegrityError (`clash` in Startup) until one of them is revoked by hand.

## Not modelled, and the plan

Next would be `Tacs` (closing with its summary, members and links next to TacNames, whose rows
they hang on: links refuse nobody but a tac itself, so little can go wrong there) and the rotation
of a node's key in Registry.

The request pipeline has no module of its own: a request gets a thread, a body that does not
arrive in time ends it before it has touched the ledger, and what it does afterwards is modelled
with its handler. Signatures are taken as given. Of the clients, the sending commands are the
clients of Send, and register, snooze, rm, restore and the changes of tacs are single requests,
modelled with their handlers; the files a client keeps (`host_id`, its key) are not.

Out of reach or not worth a model: cryptography, the terminal and process tables that route
capture reads (no state of its own), message texts, file locations, compatibility aliases, the
read-only dashboard and history, and the repository's scripts.
