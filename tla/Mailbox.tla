------------------------------ MODULE Mailbox ------------------------------
(***************************************************************************)
(* The mailbox of one node: its rows of the deliveries table and the tabd  *)
(* request threads that work on them (claim_new, reopen_unread, bus_ack    *)
(* and bus_tac_mark_read in src/tabus/bus.py, called from /pull, /reopen,  *)
(* /ack and /tac_messages in src/tabus/daemon.py).                         *)
(*                                                                         *)
(* Every request runs on a thread with a database connection of its own.   *)
(* A SELECT sees what is committed when it runs and takes no lock; the     *)
(* first UPDATE takes the write lock, which lasts until the commit.  So a  *)
(* SELECT is one step and a group of UPDATEs with its commit another, and  *)
(* what a request read can be out of date when it writes.                  *)
(*                                                                         *)
(* A row's columns are the functions state, attempts, lease and stamps.    *)
(* Time is the order of two events only: that a lease has run out and that *)
(* an envelope has passed its expiry.                                      *)
(***************************************************************************)
EXTENDS Naturals, FiniteSets

CONSTANTS
  Messages,     \* the messages, numbered as a mailbox serves them: priority, then age
  Requests,     \* the request threads that may be busy at one time
  MaxAttempts,  \* MAX_ATTEMPTS
  Limit,        \* the LIMIT of the row selections
  Perishable,   \* messages whose envelope can be, or become, unfit
  TacMail       \* messages sent to a tac

ASSUME MessagesAssumption == Messages \subseteq Nat
ASSUME BoundsAssumption   == MaxAttempts \in Nat \ {0} /\ Limit \in Nat \ {0}
ASSUME KindsAssumption    == Perishable \subseteq Messages /\ TacMail \subseteq Messages

VARIABLES
  state,     \* deliveries.state, "NONE" before the row exists
  attempts,  \* deliveries.attempts
  lease,     \* deliveries.lease_until: NULL, in the future or in the past
  stamps,    \* which of injected_at, read_at and processed_at are set
  unfit,     \* the messages _validate_envelope refuses: expires_at has passed,
             \* or the schema version or the body hash is wrong
  removed,   \* the node has a row in removed_nodes
  at,        \* where each request thread is
  rows,      \* the rows a request selected
  saw,       \* the state it read in them
  goal,      \* the state an /ack asks for
  bodies,    \* the messages whose bodies its response carries
  claims     \* the <<message, attempt>> pairs it took for its response

columns == <<state, attempts, lease, stamps>>
threads == <<at, rows, saw, goal, bodies, claims>>
vars    == <<columns, unfit, removed, threads>>

States == {"NONE", "ACCEPTED", "CLAIMED", "INJECTED", "READ", "PROCESSED",
           "QUARANTINED", "DEAD"}
Steps  == {"idle", "pull", "recover", "select", "claim", "open", "ack",
           "catchup", "reply", "raised"}

UNREAD_STATES == {"ACCEPTED", "CLAIMED", "INJECTED"}

SkipsArrivalBug == [INJECTED |-> {"CLAIMED"}, READ |-> {"CLAIMED", "INJECTED"},
                    PROCESSED |-> {"READ"}]

UnlistedStageBug == [INJECTED |-> {"CLAIMED"}, READ |-> {"INJECTED"},
                     PROCESSED |-> {"READ"}, ARCHIVED |-> {"INJECTED"}]

ALLOWED_DELIVERY_TRANSITIONS ==
  [INJECTED |-> {"CLAIMED"}, READ |-> {"INJECTED"}, PROCESSED |-> {"READ"}]

AckStates == DOMAIN ALLOWED_DELIVERY_TRANSITIONS

-----------------------------------------------------------------------------
(* Selections and the conditions of the UPDATEs.  A definition whose name  *)
(* ends in Bug is what the next one would be with a plausible mistake in   *)
(* the code; no action uses it.                                            *)

\* ORDER BY priority, accepted_at LIMIT ?
Page(set) == {m \in set : Cardinality({x \in set : x < m}) < Limit}

UnconditionalBug(r) == rows[r]

\* The rows of a request that the condition state='ACCEPTED' still matches.
StillAccepted(r) == {m \in rows[r] : state[m] = "ACCEPTED"}

RowCountIgnoredBug(r) == rows[r] \ unfit

\* The rows whose claim has a rowcount: those that go into the response.
Won(r) == StillAccepted(r) \ unfit

UncheckedBug(r) == TRUE

\* _validate_envelope finds nothing wrong with the row an open selected.
EnvelopeFit(r) == rows[r] \cap unfit = {}

NeverLapsedBug(m) == FALSE

\* state='CLAIMED' AND lease_until < now
Lapsed(m) == state[m] = "CLAIMED" /\ lease[m] = "over"

PoisonBeforeRecoveryBug(m) == state[m] = "ACCEPTED" /\ attempts[m] >= MaxAttempts

\* The rows the second UPDATE of claim_new finds ACCEPTED and over-retried,
\* after the first one has put the lapsed claims back.
Poisoned(m) == /\ state[m] = "ACCEPTED" \/ Lapsed(m)
               /\ attempts[m] >= MaxAttempts

AlsoReadBug == {"ACCEPTED", "CLAIMED", "READ"}

\* The states a tac catch-up moves to INJECTED.
Unopened == {"ACCEPTED", "CLAIMED"}

-----------------------------------------------------------------------------
TypeOK ==
  /\ state    \in [Messages -> States]
  /\ attempts \in [Messages -> Nat]
  /\ lease    \in [Messages -> {"null", "live", "over"}]
  /\ stamps   \in [Messages -> SUBSET AckStates]
  /\ unfit    \in SUBSET Perishable
  /\ removed  \in BOOLEAN
  /\ at       \in [Requests -> Steps]
  /\ rows     \in [Requests -> SUBSET Messages]
  /\ saw      \in [Requests -> States]
  /\ goal     \in [Requests -> AckStates]
  /\ bodies   \in [Requests -> SUBSET Messages]
  /\ claims   \in [Requests -> SUBSET (Messages \X Nat)]

Init ==
  /\ state    = [m \in Messages |-> "NONE"]
  /\ attempts = [m \in Messages |-> 0]
  /\ lease    = [m \in Messages |-> "null"]
  /\ stamps   = [m \in Messages |-> {}]
  /\ unfit    = {}
  /\ removed  = FALSE
  /\ at       = [r \in Requests |-> "idle"]
  /\ rows     = [r \in Requests |-> {}]
  /\ saw      = [r \in Requests |-> "NONE"]
  /\ goal     = [r \in Requests |-> "INJECTED"]
  /\ bodies   = [r \in Requests |-> {}]
  /\ claims   = [r \in Requests |-> {}]

-----------------------------------------------------------------------------
(* Around the mailbox: a send stores a row, time passes, an operator       *)
(* removes and restores the node.                                          *)

Deposit(m) ==
  /\ state[m] = "NONE"
  /\ state' = [state EXCEPT ![m] = "ACCEPTED"]
  /\ UNCHANGED <<attempts, lease, stamps, unfit, removed, threads>>

LeaseRunsOut(m) ==
  /\ state[m] = "CLAIMED" /\ lease[m] = "live"
  /\ lease' = [lease EXCEPT ![m] = "over"]
  /\ UNCHANGED <<state, attempts, stamps, unfit, removed, threads>>

Spoil(m) ==
  /\ m \in Perishable \ unfit
  /\ unfit' = unfit \cup {m}
  /\ UNCHANGED <<columns, removed, threads>>

Remove ==
  /\ ~removed
  /\ removed' = TRUE
  /\ UNCHANGED <<columns, unfit, threads>>

Restore ==
  /\ removed
  /\ removed' = FALSE
  /\ UNCHANGED <<columns, unfit, threads>>

-----------------------------------------------------------------------------
\* UPDATE ... SET state='CLAIMED', lease_until=?, attempts=attempts+1 WHERE id=?
\* AND state='ACCEPTED', but for the state: the fit rows that still match are
\* leased and counted, and the response carries the bodies that were won.
Claim(r) ==
  LET leased == StillAccepted(r) \ unfit
  IN  /\ lease' = [m \in Messages |-> IF m \in leased THEN "live" ELSE lease[m]]
      /\ attempts' = [m \in Messages |->
                        IF m \in leased THEN attempts[m] + 1 ELSE attempts[m]]
      /\ bodies' = [bodies EXCEPT ![r] = Won(r)]
      /\ claims' = [claims EXCEPT ![r] = {<<m, attempts'[m]>> : m \in Won(r)}]

(* /pull: claim_new again and again until it has something or the hold     *)
(* time is over.                                                           *)

StartPull(r) ==
  /\ at[r] = "idle"
  /\ at' = [at EXCEPT ![r] = "pull"]
  /\ UNCHANGED <<columns, unfit, removed, rows, saw, goal, bodies, claims>>

\* An empty round: sleep and try again, or answer with nothing at the deadline.
EmptyRound(r) == \E next \in {"pull", "reply"} : at' = [at EXCEPT ![r] = next]

\* claim_new asks is_removed first.
PullCheck(r) ==
  /\ at[r] = "pull"
  /\ IF removed THEN EmptyRound(r) ELSE at' = [at EXCEPT ![r] = "recover"]
  /\ UNCHANGED <<columns, unfit, removed, rows, saw, goal, bodies, claims>>

\* The first transaction of claim_new: lapsed claims go back to ACCEPTED, then
\* what has been tried too often is DEAD.
PullRecover(r) ==
  /\ at[r] = "recover"
  /\ state' = [m \in Messages |->
                 IF Poisoned(m) THEN "DEAD"
                 ELSE IF Lapsed(m) THEN "ACCEPTED" ELSE state[m]]
  /\ lease' = [m \in Messages |-> IF Lapsed(m) THEN "null" ELSE lease[m]]
  /\ at' = [at EXCEPT ![r] = "select"]
  /\ UNCHANGED <<attempts, stamps, unfit, removed, rows, saw, goal, bodies, claims>>

PullSelect(r) ==
  /\ at[r] = "select"
  /\ rows' = [rows EXCEPT ![r] = Page({m \in Messages : state[m] = "ACCEPTED"})]
  /\ at' = [at EXCEPT ![r] = "claim"]
  /\ UNCHANGED <<columns, unfit, removed, saw, goal, bodies, claims>>

\* The second transaction of claim_new: each selected row is quarantined or
\* claimed, if it is still ACCEPTED.
PullClaim(r) ==
  /\ at[r] = "claim"
  /\ state' = [m \in Messages |->
                 IF m \notin StillAccepted(r) THEN state[m]
                 ELSE IF m \in unfit THEN "QUARANTINED" ELSE "CLAIMED"]
  /\ Claim(r)
  /\ IF Won(r) \cup (rows[r] \cap unfit) # {}
       THEN at' = [at EXCEPT ![r] = "reply"] ELSE EmptyRound(r)
  /\ rows' = [rows EXCEPT ![r] = {}]
  /\ UNCHANGED <<stamps, unfit, removed, saw, goal>>

-----------------------------------------------------------------------------
(* /reopen: one chosen message.  A message that is not unread is answered  *)
(* with 404 and changes nothing.                                           *)

ReopenSelect(r, m) ==
  /\ at[r] = "idle"
  /\ state[m] \in UNREAD_STATES
  /\ rows' = [rows EXCEPT ![r] = {m}]
  /\ saw' = [saw EXCEPT ![r] = state[m]]
  /\ at' = [at EXCEPT ![r] = "open"]
  /\ UNCHANGED <<columns, unfit, removed, goal, bodies, claims>>

\* The envelope is unfit: no body.  The handler then reads r0["sender_id"] of a
\* row that has none and raises KeyError, so the client gets no answer.
ReopenUnfit(r) ==
  /\ at[r] = "open"
  /\ rows[r] \subseteq unfit
  /\ state' = [m \in Messages |->
                 IF saw[r] = "ACCEPTED" /\ m \in StillAccepted(r)
                   THEN "QUARANTINED" ELSE state[m]]
  /\ at' = [at EXCEPT ![r] = "raised"]
  /\ rows' = [rows EXCEPT ![r] = {}]
  /\ UNCHANGED <<attempts, lease, stamps, unfit, removed, saw, goal, bodies, claims>>

\* The row was ACCEPTED: claim it first, and only the winner gets the body.
ReopenClaims(r) ==
  /\ at[r] = "open" /\ saw[r] = "ACCEPTED"
  /\ EnvelopeFit(r)
  /\ state' = [m \in Messages |-> IF m \in StillAccepted(r) THEN "CLAIMED" ELSE state[m]]
  /\ Claim(r)
  /\ at' = [at EXCEPT ![r] = "reply"]
  /\ rows' = [rows EXCEPT ![r] = {}]
  /\ UNCHANGED <<stamps, unfit, removed, saw, goal>>

\* The row was CLAIMED or INJECTED: it opens as it is.
ReopenAsIs(r) ==
  /\ at[r] = "open" /\ saw[r] # "ACCEPTED"
  /\ EnvelopeFit(r)
  /\ bodies' = [bodies EXCEPT ![r] = rows[r]]
  /\ at' = [at EXCEPT ![r] = "reply"]
  /\ rows' = [rows EXCEPT ![r] = {}]
  /\ UNCHANGED <<columns, unfit, removed, saw, goal, claims>>

-----------------------------------------------------------------------------
(* /ack: bus_ack reads the state, refuses what the table does not allow    *)
(* (and a repetition changes nothing), and then writes.                    *)

AckRead(r, m, s) ==
  /\ at[r] = "idle"
  /\ state[m] \in ALLOWED_DELIVERY_TRANSITIONS[s]
  /\ rows' = [rows EXCEPT ![r] = {m}]
  /\ saw' = [saw EXCEPT ![r] = state[m]]
  /\ goal' = [goal EXCEPT ![r] = s]
  /\ at' = [at EXCEPT ![r] = "ack"]
  /\ UNCHANGED <<columns, unfit, removed, bodies, claims>>

\* The UPDATE names the row and not the state it was read in.
AckWrite(r) ==
  /\ at[r] = "ack"
  /\ state' = [m \in Messages |-> IF m \in rows[r] THEN goal[r] ELSE state[m]]
  /\ stamps' = [m \in Messages |->
                  IF m \in rows[r] THEN stamps[m] \cup {goal[r]} ELSE stamps[m]]
  /\ at' = [at EXCEPT ![r] = "reply"]
  /\ rows' = [rows EXCEPT ![r] = {}]
  /\ UNCHANGED <<attempts, lease, unfit, removed, saw, goal, bodies, claims>>

-----------------------------------------------------------------------------
(* /tac_messages?node=: show the newest messages of a tac, then mark those *)
(* that were shown.  Which ones are newest is left open.                   *)

CatchUpSelect(r, shown) ==
  /\ at[r] = "idle"
  /\ shown # {} /\ Cardinality(shown) <= Limit
  /\ \A m \in shown : state[m] # "NONE"
  /\ rows' = [rows EXCEPT ![r] = shown]
  /\ at' = [at EXCEPT ![r] = "catchup"]
  /\ UNCHANGED <<columns, unfit, removed, saw, goal, bodies, claims>>

CatchUpMark(r) ==
  /\ at[r] = "catchup"
  /\ state' = [m \in Messages |->
                 IF m \in rows[r] /\ state[m] \in Unopened
                   THEN "INJECTED" ELSE state[m]]
  /\ at' = [at EXCEPT ![r] = "reply"]
  /\ rows' = [rows EXCEPT ![r] = {}]
  /\ UNCHANGED <<attempts, lease, stamps, unfit, removed, saw, goal, bodies, claims>>

-----------------------------------------------------------------------------
(* The end of a request: its response goes out, arriving or not; or the    *)
(* thread dies first (the daemon stops, the database stays locked, the     *)
(* handler raises), and an open transaction is rolled back.                *)

Finish(r) ==
  /\ at'     = [at EXCEPT ![r] = "idle"]
  /\ rows'   = [rows EXCEPT ![r] = {}]
  /\ saw'    = [saw EXCEPT ![r] = "NONE"]
  /\ goal'   = [goal EXCEPT ![r] = "INJECTED"]
  /\ bodies' = [bodies EXCEPT ![r] = {}]
  /\ claims' = [claims EXCEPT ![r] = {}]
  /\ UNCHANGED <<columns, unfit, removed>>

Reply(r) == at[r] = "reply" /\ Finish(r)
Die(r)   == at[r] \notin {"idle", "reply"} /\ Finish(r)

Pull(r) == StartPull(r) \/ PullCheck(r) \/ PullRecover(r) \/ PullSelect(r) \/ PullClaim(r)

Reopen(r) == \/ \E m \in Messages : ReopenSelect(r, m)
             \/ ReopenUnfit(r) \/ ReopenClaims(r) \/ ReopenAsIs(r)

Ack(r) == \/ \E m \in Messages, s \in AckStates : AckRead(r, m, s)
          \/ AckWrite(r)

CatchUp(r) == \/ \E shown \in SUBSET TacMail : CatchUpSelect(r, shown)
              \/ CatchUpMark(r)

Request(r) == Pull(r) \/ Reopen(r) \/ Ack(r) \/ CatchUp(r) \/ Reply(r) \/ Die(r)

Environment == \/ \E m \in Messages : Deposit(m) \/ LeaseRunsOut(m) \/ Spoil(m)
               \/ Remove \/ Restore

Next == Environment \/ \E r \in Requests : Request(r)

Spec == Init /\ [][Next]_vars

-----------------------------------------------------------------------------
(* Properties.                                                             *)

\* The poison rule of claim_new: no delivery is taken more than MaxAttempts
\* times by pulls and reopens together, none that is still on offer has used
\* its attempts up, and only one that has is DEAD.
PoisonRule ==
  \A m \in Messages :
    /\ attempts[m] <= MaxAttempts
    /\ state[m] = "ACCEPTED" => attempts[m] < MaxAttempts
    /\ state[m] = "DEAD" => attempts[m] = MaxAttempts

\* "Only the winner appears in the result": two responses never carry the same
\* attempt at a message, however their selections and claims interleave.
OneWinner ==
  \A r1, r2 \in Requests : r1 # r2 => claims[r1] \cap claims[r2] = {}

\* GUIDE.md: a state cannot be skipped.  What a row says of itself stays in
\* order whatever the threads do: it was taken before it was INJECTED, INJECTED
\* before READ (a tac catch-up injects without a claim and without a stamp), and
\* READ before PROCESSED.
RungsClimbed ==
  \A m \in Messages :
    /\ "INJECTED" \in stamps[m] => attempts[m] > 0
    /\ "READ" \in stamps[m] => "INJECTED" \in stamps[m] \/ m \in TacMail
    /\ "PROCESSED" \in stamps[m] => "READ" \in stamps[m]

\* A step that takes a delivery found it free: not under another request's
\* claim, live or lapsed, and not opened already.
TakenWhenFree ==
  [][\A m \in Messages : attempts'[m] # attempts[m] => state[m] = "ACCEPTED"]_vars

\* SECURITY.md, envelope verification: pull and open never put the body of a
\* message with an unfit envelope in a response, even when it became unfit
\* after the request selected it or after another request claimed it.
UnfitBodyWithheld ==
  [][\A r \in Requests : \A m \in bodies'[r] \ bodies[r] : m \notin unfit]_vars

\* The stage of each delivery never goes backwards, but for the recovery of a
\* lapsed claim, and what is QUARANTINED or DEAD stays so.
Stage == [NONE |-> 0, ACCEPTED |-> 1, CLAIMED |-> 2, INJECTED |-> 3, READ |-> 4,
          PROCESSED |-> 5, QUARANTINED |-> 6, DEAD |-> 6]

Forward(m) == \/ Stage[state'[m]] >= Stage[state[m]]
              \/ Lapsed(m) /\ state'[m] = "ACCEPTED"

NeverBackwards == [][\A m \in Messages : Forward(m)]_vars

\* With overlapping requests, the write of an /ack is the only step that can
\* break NeverBackwards.
OnlyAckGoesBack ==
  [][(\A m \in Messages : Forward(m)) \/ \E r \in Requests : AckWrite(r)]_vars

-----------------------------------------------------------------------------
(* The mailbox when no state changes between the read and the write of an  *)
(* /ack on the same row; the overlap of everything else is left as it is.  *)

AcksUndisturbed ==
  \A r \in Requests :
    at[r] = "ack" /\ at'[r] = "ack" => \A m \in rows[r] : state'[m] = state[m]

CalmSpec == Init /\ [][Next /\ AcksUndisturbed]_vars

Contract == INSTANCE MailboxContract

\* Then it keeps the contract: every step moves each delivery as the contract
\* allows, or not at all.
KeepsContract == Contract!Spec

\* However requests overlap, an overtaken acknowledgement is all that comes between a
\* delivery and the contract, and there are few things it can do: it never offers
\* mail again that was opened, and never decides over mail that nobody has taken.
KeepsContested == Contract!ContestedSpec

\* What the gates of a send rely on (Open in Ledger): they count ACCEPTED and CLAIMED,
\* and a message that has left these states is not counted again.
ForGates(m) == IF state[m] = "NONE" THEN "none"
               ELSE IF state[m] \in Unopened THEN "unread" ELSE "opened"

GatesOpenForGood ==
  [][\A m \in Messages :
       \/ ForGates(m)' = ForGates(m)
       \/ ForGates(m) = "none" /\ ForGates(m)' = "unread"
       \/ ForGates(m) = "unread" /\ ForGates(m)' = "opened"]_vars

\* What the doorbell relies on (Arrive, Settle and AckLate in Doorbell): it counts
\* UNREAD_STATES, and what it has seen settled comes back only as something that a
\* reader has had in hand.
ForBell(m) == IF state[m] = "NONE" THEN "none"
              ELSE IF state[m] \in UNREAD_STATES THEN "unread" ELSE "done"

ComesBackTaken ==
  [][\A m \in Messages :
       \/ ForBell(m)' = ForBell(m)
       \/ ForBell(m) = "none" /\ ForBell(m)' = "unread"
       \/ ForBell(m) = "unread" /\ ForBell(m)' = "done"
       \/ ForBell(m) = "done" /\ ForBell(m)' = "unread" /\ attempts[m] > 0]_vars

-----------------------------------------------------------------------------
(* Progress.  A lease runs out in time, a thread does not hang (SQLite's   *)
(* busy timeout and the hold time end its waits), and the node keeps       *)
(* pulling: pulls may die or give up, but not always at the same point.    *)

Fairness ==
  /\ \A m \in Messages : WF_vars(LeaseRunsOut(m))
  /\ \A r \in Requests :
       /\ SF_vars(StartPull(r))
       /\ SF_vars(PullCheck(r))
       /\ SF_vars(PullRecover(r))
       /\ SF_vars(PullSelect(r))
       /\ SF_vars(PullClaim(r))
       /\ WF_vars(Request(r) /\ at[r] # "idle")

FairSpec == CalmSpec /\ Fairness

\* Nothing that was stored stays undecided: while the node is not removed, each
\* delivery ends up opened, quarantined or DEAD, although responses are lost,
\* threads die, nobody acknowledges, and pages are limited.
Settles ==
  \A m \in Messages :
    state[m] \in {"ACCEPTED", "CLAIMED"}
      ~> (removed \/ state[m] \notin {"ACCEPTED", "CLAIMED"})
=============================================================================
