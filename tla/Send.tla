-------------------------------- MODULE Send --------------------------------
(***************************************************************************)
(* bus_send in src/tabus/bus.py, as the request threads of tabd run it: a  *)
(* series of SELECTs that each may refuse, none of them in a transaction,  *)
(* then one transaction that stores the message and its deliveries.  The   *)
(* primary key of messages and the comparison after an IntegrityError make *)
(* a retry of the same id harmless.                                        *)
(*                                                                         *)
(* A client may send any of Envelopes at any time, again and again, with   *)
(* the answer lost or not.  The envelopes pass check_send_payload; one it  *)
(* refuses changes nothing.                                                *)
(***************************************************************************)
EXTENDS Ledger

CONSTANT Requests  \* the request threads

VARIABLES
  at,       \* where each request thread is
  env,      \* the envelope it was asked to send
  speaks,   \* is_program of the sender: "agent" or "program"
  to,       \* the recipients it has left
  again,    \* those of them that are in its list more than once
  outcome   \* what it answers, or "raised" for an exception and no answer

threads == <<at, env, speaks, to, again, outcome>>
vars    == <<tables, threads>>

Checks   == {"sender", "tac", "tacgate", "whom", "program", "valid", "gate", "insert"}
Outcomes == {"stored", "resent", "conflict", "refused", "raised"}

TypeOK ==
  /\ LedgerTypeOK
  /\ at      \in [Requests -> Checks \cup {"idle", "reply"}]
  /\ env     \in [Requests -> Envelopes]
  /\ speaks  \in [Requests -> {"agent", "program"}]
  /\ to      \in [Requests -> SUBSET Nodes]
  /\ again   \in [Requests -> SUBSET Nodes]
  /\ outcome \in [Requests -> Outcomes]

\* What env holds while a thread has no request.
Blank == CHOOSE e \in Envelopes : TRUE

Init ==
  /\ LedgerInit
  /\ at      = [r \in Requests |-> "idle"]
  /\ env     = [r \in Requests |-> Blank]
  /\ speaks  = [r \in Requests |-> "agent"]
  /\ to      = [r \in Requests |-> {}]
  /\ again   = [r \in Requests |-> {}]
  /\ outcome = [r \in Requests |-> "refused"]

-----------------------------------------------------------------------------
(* The checks.                                                             *)

Answer(r, o) ==
  /\ at' = [at EXCEPT ![r] = "reply"]
  /\ outcome' = [outcome EXCEPT ![r] = o]
  /\ UNCHANGED <<to, again>>

Goto(r, l) ==
  /\ at' = [at EXCEPT ![r] = l]
  /\ UNCHANGED outcome

Keep(r, set) ==
  /\ to' = [to EXCEPT ![r] = set]
  /\ again' = [again EXCEPT ![r] = @ \cap set]

Start(r, e) ==
  /\ at[r] = "idle"
  /\ env' = [env EXCEPT ![r] = e]
  /\ to' = [to EXCEPT ![r] = e.to]
  /\ again' = [again EXCEPT ![r] = e.again]
  /\ Goto(r, "sender")
  /\ UNCHANGED <<tables, speaks>>

UnknownTooBug(s) == s \notin removed

\* The sender is registered and not removed.
MaySend(s) == s \in Active

CheckSender(r) ==
  LET s == env[r].from IN
  /\ at[r] = "sender"
  /\ IF ~MaySend(s)
       THEN Answer(r, "refused") /\ UNCHANGED speaks
       ELSE /\ speaks' = [speaks EXCEPT ![r] = kind[s]]
            /\ CASE env[r].mode = "tac"    -> Goto(r, "tac")
                 [] env[r].mode = "direct" -> Goto(r, "program")
                 [] OTHER                  -> Goto(r, "whom")
            /\ UNCHANGED <<to, again>>
  /\ UNCHANGED <<tables, env>>

\* The tac exists and is not closed.
TacTakesSends == tac = "open"

CheckTac(r) ==
  /\ at[r] = "tac"
  /\ IF TacTakesSends THEN Goto(r, "tacgate") /\ UNCHANGED <<to, again>>
                      ELSE Answer(r, "refused")
  /\ UNCHANGED <<tables, env, speaks>>

\* Read before send: no unread message of the tac.
CheckTacGate(r) ==
  /\ at[r] = "tacgate"
  /\ IF Behind(env[r].from) THEN Answer(r, "refused")
                            ELSE Goto(r, "whom") /\ UNCHANGED <<to, again>>
  /\ UNCHANGED <<tables, env, speaks>>

ToOneselfBug(e) ==
  CASE e.mode = "tac"       -> members \ removed
    [] e.mode = "broadcast" -> {n \in Active : kind[n] = "agent"}
    [] OTHER                -> Active

\* Who a tac, a broadcast or "all" is for.
Whom(e) ==
  CASE e.mode = "tac"       -> (members \ removed) \ {e.from}
    [] e.mode = "broadcast" -> {n \in Active : kind[n] = "agent"} \ {e.from}
    [] OTHER                -> Active \ {e.from}

FindRecipients(r) ==
  /\ at[r] = "whom"
  /\ IF env[r].mode = "tac" /\ Whom(env[r]) = {}
       THEN Answer(r, "refused")
       ELSE /\ to' = [to EXCEPT ![r] = Whom(env[r])]
            /\ again' = [again EXCEPT ![r] = {}]
            /\ Goto(r, "program")
  /\ UNCHANGED <<tables, env, speaks>>

\* A program among the recipients refuses the whole envelope.
Programs(r) == {n \in to[r] \ removed : kind[n] = "program"}

CheckPrograms(r) ==
  /\ at[r] = "program"
  /\ IF Programs(r) # {} THEN Answer(r, "refused")
                         ELSE Goto(r, "valid") /\ UNCHANGED <<to, again>>
  /\ UNCHANGED <<tables, env, speaks>>

\* The recipients that are registered and not removed.
Valid(r) == to[r] \cap Active

CheckValid(r) ==
  /\ at[r] = "valid"
  /\ IF Valid(r) = {}
       THEN Answer(r, "refused")
       ELSE /\ Keep(r, Valid(r))
            /\ Goto(r, IF env[r].mode \in {"direct", "all"} /\ speaks[r] = "agent"
                         THEN "gate" ELSE "insert")
  /\ UNCHANGED <<tables, env, speaks>>

AnyMailBug(r) ==
  \E m \in messages : /\ m.from \in to[r] /\ m.kind = "direct"
                      /\ deliveries[m.id][env[r].from] # "none"

OnesOwnMailBug(r) == \E n \in to[r] : Unheard(n, env[r].from)

\* Some recipient has written to the sender, who has not opened it.
Spoken(r) == \E n \in to[r] : Unheard(env[r].from, n)

CheckGate(r) ==
  /\ at[r] = "gate"
  /\ IF Spoken(r) THEN Answer(r, "refused")
                  ELSE Goto(r, "insert") /\ UNCHANGED <<to, again>>
  /\ UNCHANGED <<tables, env, speaks>>

-----------------------------------------------------------------------------
(* The transaction.                                                        *)

\* A row of the message or of a delivery violates UNIQUE or PRIMARY KEY.
Collides(r) == \/ Stored(env[r].id)
               \/ env[r].from \in Registered /\ again[r] \cap Registered # {}

\* A row refers to a node that is not there any more.
Dangles(r) == ~Stored(env[r].id) /\ ~(to[r] \cup {env[r].from} \subseteq Registered)

OverwriteBug(r) == ~Dangles(r) /\ again[r] = {}

Storable(r) == ~Collides(r) /\ ~Dangles(r)

Store(r) ==
  /\ at[r] = "insert"
  /\ Storable(r)
  /\ Insert(env[r], to[r])
  /\ Answer(r, "stored")
  /\ UNCHANGED <<kind, removed, tac, members, env, speaks>>

SameIdBug(r) == \E m \in messages : m.id = env[r].id /\ m.from = env[r].from

\* What is stored under the id is what this request wanted to store.  The mode
\* is not compared.
Same(r) == /\ \E m \in messages : /\ m.id = env[r].id /\ m.from = env[r].from
                                  /\ m.text = env[r].text
           /\ again[r] = {}
           /\ SentTo(env[r].id) = to[r]

Resend(r) ==
  /\ at[r] = "insert"
  /\ Collides(r)
  /\ Answer(r, IF Same(r) THEN "resent" ELSE "conflict")
  /\ UNCHANGED <<tables, env, speaks>>

\* Another IntegrityError is raised again, and the handler with it.
Raise(r) ==
  /\ at[r] = "insert"
  /\ Dangles(r)
  /\ Answer(r, "raised")
  /\ UNCHANGED <<tables, env, speaks>>

\* The answer goes out, arriving or not; or the thread dies before.
Finish(r) ==
  /\ at' = [at EXCEPT ![r] = "idle"]
  /\ to' = [to EXCEPT ![r] = {}]
  /\ again' = [again EXCEPT ![r] = {}]
  /\ outcome' = [outcome EXCEPT ![r] = "refused"]
  /\ speaks' = [speaks EXCEPT ![r] = "agent"]
  /\ env' = [env EXCEPT ![r] = Blank]
  /\ UNCHANGED tables

Reply(r) == at[r] = "reply" /\ Finish(r)
Die(r)   == at[r] \in Checks /\ Finish(r)

Step(r) == \/ CheckSender(r) \/ CheckTac(r) \/ CheckTacGate(r) \/ FindRecipients(r)
           \/ CheckPrograms(r) \/ CheckValid(r) \/ CheckGate(r)
           \/ Store(r) \/ Resend(r) \/ Raise(r) \/ Reply(r)

Request(r) == (\E e \in Envelopes : Start(r, e)) \/ Step(r) \/ Die(r)

Next == \/ (Administration \/ Reading) /\ UNCHANGED threads
        \/ \E r \in Requests : Request(r)

Spec == Init /\ [][Next]_vars

-----------------------------------------------------------------------------
(* Properties.                                                             *)

\* The comment on the table messages: a retry does not store twice.  Once a
\* message is stored, no later request, under its id or another, changes it, adds
\* a second row under its id, or gives it a recipient.
StoredForGood ==
  [][\A i \in Ids : Stored(i) =>
       /\ {m \in messages' : m.id = i} = {m \in messages : m.id = i}
       /\ SentTo(i)' = SentTo(i)]_vars

\* README, retries: an answer that says stored, or stored already, is true of
\* the whole envelope: sender, content and exactly the recipients the request
\* resolved, however the retries of one id overlap.
AnswerTrue ==
  \A r \in Requests :
    outcome[r] \in {"stored", "resent"} =>
      /\ \E m \in messages : /\ m.id = env[r].id /\ m.from = env[r].from
                             /\ m.text = env[r].text
      /\ SentTo(env[r].id) = to[r]

\* The comment on nodes.is_program: a program is send-only, no envelope may name
\* it as a recipient.
ProgramsReceiveNothing ==
  \A n \in Nodes : kind[n] = "program" => \A i \in Ids : deliveries[i][n] = "none"

\* Two nodes have unopened direct mail of each other.
Crossed(n, s) == n # s /\ Unheard(n, s) /\ Unheard(s, n)

\* Listen before speaking: two nodes never have an unopened direct message from
\* each other.
NoCrossTalk == \A n, s \in Nodes : ~Crossed(n, s)

\* The INSERTs of r bring n mail of s.
Writes(r, s, n) == Store(r) /\ env[r].from = s /\ n \in to[r]

\* A direct send of an agent that has been through the check of its unread mail ...
Listened(r) == /\ at[r] = "insert" /\ speaks[r] = "agent"
               /\ env[r].mode \in {"direct", "all"}

\* ... and would not get through it now.
Outrun(r) == Listened(r) /\ \E n \in to[r] : Unheard(env[r].from, n)

\* How far the code is from listening before it speaks (bus_send, whose check and INSERT
\* are not one transaction).  Whatever overlaps, two nodes come to have unopened direct
\* mail of each other only by the INSERTs of a send that was outrun after its check, or
\* whose sender was a program when it was looked at, which nothing checks; and what
\* outruns a send is the INSERTs of another one, from one of its recipients to its sender,
\* and no retry, reading, registration, removal or change of a tac.
OnlyRacesCross ==
  [][/\ \A n, s \in Nodes :
          ~Crossed(n, s) /\ Crossed(n, s)' =>
            \E r \in Requests : /\ Writes(r, s, n) \/ Writes(r, n, s)
                                /\ Outrun(r) \/ speaks[r] = "program"
     /\ \A r \in Requests :
          ~Outrun(r) /\ Outrun(r)' =>
            /\ Listened(r)
            /\ \E q \in Requests \ {r}, n \in to[r] : Writes(q, n, env[r].from)]_vars

\* Closing is final: a closed tac takes no further message.
ClosedTacSilent ==
  [][tac = "closed" =>
       {m \in messages' : m.kind = "tac"} = {m \in messages : m.kind = "tac"}]_vars

\* "Soft removal means fully inactive", even for a node named directly: while a
\* node is removed, nothing is stored for it or from it.
RemovedInactive ==
  [][\A n \in removed \cap removed' :
       /\ \A i \in Ids : deliveries[i][n] = "none" => deliveries'[i][n] = "none"
       /\ \A m \in messages' \ messages : m.from # n]_vars

-----------------------------------------------------------------------------
(* Sends that nothing disturbs: while one is between its first check and   *)
(* its answer, the ledger is changed by no one else.                       *)

Undisturbed ==
  \A r \in Requests : at[r] \in Checks /\ at'[r] = at[r] => UNCHANGED tables

CalmSpec == Init /\ [][Next /\ Undisturbed]_vars

Contract == INSTANCE SendContract

\* Then each send is one step of the ledger, or none.
KeepsContract == Contract!Spec

\* However requests, administration and reading overlap, a send is one step that
\* stores the whole envelope under a new id, for registered recipients the envelope
\* can mean, or nothing at all.
KeepsContested == Contract!ContestedSpec

-----------------------------------------------------------------------------
(* Progress.  Every client repeats its direct envelope under its id until  *)
(* it is stored; of its tries some come to an answer, heard or not; no     *)
(* thread hangs; and nodes open their mail.                                *)

Serves(r, e) == at[r] # "idle" /\ env[r] = e

Fairness ==
  /\ \A e \in Envelopes : e.mode = "direct" =>
       /\ SF_vars(~Stored(e.id) /\ \E r \in Requests : Start(r, e))
       /\ []<>(\E r \in Requests : Serves(r, e))
            => []<>(\E r \in Requests : Serves(r, e) /\ at[r] = "reply")
  /\ \A r \in Requests : WF_vars(Step(r) \/ Die(r))
  /\ \A i \in Ids, n \in Nodes : WF_vars(Open(i, n) /\ UNCHANGED threads)

FairSpec == CalmSpec /\ Fairness

Reachable(e) == /\ {e.from} \cup e.to \subseteq Active
                /\ \A n \in e.to : kind[n] = "agent"
                /\ e.to # {} /\ e.again = {}

\* The gate refuses "after_condition" and not for ever: nodes that write to each
\* other and read what they get are not blocked by one another, and a direct
\* message between nodes that stay active is stored in the end, although answers
\* are lost and threads die.
GetsThrough ==
  \A e \in Envelopes :
    e.mode = "direct" => (<>[]Reachable(e) => <>Stored(e.id))
=============================================================================
