---------------------------- MODULE Send_proofs ----------------------------
(***************************************************************************)
(* Theorems about Send, for any number of nodes, ids, envelopes and request *)
(* threads.  Type correctness comes first; then what holds of every run of *)
(* the code, however its requests overlap; then what holds when no request *)
(* is disturbed, which goes through the contract.                          *)
(***************************************************************************)
EXTENDS Send, TLAPS

-----------------------------------------------------------------------------
(* Types.                                                                  *)

\* What an envelope consists of.
LEMMA EnvelopeType ==
  \A e \in Envelopes : /\ e.id \in Ids /\ e.from \in Nodes /\ e.mode \in Modes
                       /\ e.text \in Texts /\ e.to \in SUBSET Nodes
                       /\ e.again \in SUBSET Nodes
  BY EnvelopesAssumption

LEMMA BlankType == Blank \in Envelopes
  BY EnvelopesAssumption DEF Blank

\* The row stored for an envelope.
LEMMA RowType ==
  \A e \in Envelopes : /\ Row(e) \in Rows
                       /\ Row(e).id = e.id /\ Row(e).from = e.from
                       /\ Row(e).text = e.text
                       /\ Row(e).kind = (IF e.mode = "all" THEN "direct" ELSE e.mode)
  BY EnvelopeType DEF Row, Rows, Modes

\* The tables stay well typed outside a send.
LEMMA LedgerType ==
  ASSUME LedgerTypeOK, Administration \/ Reading
  PROVE  LedgerTypeOK'
<1>1. ASSUME NEW n \in Nodes, NEW k \in {"agent", "program"}, Register(n, k)
      PROVE  LedgerTypeOK'
  BY <1>1 DEF LedgerTypeOK, Register
<1>2. ASSUME NEW n \in Nodes, Remove(n) \/ Restore(n) \/ Purge(n)
      PROVE  LedgerTypeOK'
  BY <1>2 DEF LedgerTypeOK, Remove, Restore, Purge
<1>3. ASSUME NEW n \in Nodes, TacAdd(n) \/ TacRemove(n)
      PROVE  LedgerTypeOK'
  BY <1>3 DEF LedgerTypeOK, TacAdd, TacRemove
<1>4. ASSUME TacCreate \/ TacClose
      PROVE  LedgerTypeOK'
  BY <1>4 DEF LedgerTypeOK, TacCreate, TacClose
<1>5. ASSUME NEW i \in Ids, NEW n \in Nodes, Open(i, n)
      PROVE  LedgerTypeOK'
  BY <1>5 DEF LedgerTypeOK, Open
<1>. QED  BY <1>1, <1>2, <1>3, <1>4, <1>5 DEF Administration, Reading

\* Nor does a request thread leave its types.
LEMMA RequestType ==
  ASSUME TypeOK, NEW r \in Requests, Request(r)
  PROVE  TypeOK'
<1>. USE EnvelopeType, BlankType DEF TypeOK, Checks, Outcomes, tables, Answer, Goto
<1>1. ASSUME NEW e \in Envelopes, Start(r, e)
      PROVE  TypeOK'
  BY <1>1 DEF Start, LedgerTypeOK
<1>2. CASE CheckSender(r)
  <2>1. /\ LedgerTypeOK' /\ env' = env /\ to' = to /\ again' = again
        /\ \E l \in {"tac", "program", "whom", "reply"} : at' = [at EXCEPT ![r] = l]
        /\ outcome' \in {outcome, [outcome EXCEPT ![r] = "refused"]}
    BY <1>2 DEF CheckSender, LedgerTypeOK
  <2>2. speaks' \in {speaks, [speaks EXCEPT ![r] = kind[env[r].from]]}
    BY <1>2 DEF CheckSender
  <2>3. MaySend(env[r].from) => kind[env[r].from] \in {"agent", "program"}
    BY DEF MaySend, Active, Registered, LedgerTypeOK
  <2>4. ~MaySend(env[r].from) => speaks' = speaks
    BY <1>2 DEF CheckSender
  <2>. QED  BY <2>1, <2>2, <2>3, <2>4
<1>3. CASE CheckTac(r) \/ CheckTacGate(r)
  BY <1>3 DEF CheckTac, CheckTacGate, LedgerTypeOK
<1>4. CASE FindRecipients(r)
  <2>1. Whom(env[r]) \in SUBSET Nodes
    BY DEF Whom, LedgerTypeOK, Active, Registered
  <2>2. LedgerTypeOK' /\ env' = env /\ speaks' = speaks
    BY <1>4 DEF FindRecipients, LedgerTypeOK
  <2>3. CASE env[r].mode = "tac" /\ Whom(env[r]) = {}
    BY <1>4, <2>2, <2>3 DEF FindRecipients
  <2>4. CASE ~(env[r].mode = "tac" /\ Whom(env[r]) = {})
    BY <1>4, <2>1, <2>2, <2>4 DEF FindRecipients
  <2>. QED  BY <2>3, <2>4
<1>5. CASE CheckPrograms(r) \/ CheckGate(r)
  BY <1>5 DEF CheckPrograms, CheckGate, LedgerTypeOK
<1>6. CASE CheckValid(r)
  <2>1. LedgerTypeOK' /\ env' = env /\ speaks' = speaks
    BY <1>6 DEF CheckValid, LedgerTypeOK
  <2>2. CASE Valid(r) = {}
    BY <1>6, <2>1, <2>2 DEF CheckValid
  <2>3. CASE Valid(r) # {}
    <3>1. to' = [to EXCEPT ![r] = Valid(r)] /\ again' = [again EXCEPT ![r] = @ \cap Valid(r)]
      BY <1>6, <2>3 DEF CheckValid, Keep
    <3>2. outcome' = outcome /\ \E l \in {"gate", "insert"} : at' = [at EXCEPT ![r] = l]
      BY <1>6, <2>3 DEF CheckValid
    <3>3. Valid(r) \in SUBSET Nodes /\ again[r] \cap Valid(r) \in SUBSET Nodes
      BY DEF Valid
    <3>. QED  BY <2>1, <3>1, <3>2, <3>3
  <2>. QED  BY <2>2, <2>3
<1>7. CASE Store(r)
  BY <1>7, RowType DEF Store, Insert, LedgerTypeOK
<1>8. CASE Resend(r) \/ Raise(r)
  BY <1>8 DEF Resend, Raise, LedgerTypeOK
<1>9. CASE Reply(r) \/ Die(r)
  <2>1. Finish(r)
    BY <1>9 DEF Reply, Die
  <2>2. LedgerTypeOK'
    BY <2>1 DEF Finish, LedgerTypeOK
  <2>3. env' \in [Requests -> Envelopes] /\ speaks' \in [Requests -> {"agent", "program"}]
    BY <2>1 DEF Finish
  <2>4. to' \in [Requests -> SUBSET Nodes] /\ again' \in [Requests -> SUBSET Nodes]
    BY <2>1 DEF Finish
  <2>. QED  BY <2>1, <2>2, <2>3, <2>4 DEF Finish
<1>. QED  BY <1>1, <1>2, <1>3, <1>4, <1>5, <1>6, <1>7, <1>8, <1>9 DEF Request, Step

LEMMA InitType == Init => TypeOK
  BY BlankType DEF Init, LedgerInit, TypeOK, LedgerTypeOK, Outcomes

LEMMA NextType == TypeOK /\ [Next]_vars => TypeOK'
<1>. SUFFICES ASSUME TypeOK, [Next]_vars
              PROVE  TypeOK'
  OBVIOUS
<1>1. CASE (Administration \/ Reading) /\ UNCHANGED threads
  BY <1>1, LedgerType DEF TypeOK, threads
<1>2. ASSUME NEW r \in Requests, Request(r)
      PROVE  TypeOK'
  BY <1>2, RequestType
<1>3. CASE UNCHANGED vars
  BY <1>3 DEF vars, tables, threads, TypeOK, LedgerTypeOK
<1>. QED  BY <1>1, <1>2, <1>3 DEF Next

\* The tables and the threads keep their types, whatever the clients send.
THEOREM TypeCorrect == Spec => []TypeOK
<1>. QED  BY InitType, NextType, PTL DEF Spec

-----------------------------------------------------------------------------
(* What is stored.                                                         *)

\* No delivery without its message: the two are inserted together.
NoOrphans == \A i \in Ids, n \in Nodes : deliveries[i][n] # "none" => Stored(i)

\* A thread has an outcome other than the initial one when it is about to answer.
Decided == \A r \in Requests : outcome[r] # "refused" => at[r] = "reply"

IInv == TypeOK /\ NoOrphans /\ Decided /\ AnswerTrue

\* Outside a send no row and no recipient comes or goes.
LEMMA LedgerKeepsMail ==
  ASSUME LedgerTypeOK, Administration \/ Reading
  PROVE  messages' = messages /\ \A i \in Ids : SentTo(i)' = SentTo(i)
<1>1. CASE Administration
  BY <1>1 DEF Administration, Register, Remove, Restore, Purge, TacAdd, TacRemove,
              TacCreate, TacClose, SentTo
<1>2. ASSUME NEW j \in Ids, NEW n \in Nodes, Open(j, n)
      PROVE  messages' = messages /\ \A i \in Ids : SentTo(i)' = SentTo(i)
  BY <1>2 DEF Open, SentTo, LedgerTypeOK
<1>. QED  BY <1>1, <1>2 DEF Reading

\* The INSERTs touch one id.
LEMMA InsertIsLocal ==
  ASSUME LedgerTypeOK, NEW e \in Envelopes, NEW t \in SUBSET Nodes, Insert(e, t)
  PROVE  /\ messages' = messages \cup {Row(e)}
         /\ \A i \in Ids \ {e.id} : deliveries'[i] = deliveries[i]
         /\ \A n \in Nodes : deliveries'[e.id][n]
                              = IF n \in t THEN "unread" ELSE deliveries[e.id][n]
  BY EnvelopeType DEF Insert, LedgerTypeOK

\* Only the transaction of a request stores anything.
LEMMA OnlyStoreAdds ==
  ASSUME TypeOK, [Next]_vars
  PROVE  \/ messages' = messages /\ \A i \in Ids : SentTo(i)' = SentTo(i)
         \/ \E r \in Requests : Store(r)
<1>1. CASE Administration \/ Reading
  BY <1>1, LedgerKeepsMail DEF TypeOK
<1>2. ASSUME NEW r \in Requests, Request(r), ~Store(r)
      PROVE  UNCHANGED tables
  BY <1>2 DEF Request, Step, Start, CheckSender, CheckTac, CheckTacGate, FindRecipients,
              CheckPrograms, CheckValid, CheckGate, Resend, Raise, Reply, Die, Finish
<1>3. UNCHANGED tables => messages' = messages /\ \A i \in Ids : SentTo(i)' = SentTo(i)
  BY DEF tables, SentTo
<1>. QED  BY <1>1, <1>2, <1>3 DEF Next, vars

\* One step of StoredForGood.
LEMMA StoredKept ==
  ASSUME TypeOK, [Next]_vars, NEW i \in Ids, Stored(i)
  PROVE  /\ {m \in messages' : m.id = i} = {m \in messages : m.id = i}
         /\ SentTo(i)' = SentTo(i)
<1>1. ASSUME NEW r \in Requests, Store(r)
      PROVE  /\ {m \in messages' : m.id = i} = {m \in messages : m.id = i}
             /\ SentTo(i)' = SentTo(i)
  <2>1. env[r] \in Envelopes /\ to[r] \in SUBSET Nodes /\ LedgerTypeOK
    BY DEF TypeOK
  <2>2. Insert(env[r], to[r]) /\ ~Stored(env[r].id)
    BY <1>1 DEF Store, Storable, Collides
  <2>3. i # env[r].id
    BY <2>2
  <2>4. /\ messages' = messages \cup {Row(env[r])}
        /\ deliveries'[i] = deliveries[i]
    BY <2>1, <2>2, <2>3, InsertIsLocal
  <2>. QED  BY <2>1, <2>3, <2>4, RowType DEF SentTo
<1>2. CASE messages' = messages /\ \A j \in Ids : SentTo(j)' = SentTo(j)
  BY <1>2
<1>. QED  BY <1>1, <1>2, OnlyStoreAdds

\* Once a message is stored, nothing changes it, doubles it or gives it another
\* recipient: bus_send against retries and reuse of an id.
THEOREM StoredForGoodHolds == Spec => StoredForGood
<1>1. TypeOK /\ [Next]_vars =>
        [\A i \in Ids : Stored(i) =>
           /\ {m \in messages' : m.id = i} = {m \in messages : m.id = i}
           /\ SentTo(i)' = SentTo(i)]_vars
  BY StoredKept
<1>. QED  BY <1>1, TypeCorrect, PTL DEF Spec, StoredForGood

\* A positive answer of a thread is new only in two steps.
LEMMA Answers ==
  ASSUME TypeOK, Decided, [Next]_vars, NEW q \in Requests,
         outcome'[q] \in {"stored", "resent"}
  PROVE  \/ outcome'[q] = outcome[q] /\ env'[q] = env[q] /\ to'[q] = to[q]
         \/ Store(q)
         \/ Resend(q) /\ Same(q)
<1>. DEFINE Kept == outcome'[q] = outcome[q] /\ env'[q] = env[q] /\ to'[q] = to[q]
<1>1. ASSUME NEW r \in Requests, Request(r), r # q
      PROVE  Kept
  BY <1>1 DEF TypeOK, Request, Step, Start, CheckSender, CheckTac, CheckTacGate,
              FindRecipients, CheckPrograms, CheckValid, CheckGate, Store, Resend, Raise,
              Reply, Die, Finish, Answer, Goto, Keep
<1>2. CASE Request(q)
  <2>1. CASE \E e \in Envelopes : Start(q, e)
    BY <2>1 DEF Start, Goto, Decided
  <2>2. CASE CheckSender(q)
    BY <2>2 DEF CheckSender, Answer, Goto, Decided, TypeOK
  <2>3. CASE CheckTac(q) \/ CheckTacGate(q) \/ FindRecipients(q)
    BY <2>3 DEF CheckTac, CheckTacGate, FindRecipients, Answer, Goto, Decided, TypeOK
  <2>4. CASE CheckPrograms(q) \/ CheckValid(q) \/ CheckGate(q)
    BY <2>4 DEF CheckPrograms, CheckValid, CheckGate, Answer, Goto, Decided, TypeOK
  <2>5. CASE Resend(q)
    BY <2>5 DEF Resend, Answer, TypeOK
  <2>6. CASE Raise(q)
    BY <2>6 DEF Raise, Answer, TypeOK
  <2>7. CASE Reply(q) \/ Die(q)
    BY <2>7 DEF Reply, Die, Finish, TypeOK
  <2>. QED  BY <1>2, <2>1, <2>2, <2>3, <2>4, <2>5, <2>6, <2>7 DEF Request, Step
<1>3. CASE UNCHANGED threads
  BY <1>3 DEF threads
<1>. QED  BY <1>1, <1>2, <1>3 DEF Next, vars

LEMMA DecidedStays == TypeOK /\ Decided /\ [Next]_vars => Decided'
<1>. SUFFICES ASSUME TypeOK, Decided, [Next]_vars
              PROVE  Decided'
  OBVIOUS
<1>1. ASSUME NEW r \in Requests, Request(r)
      PROVE  Decided'
  BY <1>1 DEF TypeOK, Decided, Request, Step, Start, CheckSender, CheckTac, CheckTacGate,
              FindRecipients, CheckPrograms, CheckValid, CheckGate, Store, Resend, Raise,
              Reply, Die, Finish, Answer, Goto, Checks
<1>2. CASE UNCHANGED threads
  BY <1>2 DEF threads, Decided
<1>. QED  BY <1>1, <1>2 DEF Next, vars

LEMMA NoOrphansStays == TypeOK /\ NoOrphans /\ [Next]_vars => NoOrphans'
<1>. SUFFICES ASSUME TypeOK, NoOrphans, [Next]_vars, NEW i \in Ids, NEW n \in Nodes,
                     deliveries'[i][n] # "none"
              PROVE  Stored(i)'
  BY DEF NoOrphans
<1>1. ASSUME NEW r \in Requests, Store(r)
      PROVE  Stored(i)'
  <2>1. env[r] \in Envelopes /\ to[r] \in SUBSET Nodes /\ LedgerTypeOK
    BY DEF TypeOK
  <2>2. Insert(env[r], to[r])
    BY <1>1 DEF Store
  <2>3. CASE i = env[r].id
    BY <2>1, <2>2, <2>3, InsertIsLocal, RowType DEF Stored
  <2>4. CASE i # env[r].id
    BY <2>1, <2>2, <2>4, InsertIsLocal DEF NoOrphans, Stored
  <2>. QED  BY <2>3, <2>4
<1>2. CASE messages' = messages /\ \A j \in Ids : SentTo(j)' = SentTo(j)
  <2>1. n \in SentTo(i)
    BY <1>2 DEF SentTo
  <2>. QED  BY <1>2, <2>1 DEF SentTo, NoOrphans, Stored
<1>. QED  BY <1>1, <1>2, OnlyStoreAdds

LEMMA AnswerTrueStays == IInv /\ [Next]_vars => AnswerTrue'
<1>. SUFFICES ASSUME IInv, [Next]_vars, NEW q \in Requests,
                     outcome'[q] \in {"stored", "resent"}
              PROVE  /\ \E m \in messages' : /\ m.id = env'[q].id
                                             /\ m.from = env'[q].from
                                             /\ m.text = env'[q].text
                     /\ {n \in Nodes : deliveries'[env'[q].id][n] # "none"} = to'[q]
  BY DEF AnswerTrue, SentTo
<1>0. env[q] \in Envelopes /\ to[q] \in SUBSET Nodes /\ LedgerTypeOK
  BY DEF IInv, TypeOK
<1>. PICK i \in Ids : i = env[q].id
  BY <1>0, EnvelopeType
<1>1. CASE outcome'[q] = outcome[q] /\ env'[q] = env[q] /\ to'[q] = to[q]
  <2>1. PICK m \in messages : m.id = i /\ m.from = env[q].from /\ m.text = env[q].text
    BY <1>1 DEF IInv, AnswerTrue
  <2>2. SentTo(i) = to[q]
    BY <1>1 DEF IInv, AnswerTrue
  <2>3. {x \in messages' : x.id = i} = {x \in messages : x.id = i} /\ SentTo(i)' = SentTo(i)
    BY <2>1, StoredKept DEF Stored, IInv
  <2>4. m \in messages'
    BY <2>1, <2>3
  <2>5. {n \in Nodes : deliveries'[i][n] # "none"} = to[q]
    BY <2>2, <2>3 DEF SentTo
  <2>. QED  BY <1>1, <2>1, <2>4, <2>5
<1>2. CASE Store(q)
  <2>1. Insert(env[q], to[q]) /\ ~Stored(i) /\ env' = env /\ to' = to
    BY <1>2 DEF Store, Storable, Collides, Answer
  <2>2. \A n \in Nodes : deliveries'[i][n] = IF n \in to[q] THEN "unread"
                                                         ELSE deliveries[i][n]
    BY <2>1, <1>0, InsertIsLocal
  <2>3. \A n \in Nodes : deliveries[i][n] = "none"
    BY <2>1 DEF IInv, NoOrphans
  <2>4. {n \in Nodes : deliveries'[i][n] # "none"} = to[q]
    BY <2>2, <2>3, <1>0
  <2>5. Row(env[q]) \in messages'
    BY <2>1, <1>0, InsertIsLocal
  <2>. QED  BY <2>1, <2>4, <2>5, <1>0, RowType
<1>3. CASE Resend(q) /\ Same(q)
  <2>1. UNCHANGED <<messages, deliveries, env, to>>
    BY <1>3 DEF Resend, Answer, tables
  <2>. QED  BY <1>3, <2>1 DEF Same, SentTo
<1>. QED  BY <1>1, <1>2, <1>3, Answers DEF IInv

LEMMA InitIInv == Init => IInv
  BY InitType DEF Init, LedgerInit, IInv, NoOrphans, Decided, AnswerTrue

\* An answer "stored", or stored already, is true of sender, content and recipients,
\* whatever other requests do to the same id before, during or after.
THEOREM AnswerTrueHolds == Spec => []AnswerTrue
<1>1. IInv /\ [Next]_vars => IInv'
  BY NextType, NoOrphansStays, DecidedStays, AnswerTrueStays DEF IInv
<1>2. IInv => AnswerTrue
  BY DEF IInv
<1>. QED  BY InitIInv, <1>1, <1>2, PTL DEF Spec

-----------------------------------------------------------------------------
(* Sends that nothing disturbs.                                            *)

CalmNext == Next /\ Undisturbed

\* What a thread knows of its envelope at each check: each thing it has found so
\* far is still so.
SenderKnown(r) == at[r] \in Checks \ {"sender"} => /\ env[r].from \in Active
                                                   /\ speaks[r] = kind[env[r].from]

ModeKnown(r) == /\ at[r] \in {"tac", "tacgate"} => env[r].mode = "tac"
                /\ at[r] = "whom" => env[r].mode # "direct"
                /\ at[r] = "gate" => env[r].mode \in {"direct", "all"}

TacKnown(r) ==
  env[r].mode = "tac" =>
    /\ at[r] \in Checks \ {"sender", "tac"} => tac = "open"
    /\ at[r] \in Checks \ {"sender", "tac", "tacgate"} => ~Behind(env[r].from)

NamesKnown(r) ==
  at[r] \in {"sender", "program", "valid"} =>
    \/ env[r].mode = "direct" /\ to[r] = env[r].to
    \/ env[r].mode # "direct" /\ (at[r] = "sender" \/ to[r] = Whom(env[r]))

RecipientsKnown(r) ==
  /\ at[r] = "valid" => Programs(r) = {}
  /\ at[r] \in {"gate", "insert"} => /\ to[r] = Contract!Audience(env[r])
                                     /\ to[r] # {}
                                     /\ \A n \in to[r] : kind[n] = "agent"
  /\ at[r] = "insert" => Contract!MayClaimTheFloor(env[r])

Known(r) == /\ SenderKnown(r) /\ ModeKnown(r) /\ TacKnown(r)
            /\ NamesKnown(r) /\ RecipientsKnown(r)

AllKnown == \A r \in Requests : Known(r)

\* The contract reads the tables as Send does.
LEMMA SameReading ==
  /\ Contract!Active = Active
  /\ \A i \in Ids : Contract!Stored(i) = Stored(i)
  /\ \A n \in Nodes : Contract!Behind(n) = Behind(n)
  /\ \A n, s \in Nodes : Contract!Unheard(n, s) = Unheard(n, s)
  /\ \A e \in Envelopes : Contract!Row(e) = Row(e)
  /\ \A e \in Envelopes, t \in SUBSET Nodes : Contract!Insert(e, t) = Insert(e, t)
  BY DEF Contract!Active, Active, Contract!Registered, Registered, Contract!Stored, Stored,
         Contract!Behind, Behind, Contract!Unheard, Unheard, Contract!Row, Row,
         Contract!Insert, Insert

\* When the tables change, no thread is in the middle of a send afterwards.
LEMMA CalmCases ==
  ASSUME TypeOK, [CalmNext]_vars
  PROVE  \/ UNCHANGED tables
         \/ \A r \in Requests : at'[r] \notin Checks
<1>. SUFFICES ASSUME ~UNCHANGED tables, NEW r \in Requests, at'[r] \in Checks
              PROVE  FALSE
  OBVIOUS
<1>1. at'[r] # at[r]
  BY DEF CalmNext, Undisturbed, vars
<1>2. PICK q \in Requests : Request(q)
  BY <1>1 DEF CalmNext, Next, vars, threads
<1>3. Store(q)
  BY <1>2 DEF Request, Step, Start, CheckSender, CheckTac, CheckTacGate, FindRecipients,
              CheckPrograms, CheckValid, CheckGate, Resend, Raise, Reply, Die, Finish
<1>4. at'[r] \in {at[r], "reply"}
  BY <1>3 DEF Store, Answer, TypeOK
<1>. QED  BY <1>1, <1>4 DEF Checks

\* Another thread's step leaves what this one knows, if the tables stay.
LEMMA KnownElsewhere ==
  ASSUME UNCHANGED tables, NEW r \in Requests, Known(r),
         at'[r] = at[r], env'[r] = env[r], speaks'[r] = speaks[r], to'[r] = to[r]
  PROVE  Known(r)'
<1>. USE DEF tables, Known, Active, Registered
<1>1. SenderKnown(r)' /\ ModeKnown(r)'
  BY DEF SenderKnown, ModeKnown
<1>2. TacKnown(r)'
  BY DEF TacKnown, Behind
<1>3. NamesKnown(r)'
  BY DEF NamesKnown, Whom
<1>4. /\ Contract!Audience(env[r])' = Contract!Audience(env[r])
      /\ Contract!MayClaimTheFloor(env[r])' = Contract!MayClaimTheFloor(env[r])
  <2>1. Contract!Active' = Contract!Active
    BY DEF Contract!Active, Contract!Registered
  <2>2. Contract!Audience(env[r])' = Contract!Audience(env[r])
    BY <2>1 DEF Contract!Audience
  <2>. QED  BY <2>2 DEF Contract!MayClaimTheFloor, Contract!Behind, Contract!Unheard
<1>5. RecipientsKnown(r)'
  BY <1>4 DEF RecipientsKnown, Programs
<1>. QED  BY <1>1, <1>2, <1>3, <1>5

\* A thread's own check finds out what it has to know next.
LEMMA KnownAtStart ==
  ASSUME TypeOK, NEW r \in Requests, NEW e \in Envelopes, Start(r, e)
  PROVE  Known(r)'
<1>1. at'[r] = "sender" /\ env'[r] = e /\ to'[r] = e.to
  BY DEF Start, Goto, TypeOK
<1>. QED  BY <1>1, EnvelopeType
          DEF Known, SenderKnown, ModeKnown, TacKnown, NamesKnown, RecipientsKnown, Modes

LEMMA KnownAtRest ==
  ASSUME NEW r \in Requests, at'[r] \notin Checks
  PROVE  Known(r)'
  BY DEF Known, SenderKnown, ModeKnown, TacKnown, NamesKnown, RecipientsKnown, Checks

\* Whom, Programs and the tables are read before and after a check alike.
LEMMA SameReadingLater ==
  ASSUME UNCHANGED tables, NEW e \in Envelopes
  PROVE  /\ Active' = Active /\ kind' = kind /\ tac' = tac
         /\ \A n \in Nodes : Behind(n)' = Behind(n)
         /\ Whom(e)' = Whom(e)
         /\ Contract!Audience(e)' = Contract!Audience(e)
         /\ Contract!MayClaimTheFloor(e)' = Contract!MayClaimTheFloor(e)
<1>. USE DEF tables
<1>1. Active' = Active /\ Contract!Active' = Contract!Active
  BY DEF Active, Registered, Contract!Active, Contract!Registered
<1>2. Contract!Audience(e)' = Contract!Audience(e)
  BY <1>1 DEF Contract!Audience
<1>3. Contract!MayClaimTheFloor(e)' = Contract!MayClaimTheFloor(e)
  BY <1>2 DEF Contract!MayClaimTheFloor, Contract!Behind, Contract!Unheard
<1>. QED  BY <1>1, <1>2, <1>3 DEF Behind, Whom

\* The names that are left when programs are excluded and the rest is dropped.
LEMMA ValidIsAudience ==
  ASSUME TypeOK, NEW r \in Requests, Known(r), at[r] = "valid"
  PROVE  /\ Valid(r) = Contract!Audience(env[r])
         /\ \A n \in Valid(r) : kind[n] = "agent"
<1>. USE DEF Known
<1>1. env[r] \in Envelopes /\ env[r].mode \in Modes /\ to[r] \in SUBSET Nodes
  BY EnvelopeType DEF TypeOK
<1>2. \/ env[r].mode = "direct" /\ to[r] = env[r].to
      \/ env[r].mode # "direct" /\ to[r] = Whom(env[r])
  BY DEF NamesKnown
<1>3. Valid(r) = Contract!Audience(env[r])
  BY <1>1, <1>2, SameReading
  DEF Valid, Whom, Contract!Audience, Active, Registered, Modes
<1>4. ASSUME NEW n \in Valid(r)
      PROVE  kind[n] = "agent"
  BY <1>1 DEF Valid, Active, Registered, RecipientsKnown, Programs, TypeOK, LedgerTypeOK
<1>. QED  BY <1>3, <1>4

LEMMA KnownAfterCheck ==
  ASSUME TypeOK, NEW r \in Requests, Known(r), Step(r), UNCHANGED tables
  PROVE  Known(r)'
<1>. DEFINE e == env[r]
<1>0. /\ e \in Envelopes /\ e.mode \in Modes /\ e.from \in Nodes
      /\ to[r] \in SUBSET Nodes /\ kind \in [Nodes -> {"none", "agent", "program"}]
  BY EnvelopeType DEF TypeOK, LedgerTypeOK
<1>. SUFFICES ASSUME at'[r] \in Checks
              PROVE  Known(r)'
  BY KnownAtRest
<1>. USE SameReadingLater DEF Known, Checks, Modes
<1>1. CASE CheckSender(r)
  <2>1. /\ at[r] = "sender" /\ e.from \in Active /\ env' = env /\ to' = to
        /\ speaks'[r] = kind[e.from]
        /\ at'[r] = CASE e.mode = "tac"    -> "tac"
                      [] e.mode = "direct" -> "program"
                      [] OTHER             -> "whom"
    BY <1>1 DEF CheckSender, Answer, Goto, MaySend, TypeOK
  <2>2. to[r] = e.to \/ e.mode # "direct"
    BY <2>1 DEF NamesKnown
  <2>. QED  BY <1>0, <2>1, <2>2
            DEF SenderKnown, ModeKnown, TacKnown, NamesKnown, RecipientsKnown
<1>2. CASE CheckTac(r) \/ CheckTacGate(r)
  <2>1. /\ at[r] \in {"tac", "tacgate"}
        /\ env' = env /\ to' = to /\ speaks' = speaks
        /\ \/ at[r] = "tac" /\ at'[r] = "tacgate" /\ tac = "open"
           \/ at[r] = "tacgate" /\ at'[r] = "whom" /\ ~Behind(e.from)
    BY <1>2 DEF CheckTac, CheckTacGate, TacTakesSends, Answer, Goto, TypeOK
  <2>. QED  BY <1>0, <2>1
            DEF SenderKnown, ModeKnown, TacKnown, NamesKnown, RecipientsKnown
<1>3. CASE FindRecipients(r)
  <2>1. /\ at[r] = "whom" /\ at'[r] = "program" /\ env' = env /\ speaks' = speaks
        /\ to'[r] = Whom(e)
    BY <1>3 DEF FindRecipients, Answer, Goto, TypeOK
  <2>2. e.mode # "direct"
    BY <2>1 DEF ModeKnown
  <2>. QED  BY <1>0, <2>1, <2>2
            DEF SenderKnown, ModeKnown, TacKnown, NamesKnown, RecipientsKnown
<1>4. CASE CheckPrograms(r)
  <2>1. /\ at[r] = "program" /\ at'[r] = "valid"
        /\ env' = env /\ to' = to /\ speaks' = speaks /\ Programs(r) = {}
    BY <1>4 DEF CheckPrograms, Answer, Goto, TypeOK
  <2>2. Programs(r)' = {}
    BY <2>1 DEF Programs, tables
  <2>. QED  BY <1>0, <2>1, <2>2
            DEF SenderKnown, ModeKnown, TacKnown, NamesKnown, RecipientsKnown
<1>5. CASE CheckValid(r)
  <2>1. /\ at[r] = "valid" /\ env' = env /\ speaks' = speaks /\ Valid(r) # {}
        /\ to'[r] = Valid(r)
        /\ at'[r] = IF e.mode \in {"direct", "all"} /\ speaks[r] = "agent"
                      THEN "gate" ELSE "insert"
    BY <1>5 DEF CheckValid, Keep, Answer, Goto, TypeOK
  <2>2. speaks[r] = kind[e.from] /\ (e.mode = "tac" => tac = "open" /\ ~Behind(e.from))
    BY <2>1 DEF SenderKnown, TacKnown
  <2>3. at'[r] = "insert" => Contract!MayClaimTheFloor(e)
    BY <2>1, <2>2, <1>0, SameReading DEF Contract!MayClaimTheFloor
  <2>4. RecipientsKnown(r)'
    BY <1>0, <2>1, <2>3, ValidIsAudience DEF RecipientsKnown
  <2>. QED  BY <1>0, <2>1, <2>2, <2>4
            DEF SenderKnown, ModeKnown, TacKnown, NamesKnown
<1>6. CASE CheckGate(r)
  <2>1. /\ at[r] = "gate" /\ at'[r] = "insert" /\ ~Spoken(r)
        /\ env' = env /\ to' = to /\ speaks' = speaks
    BY <1>6 DEF CheckGate, Answer, Goto, TypeOK
  <2>2. /\ e.mode \in {"direct", "all"} /\ to[r] = Contract!Audience(e)
        /\ to[r] # {} /\ \A n \in to[r] : kind[n] = "agent"
    BY <2>1 DEF ModeKnown, RecipientsKnown
  <2>3. Contract!MayClaimTheFloor(e)
    BY <2>1, <2>2, <1>0, SameReading DEF Spoken, Contract!MayClaimTheFloor
  <2>. QED  BY <1>0, <2>1, <2>2, <2>3
            DEF SenderKnown, ModeKnown, TacKnown, NamesKnown, RecipientsKnown
<1>7. CASE Store(r) \/ Resend(r) \/ Raise(r) \/ Reply(r)
  BY <1>7 DEF Store, Resend, Raise, Reply, Finish, Answer, TypeOK
<1>. QED  BY <1>1, <1>2, <1>3, <1>4, <1>5, <1>6, <1>7 DEF Step

LEMMA KnownStays == TypeOK /\ AllKnown /\ [CalmNext]_vars => AllKnown'
<1>. SUFFICES ASSUME TypeOK, AllKnown, [CalmNext]_vars, NEW r \in Requests
              PROVE  Known(r)'
  BY DEF AllKnown
<1>0. Known(r)
  BY DEF AllKnown
<1>1. CASE \A q \in Requests : at'[q] \notin Checks
  BY <1>1, KnownAtRest
<1>2. CASE UNCHANGED tables
  <2>1. CASE Request(r)
    <3>1. CASE \E e \in Envelopes : Start(r, e)
      BY <3>1, KnownAtStart
    <3>2. CASE Step(r)
      BY <3>2, <1>0, <1>2, KnownAfterCheck
    <3>3. CASE Die(r)
      BY <3>3, KnownAtRest DEF Die, Finish, TypeOK, Checks
    <3>. QED  BY <2>1, <3>1, <3>2, <3>3 DEF Request
  <2>2. ASSUME NEW q \in Requests, Request(q), q # r
        PROVE  at'[r] = at[r] /\ env'[r] = env[r] /\ speaks'[r] = speaks[r] /\ to'[r] = to[r]
    BY <2>2 DEF TypeOK, Request, Step, Start, CheckSender, CheckTac, CheckTacGate,
                FindRecipients, CheckPrograms, CheckValid, CheckGate, Store, Resend, Raise,
                Reply, Die, Finish, Answer, Goto, Keep
  <2>3. CASE UNCHANGED threads
    BY <2>3, <1>0, <1>2, KnownElsewhere DEF threads
  <2>. QED  BY <1>0, <1>2, <2>1, <2>2, <2>3, KnownElsewhere DEF CalmNext, Next, vars
<1>. QED  BY <1>1, <1>2, CalmCases

\* The INSERTs of an undisturbed send are a step of the contract.
LEMMA StoreIsSend ==
  ASSUME TypeOK, AllKnown, NEW r \in Requests, Store(r)
  PROVE  Contract!Send(env[r])
<1>1. env[r] \in Envelopes /\ to[r] \in SUBSET Nodes /\ env[r].id \in Ids
  BY EnvelopeType DEF TypeOK
<1>2. /\ at[r] = "insert" /\ ~Stored(env[r].id) /\ Insert(env[r], to[r])
      /\ UNCHANGED <<kind, removed, tac, members>>
  BY DEF Store, Storable, Collides
<1>3. /\ env[r].from \in Active /\ to[r] = Contract!Audience(env[r]) /\ to[r] # {}
      /\ \A n \in to[r] : kind[n] = "agent"
      /\ Contract!MayClaimTheFloor(env[r])
  BY <1>2 DEF AllKnown, Known, SenderKnown, RecipientsKnown, Checks
<1>. QED  BY <1>1, <1>2, <1>3, SameReading DEF Contract!Send

LEMMA StepKeepsContract ==
  ASSUME TypeOK, AllKnown, [CalmNext]_vars
  PROVE  [Contract!Next]_tables
<1>1. CASE Administration \/ Reading
  BY <1>1 DEF Contract!Next, Administration, Reading, Contract!Administration,
              Contract!Reading, Register, Remove, Restore, Purge, TacCreate, TacAdd,
              TacRemove, TacClose, Open, Contract!Register, Contract!Remove,
              Contract!Restore, Contract!Purge, Contract!TacCreate, Contract!TacAdd,
              Contract!TacRemove, Contract!TacClose, Contract!Open, Registered, Active,
              Contract!Registered, Contract!Active
<1>2. ASSUME NEW r \in Requests, Store(r)
      PROVE  Contract!Next
  BY <1>2, StoreIsSend DEF Contract!Next, TypeOK
<1>3. ASSUME NEW r \in Requests, Request(r), ~Store(r)
      PROVE  UNCHANGED tables
  BY <1>3 DEF Request, Step, Start, CheckSender, CheckTac, CheckTacGate, FindRecipients,
              CheckPrograms, CheckValid, CheckGate, Resend, Raise, Reply, Die, Finish
<1>. QED  BY <1>1, <1>2, <1>3 DEF CalmNext, Next, vars

LEMMA InitKnown == Init => AllKnown
  BY DEF Init, AllKnown, Known, SenderKnown, ModeKnown, TacKnown, NamesKnown,
         RecipientsKnown, Checks

LEMMA CalmInvariant == CalmSpec => [](TypeOK /\ AllKnown)
<1>1. [CalmNext]_vars => [Next]_vars
  BY DEF CalmNext
<1>2. TypeOK /\ AllKnown /\ [CalmNext]_vars => (TypeOK /\ AllKnown)'
  BY <1>1, NextType, KnownStays
<1>. QED  BY InitType, InitKnown, <1>2, PTL DEF CalmSpec, CalmNext

\* Undisturbed, bus_send with all its separate SELECTs is one step on the tables: it
\* stores the whole envelope for the right recipients under the rules, or nothing.
THEOREM ContractKept == CalmSpec => KeepsContract
<1>1. Init => Contract!LedgerInit
  BY DEF Init, LedgerInit, Contract!LedgerInit
<1>2. TypeOK /\ AllKnown /\ [CalmNext]_vars => [Contract!Next]_(Contract!tables)
  BY StepKeepsContract DEF tables, Contract!tables
<1>. QED  BY <1>1, <1>2, CalmInvariant, PTL DEF CalmSpec, CalmNext, KeepsContract, Contract!Spec

-----------------------------------------------------------------------------
(* Sends that anything may overtake.                                       *)

\* What a thread has made of its envelope, which no other step can take from it.
Narrowed(r) ==
  /\ env[r].mode = "direct" /\ at[r] \in Checks
       => /\ to[r] \subseteq env[r].to
          /\ env[r].again \cap to[r] \subseteq again[r]
          /\ at[r] \notin {"tac", "tacgate", "whom"}
  /\ env[r].mode # "direct" /\ at[r] \in {"program", "valid", "gate", "insert"}
       => env[r].from \notin to[r]
  /\ at[r] \in {"gate", "insert"} => to[r] # {}

AllNarrowed == \A r \in Requests : Narrowed(r)

\* A thread's own check keeps it.
LEMMA NarrowedAfterStep ==
  ASSUME TypeOK, NEW r \in Requests, Narrowed(r), Step(r)
  PROVE  Narrowed(r)'
<1>. USE DEF Narrowed, Checks, Answer, Goto, TypeOK
<1>1. CASE CheckSender(r)
  BY <1>1 DEF CheckSender
<1>2. CASE CheckTac(r) \/ CheckTacGate(r)
  <2>1. /\ at[r] \in {"tac", "tacgate"} /\ at'[r] \in {"tacgate", "whom", "reply"}
        /\ env' = env /\ to' = to /\ again' = again
    BY <1>2 DEF CheckTac, CheckTacGate
  <2>. QED  BY <2>1
<1>3. CASE FindRecipients(r)
  BY <1>3 DEF FindRecipients, Whom
<1>4. CASE CheckPrograms(r) \/ CheckGate(r)
  BY <1>4 DEF CheckPrograms, CheckGate
<1>5. CASE CheckValid(r)
  BY <1>5 DEF CheckValid, Keep, Valid
<1>6. CASE Store(r) \/ Resend(r) \/ Raise(r)
  BY <1>6 DEF Store, Resend, Raise
<1>7. CASE Reply(r)
  BY <1>7 DEF Reply, Finish
<1>. QED  BY <1>1, <1>2, <1>3, <1>4, <1>5, <1>6, <1>7 DEF Step

\* Nor can another thread, the administration or a reader take it away.
LEMMA NarrowedElsewhere ==
  ASSUME NEW r \in Requests, Narrowed(r),
         at'[r] = at[r], env'[r] = env[r], to'[r] = to[r], again'[r] = again[r]
  PROVE  Narrowed(r)'
  BY DEF Narrowed

LEMMA NarrowedStays == TypeOK /\ AllNarrowed /\ [Next]_vars => AllNarrowed'
<1>. SUFFICES ASSUME TypeOK, AllNarrowed, [Next]_vars, NEW r \in Requests
              PROVE  Narrowed(r)'
  BY DEF AllNarrowed
<1>0. Narrowed(r)
  BY DEF AllNarrowed
<1>1. ASSUME NEW e \in Envelopes, Start(r, e)
      PROVE  Narrowed(r)'
  BY <1>1, EnvelopeType DEF Start, Goto, TypeOK, Narrowed, Checks
<1>2. CASE Step(r)
  BY <1>0, <1>2, NarrowedAfterStep
<1>3. CASE Die(r)
  BY <1>3 DEF Die, Finish, TypeOK, Narrowed, Checks
<1>4. ASSUME NEW q \in Requests, Request(q), q # r
      PROVE  at'[r] = at[r] /\ env'[r] = env[r] /\ to'[r] = to[r] /\ again'[r] = again[r]
  BY <1>4 DEF TypeOK, Request, Step, Start, CheckSender, CheckTac, CheckTacGate,
              FindRecipients, CheckPrograms, CheckValid, CheckGate, Store, Resend, Raise,
              Reply, Die, Finish, Answer, Goto, Keep
<1>5. CASE UNCHANGED threads
  BY <1>0, <1>5, NarrowedElsewhere DEF threads
<1>. QED  BY <1>0, <1>1, <1>2, <1>3, <1>4, <1>5, NarrowedElsewhere DEF Next, vars, Request

LEMMA NarrowedInvariant == Spec => [](TypeOK /\ AllNarrowed)
<1>1. Init => AllNarrowed
  BY DEF Init, AllNarrowed, Narrowed, Checks
<1>. QED  BY InitType, NextType, NarrowedStays, <1>1, PTL DEF Spec

\* The INSERTs of any send are a step of the contested contract.
LEMMA StoreIsSendOvertaken ==
  ASSUME TypeOK, AllNarrowed, NEW r \in Requests, Store(r)
  PROVE  Contract!SendOvertaken(env[r], to[r])
<1>0. /\ env[r] \in Envelopes /\ to[r] \in SUBSET Nodes
      /\ env[r].id \in Ids /\ env[r].from \in Nodes
  BY EnvelopeType DEF TypeOK
<1>1. /\ at[r] = "insert" /\ ~Stored(env[r].id) /\ Insert(env[r], to[r])
      /\ {env[r].from} \cup to[r] \subseteq Registered
      /\ again[r] \cap Registered = {}
      /\ UNCHANGED <<kind, removed, tac, members>>
  BY DEF Store, Storable, Collides, Dangles
<1>2. to[r] # {} /\ Contract!Addressed(env[r], to[r])
  <2>1. Narrowed(r)
    BY DEF AllNarrowed
  <2>. QED  BY <1>1, <2>1 DEF Narrowed, Checks, Contract!Addressed
<1>3. Contract!Registered = Registered
  BY DEF Contract!Registered, Registered
<1>. QED  BY <1>0, <1>1, <1>2, <1>3, SameReading DEF Contract!SendOvertaken

\* Nothing but the INSERTs of a request is a send.
LEMMA OnlyStoreSends ==
  ASSUME [Next]_vars
  PROVE  \/ UNCHANGED tables
         \/ Administration \/ Reading
         \/ \E r \in Requests : Store(r)
<1>1. ASSUME NEW r \in Requests, Request(r), ~Store(r)
      PROVE  UNCHANGED tables
  BY <1>1 DEF Request, Step, Start, CheckSender, CheckTac, CheckTacGate, FindRecipients,
              CheckPrograms, CheckValid, CheckGate, Resend, Raise, Reply, Die, Finish
<1>. QED  BY <1>1 DEF Next, vars

LEMMA StepKeepsContested ==
  ASSUME TypeOK, AllNarrowed, [Next]_vars
  PROVE  [Contract!Contested]_tables
<1>1. CASE Administration \/ Reading
  BY <1>1 DEF Contract!Contested, Administration, Reading, Contract!Administration,
              Contract!Reading, Register, Remove, Restore, Purge, TacCreate, TacAdd,
              TacRemove, TacClose, Open, Contract!Register, Contract!Remove,
              Contract!Restore, Contract!Purge, Contract!TacCreate, Contract!TacAdd,
              Contract!TacRemove, Contract!TacClose, Contract!Open, Registered, Active,
              Contract!Registered, Contract!Active
<1>2. ASSUME NEW r \in Requests, Store(r)
      PROVE  Contract!Contested
  BY <1>2, StoreIsSendOvertaken DEF Contract!Contested, TypeOK
<1>. QED  BY <1>1, <1>2, OnlyStoreSends

\* However requests, administration and reading overlap, bus_send stores a whole
\* envelope under a new id, for recipients it can mean that have their rows, or nothing.
THEOREM ContestedKept == Spec => KeepsContested
<1>1. Init => Contract!LedgerInit
  BY DEF Init, LedgerInit, Contract!LedgerInit
<1>2. TypeOK /\ AllNarrowed /\ [Next]_vars => [Contract!Contested]_(Contract!tables)
  BY StepKeepsContested DEF tables, Contract!tables
<1>. QED  BY <1>1, <1>2, NarrowedInvariant, PTL
          DEF Spec, KeepsContested, Contract!ContestedSpec

\* What the INSERTs of a send do, whatever has overtaken its checks.
LEMMA StoreEffect ==
  ASSUME TypeOK, AllNarrowed, NEW r \in Requests, Store(r)
  PROVE  /\ env[r] \in Envelopes /\ to[r] \in SUBSET Nodes
         /\ ~Stored(env[r].id) /\ to[r] # {}
         /\ {env[r].from} \cup to[r] \subseteq Registered
         /\ UNCHANGED <<kind, removed, tac, members>>
         /\ messages' = messages \cup {Row(env[r])}
         /\ \A i \in Ids, n \in Nodes :
              deliveries'[i][n] = IF i = env[r].id /\ n \in to[r]
                                    THEN "unread" ELSE deliveries[i][n]
<1>1. /\ env[r] \in Envelopes /\ to[r] \in SUBSET Nodes /\ LedgerTypeOK
      /\ Contract!SendOvertaken(env[r], to[r])
  BY StoreIsSendOvertaken DEF TypeOK
<1>2. /\ ~Stored(env[r].id) /\ to[r] # {} /\ Insert(env[r], to[r])
      /\ {env[r].from} \cup to[r] \subseteq Registered
      /\ UNCHANGED <<kind, removed, tac, members>>
  BY <1>1, SameReading, EnvelopeType
  DEF Contract!SendOvertaken, Contract!Registered, Registered
<1>3. \A i \in Ids, n \in Nodes :
        deliveries'[i][n] = IF i = env[r].id /\ n \in to[r]
                              THEN "unread" ELSE deliveries[i][n]
  BY <1>1, <1>2, InsertIsLocal
<1>. QED  BY <1>1, <1>2, <1>3, InsertIsLocal

\* The ledger can always be read back: no two messages under one id, each with its
\* sender and all its recipients still among the nodes, and none for nobody.
Accounted ==
  /\ \A m, k \in messages : m.id = k.id => m = k
  /\ \A m \in messages : m.from \in Registered /\ SentTo(m.id) # {}
  /\ \A i \in Ids : SentTo(i) \subseteq Registered

LEMMA AccountedOutside ==
  ASSUME TypeOK, Accounted, Administration \/ Reading
  PROVE  Accounted'
<1>0. LedgerTypeOK
  BY DEF TypeOK
<1>1. messages' = messages /\ \A i \in Ids : SentTo(i)' = SentTo(i)
  BY <1>0, LedgerKeepsMail
<1>2. \A m \in messages : m.id \in Ids /\ m.from \in Nodes
  BY <1>0 DEF LedgerTypeOK, Rows
<1>3. ASSUME NEW n \in Registered,
             (\E m \in messages : m.from = n) \/ \E i \in Ids : n \in SentTo(i)
      PROVE  n \in Registered'
  <2>1. ASSUME NEW x \in Nodes, NEW k \in {"agent", "program"}, Register(x, k)
        PROVE  n \in Registered'
    BY <1>0, <2>1 DEF Register, Registered, LedgerTypeOK
  <2>2. ASSUME NEW x \in Nodes, Purge(x)
        PROVE  n \in Registered'
    BY <1>0, <1>3, <2>2 DEF Purge, Registered, LedgerTypeOK, SentTo
  <2>3. ASSUME NEW x \in Nodes, Remove(x) \/ Restore(x) \/ TacAdd(x) \/ TacRemove(x)
        PROVE  n \in Registered'
    BY <2>3 DEF Remove, Restore, TacAdd, TacRemove, Registered
  <2>4. CASE TacCreate \/ TacClose \/ Reading
    BY <2>4 DEF TacCreate, TacClose, Reading, Open, Registered
  <2>. QED  BY <2>1, <2>2, <2>3, <2>4 DEF Administration
<1>. QED  BY <1>1, <1>2, <1>3 DEF Accounted

LEMMA AccountedStored ==
  ASSUME TypeOK, AllNarrowed, NoOrphans, Accounted, NEW r \in Requests, Store(r)
  PROVE  Accounted'
<1>. PICK e \in Envelopes : e = env[r]
  BY StoreEffect
<1>1. /\ e.id \in Ids /\ to[r] \in SUBSET Nodes /\ to[r] # {}
      /\ {e.from} \cup to[r] \subseteq Registered
      /\ ~Stored(e.id) /\ messages' = messages \cup {Row(e)} /\ kind' = kind
      /\ \A i \in Ids, n \in Nodes :
           deliveries'[i][n] = IF i = e.id /\ n \in to[r]
                                 THEN "unread" ELSE deliveries[i][n]
  BY StoreEffect, EnvelopeType
<1>2. /\ Row(e).id = e.id /\ Row(e).from = e.from
      /\ \A m \in messages : m.id \in Ids /\ m.id # e.id
  BY <1>1, RowType DEF TypeOK, LedgerTypeOK, Rows, Stored
<1>3. Registered' = Registered
  BY <1>1 DEF Registered
<1>4. SentTo(e.id)' = to[r]
  <2>1. \A n \in Nodes : deliveries[e.id][n] = "none"
    BY <1>1 DEF NoOrphans
  <2>2. \A n \in Nodes : deliveries'[e.id][n] # "none" <=> n \in to[r]
    BY <1>1, <2>1
  <2>. QED  BY <1>1, <2>2 DEF SentTo
<1>5. ASSUME NEW i \in Ids \ {e.id}
      PROVE  SentTo(i)' = SentTo(i)
  BY <1>1 DEF SentTo
<1>6. \A m, k \in messages' : m.id = k.id => m = k
  BY <1>1, <1>2 DEF Accounted
<1>7. \A m \in messages' : m.from \in Registered' /\ SentTo(m.id)' # {}
  BY <1>1, <1>2, <1>3, <1>4, <1>5 DEF Accounted
<1>8. \A i \in Ids : SentTo(i)' \subseteq Registered'
  BY <1>1, <1>3, <1>4, <1>5 DEF Accounted
<1>. QED  BY <1>6, <1>7, <1>8 DEF Accounted

\* Retries, reuse of ids, soft removal and purge together leave no message without its
\* sender and its recipients: a purge that waits for a send refuses, and a send that
\* waits for a purge is raised by the foreign keys.
THEOREM AccountedHolds == Spec => []Accounted
<1>1. TypeOK /\ AllNarrowed /\ NoOrphans /\ Accounted /\ [Next]_vars
        => NoOrphans' /\ Accounted'
  <2>. SUFFICES ASSUME TypeOK, AllNarrowed, NoOrphans, Accounted, [Next]_vars
                PROVE  Accounted'
    BY NoOrphansStays
  <2>1. CASE UNCHANGED tables
    BY <2>1 DEF tables, Accounted, Registered, SentTo
  <2>. QED  BY <2>1, OnlyStoreSends, AccountedOutside, AccountedStored
<1>2. Init => NoOrphans /\ Accounted
  BY DEF Init, LedgerInit, NoOrphans, Accounted, SentTo
<1>. QED  BY <1>1, <1>2, NarrowedInvariant, PTL DEF Spec

-----------------------------------------------------------------------------
(* What the contract is worth: the rules hold of it.                       *)

\* Only an agent has mail: an agent does not become a program, and only a node
\* without mail is purged.
OnlyAgentsReceive ==
  \A n \in Nodes : kind[n] # "agent" => \A i \in Ids : deliveries[i][n] = "none"

\* A step of the contract, in the terms of Ledger.
LEMMA ContractSteps ==
  ASSUME TypeOK, AllKnown, [CalmNext]_vars
  PROVE  \/ UNCHANGED tables
         \/ Administration \/ Reading
         \/ \E r \in Requests : Store(r) /\ Contract!Send(env[r])
<1>1. ASSUME NEW r \in Requests, Request(r), ~Store(r)
      PROVE  UNCHANGED tables
  BY <1>1 DEF Request, Step, Start, CheckSender, CheckTac, CheckTacGate, FindRecipients,
              CheckPrograms, CheckValid, CheckGate, Resend, Raise, Reply, Die, Finish
<1>. QED  BY <1>1, StoreIsSend DEF CalmNext, Next, vars

\* What a send of the contract does: rows for the audience of one new id.
LEMMA SendEffect ==
  ASSUME TypeOK, NEW e \in Envelopes, Contract!Send(e)
  PROVE  /\ ~Stored(e.id) /\ e.from \in Active
         /\ UNCHANGED <<kind, removed, tac, members>>
         /\ messages' = messages \cup {Row(e)}
         /\ \A n \in Contract!Audience(e) : n \in Nodes /\ n \in Active /\ kind[n] = "agent"
         /\ \A i \in Ids, n \in Nodes :
              deliveries'[i][n] = IF i = e.id /\ n \in Contract!Audience(e)
                                    THEN "unread" ELSE deliveries[i][n]
         /\ Contract!MayClaimTheFloor(e)
<1>1. Contract!Audience(e) \in SUBSET Nodes /\ Contract!Audience(e) \subseteq Active
  BY EnvelopeType, SameReading DEF Contract!Audience, Active, Registered, Modes
<1>2. Insert(e, Contract!Audience(e)) /\ LedgerTypeOK
  BY <1>1, SameReading DEF Contract!Send, TypeOK
<1>3. \A i \in Ids, n \in Nodes :
        deliveries'[i][n] = IF i = e.id /\ n \in Contract!Audience(e)
                              THEN "unread" ELSE deliveries[i][n]
  BY <1>1, <1>2, InsertIsLocal
<1>. QED  BY <1>1, <1>2, <1>3, SameReading, EnvelopeType, InsertIsLocal DEF Contract!Send

LEMMA OnlyAgentsReceiveStays ==
  ASSUME TypeOK, AllKnown, OnlyAgentsReceive, [CalmNext]_vars
  PROVE  OnlyAgentsReceive'
<1>0. LedgerTypeOK
  BY DEF TypeOK
<1>1. ASSUME NEW n \in Nodes, NEW k \in {"agent", "program"}, Register(n, k)
      PROVE  OnlyAgentsReceive'
  BY <1>0, <1>1 DEF Register, OnlyAgentsReceive, LedgerTypeOK
<1>2. ASSUME NEW n \in Nodes, Purge(n)
      PROVE  OnlyAgentsReceive'
  BY <1>0, <1>2 DEF Purge, OnlyAgentsReceive, LedgerTypeOK
<1>3. ASSUME NEW n \in Nodes, Remove(n) \/ Restore(n) \/ TacAdd(n) \/ TacRemove(n)
      PROVE  OnlyAgentsReceive'
  BY <1>3 DEF Remove, Restore, TacAdd, TacRemove, OnlyAgentsReceive
<1>4. CASE TacCreate \/ TacClose \/ UNCHANGED tables
  BY <1>4 DEF TacCreate, TacClose, tables, OnlyAgentsReceive
<1>5. ASSUME NEW i \in Ids, NEW n \in Nodes, Open(i, n)
      PROVE  OnlyAgentsReceive'
  BY <1>0, <1>5 DEF Open, OnlyAgentsReceive, LedgerTypeOK
<1>6. ASSUME NEW r \in Requests, Contract!Send(env[r])
      PROVE  OnlyAgentsReceive'
  BY <1>6, SendEffect DEF OnlyAgentsReceive, TypeOK
<1>. QED  BY <1>1, <1>2, <1>3, <1>4, <1>5, <1>6, ContractSteps DEF Administration, Reading

\* No envelope reaches a program: bus_send refuses it, bus_register lets no agent
\* with mail become one, and nothing else delivers.
THEOREM ProgramsReceiveNothingHolds == CalmSpec => []ProgramsReceiveNothing
<1>1. Init => OnlyAgentsReceive
  BY DEF Init, LedgerInit, OnlyAgentsReceive
<1>2. TypeOK /\ AllKnown /\ OnlyAgentsReceive /\ [CalmNext]_vars => OnlyAgentsReceive'
  BY OnlyAgentsReceiveStays
<1>3. OnlyAgentsReceive => ProgramsReceiveNothing
  BY DEF OnlyAgentsReceive, ProgramsReceiveNothing
<1>. QED  BY <1>1, <1>2, <1>3, CalmInvariant, PTL DEF CalmSpec, CalmNext

\* Undisturbed, a closed tac takes no message.
THEOREM ClosedTacSilentHolds == CalmSpec => ClosedTacSilent
<1>1. ASSUME TypeOK, AllKnown, [CalmNext]_vars, tac = "closed"
      PROVE  {m \in messages' : m.kind = "tac"} = {m \in messages : m.kind = "tac"}
  <2>1. CASE UNCHANGED tables \/ Administration \/ Reading
    <3>1. messages' = messages
      BY <2>1, <1>1, LedgerKeepsMail DEF tables, TypeOK
    <3>. QED  BY <3>1
  <2>2. ASSUME NEW r \in Requests, Contract!Send(env[r])
        PROVE  {m \in messages' : m.kind = "tac"} = {m \in messages : m.kind = "tac"}
    <3>1. env[r] \in Envelopes /\ env[r].mode # "tac"
      BY <2>2, <1>1, SendEffect DEF Contract!MayClaimTheFloor, TypeOK
    <3>. QED  BY <3>1, <2>2, <1>1, SendEffect, RowType
  <2>. QED  BY <1>1, <2>1, <2>2, ContractSteps
<1>2. TypeOK /\ AllKnown /\ [CalmNext]_vars =>
        [tac = "closed" =>
           {m \in messages' : m.kind = "tac"} = {m \in messages : m.kind = "tac"}]_vars
  BY <1>1
<1>. QED  BY <1>2, CalmInvariant, PTL DEF CalmSpec, CalmNext, ClosedTacSilent

\* Undisturbed, nothing is stored for a removed node or from it.
THEOREM RemovedInactiveHolds == CalmSpec => RemovedInactive
<1>. DEFINE Inactive(n) ==
       /\ \A i \in Ids : deliveries[i][n] = "none" => deliveries'[i][n] = "none"
       /\ \A m \in messages' \ messages : m.from # n
<1>1. ASSUME TypeOK, AllKnown, [CalmNext]_vars, NEW n \in removed \cap removed'
      PROVE  Inactive(n)
  <2>0. n \in Nodes
    BY <1>1 DEF TypeOK, LedgerTypeOK
  <2>1. CASE UNCHANGED tables \/ Administration \/ Reading
    BY <2>0, <2>1, <1>1, LedgerKeepsMail DEF tables, TypeOK, SentTo
  <2>2. ASSUME NEW r \in Requests, Contract!Send(env[r])
        PROVE  Inactive(n)
    <3>1. env[r] \in Envelopes /\ n \notin Active
      BY <1>1 DEF TypeOK, Active
    <3>. QED  BY <3>1, <2>0, <2>2, <1>1, SendEffect, RowType
  <2>. QED  BY <1>1, <2>1, <2>2, ContractSteps
<1>2. TypeOK /\ AllKnown /\ [CalmNext]_vars =>
        [\A n \in removed \cap removed' : Inactive(n)]_vars
  BY <1>1
<1>. QED  BY <1>2, CalmInvariant, PTL DEF CalmSpec, CalmNext, RemovedInactive

\* Mail that is unheard after a step was so before, or was sent by the step.
LEMMA HeardBefore ==
  ASSUME TypeOK, AllKnown, [CalmNext]_vars, NEW n \in Nodes, NEW s \in Nodes,
         NoOrphans, Unheard(n, s)', ~Unheard(n, s)
  PROVE  \E r \in Requests : /\ Contract!Send(env[r]) /\ env[r].from = s
                             /\ env[r].mode \in {"direct", "all"}
                             /\ n \in Contract!Audience(env[r])
<1>1. PICK m \in messages' : /\ m.from = s /\ m.kind = "direct"
                             /\ deliveries'[m.id][n] = "unread"
  BY DEF Unheard
<1>2. CASE UNCHANGED tables
  BY <1>1, <1>2 DEF tables, Unheard
<1>3. CASE Administration \/ Reading
  <2>1. messages' = messages
    BY <1>3, LedgerKeepsMail DEF TypeOK
  <2>2. m.id \in Ids
    BY <1>1, <2>1 DEF TypeOK, LedgerTypeOK, Rows
  <2>3. deliveries'[m.id][n] = "unread" => deliveries[m.id][n] = "unread"
    BY <1>3, <2>2 DEF Administration, Reading, Register, Remove, Restore, Purge, TacAdd,
       TacRemove, TacCreate, TacClose, Open, TypeOK, LedgerTypeOK
  <2>. QED  BY <1>1, <2>1, <2>3 DEF Unheard
<1>4. ASSUME NEW r \in Requests, Contract!Send(env[r])
      PROVE  /\ env[r].from = s /\ env[r].mode \in {"direct", "all"}
             /\ n \in Contract!Audience(env[r])
  <2>0. env[r] \in Envelopes
    BY DEF TypeOK
  <2>1. CASE m \in messages
    <3>1. m.id \in Ids /\ m.id # env[r].id
      BY <2>0, <2>1, <1>4, SendEffect DEF Stored, TypeOK, LedgerTypeOK, Rows
    <3>2. deliveries[m.id][n] = "unread"
      BY <3>1, <1>1, <1>4, <2>0, SendEffect
    <3>. QED  BY <2>1, <3>2, <1>1 DEF Unheard
  <2>2. CASE m = Row(env[r])
    <3>1. /\ env[r].from = s /\ env[r].mode \in {"direct", "all"} /\ m.id = env[r].id
          /\ m.id \in Ids
      BY <1>1, <2>0, <2>2, RowType, EnvelopeType DEF Modes
    <3>2. deliveries[m.id][n] = "none"
      BY <3>1, <1>4, <2>0, SendEffect DEF NoOrphans
    <3>. QED  BY <3>1, <3>2, <1>1, <1>4, <2>0, SendEffect
  <2>. QED  BY <2>0, <2>1, <2>2, <1>1, <1>4, SendEffect
<1>. QED  BY <1>2, <1>3, <1>4, ContractSteps

\* Undisturbed, two nodes never have unopened direct mail of each other: the gate
\* refuses an agent that has not listened, and a program has nothing to listen to.
THEOREM NoCrossTalkHolds == CalmSpec => []NoCrossTalk
<1>1. ASSUME TypeOK, AllKnown, NoOrphans, OnlyAgentsReceive, NoCrossTalk, [CalmNext]_vars,
             NEW n \in Nodes, NEW s \in Nodes, n # s, Unheard(n, s)', ~Unheard(n, s)
      PROVE  ~Unheard(s, n) /\ ~Unheard(s, n)'
  <2>1. PICK r \in Requests : /\ Contract!Send(env[r]) /\ env[r].from = s
                              /\ env[r].mode \in {"direct", "all"}
                              /\ n \in Contract!Audience(env[r])
    BY <1>1, HeardBefore
  <2>0. env[r] \in Envelopes
    BY <1>1 DEF TypeOK
  <2>2. s \in Active /\ Contract!MayClaimTheFloor(env[r])
    BY <1>1, <2>0, <2>1, SendEffect
  <2>3. ~Unheard(s, n)
    <3>1. CASE kind[s] = "agent"
      BY <1>1, <2>1, <2>2, <3>1, SameReading DEF Contract!MayClaimTheFloor
    <3>2. CASE kind[s] # "agent"
      BY <1>1, <3>2 DEF OnlyAgentsReceive, Unheard, TypeOK, LedgerTypeOK, Rows
    <3>. QED  BY <3>1, <3>2
  <2>4. ASSUME Unheard(s, n)'
        PROVE  FALSE
    <3>1. PICK q \in Requests : Contract!Send(env[q]) /\ env[q].from = n
      BY <2>3, <2>4, <1>1, HeardBefore
    <3>2. env[q] \in Envelopes
      BY <1>1 DEF TypeOK
    <3>3. Row(env[q]) \in messages' /\ Row(env[q]) \notin messages
      BY <1>1, <3>1, <3>2, SendEffect, RowType DEF Stored
    <3>4. messages' = messages \cup {Row(env[r])}
      BY <1>1, <2>0, <2>1, SendEffect
    <3>5. Row(env[q]).from = n /\ Row(env[r]).from = s
      BY <2>0, <2>1, <3>1, <3>2, RowType
    <3>. QED  BY <1>1, <3>3, <3>4, <3>5
  <2>. QED  BY <2>3, <2>4
<1>2. ASSUME TypeOK, AllKnown, NoOrphans, OnlyAgentsReceive, NoCrossTalk, [CalmNext]_vars
      PROVE  NoCrossTalk'
  <2>. SUFFICES ASSUME NEW n \in Nodes, NEW s \in Nodes, n # s,
                       Unheard(n, s)', Unheard(s, n)'
                PROVE  FALSE
    BY DEF NoCrossTalk, Crossed
  <2>1. CASE ~Unheard(n, s)
    BY <2>1, <1>1, <1>2
  <2>2. CASE ~Unheard(s, n)
    BY <2>2, <1>1, <1>2
  <2>. QED  BY <2>1, <2>2, <1>2 DEF NoCrossTalk, Crossed
<1>3. Init => NoOrphans /\ OnlyAgentsReceive /\ NoCrossTalk
  BY DEF Init, LedgerInit, NoOrphans, OnlyAgentsReceive, NoCrossTalk, Crossed, Unheard
<1>4. [CalmNext]_vars => [Next]_vars
  BY DEF CalmNext
<1>5. TypeOK /\ AllKnown /\ NoOrphans /\ OnlyAgentsReceive /\ NoCrossTalk /\ [CalmNext]_vars
        => NoOrphans' /\ OnlyAgentsReceive' /\ NoCrossTalk'
  BY <1>2, <1>4, NoOrphansStays, OnlyAgentsReceiveStays
<1>. QED  BY <1>3, <1>5, CalmInvariant, PTL DEF CalmSpec, CalmNext

-----------------------------------------------------------------------------
(* What is left of that rule when anything overlaps.                       *)

\* Mail that is unheard after a step was so before, or was stored by the step.
LEMMA UnheardIsStored ==
  ASSUME TypeOK, AllNarrowed, NoOrphans, [Next]_vars, NEW n \in Nodes, NEW s \in Nodes,
         Unheard(n, s)', ~Unheard(n, s)
  PROVE  \E r \in Requests : /\ Store(r) /\ env[r].from = s
                             /\ env[r].mode \in {"direct", "all"}
                             /\ n \in to[r]
<1>1. PICK m \in messages' : /\ m.from = s /\ m.kind = "direct"
                             /\ deliveries'[m.id][n] = "unread"
  BY DEF Unheard
<1>2. CASE UNCHANGED tables
  BY <1>1, <1>2 DEF tables, Unheard
<1>3. CASE Administration \/ Reading
  <2>1. messages' = messages
    BY <1>3, LedgerKeepsMail DEF TypeOK
  <2>2. m.id \in Ids
    BY <1>1, <2>1 DEF TypeOK, LedgerTypeOK, Rows
  <2>3. deliveries'[m.id][n] = "unread" => deliveries[m.id][n] = "unread"
    BY <1>3, <2>2 DEF Administration, Reading, Register, Remove, Restore, Purge, TacAdd,
       TacRemove, TacCreate, TacClose, Open, TypeOK, LedgerTypeOK
  <2>. QED  BY <1>1, <2>1, <2>3 DEF Unheard
<1>4. ASSUME NEW r \in Requests, Store(r)
      PROVE  env[r].from = s /\ env[r].mode \in {"direct", "all"} /\ n \in to[r]
  <2>. PICK e \in Envelopes : e = env[r]
    BY <1>4, StoreEffect
  <2>1. /\ messages' = messages \cup {Row(e)} /\ ~Stored(e.id)
        /\ \A i \in Ids, x \in Nodes :
             deliveries'[i][x] = IF i = e.id /\ x \in to[r]
                                   THEN "unread" ELSE deliveries[i][x]
    BY <1>4, StoreEffect
  <2>2. \A k \in messages : k.id \in Ids /\ k.id # e.id
    BY <2>1 DEF Stored, TypeOK, LedgerTypeOK, Rows
  <2>3. m \notin messages
    BY <1>1, <2>1, <2>2 DEF Unheard
  <2>4. m = Row(e) /\ m.id = e.id /\ e.id \in Ids
    BY <1>1, <2>1, <2>3, RowType, EnvelopeType
  <2>5. e.from = s /\ e.mode \in {"direct", "all"}
    BY <1>1, <2>4, RowType, EnvelopeType DEF Modes
  <2>6. n \in to[r]
    BY <1>1, <2>1, <2>4 DEF NoOrphans
  <2>. QED  BY <2>5, <2>6
<1>. QED  BY <1>2, <1>3, <1>4, OnlyStoreSends

\* Nodes come to have unopened mail of each other by the INSERTs of one send, which the
\* check of the other's mail would not let through any more, or that was not checked.
LEMMA CrossedByStore ==
  ASSUME TypeOK, AllNarrowed, NoOrphans, [Next]_vars, NEW n \in Nodes, NEW s \in Nodes,
         n # s, Unheard(n, s)', Unheard(s, n)', ~Unheard(n, s)
  PROVE  \E r \in Requests : /\ Writes(r, s, n)
                             /\ Outrun(r) \/ speaks[r] = "program"
<1>1. PICK r \in Requests : /\ Writes(r, s, n) /\ env[r].mode \in {"direct", "all"}
  BY UnheardIsStored DEF Writes
<1>2. Unheard(s, n)
  <2>. SUFFICES ASSUME ~Unheard(s, n) PROVE FALSE
    OBVIOUS
  <2>1. PICK q \in Requests : Store(q) /\ env[q].from = n
    BY UnheardIsStored
  <2>2. /\ env[q] \in Envelopes /\ messages' = messages \cup {Row(env[q])}
        /\ ~Stored(env[q].id)
    BY <2>1, StoreEffect
  <2>3. env[r] \in Envelopes /\ messages' = messages \cup {Row(env[r])}
    BY <1>1, StoreEffect DEF Writes
  <2>4. Row(env[q]) \in messages' /\ Row(env[q]) \notin messages
    BY <2>2, RowType DEF Stored
  <2>5. Row(env[q]).from = n /\ Row(env[r]).from = s
    BY <1>1, <2>1, <2>2, <2>3, RowType DEF Writes
  <2>. QED  BY <2>3, <2>4, <2>5
<1>3. speaks[r] \in {"agent", "program"} /\ at[r] = "insert" /\ env[r].from = s /\ n \in to[r]
  BY <1>1 DEF Writes, Store, TypeOK
<1>. QED  BY <1>1, <1>2, <1>3 DEF Outrun, Listened

\* A request is let through with nothing unheard; while it waits for its INSERTs only
\* those of another request can change that.
LEMMA OutrunByStore ==
  ASSUME TypeOK, AllNarrowed, NoOrphans, [Next]_vars, NEW r \in Requests,
         ~Outrun(r), Outrun(r)'
  PROVE  /\ Listened(r)
         /\ \E q \in Requests \ {r}, n \in to[r] : Writes(q, n, env[r].from)
<1>1. /\ at'[r] = "insert" /\ speaks'[r] = "agent" /\ env'[r].mode \in {"direct", "all"}
      /\ Spoken(r)'
  BY DEF Outrun, Listened, Spoken
<1>2. ~CheckGate(r)
  <2>. SUFFICES ASSUME CheckGate(r) PROVE FALSE
    OBVIOUS
  <2>1. UNCHANGED <<tables, env, to>> /\ ~Spoken(r)
    BY <1>1 DEF CheckGate, Answer, Goto, TypeOK
  <2>2. Spoken(r)' = Spoken(r)
    BY <2>1 DEF Spoken, Unheard, tables
  <2>. QED  BY <1>1, <2>1, <2>2
<1>3. at'[r] = at[r] /\ env'[r] = env[r] /\ to'[r] = to[r] /\ speaks'[r] = speaks[r]
  <2>1. CASE UNCHANGED threads
    BY <2>1 DEF threads
  <2>2. ASSUME NEW q \in Requests, Request(q), q # r
        PROVE  at'[r] = at[r] /\ env'[r] = env[r] /\ to'[r] = to[r] /\ speaks'[r] = speaks[r]
    BY <2>2 DEF TypeOK, Request, Step, Start, CheckSender, CheckTac, CheckTacGate,
                FindRecipients, CheckPrograms, CheckValid, CheckGate, Store, Resend, Raise,
                Reply, Die, Finish, Answer, Goto, Keep
  <2>3. ~Request(r)
    <3>1. ASSUME NEW e \in Envelopes, Start(r, e) PROVE FALSE
      BY <1>1, <3>1 DEF Start, Goto, TypeOK
    <3>2. ASSUME CheckValid(r) PROVE FALSE
      <4>1. env' = env /\ speaks' = speaks
        BY <3>2 DEF CheckValid
      <4>. QED  BY <1>1, <3>2, <4>1 DEF CheckValid, Answer, Goto, TypeOK
    <3>3. ASSUME CheckSender(r) \/ CheckTac(r) \/ CheckTacGate(r) \/ FindRecipients(r)
                 \/ CheckPrograms(r) PROVE FALSE
      BY <1>1, <3>3 DEF CheckSender, CheckTac, CheckTacGate, FindRecipients, CheckPrograms,
                        Answer, Goto, TypeOK
    <3>4. ASSUME Store(r) \/ Resend(r) \/ Raise(r) \/ Reply(r) \/ Die(r) PROVE FALSE
      BY <1>1, <3>4 DEF Store, Resend, Raise, Reply, Die, Finish, Answer, TypeOK
    <3>. QED  BY <1>2, <3>1, <3>2, <3>3, <3>4 DEF Request, Step
  <2>. QED  BY <2>1, <2>2, <2>3 DEF Next, vars
<1>4. Listened(r)
  BY <1>1, <1>3 DEF Listened
<1>5. PICK s \in Nodes : s = env[r].from
  BY EnvelopeType DEF TypeOK
<1>6. PICK n \in to[r] : Unheard(s, n)'
  BY <1>1, <1>3, <1>5 DEF Spoken
<1>7. PICK q \in Requests : Store(q) /\ env[q].from = n /\ s \in to[q]
  <2>1. n \in Nodes /\ ~Unheard(s, n)
    BY <1>4, <1>5, <1>6 DEF Outrun, TypeOK
  <2>. QED  BY <1>6, <2>1, UnheardIsStored
<1>8. q # r
  BY <1>1, <1>7 DEF Store, Answer, TypeOK
<1>. QED  BY <1>4, <1>5, <1>7, <1>8 DEF Writes

\* Whatever overlaps, two nodes come to have unopened direct mail of each other only where
\* a send that has passed its check is outrun by another, or where a program speaks.
THEOREM OnlyRacesCrossHolds == Spec => OnlyRacesCross
<1>. DEFINE Crosses == \A n, s \in Nodes :
              ~Crossed(n, s) /\ Crossed(n, s)' =>
                \E r \in Requests : /\ Writes(r, s, n) \/ Writes(r, n, s)
                                    /\ Outrun(r) \/ speaks[r] = "program"
            Outruns == \A r \in Requests :
              ~Outrun(r) /\ Outrun(r)' =>
                /\ Listened(r)
                /\ \E q \in Requests \ {r}, n \in to[r] : Writes(q, n, env[r].from)
<1>1. TypeOK /\ AllNarrowed /\ NoOrphans /\ [Next]_vars => Crosses
  BY CrossedByStore DEF Crossed
<1>2. TypeOK /\ AllNarrowed /\ NoOrphans /\ [Next]_vars => Outruns
  BY OutrunByStore
<1>3. TypeOK /\ AllNarrowed /\ NoOrphans /\ [Next]_vars => [Crosses /\ Outruns]_vars
  BY <1>1, <1>2
<1>4. Init => NoOrphans
  BY DEF Init, LedgerInit, NoOrphans
<1>5. TypeOK /\ NoOrphans /\ [Next]_vars => NoOrphans'
  BY NoOrphansStays
<1>. QED  BY <1>3, <1>4, <1>5, NarrowedInvariant, PTL DEF Spec, OnlyRacesCross
=============================================================================
