--------------------------- MODULE Reader_proofs ---------------------------
(* Proofs about Reader, for any messages, sessions, attempts and limits. *)
EXTENDS Reader, Mailbox_proofs

\* What a session sends is a step of the mailbox, and so is what it receives.
LEMMA SessionStep ==
  ASSUME NEW r \in Requests, Session(r)
  PROVE  Next \/ UNCHANGED vars
<1>1. ASSUME NEW m \in Messages, ReadOpens(r, m) PROVE Next \/ UNCHANGED vars
  BY <1>1 DEF ReadOpens, Next, Request, Reopen
<1>2. CASE ReadLists(r) \/ ReadReports(r)
  BY <1>2 DEF ReadLists, ReadReports
<1>3. CASE NotOpened(r) \/ BodyArrives(r) \/ PullArrives(r) \/ Injected(r) \/ Marked(r)
           \/ AnswerArrives(r) \/ AnswerToNobody(r)
  <2>1. Reply(r)
    BY <1>3 DEF NotOpened, BodyArrives, PullArrives, Injected, Marked, AnswerArrives,
                AnswerToNobody
  <2>. QED
    BY <2>1 DEF Next, Request
<1>4. ASSUME NEW m \in Messages, Opened(r, m) PROVE Next
  BY <1>4 DEF Opened, Next, Request, Reopen
<1>5. CASE PullBegins(r)
  BY <1>5 DEF PullBegins, Next, Request, Pull
<1>6. ASSUME NEW m \in Messages, PullPrints(r, m) PROVE UNCHANGED vars
  BY <1>6 DEF PullPrints
<1>7. CASE PullEnds(r)
  BY <1>7 DEF PullEnds
<1>8. ASSUME NEW m \in Messages, NEW s \in AckStates, AckRead(r, m, s) PROVE Next
  BY <1>8 DEF Next, Request, Ack
<1>9. ASSUME NEW m \in Messages, Inject(r, m) PROVE Next \/ UNCHANGED vars
  BY <1>8, <1>9, AckStatesAre DEF Inject
<1>10. ASSUME NEW m \in Messages, Mark(r, m) PROVE Next \/ UNCHANGED vars
  BY <1>8, <1>10, AckStatesAre DEF Mark
<1>11. ASSUME NEW m \in Messages, NEW s \in AckStates, AckByHand(r, m, s) PROVE Next
  BY <1>8, <1>11 DEF AckByHand
<1>12. ASSUME NEW set \in SUBSET TacMail, ShowTac(r, set) PROVE Next
  BY <1>12 DEF ShowTac, Next, Request, CatchUp
<1>13. CASE Serves(r)
  BY <1>13 DEF Serves, Next, Request, Pull, Reopen, Ack, CatchUp
<1>14. CASE HandlerFails(r)
  BY <1>14 DEF HandlerFails, Next, Request
<1>. QED
  BY <1>1, <1>2, <1>3, <1>4, <1>5, <1>6, <1>7, <1>9, <1>10, <1>11, <1>12, <1>13, <1>14
  DEF Session, Works, Read, Open, PullCommand, Acknowledge, ByHand

\* So the sessions use the mailbox and nothing else: what is proved of Mailbox
\* holds of Reader.
LEMMA ReaderStepIsMailboxStep ==
  ASSUME [ReaderNext]_allvars
  PROVE  [Next]_vars
<1>1. CASE Around
  BY <1>1 DEF Around, Next
<1>2. ASSUME NEW r \in Requests, Session(r) PROVE [Next]_vars
  BY <1>2, SessionStep
<1>3. ASSUME NEW r \in Requests, ClientGone(r) PROVE [Next]_vars
  BY <1>3 DEF ClientGone
<1>4. CASE UNCHANGED allvars
  BY <1>4 DEF allvars
<1>. QED
  BY <1>1, <1>2, <1>3, <1>4 DEF ReaderNext

\* Sessions drive the mailbox and change it in no other way, so what is proved of
\* Mailbox holds for its clients.
THEOREM ReaderUsesMailbox == ReaderSpec => Spec
<1>1. ReaderInit => Init
  BY DEF ReaderInit
<1>2. [ReaderNext]_allvars => [Next]_vars
  BY ReaderStepIsMailboxStep
<1>. QED
  BY <1>1, <1>2, PTL DEF ReaderSpec, Spec

LEMMA CalmReaderUsesCalmMailbox == CalmReaderSpec => CalmSpec
<1>1. ReaderInit => Init
  BY DEF ReaderInit
<1>2. [ReaderNext /\ AcksUndisturbed]_allvars => [Next /\ AcksUndisturbed]_vars
  BY ReaderStepIsMailboxStep DEF allvars
<1>. QED
  BY <1>1, <1>2, PTL DEF CalmReaderSpec, CalmSpec

-----------------------------------------------------------------------------
(* Types.                                                                  *)

SessionsOK ==
  /\ doing \in [Requests -> Commands]
  /\ turn  \in [Requests -> Turns]
  /\ todo  \in [Requests -> SUBSET Messages]
  /\ held  \in [Requests -> SUBSET Messages]
  /\ said  \in [Requests -> Lines]
  /\ shown \in SUBSET Messages

\* Each session keeps its types when it goes on, begins or ends.
LEMMA TurnsKeepTypes ==
  ASSUME SessionsOK, NEW r \in Requests, shown' \in SUBSET Messages,
         \/ \E c \in Commands, w \in Turns, l, h \in SUBSET Messages : Begin(r, c, w, l, h)
         \/ \E w \in Turns : Go(r, w)
         \/ \E l \in Lines : EndSaying(r, l)
         \/ UNCHANGED sessions
  PROVE  SessionsOK'
<1>1. ASSUME NEW c \in Commands, NEW w \in Turns, NEW l \in SUBSET Messages,
             NEW h \in SUBSET Messages, Begin(r, c, w, l, h)
      PROVE  SessionsOK'
  BY <1>1 DEF SessionsOK, Begin, Lines
<1>2. ASSUME NEW w \in Turns, Go(r, w) PROVE SessionsOK'
  BY <1>2 DEF SessionsOK, Go, Begin, Lines
<1>3. ASSUME NEW l \in Lines, EndSaying(r, l) PROVE SessionsOK'
  BY <1>3 DEF SessionsOK, EndSaying, Commands, Turns
<1>4. CASE UNCHANGED sessions
  BY <1>4 DEF SessionsOK, sessions
<1>. QED
  BY <1>1, <1>2, <1>3, <1>4

\* Sessions keep their types, whatever they and the mailbox do.
THEOREM ReaderTypeCorrect == ReaderSpec => []ReaderTypeOK
<1>1. ReaderInit => SessionsOK
  BY DEF ReaderInit, SessionsOK, Commands, Turns, Lines
<1>2. TypeOK /\ SessionsOK /\ [ReaderNext]_allvars => SessionsOK'
  <2>. SUFFICES ASSUME TypeOK, SessionsOK, [ReaderNext]_allvars PROVE SessionsOK'
    OBVIOUS
  <2>. USE DEF Commands, Turns, Lines, Pulls, Opens
  <2>1. /\ Page(Unread) \in SUBSET Messages /\ {} \in SUBSET Messages
        /\ shown \in SUBSET Messages
        /\ \A m \in Messages : {m} \in SUBSET Messages
    BY DEF Page, Unread, SessionsOK
  <2>2. \A r \in Requests :
          /\ bodies[r] \in SUBSET Messages /\ held[r] \in SUBSET Messages
          /\ \A m \in Messages : todo[r] \ {m} \in SUBSET Messages
    BY DEF TypeOK, SessionsOK
  <2>3. ASSUME NEW r \in Requests, End(r), shown' \in SUBSET Messages PROVE SessionsOK'
    BY <2>3, TurnsKeepTypes DEF End
  <2>4. ASSUME NEW r \in Requests, NEW w \in Turns, Go(r, w), shown' \in SUBSET Messages
        PROVE  SessionsOK'
    BY <2>4, TurnsKeepTypes
  <2>5. ASSUME NEW r \in Requests, AfterInject(r), UNCHANGED shown PROVE SessionsOK'
    BY <2>5, <2>1, <2>3, <2>4 DEF AfterInject
  <2>6. ASSUME NEW r \in Requests, ReadLists(r) PROVE SessionsOK'
    BY <2>6, <2>1, TurnsKeepTypes DEF ReadLists
  <2>7. ASSUME NEW r \in Requests, NEW m \in Messages, ReadOpens(r, m) PROVE SessionsOK'
    BY <2>7, <2>1, <2>2, TurnsKeepTypes DEF ReadOpens
  <2>8. ASSUME NEW r \in Requests, ReadReports(r) PROVE SessionsOK'
    BY <2>8, <2>1, TurnsKeepTypes DEF ReadReports
  <2>9. ASSUME NEW r \in Requests, NEW m \in Messages, Opened(r, m) PROVE SessionsOK'
    BY <2>9, <2>1, TurnsKeepTypes DEF Opened
  <2>10. ASSUME NEW r \in Requests, NotOpened(r) PROVE SessionsOK'
    BY <2>10, <2>1, <2>3, <2>4 DEF NotOpened
  <2>11. ASSUME NEW r \in Requests, BodyArrives(r) PROVE SessionsOK'
    <3>1. shown' \in SUBSET Messages
      BY <2>11, <2>1, <2>2 DEF BodyArrives, Printed
    <3>2. todo[r] \in SUBSET Messages /\ doing[r] \in Commands
      BY DEF SessionsOK
    <3>. QED
      BY <2>11, <3>1, <3>2, <2>2, <2>3, TurnsKeepTypes DEF BodyArrives
  <2>12. ASSUME NEW r \in Requests, PullBegins(r) PROVE SessionsOK'
    BY <2>12, <2>1, TurnsKeepTypes DEF PullBegins
  <2>13. ASSUME NEW r \in Requests, PullArrives(r) PROVE SessionsOK'
    <3>1. shown' \in SUBSET Messages
      BY <2>13, <2>1, <2>2 DEF PullArrives, Printed
    <3>. QED
      BY <2>13, <3>1, <2>1, <2>2, <2>3, TurnsKeepTypes DEF PullArrives
  <2>14. ASSUME NEW r \in Requests, NEW m \in Messages, PullPrints(r, m) PROVE SessionsOK'
    <3>1. shown' \in SUBSET Messages
      BY <2>14, <2>1 DEF PullPrints, Printed
    <3>. QED
      BY <2>14, <3>1, <2>1, <2>2, TurnsKeepTypes DEF PullPrints
  <2>15. ASSUME NEW r \in Requests, PullEnds(r) PROVE SessionsOK'
    BY <2>15, <2>1, <2>3 DEF PullEnds
  <2>16. ASSUME NEW r \in Requests, NEW m \in Messages, Inject(r, m) PROVE SessionsOK'
    BY <2>16, <2>1, <2>4, <2>5 DEF Inject
  <2>17. ASSUME NEW r \in Requests, Injected(r) PROVE SessionsOK'
    BY <2>17, <2>5 DEF Injected
  <2>18. ASSUME NEW r \in Requests, NEW m \in Messages, Mark(r, m) PROVE SessionsOK'
    BY <2>18, <2>1, <2>4 DEF Mark
  <2>19. ASSUME NEW r \in Requests, Marked(r) PROVE SessionsOK'
    BY <2>19, <2>1, <2>4 DEF Marked
  <2>20. ASSUME NEW r \in Requests, NEW m \in Messages, NEW s \in AckStates,
                AckByHand(r, m, s)
         PROVE  SessionsOK'
    BY <2>20, <2>1, TurnsKeepTypes DEF AckByHand
  <2>21. ASSUME NEW r \in Requests, NEW set \in SUBSET TacMail, ShowTac(r, set)
         PROVE  SessionsOK'
    <3>1. set \in SUBSET Messages
      BY KindsAssumption
    <3>. QED
      BY <2>21, <3>1, <2>1, TurnsKeepTypes DEF ShowTac
  <2>22. ASSUME NEW r \in Requests, AnswerArrives(r) PROVE SessionsOK'
    BY <2>22, <2>1, <2>2, <2>3 DEF AnswerArrives
  <2>23. ASSUME NEW r \in Requests, Serves(r) \/ AnswerToNobody(r) PROVE SessionsOK'
    BY <2>23, <2>1, TurnsKeepTypes DEF Serves, AnswerToNobody
  <2>24. ASSUME NEW r \in Requests, HandlerFails(r) \/ ClientGone(r) PROVE SessionsOK'
    BY <2>24, <2>1, <2>3 DEF HandlerFails, ClientGone
  <2>25. CASE Around \/ UNCHANGED allvars
    BY <2>25 DEF Around, allvars, sessions, SessionsOK
  <2>. QED
    BY <2>6, <2>7, <2>8, <2>9, <2>10, <2>11, <2>12, <2>13, <2>14, <2>15, <2>16, <2>17,
       <2>18, <2>19, <2>20, <2>21, <2>22, <2>23, <2>24, <2>25
    DEF ReaderNext, Session, Works, Read, Open, PullCommand, Acknowledge, ByHand
<1>3. TypeOK /\ SessionsOK => ReaderTypeOK
  BY DEF ReaderTypeOK, SessionsOK
<1>. QED
  BY <1>1, <1>2, <1>3, ReaderUsesMailbox, TypeCorrect, PTL DEF ReaderSpec

-----------------------------------------------------------------------------
(* What a request has in hand is stored.                                   *)

RowsStored ==
  \A m \in Messages : state[m] = "NONE" =>
    \A r \in Requests : m \notin rows[r] \cup bodies[r]

\* A row is never taken out of the table, and no request makes one up.
LEMMA RowsStayStored ==
  ASSUME TypeOK, RowsStored, [Next]_vars
  PROVE  /\ RowsStored'
         /\ \A m \in Messages : state'[m] = "NONE" => state[m] = "NONE"
<1>. DEFINE Kept == /\ RowsStored'
                    /\ \A m \in Messages : state'[m] = "NONE" => state[m] = "NONE"
<1>. USE KindsAssumption, AckStatesAre DEF TypeOK, RowsStored, columns, threads
<1>1. ASSUME NEW m \in Messages, Deposit(m) PROVE Kept
  BY <1>1 DEF Deposit
<1>2. ASSUME NEW m \in Messages, LeaseRunsOut(m) \/ Spoil(m) PROVE Kept
  BY <1>2 DEF LeaseRunsOut, Spoil
<1>3. CASE Remove \/ Restore
  BY <1>3 DEF Remove, Restore
<1>4. ASSUME NEW r \in Requests, StartPull(r) \/ PullCheck(r) PROVE Kept
  BY <1>4 DEF StartPull, PullCheck, EmptyRound
<1>5. ASSUME NEW r \in Requests, PullRecover(r) PROVE Kept
  BY <1>5 DEF PullRecover, Poisoned, Lapsed
<1>6. ASSUME NEW r \in Requests, PullSelect(r) PROVE Kept
  BY <1>6 DEF PullSelect, Page
<1>7. ASSUME NEW r \in Requests, PullClaim(r) PROVE Kept
  BY <1>7 DEF PullClaim, EmptyRound, Claim, StillAccepted, Won
<1>8. ASSUME NEW r \in Requests, NEW m \in Messages, ReopenSelect(r, m) PROVE Kept
  BY <1>8 DEF ReopenSelect, UNREAD_STATES
<1>9. ASSUME NEW r \in Requests, ReopenUnfit(r) PROVE Kept
  BY <1>9 DEF ReopenUnfit, StillAccepted
<1>10. ASSUME NEW r \in Requests, ReopenClaims(r) PROVE Kept
  BY <1>10 DEF ReopenClaims, Claim, StillAccepted, Won
<1>11. ASSUME NEW r \in Requests, ReopenAsIs(r) PROVE Kept
  BY <1>11 DEF ReopenAsIs
<1>12. ASSUME NEW r \in Requests, NEW m \in Messages, NEW s \in AckStates, AckRead(r, m, s)
       PROVE  Kept
  BY <1>12 DEF AckRead
<1>13. ASSUME NEW r \in Requests, AckWrite(r) PROVE Kept
  BY <1>13 DEF AckWrite
<1>14. ASSUME NEW r \in Requests, NEW set \in SUBSET TacMail, CatchUpSelect(r, set)
       PROVE  Kept
  BY <1>14 DEF CatchUpSelect
<1>15. ASSUME NEW r \in Requests, CatchUpMark(r) PROVE Kept
  BY <1>15 DEF CatchUpMark, Unopened
<1>16. ASSUME NEW r \in Requests, Reply(r) \/ Die(r) PROVE Kept
  BY <1>16 DEF Reply, Die, Finish
<1>17. CASE UNCHANGED vars
  BY <1>17 DEF vars
<1>. QED
  BY <1>1, <1>2, <1>3, <1>4, <1>5, <1>6, <1>7, <1>8, <1>9, <1>10, <1>11, <1>12,
     <1>13, <1>14, <1>15, <1>16, <1>17
  DEF Next, Environment, Request, Pull, Reopen, Ack, CatchUp

LEMMA RowsAreStored == ReaderSpec => []RowsStored
<1>1. Init => RowsStored
  BY DEF Init, RowsStored
<1>2. TypeOK /\ RowsStored /\ [Next]_vars => RowsStored'
  BY RowsStayStored
<1>. QED
  BY <1>1, <1>2, ReaderUsesMailbox, TypeCorrect, PTL DEF Spec

-----------------------------------------------------------------------------
(* Seen before marked.  It holds because an ack is only ever sent for what *)
(* was printed: the message in hand after it was printed (HandsSeen), and  *)
(* so the rows of a request that is about to write an ack (AcksSeen).      *)

AfterPrint == {"inject", "injecting", "mark", "marking"}

HandsSeen ==
  /\ \A m \in Messages : state[m] = "NONE" =>
       m \notin shown /\ \A r \in Requests : m \notin todo[r] \cup held[r]
  /\ \A r \in Requests : turn[r] \in AfterPrint => held[r] \subseteq shown

AcksSeen ==
  \A r \in Requests :
    /\ at[r] = "ack" => rows[r] \subseteq shown
    /\ at[r] = "catchup" => rows[r] \subseteq TacMail

SeenInd == HandsSeen /\ AcksSeen /\ SeenBeforeMarked

\* A step of the mailbox in which no session acknowledges what was not shown.
SeenStep ==
  \/ Environment
  \/ \E r \in Requests :
       \/ StartPull(r) \/ Serves(r) \/ Reply(r) \/ Die(r)
       \/ \E m \in Messages : ReopenSelect(r, m)
       \/ \E m \in shown, s \in AckStates : AckRead(r, m, s)
       \/ \E set \in SUBSET TacMail : CatchUpSelect(r, set)
  \/ UNCHANGED vars

\* Such a step keeps the mailbox half of the invariant.
LEMMA MarksStaySeen ==
  ASSUME TypeOK, SessionsOK, AcksSeen, SeenBeforeMarked, SeenStep, shown \subseteq shown'
  PROVE  AcksSeen' /\ SeenBeforeMarked'
<1>. DEFINE Kept == AcksSeen' /\ SeenBeforeMarked'
<1>. USE KindsAssumption, AckStatesAre
     DEF TypeOK, SessionsOK, AcksSeen, SeenBeforeMarked, columns, threads
<1>1. ASSUME NEW m \in Messages, Deposit(m) PROVE Kept
  BY <1>1 DEF Deposit
<1>2. ASSUME NEW m \in Messages, LeaseRunsOut(m) \/ Spoil(m) PROVE Kept
  BY <1>2 DEF LeaseRunsOut, Spoil
<1>3. CASE Remove \/ Restore
  BY <1>3 DEF Remove, Restore
<1>4. ASSUME NEW r \in Requests, StartPull(r) \/ PullCheck(r) PROVE Kept
  BY <1>4 DEF StartPull, PullCheck, EmptyRound
<1>5. ASSUME NEW r \in Requests, PullRecover(r) PROVE Kept
  BY <1>5 DEF PullRecover, Poisoned, Lapsed
<1>6. ASSUME NEW r \in Requests, PullSelect(r) PROVE Kept
  BY <1>6 DEF PullSelect
<1>7. ASSUME NEW r \in Requests, PullClaim(r) PROVE Kept
  BY <1>7 DEF PullClaim, EmptyRound, StillAccepted
<1>8. ASSUME NEW r \in Requests, NEW m \in Messages, ReopenSelect(r, m) PROVE Kept
  BY <1>8 DEF ReopenSelect
<1>9. ASSUME NEW r \in Requests, ReopenUnfit(r) PROVE Kept
  BY <1>9 DEF ReopenUnfit, StillAccepted
<1>10. ASSUME NEW r \in Requests, ReopenClaims(r) PROVE Kept
  BY <1>10 DEF ReopenClaims, StillAccepted
<1>11. ASSUME NEW r \in Requests, ReopenAsIs(r) PROVE Kept
  BY <1>11 DEF ReopenAsIs
<1>12. ASSUME NEW r \in Requests, NEW m \in shown, NEW s \in AckStates, AckRead(r, m, s)
       PROVE  Kept
  BY <1>12 DEF AckRead
<1>13. ASSUME NEW r \in Requests, AckWrite(r) PROVE Kept
  <2>1. rows[r] \subseteq shown
    BY <1>13 DEF AckWrite
  <2>2. AcksSeen'
    BY <1>13 DEF AckWrite
  <2>3. SeenBeforeMarked'
    BY <1>13, <2>1 DEF AckWrite
  <2>. QED
    BY <2>2, <2>3
<1>14. ASSUME NEW r \in Requests, NEW set \in SUBSET TacMail, CatchUpSelect(r, set)
       PROVE  Kept
  BY <1>14 DEF CatchUpSelect
<1>15. ASSUME NEW r \in Requests, CatchUpMark(r) PROVE Kept
  BY <1>15 DEF CatchUpMark
<1>16. ASSUME NEW r \in Requests, Reply(r) \/ Die(r) PROVE Kept
  BY <1>16 DEF Reply, Die, Finish
<1>17. CASE UNCHANGED vars
  BY <1>17 DEF vars
<1>. QED
  BY <1>1, <1>2, <1>3, <1>4, <1>5, <1>6, <1>7, <1>8, <1>9, <1>10, <1>11, <1>12,
     <1>13, <1>14, <1>15, <1>16, <1>17
  DEF SeenStep, Environment, Serves

\* The messages that have a row after a step.
StoredNow == {m \in Messages : state'[m] # "NONE"}

\* A session that begins, goes on or ends keeps the session half, if what it
\* takes in hand is stored and, where it was printed, shown.
LEMMA HandsStaySeen ==
  ASSUME SessionsOK, HandsSeen, NEW r \in Requests,
         \A m \in Messages : state'[m] = "NONE" => state[m] = "NONE",
         shown \subseteq shown', shown' \ shown \subseteq StoredNow,
         \/ \E c \in Commands, w \in Turns, l, h \in SUBSET StoredNow :
              /\ Begin(r, c, w, l, h)
              /\ w \in AfterPrint => h \subseteq shown'
         \/ \E w \in Turns :
              /\ Go(r, w)
              /\ w \in AfterPrint => held[r] \subseteq shown'
         \/ \E l \in Lines : EndSaying(r, l)
         \/ UNCHANGED sessions
  PROVE  HandsSeen'
<1>. USE DEF SessionsOK, HandsSeen, StoredNow
<1>1. \A m \in Messages : state'[m] = "NONE" =>
        m \notin shown' /\ \A x \in Requests : m \notin todo[x] \cup held[x]
  OBVIOUS
<1>2. ASSUME NEW c \in Commands, NEW w \in Turns, NEW l \in SUBSET StoredNow,
             NEW h \in SUBSET StoredNow, Begin(r, c, w, l, h),
             w \in AfterPrint => h \subseteq shown'
      PROVE  HandsSeen'
  BY <1>1, <1>2 DEF Begin
<1>3. ASSUME NEW w \in Turns, Go(r, w), w \in AfterPrint => held[r] \subseteq shown'
      PROVE  HandsSeen'
  BY <1>1, <1>3 DEF Go, Begin
<1>4. ASSUME NEW l \in Lines, EndSaying(r, l) PROVE HandsSeen'
  BY <1>1, <1>4 DEF EndSaying, AfterPrint
<1>5. CASE UNCHANGED sessions
  BY <1>1, <1>5 DEF sessions
<1>. QED
  BY <1>2, <1>3, <1>4, <1>5

\* Mail that is READ or PROCESSED was printed, and so was mail that is INJECTED
\* but for a tac catch-up, for any number of sessions that overlap in any way.
LEMMA SeenIndHolds == ReaderSpec => []SeenInd
<1>1. ReaderInit => SeenInd
  BY DEF ReaderInit, Init, SeenInd, HandsSeen, AcksSeen, SeenBeforeMarked, AfterPrint
<1>2. ReaderTypeOK /\ RowsStored /\ SeenInd /\ [ReaderNext]_allvars => SeenInd'
  <2>. SUFFICES ASSUME ReaderTypeOK, RowsStored, SeenInd, [ReaderNext]_allvars PROVE SeenInd'
    OBVIOUS
  <2>. DEFINE Good == SeenInd'
  <2>0. /\ TypeOK /\ SessionsOK /\ HandsSeen /\ AcksSeen /\ SeenBeforeMarked
        /\ \A m \in Messages : state'[m] = "NONE" => state[m] = "NONE"
    BY ReaderStepIsMailboxStep, RowsStayStored DEF ReaderTypeOK, SessionsOK, SeenInd
  <2>1. /\ {} \in SUBSET StoredNow
        /\ \A m \in Messages : state[m] # "NONE" => {m} \in SUBSET StoredNow
        /\ Page(Unread) \in SUBSET StoredNow
        /\ \A r \in Requests : /\ bodies[r] \in SUBSET StoredNow /\ rows[r] \in SUBSET StoredNow
                               /\ todo[r] \in SUBSET StoredNow /\ held[r] \in SUBSET StoredNow
    <3>1. \A m \in Messages : state[m] # "NONE" => {m} \in SUBSET StoredNow
      BY <2>0 DEF StoredNow
    <3>2. Page(Unread) \in SUBSET StoredNow
      BY <2>0 DEF StoredNow, Page, Unread, UNREAD_STATES
    <3>3. \A r \in Requests : bodies[r] \in SUBSET StoredNow /\ rows[r] \in SUBSET StoredNow
      BY <2>0 DEF StoredNow, RowsStored, TypeOK
    <3>4. \A r \in Requests : todo[r] \in SUBSET StoredNow /\ held[r] \in SUBSET StoredNow
      BY <2>0 DEF StoredNow, HandsSeen, SessionsOK
    <3>. QED
      BY <3>1, <3>2, <3>3, <3>4
  <2>. USE DEF Commands, Turns, Lines, Pulls, Opens, AfterPrint
  <2>2. ASSUME HandsSeen', SeenStep, shown \subseteq shown' PROVE Good
    BY <2>2, <2>0, MarksStaySeen DEF SeenInd
  <2>3. ASSUME NEW r \in Requests, End(r), SeenStep, shown \subseteq shown',
               shown' \ shown \subseteq StoredNow
        PROVE  Good
    BY <2>0, <2>2, <2>3, HandsStaySeen DEF End
  <2>4. ASSUME NEW r \in Requests, NEW w \in Turns, Go(r, w), SeenStep,
               shown \subseteq shown', shown' \ shown \subseteq StoredNow,
               w \in AfterPrint => held[r] \subseteq shown'
        PROVE  Good
    BY <2>0, <2>2, <2>4, HandsStaySeen
  <2>5. ASSUME NEW r \in Requests, NEW c \in Commands, NEW w \in Turns, SeenStep,
               NEW l \in SUBSET StoredNow, NEW h \in SUBSET StoredNow, Begin(r, c, w, l, h),
               w \in AfterPrint => h \subseteq shown',
               shown \subseteq shown', shown' \ shown \subseteq StoredNow
        PROVE  Good
    BY <2>0, <2>2, <2>5, HandsStaySeen
  <2>6. ASSUME NEW r \in Requests, turn[r] \in AfterPrint PROVE held[r] \subseteq shown
    BY <2>6, <2>0 DEF HandsSeen
  <2>7. ASSUME NEW r \in Requests, AfterInject(r), turn[r] \in AfterPrint, SeenStep,
               UNCHANGED shown
        PROVE  Good
    BY <2>7, <2>3, <2>4, <2>6 DEF AfterInject
  <2>8. ASSUME NEW r \in Requests, ReadLists(r) PROVE Good
    BY <2>8, <2>1, <2>5 DEF ReadLists, SeenStep
  <2>9. ASSUME NEW r \in Requests, NEW m \in Messages, ReadOpens(r, m) PROVE Good
    <3>1. {m} \in SUBSET StoredNow /\ todo[r] \ {m} \in SUBSET StoredNow
      BY <2>9, <2>1 DEF ReadOpens, IsFirst
    <3>2. SeenStep
      BY <2>9 DEF ReadOpens, SeenStep
    <3>. QED
      BY <2>9, <3>1, <3>2, <2>1, <2>5 DEF ReadOpens
  <2>10. ASSUME NEW r \in Requests, ReadReports(r) PROVE Good
    <3>1. SeenStep /\ UNCHANGED shown
      BY <2>10 DEF ReadReports, SeenStep
    <3>. QED
      BY <2>10, <3>1, <2>0, <2>2, HandsStaySeen DEF ReadReports
  <2>11. ASSUME NEW r \in Requests, NEW m \in Messages, Opened(r, m) PROVE Good
    <3>1. {m} \in SUBSET StoredNow
      BY <2>11, <2>1 DEF Opened, ReopenSelect, UNREAD_STATES
    <3>2. SeenStep
      BY <2>11 DEF Opened, SeenStep
    <3>. QED
      BY <2>11, <3>1, <3>2, <2>1, <2>5 DEF Opened
  <2>12. ASSUME NEW r \in Requests, NotOpened(r) PROVE Good
    <3>1. SeenStep /\ UNCHANGED shown
      BY <2>12 DEF NotOpened, SeenStep
    <3>. QED
      BY <2>12, <3>1, <2>3, <2>4 DEF NotOpened
  <2>13. ASSUME NEW r \in Requests, BodyArrives(r) PROVE Good
    <3>1. SeenStep /\ shown' = shown \cup bodies[r] /\ bodies[r] \in SUBSET StoredNow
      BY <2>13, <2>1 DEF BodyArrives, SeenStep, Printed
    <3>2. todo[r] \in SUBSET StoredNow /\ doing[r] \in Commands
      BY <2>0, <2>1 DEF SessionsOK
    <3>. QED
      BY <2>13, <3>1, <3>2, <2>3, <2>5 DEF BodyArrives
  <2>14. ASSUME NEW r \in Requests, PullBegins(r) PROVE Good
    <3>1. SeenStep /\ UNCHANGED shown
      BY <2>14 DEF PullBegins, SeenStep
    <3>. QED
      BY <2>14, <3>1, <2>1, <2>5 DEF PullBegins
  <2>15. ASSUME NEW r \in Requests, PullArrives(r) PROVE Good
    <3>1. /\ SeenStep /\ shown \subseteq shown' /\ shown' \ shown \subseteq StoredNow
          /\ bodies[r] \in SUBSET StoredNow
      BY <2>15, <2>1 DEF PullArrives, SeenStep, Printed
    <3>. QED
      BY <2>15, <3>1, <2>1, <2>3, <2>5 DEF PullArrives
  <2>16. ASSUME NEW r \in Requests, NEW m \in Messages, PullPrints(r, m) PROVE Good
    <3>1. {m} \in SUBSET StoredNow /\ todo[r] \ {m} \in SUBSET StoredNow
      BY <2>16, <2>1 DEF PullPrints, IsFirst
    <3>2. SeenStep /\ shown' = shown \cup {m}
      BY <2>16 DEF PullPrints, SeenStep, Printed
    <3>. QED
      BY <2>16, <3>1, <3>2, <2>5 DEF PullPrints
  <2>17. ASSUME NEW r \in Requests, PullEnds(r) PROVE Good
    BY <2>17, <2>3 DEF PullEnds, SeenStep
  <2>18. ASSUME NEW r \in Requests, NEW m \in Messages, Inject(r, m) PROVE Good
    <3>1. m \in shown /\ "INJECTED" \in AckStates
      BY <2>18, <2>6, AckStatesAre DEF Inject
    <3>2. SeenStep /\ UNCHANGED shown
      BY <2>18, <3>1 DEF Inject, SeenStep
    <3>. QED
      BY <2>18, <3>2, <2>4, <2>6, <2>7 DEF Inject
  <2>19. ASSUME NEW r \in Requests, Injected(r) PROVE Good
    BY <2>19, <2>7 DEF Injected, SeenStep
  <2>20. ASSUME NEW r \in Requests, NEW m \in Messages, Mark(r, m) PROVE Good
    <3>1. m \in shown /\ "READ" \in AckStates
      BY <2>20, <2>6, AckStatesAre DEF Mark, Markable
    <3>2. SeenStep /\ UNCHANGED shown
      BY <2>20, <3>1 DEF Mark, SeenStep
    <3>. QED
      BY <2>20, <3>2, <2>4, <2>6 DEF Mark
  <2>21. ASSUME NEW r \in Requests, Marked(r) PROVE Good
    BY <2>21, <2>4 DEF Marked, SeenStep
  <2>22. ASSUME NEW r \in Requests, NEW m \in Messages, NEW s \in AckStates,
                AckByHand(r, m, s)
         PROVE  Good
    <3>1. SeenStep /\ UNCHANGED shown
      BY <2>22 DEF AckByHand, SeenStep
    <3>. QED
      BY <2>22, <3>1, <2>1, <2>5 DEF AckByHand
  <2>23. ASSUME NEW r \in Requests, NEW set \in SUBSET TacMail, ShowTac(r, set)
         PROVE  Good
    <3>1. SeenStep /\ UNCHANGED shown
      BY <2>23 DEF ShowTac, SeenStep
    <3>2. set \in SUBSET StoredNow
      BY <2>23, <2>0, KindsAssumption DEF ShowTac, CatchUpSelect, StoredNow
    <3>. QED
      BY <2>23, <3>1, <3>2, <2>1, <2>5 DEF ShowTac
  <2>24. ASSUME NEW r \in Requests, AnswerArrives(r) PROVE Good
    <3>1. SeenStep /\ shown' = shown \cup held[r]
      BY <2>24 DEF AnswerArrives, SeenStep
    <3>. QED
      BY <2>24, <3>1, <2>1, <2>3 DEF AnswerArrives
  <2>25. ASSUME NEW r \in Requests, Serves(r) \/ AnswerToNobody(r) PROVE Good
    <3>1. SeenStep /\ UNCHANGED <<sessions, shown>>
      BY <2>25 DEF Serves, AnswerToNobody, SeenStep
    <3>. QED
      BY <3>1, <2>0, <2>2, HandsStaySeen
  <2>26. ASSUME NEW r \in Requests, HandlerFails(r) \/ ClientGone(r) PROVE Good
    <3>1. SeenStep /\ UNCHANGED shown
      BY <2>26 DEF HandlerFails, ClientGone, SeenStep
    <3>. QED
      BY <2>26, <3>1, <2>3 DEF HandlerFails, ClientGone
  <2>27. CASE Around \/ UNCHANGED allvars
    <3>1. SeenStep /\ UNCHANGED <<sessions, shown>>
      BY <2>27 DEF Around, allvars, SeenStep
    <3>2. HandsSeen'
      BY <3>1, <2>0 DEF HandsSeen, sessions
    <3>. QED
      BY <3>1, <3>2, <2>2
  <2>. QED
    BY <2>8, <2>9, <2>10, <2>11, <2>12, <2>13, <2>14, <2>15, <2>16, <2>17, <2>18, <2>19,
       <2>20, <2>21, <2>22, <2>23, <2>24, <2>25, <2>26, <2>27
    DEF ReaderNext, Session, Works, Read, Open, PullCommand, Acknowledge, ByHand
<1>. QED
  BY <1>1, <1>2, ReaderTypeCorrect, RowsAreStored, PTL DEF ReaderSpec

\* Mail that is READ or PROCESSED was printed, and so was mail that is INJECTED
\* but for a tac catch-up, however many sessions overlap and wherever they end.
THEOREM SeenBeforeMarkedHolds == ReaderSpec => []SeenBeforeMarked
<1>1. SeenInd => SeenBeforeMarked
  BY DEF SeenInd
<1>. QED
  BY <1>1, SeenIndHolds, PTL

\* "0 still unread" at the end of a read means that everything stored by then was
\* printed or set aside.
THEOREM ClearMeansSeenHolds == ReaderSpec => ClearMeansSeen
<1>. DEFINE Honest == \A r \in Requests : said'[r] = "clear" /\ said[r] # "clear" =>
                        \A m \in Messages : state[m] # "NONE" => m \in shown \/ SetAside(m)
<1>1. ASSUME ReaderTypeOK, SeenBeforeMarked, [ReaderNext]_allvars PROVE Honest \/ UNCHANGED allvars
  <2>. SUFFICES ASSUME NEW x \in Requests, said'[x] = "clear", said[x] # "clear",
                       NEW m \in Messages, state[m] # "NONE"
                PROVE  m \in shown \/ SetAside(m)
    OBVIOUS
  <2>. USE <1>1 DEF ReaderTypeOK, TypeOK
  <2>1. ASSUME NEW r \in Requests, End(r) PROVE FALSE
    BY <2>1 DEF End, EndSaying
  <2>2. ASSUME NEW r \in Requests, NEW c, NEW w, NEW l, NEW h, Begin(r, c, w, l, h)
        PROVE  FALSE
    BY <2>2 DEF Begin
  <2>3. ASSUME NEW r \in Requests, NEW w, Go(r, w) PROVE FALSE
    BY <2>2, <2>3 DEF Go
  <2>4. ASSUME NEW r \in Requests, AfterInject(r) PROVE FALSE
    BY <2>1, <2>3, <2>4 DEF AfterInject
  <2>5. ASSUME UNCHANGED sessions PROVE FALSE
    BY <2>5 DEF sessions
  <2>6. ASSUME NEW r \in Requests, ReadReports(r) PROVE Unread = {}
    BY <2>6 DEF ReadReports, EndSaying, Remaining
  <2>7. ASSUME Unread = {} PROVE m \in shown \/ SetAside(m)
    <3>1. state[m] \in States /\ state[m] \notin UNREAD_STATES
      BY <2>7 DEF Unread
    <3>2. CASE state[m] \in {"READ", "PROCESSED"}
      BY <3>2 DEF SeenBeforeMarked
    <3>3. CASE state[m] \in {"QUARANTINED", "DEAD"}
      BY <3>3 DEF SetAside
    <3>. QED
      BY <3>1, <3>2, <3>3 DEF States, UNREAD_STATES
  <2>8. ASSUME NEW r \in Requests, Read(r) PROVE m \in shown \/ SetAside(m)
    <3>1. ReadLists(r) => FALSE
      BY <2>2 DEF ReadLists
    <3>2. ASSUME NEW y \in Messages, ReadOpens(r, y) PROVE FALSE
      BY <2>2, <3>2 DEF ReadOpens
    <3>. QED
      BY <2>6, <2>7, <2>8, <3>1, <3>2 DEF Read
  <2>9. ASSUME NEW r \in Requests, Open(r) PROVE FALSE
    BY <2>1, <2>2, <2>3, <2>9 DEF Open, NotOpened, BodyArrives, Opened
  <2>10. ASSUME NEW r \in Requests, PullCommand(r) PROVE FALSE
    BY <2>1, <2>2, <2>10 DEF PullCommand, PullBegins, PullArrives, PullEnds, PullPrints
  <2>11. ASSUME NEW r \in Requests, Acknowledge(r) PROVE FALSE
    BY <2>3, <2>4, <2>11 DEF Acknowledge, Injected, Marked, Inject, Mark
  <2>12. ASSUME NEW r \in Requests, ByHand(r) PROVE FALSE
    BY <2>1, <2>2, <2>12 DEF ByHand, AnswerArrives, AckByHand, ShowTac
  <2>13. ASSUME NEW r \in Requests,
                Serves(r) \/ AnswerToNobody(r) \/ HandlerFails(r) \/ ClientGone(r)
         PROVE  FALSE
    BY <2>1, <2>5, <2>13 DEF Serves, AnswerToNobody, HandlerFails, ClientGone
  <2>14. CASE Around \/ UNCHANGED allvars
    BY <2>5, <2>14 DEF Around, allvars
  <2>. QED
    BY <2>8, <2>9, <2>10, <2>11, <2>12, <2>13, <2>14 DEF ReaderNext, Session, Works
<1>. QED
  BY <1>1, ReaderTypeCorrect, SeenBeforeMarkedHolds, PTL DEF ReaderSpec, ClearMeansSeen

-----------------------------------------------------------------------------
(* The contract of the reader.                                             *)

\* What was printed stays printed, and no step both prints and moves a delivery.
LEMMA PrintingMovesNothing ==
  ASSUME [ReaderNext]_allvars
  PROVE  shown \subseteq shown' /\ (shown' = shown \/ state' = state)
<1>1. CASE Around \/ UNCHANGED allvars
  BY <1>1 DEF Around, allvars
<1>2. ASSUME NEW r \in Requests, BodyArrives(r) \/ PullArrives(r) \/ AnswerArrives(r)
      PROVE  shown \subseteq shown' /\ state' = state
  BY <1>2 DEF BodyArrives, PullArrives, AnswerArrives, Printed, Reply, Finish, columns
<1>3. ASSUME NEW r \in Requests, NEW m \in Messages, PullPrints(r, m)
      PROVE  shown \subseteq shown' /\ state' = state
  BY <1>3 DEF PullPrints, Printed, vars, columns
<1>4. ASSUME NEW r \in Requests, Session(r) \/ ClientGone(r)
      PROVE  shown \subseteq shown' /\ (shown' = shown \/ state' = state)
  BY <1>2, <1>3, <1>4
  DEF Session, Works, Read, Open, PullCommand, Acknowledge, ByHand, ReadLists, ReadReports,
      ReadOpens, NotOpened, Opened, PullBegins, PullEnds, Injected, Marked, Inject, Mark,
      AckByHand, ShowTac, Serves, HandlerFails, AnswerToNobody, ClientGone
<1>. QED
  BY <1>1, <1>4 DEF ReaderNext

\* A mailbox whose acks are not overtaken, and the sessions that read it, implement
\* ReaderContract under the refinement mapping MailOf.
THEOREM InboxKept == CalmReaderSpec => KeepsInbox
<1>1. ReaderInit => Inbox!Init
  BY DEF ReaderInit, Init, Inbox!Init, MailOf
<1>2. ASSUME ReaderTypeOK, SeenInd, SeenBeforeMarked', [ReaderNext]_allvars,
             [Contract!Next]_<<state, attempts>>
      PROVE  [Inbox!Next]_[m \in Messages |-> MailOf(m)]
  <2>1. SUFFICES ASSUME NEW m \in Messages
        PROVE  \/ MailOf(m)' = MailOf(m)
               \/ MailOf(m) = "none" /\ MailOf(m)' = "unseen"
               \/ MailOf(m) = "unseen" /\ MailOf(m)' = "seen"
               \/ MailOf(m) = "seen" /\ MailOf(m)' = "read"
               \/ MailOf(m) \in {"unseen", "seen"} /\ MailOf(m)' = "lost"
    BY DEF Inbox!Next, Inbox!Arrives, Inbox!IsShown, Inbox!IsMarked, Inbox!IsSetAside,
           Inbox!Stays, Inbox!Becomes
  <2>2. /\ shown \subseteq shown' /\ (shown' = shown \/ state' = state)
        /\ state[m] = "NONE" => m \notin shown
        /\ state[m] \in States
    BY <1>2, PrintingMovesNothing DEF SeenInd, HandsSeen, ReaderTypeOK, TypeOK
  <2>. USE DEF MailOf, SetAside, States
  <2>3. CASE state'[m] = state[m]
    BY <2>2, <2>3
  <2>4. CASE state'[m] # state[m]
    <3>1. shown' = shown /\ Contract!Progress(m)
      BY <1>2, <2>2, <2>4 DEF Contract!Next, Contract!Stays
    <3>2. state'[m] \in {"READ", "PROCESSED"} => m \in shown
      BY <1>2, <3>1 DEF SeenBeforeMarked
    <3>. QED
      BY <2>2, <3>1, <3>2
      DEF Contract!Progress, Contract!Moves, Contract!Stored, Contract!Taken,
          Contract!GivenBack, Contract!GivenUp, Contract!SetAside, Contract!Shown,
          Contract!CaughtUp, Contract!Read, Contract!Processed
  <2>. QED
    BY <2>3, <2>4
<1>3. CalmReaderSpec => ReaderSpec
  <2>1. [ReaderNext /\ AcksUndisturbed]_allvars => [ReaderNext]_allvars
    OBVIOUS
  <2>. QED
    BY <2>1, PTL DEF CalmReaderSpec, ReaderSpec
<1>. QED
  BY <1>1, <1>2, <1>3, ReaderTypeCorrect, SeenIndHolds, SeenBeforeMarkedHolds,
     CalmReaderUsesCalmMailbox, ContractKept, PTL
  DEF ReaderSpec, KeepsInbox, KeepsContract, Inbox!Spec, Contract!Spec
=============================================================================
