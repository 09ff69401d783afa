--------------------------- MODULE Mailbox_proofs ---------------------------
(* Proofs about Mailbox, for any messages, requests, attempts and limits. *)
EXTENDS Mailbox, TLAPS

\* The states an /ack can ask for, and where each may be asked for.
LEMMA AckStatesAre ==
  /\ AckStates = {"INJECTED", "READ", "PROCESSED"}
  /\ ALLOWED_DELIVERY_TRANSITIONS["INJECTED"] = {"CLAIMED"}
  /\ ALLOWED_DELIVERY_TRANSITIONS["READ"] = {"INJECTED"}
  /\ ALLOWED_DELIVERY_TRANSITIONS["PROCESSED"] = {"READ"}
BY DEF AckStates, ALLOWED_DELIVERY_TRANSITIONS

\* Every value stays in its type: the states are those of the CHECK constraint
\* of the deliveries table.
THEOREM TypeCorrect == Spec => []TypeOK
<1>. USE KindsAssumption, AckStatesAre
<1>1. Init => TypeOK
  <2>. SUFFICES ASSUME Init PROVE TypeOK
    OBVIOUS
  <2>. USE DEF Init, TypeOK, States, Steps
  <2>1. /\ stamps \in [Messages -> SUBSET AckStates]
        /\ rows \in [Requests -> SUBSET Messages]
        /\ bodies \in [Requests -> SUBSET Messages]
        /\ claims \in [Requests -> SUBSET (Messages \X Nat)]
    OBVIOUS
  <2>2. /\ state \in [Messages -> States]
        /\ attempts \in [Messages -> Nat]
        /\ lease \in [Messages -> {"null", "live", "over"}]
        /\ unfit \in SUBSET Perishable
        /\ removed \in BOOLEAN
    OBVIOUS
  <2>3. /\ at \in [Requests -> Steps]
        /\ saw \in [Requests -> States]
        /\ goal \in [Requests -> AckStates]
    OBVIOUS
  <2>. QED
    BY <2>1, <2>2, <2>3
<1>2. TypeOK /\ [Next]_vars => TypeOK'
  <2>. SUFFICES ASSUME TypeOK, [Next]_vars PROVE TypeOK'
    OBVIOUS
  <2>. USE DEF TypeOK, States, Steps, columns, threads
  <2>1. ASSUME NEW m \in Messages, Deposit(m) PROVE TypeOK'
    BY <2>1 DEF Deposit
  <2>2. ASSUME NEW m \in Messages, LeaseRunsOut(m) PROVE TypeOK'
    BY <2>2 DEF LeaseRunsOut
  <2>3. ASSUME NEW m \in Messages, Spoil(m) PROVE TypeOK'
    BY <2>3 DEF Spoil
  <2>4. CASE Remove
    BY <2>4 DEF Remove
  <2>5. CASE Restore
    BY <2>5 DEF Restore
  <2>6. ASSUME NEW r \in Requests, StartPull(r) PROVE TypeOK'
    BY <2>6 DEF StartPull
  <2>7. ASSUME NEW r \in Requests, PullCheck(r) PROVE TypeOK'
    BY <2>7 DEF PullCheck, EmptyRound
  <2>8. ASSUME NEW r \in Requests, PullRecover(r) PROVE TypeOK'
    BY <2>8 DEF PullRecover, Lapsed, Poisoned
  <2>9. ASSUME NEW r \in Requests, PullSelect(r) PROVE TypeOK'
    BY <2>9 DEF PullSelect, Page
  <2>10. ASSUME NEW r \in Requests, PullClaim(r) PROVE TypeOK'
    <3>1. at' \in [Requests -> Steps]
      BY <2>10 DEF PullClaim, EmptyRound
    <3>2. /\ bodies' \in [Requests -> SUBSET Messages]
          /\ claims' \in [Requests -> SUBSET (Messages \X Nat)]
          /\ attempts' \in [Messages -> Nat]
      BY <2>10 DEF PullClaim, Claim, StillAccepted, Won
    <3>3. /\ state' \in [Messages -> States]
          /\ lease' \in [Messages -> {"null", "live", "over"}]
          /\ rows' \in [Requests -> SUBSET Messages]
          /\ UNCHANGED <<stamps, unfit, removed, saw, goal>>
      BY <2>10 DEF PullClaim, Claim, StillAccepted
    <3>. QED
      BY <3>1, <3>2, <3>3
  <2>11. ASSUME NEW r \in Requests, ReopenUnfit(r) PROVE TypeOK'
    BY <2>11 DEF ReopenUnfit, StillAccepted
  <2>12. ASSUME NEW r \in Requests, ReopenClaims(r) PROVE TypeOK'
    BY <2>12 DEF ReopenClaims, StillAccepted, Won, Claim, EnvelopeFit
  <2>13. ASSUME NEW r \in Requests, ReopenAsIs(r) PROVE TypeOK'
    BY <2>13 DEF ReopenAsIs, EnvelopeFit
  <2>14. ASSUME NEW r \in Requests, AckWrite(r) PROVE TypeOK'
    BY <2>14 DEF AckWrite
  <2>15. ASSUME NEW r \in Requests, CatchUpMark(r) PROVE TypeOK'
    BY <2>15 DEF CatchUpMark, Unopened
  <2>16. ASSUME NEW r \in Requests, Reply(r) PROVE TypeOK'
    BY <2>16 DEF Reply, Finish
  <2>17. ASSUME NEW r \in Requests, Die(r) PROVE TypeOK'
    BY <2>17 DEF Die, Finish
  <2>18. ASSUME NEW r \in Requests, NEW m \in Messages, ReopenSelect(r, m) PROVE TypeOK'
    BY <2>18 DEF ReopenSelect
  <2>19. ASSUME NEW r \in Requests, NEW m \in Messages, NEW s \in AckStates, AckRead(r, m, s)
       PROVE  TypeOK'
    BY <2>19 DEF AckRead
  <2>20. ASSUME NEW r \in Requests, NEW shown \in SUBSET TacMail, CatchUpSelect(r, shown)
       PROVE  TypeOK'
    BY <2>20 DEF CatchUpSelect
  <2>21. CASE UNCHANGED vars
    BY <2>21 DEF vars
  <2>. QED
    BY <2>1, <2>2, <2>3, <2>4, <2>5, <2>6, <2>7, <2>8, <2>9, <2>10, <2>11, <2>12,
       <2>13, <2>14, <2>15, <2>16, <2>17, <2>18, <2>19, <2>20, <2>21
    DEF Next, Environment, Request, Pull, Reopen, Ack, CatchUp
<1>. QED
  BY <1>1, <1>2, PTL DEF Spec

-----------------------------------------------------------------------------
(* The poison rule.  It needs to know that a row starts with no attempts.  *)

PoisonInd == PoisonRule /\ \A m \in Messages : state[m] = "NONE" => attempts[m] = 0

\* No delivery is taken more than MaxAttempts times, none on offer has used its
\* attempts up and only one that has is DEAD, though pulls, opens and
\* acknowledgements of the same row overlap.
THEOREM PoisonRuleHolds == Spec => []PoisonRule
<1>. USE KindsAssumption, AckStatesAre, BoundsAssumption DEF PoisonInd,
         PoisonRule, TypeOK, States
<1>1. Init => PoisonInd
  BY DEF Init
<1>2. TypeOK /\ PoisonInd /\ [Next]_vars => PoisonInd'
  <2>. SUFFICES ASSUME TypeOK, PoisonInd, [Next]_vars PROVE PoisonInd'
    OBVIOUS
  <2>. USE DEF columns, threads
  <2>1. ASSUME NEW m \in Messages, Deposit(m) PROVE PoisonInd'
    BY <2>1 DEF Deposit
  <2>2. ASSUME NEW m \in Messages, LeaseRunsOut(m) PROVE PoisonInd'
    BY <2>2 DEF LeaseRunsOut
  <2>3. ASSUME NEW m \in Messages, Spoil(m) PROVE PoisonInd'
    BY <2>3 DEF Spoil
  <2>4. CASE Remove
    BY <2>4 DEF Remove
  <2>5. CASE Restore
    BY <2>5 DEF Restore
  <2>6. ASSUME NEW r \in Requests, StartPull(r) PROVE PoisonInd'
    BY <2>6 DEF StartPull
  <2>7. ASSUME NEW r \in Requests, PullCheck(r) PROVE PoisonInd'
    BY <2>7 DEF PullCheck, EmptyRound
  <2>8. ASSUME NEW r \in Requests, PullRecover(r) PROVE PoisonInd'
    BY <2>8 DEF PullRecover, Lapsed, Poisoned
  <2>9. ASSUME NEW r \in Requests, PullSelect(r) PROVE PoisonInd'
    BY <2>9 DEF PullSelect, Page
  <2>10. ASSUME NEW r \in Requests, PullClaim(r) PROVE PoisonInd'
    BY <2>10 DEF PullClaim, EmptyRound, Claim, StillAccepted, Won
  <2>11. ASSUME NEW r \in Requests, ReopenUnfit(r) PROVE PoisonInd'
    BY <2>11 DEF ReopenUnfit, StillAccepted
  <2>12. ASSUME NEW r \in Requests, ReopenClaims(r) PROVE PoisonInd'
    BY <2>12 DEF ReopenClaims, StillAccepted, Won, Claim, EnvelopeFit
  <2>13. ASSUME NEW r \in Requests, ReopenAsIs(r) PROVE PoisonInd'
    BY <2>13 DEF ReopenAsIs, EnvelopeFit
  <2>14. ASSUME NEW r \in Requests, AckWrite(r) PROVE PoisonInd'
    BY <2>14 DEF AckWrite
  <2>15. ASSUME NEW r \in Requests, CatchUpMark(r) PROVE PoisonInd'
    BY <2>15 DEF CatchUpMark, Unopened
  <2>16. ASSUME NEW r \in Requests, Reply(r) PROVE PoisonInd'
    BY <2>16 DEF Reply, Finish
  <2>17. ASSUME NEW r \in Requests, Die(r) PROVE PoisonInd'
    BY <2>17 DEF Die, Finish
  <2>18. ASSUME NEW r \in Requests, NEW m \in Messages, ReopenSelect(r, m) PROVE PoisonInd'
    BY <2>18 DEF ReopenSelect
  <2>19. ASSUME NEW r \in Requests, NEW m \in Messages, NEW s \in AckStates, AckRead(r, m, s)
       PROVE  PoisonInd'
    BY <2>19 DEF AckRead
  <2>20. ASSUME NEW r \in Requests, NEW shown \in SUBSET TacMail, CatchUpSelect(r, shown)
       PROVE  PoisonInd'
    BY <2>20 DEF CatchUpSelect
  <2>21. CASE UNCHANGED vars
    BY <2>21 DEF vars
  <2>. QED
    BY <2>1, <2>2, <2>3, <2>4, <2>5, <2>6, <2>7, <2>8, <2>9, <2>10, <2>11, <2>12,
       <2>13, <2>14, <2>15, <2>16, <2>17, <2>18, <2>19, <2>20, <2>21
    DEF Next, Environment, Request, Pull, Reopen, Ack, CatchUp
<1>3. PoisonInd => PoisonRule
  OBVIOUS
<1>. QED
  BY <1>1, <1>2, <1>3, TypeCorrect, PTL DEF Spec

-----------------------------------------------------------------------------
(* One winner.  An attempt in a response has been counted, and the next    *)
(* claim counts one more, so it is new.                                    *)

WinnersInd ==
  /\ OneWinner
  /\ \A r \in Requests : \A c \in claims[r] : c[2] <= attempts[c[1]]

\* A claim counts one more than any response in flight has seen.
LEMMA ClaimKeepsWinners ==
  ASSUME TypeOK, WinnersInd, NEW r \in Requests, Claim(r)
  PROVE  WinnersInd'
<1>. USE DEF TypeOK, WinnersInd, OneWinner
<1>1. \A m \in Messages : attempts'[m] \in Nat /\ attempts'[m] >= attempts[m]
  BY DEF Claim, StillAccepted
<1>2. /\ Won(r) \subseteq Messages
      /\ \A m \in Won(r) : attempts'[m] = attempts[m] + 1
  BY DEF Claim, Won, StillAccepted
<1>3. /\ \A q \in Requests \ {r} : claims'[q] = claims[q]
      /\ claims'[r] = {<<m, attempts'[m]>> : m \in Won(r)}
  BY DEF Claim
<1>4. ASSUME NEW q \in Requests, NEW c \in claims'[q]
      PROVE  c[2] <= attempts'[c[1]]
  <2>1. CASE q = r
    BY <1>1, <1>2, <1>3, <2>1
  <2>2. CASE q # r
    <3>1. c \in claims[q] /\ c \in Messages \X Nat
      BY <1>3, <2>2
    <3>2. c[1] \in Messages /\ c[2] \in Nat /\ attempts[c[1]] \in Nat
      BY <3>1
    <3>. QED
      BY <1>1, <3>1, <3>2
  <2>. QED
    BY <2>1, <2>2
<1>5. ASSUME NEW q \in Requests \ {r}, NEW c, c \in claims[q], c \in claims'[r]
      PROVE  FALSE
  <2>1. PICK m \in Won(r) : c = <<m, attempts'[m]>>
    BY <1>3, <1>5
  <2>2. m \in Messages /\ attempts[m] \in Nat /\ c[1] = m /\ c[2] = attempts[m] + 1
    BY <1>2, <2>1
  <2>3. c[2] <= attempts[c[1]]
    BY <1>5
  <2>. QED
    BY <2>2, <2>3
<1>6. OneWinner'
  BY <1>3, <1>5
<1>. QED
  BY <1>4, <1>6

\* No two responses carry the same attempt at a message.
THEOREM OneWinnerHolds == Spec => []OneWinner
<1>. USE KindsAssumption, AckStatesAre DEF WinnersInd, OneWinner, TypeOK
<1>1. Init => WinnersInd
  BY DEF Init
<1>2. TypeOK /\ WinnersInd /\ [Next]_vars => WinnersInd'
  <2>. SUFFICES ASSUME TypeOK, WinnersInd, [Next]_vars PROVE WinnersInd'
    OBVIOUS
  <2>. USE DEF columns, threads
  <2>1. ASSUME NEW m \in Messages, Deposit(m) PROVE WinnersInd'
    BY <2>1 DEF Deposit
  <2>2. ASSUME NEW m \in Messages, LeaseRunsOut(m) PROVE WinnersInd'
    BY <2>2 DEF LeaseRunsOut
  <2>3. ASSUME NEW m \in Messages, Spoil(m) PROVE WinnersInd'
    BY <2>3 DEF Spoil
  <2>4. CASE Remove
    BY <2>4 DEF Remove
  <2>5. CASE Restore
    BY <2>5 DEF Restore
  <2>6. ASSUME NEW r \in Requests, StartPull(r) PROVE WinnersInd'
    BY <2>6 DEF StartPull
  <2>7. ASSUME NEW r \in Requests, PullCheck(r) PROVE WinnersInd'
    BY <2>7 DEF PullCheck, EmptyRound
  <2>8. ASSUME NEW r \in Requests, PullRecover(r) PROVE WinnersInd'
    BY <2>8 DEF PullRecover, Lapsed, Poisoned
  <2>9. ASSUME NEW r \in Requests, PullSelect(r) PROVE WinnersInd'
    BY <2>9 DEF PullSelect, Page
  <2>10. ASSUME NEW r \in Requests, PullClaim(r) PROVE WinnersInd'
    BY <2>10, ClaimKeepsWinners DEF PullClaim
  <2>11. ASSUME NEW r \in Requests, ReopenUnfit(r) PROVE WinnersInd'
    BY <2>11 DEF ReopenUnfit, StillAccepted
  <2>12. ASSUME NEW r \in Requests, ReopenClaims(r) PROVE WinnersInd'
    BY <2>12, ClaimKeepsWinners DEF ReopenClaims
  <2>13. ASSUME NEW r \in Requests, ReopenAsIs(r) PROVE WinnersInd'
    BY <2>13 DEF ReopenAsIs, EnvelopeFit
  <2>14. ASSUME NEW r \in Requests, AckWrite(r) PROVE WinnersInd'
    BY <2>14 DEF AckWrite
  <2>15. ASSUME NEW r \in Requests, CatchUpMark(r) PROVE WinnersInd'
    BY <2>15 DEF CatchUpMark, Unopened
  <2>16. ASSUME NEW r \in Requests, Reply(r) PROVE WinnersInd'
    BY <2>16 DEF Reply, Finish
  <2>17. ASSUME NEW r \in Requests, Die(r) PROVE WinnersInd'
    BY <2>17 DEF Die, Finish
  <2>18. ASSUME NEW r \in Requests, NEW m \in Messages, ReopenSelect(r, m) PROVE WinnersInd'
    BY <2>18 DEF ReopenSelect
  <2>19. ASSUME NEW r \in Requests, NEW m \in Messages, NEW s \in AckStates, AckRead(r, m, s)
       PROVE  WinnersInd'
    BY <2>19 DEF AckRead
  <2>20. ASSUME NEW r \in Requests, NEW shown \in SUBSET TacMail, CatchUpSelect(r, shown)
       PROVE  WinnersInd'
    BY <2>20 DEF CatchUpSelect
  <2>21. CASE UNCHANGED vars
    BY <2>21 DEF vars
  <2>. QED
    BY <2>1, <2>2, <2>3, <2>4, <2>5, <2>6, <2>7, <2>8, <2>9, <2>10, <2>11, <2>12,
       <2>13, <2>14, <2>15, <2>16, <2>17, <2>18, <2>19, <2>20, <2>21
    DEF Next, Environment, Request, Pull, Reopen, Ack, CatchUp
<1>3. WinnersInd => OneWinner
  OBVIOUS
<1>. QED
  BY <1>1, <1>2, <1>3, TypeCorrect, PTL DEF Spec

-----------------------------------------------------------------------------
(* The rungs.  A thread about to write an acknowledgement read the row on  *)
(* the rung below, and what that rung left in the row is never erased.     *)

RungsInd ==
  /\ RungsClimbed
  /\ \A m \in Messages :
       /\ state[m] = "CLAIMED" => attempts[m] > 0
       /\ state[m] = "INJECTED" => "INJECTED" \in stamps[m] \/ m \in TacMail
       /\ state[m] = "READ" => "READ" \in stamps[m]
  /\ \A r \in Requests : \A m \in rows[r] :
       /\ at[r] = "catchup" => m \in TacMail
       /\ at[r] = "ack" /\ goal[r] = "INJECTED" => attempts[m] > 0
       /\ at[r] = "ack" /\ goal[r] = "READ" => "INJECTED" \in stamps[m] \/ m \in TacMail
       /\ at[r] = "ack" /\ goal[r] = "PROCESSED" => "READ" \in stamps[m]

\* No stage is skipped in what a row records, although an acknowledgement may
\* write over a state it did not read.
THEOREM RungsClimbedHolds == Spec => []RungsClimbed
<1>. USE KindsAssumption, AckStatesAre DEF RungsInd, RungsClimbed, TypeOK, States
<1>1. Init => RungsInd
  BY DEF Init
<1>2. TypeOK /\ RungsInd /\ [Next]_vars => RungsInd'
  <2>. SUFFICES ASSUME TypeOK, RungsInd, [Next]_vars PROVE RungsInd'
    OBVIOUS
  <2>. USE DEF columns, threads
  <2>1. ASSUME NEW m \in Messages, Deposit(m) PROVE RungsInd'
    BY <2>1 DEF Deposit
  <2>2. ASSUME NEW m \in Messages, LeaseRunsOut(m) PROVE RungsInd'
    BY <2>2 DEF LeaseRunsOut
  <2>3. ASSUME NEW m \in Messages, Spoil(m) PROVE RungsInd'
    BY <2>3 DEF Spoil
  <2>4. CASE Remove
    BY <2>4 DEF Remove
  <2>5. CASE Restore
    BY <2>5 DEF Restore
  <2>6. ASSUME NEW r \in Requests, StartPull(r) PROVE RungsInd'
    BY <2>6 DEF StartPull
  <2>7. ASSUME NEW r \in Requests, PullCheck(r) PROVE RungsInd'
    BY <2>7 DEF PullCheck, EmptyRound
  <2>8. ASSUME NEW r \in Requests, PullRecover(r) PROVE RungsInd'
    BY <2>8 DEF PullRecover, Lapsed, Poisoned
  <2>9. ASSUME NEW r \in Requests, PullSelect(r) PROVE RungsInd'
    BY <2>9 DEF PullSelect, Page
  <2>10. ASSUME NEW r \in Requests, PullClaim(r) PROVE RungsInd'
    BY <2>10 DEF PullClaim, EmptyRound, Claim, StillAccepted, Won
  <2>11. ASSUME NEW r \in Requests, ReopenUnfit(r) PROVE RungsInd'
    BY <2>11 DEF ReopenUnfit, StillAccepted
  <2>12. ASSUME NEW r \in Requests, ReopenClaims(r) PROVE RungsInd'
    BY <2>12 DEF ReopenClaims, StillAccepted, Won, Claim, EnvelopeFit
  <2>13. ASSUME NEW r \in Requests, ReopenAsIs(r) PROVE RungsInd'
    BY <2>13 DEF ReopenAsIs, EnvelopeFit
  <2>14. ASSUME NEW r \in Requests, AckWrite(r) PROVE RungsInd'
    BY <2>14 DEF AckWrite
  <2>15. ASSUME NEW r \in Requests, CatchUpMark(r) PROVE RungsInd'
    BY <2>15 DEF CatchUpMark, Unopened
  <2>16. ASSUME NEW r \in Requests, Reply(r) PROVE RungsInd'
    BY <2>16 DEF Reply, Finish
  <2>17. ASSUME NEW r \in Requests, Die(r) PROVE RungsInd'
    BY <2>17 DEF Die, Finish
  <2>18. ASSUME NEW r \in Requests, NEW m \in Messages, ReopenSelect(r, m) PROVE RungsInd'
    BY <2>18 DEF ReopenSelect
  <2>19. ASSUME NEW r \in Requests, NEW m \in Messages, NEW s \in AckStates, AckRead(r, m, s)
       PROVE  RungsInd'
    BY <2>19 DEF AckRead
  <2>20. ASSUME NEW r \in Requests, NEW shown \in SUBSET TacMail, CatchUpSelect(r, shown)
       PROVE  RungsInd'
    BY <2>20 DEF CatchUpSelect
  <2>21. CASE UNCHANGED vars
    BY <2>21 DEF vars
  <2>. QED
    BY <2>1, <2>2, <2>3, <2>4, <2>5, <2>6, <2>7, <2>8, <2>9, <2>10, <2>11, <2>12,
       <2>13, <2>14, <2>15, <2>16, <2>17, <2>18, <2>19, <2>20, <2>21
    DEF Next, Environment, Request, Pull, Reopen, Ack, CatchUp
<1>3. RungsInd => RungsClimbed
  OBVIOUS
<1>. QED
  BY <1>1, <1>2, <1>3, TypeCorrect, PTL DEF Spec

-----------------------------------------------------------------------------
(* What a single step may do.                                              *)

StepTakes  == \A m \in Messages : attempts'[m] # attempts[m] => state[m] = "ACCEPTED"
StepShows  == \A r \in Requests : \A m \in bodies'[r] \ bodies[r] : m \notin unfit
StepClimbs == (\A m \in Messages : Forward(m)) \/ \E r \in Requests : AckWrite(r)

GoodStep == StepTakes /\ StepShows /\ StepClimbs

LEMMA StepsAreGood ==
  ASSUME TypeOK, [Next]_vars
  PROVE  GoodStep
<1>. USE KindsAssumption, AckStatesAre
     DEF GoodStep, StepTakes, StepShows, StepClimbs, Forward, Stage, Lapsed, TypeOK, States,
         columns, threads
  <1>1. ASSUME NEW m \in Messages, Deposit(m) PROVE GoodStep
    BY <1>1 DEF Deposit
  <1>2. ASSUME NEW m \in Messages, LeaseRunsOut(m) PROVE GoodStep
    BY <1>2 DEF LeaseRunsOut
  <1>3. ASSUME NEW m \in Messages, Spoil(m) PROVE GoodStep
    BY <1>3 DEF Spoil
  <1>4. CASE Remove
    BY <1>4 DEF Remove
  <1>5. CASE Restore
    BY <1>5 DEF Restore
  <1>6. ASSUME NEW r \in Requests, StartPull(r) PROVE GoodStep
    BY <1>6 DEF StartPull
  <1>7. ASSUME NEW r \in Requests, PullCheck(r) PROVE GoodStep
    BY <1>7 DEF PullCheck, EmptyRound
  <1>8. ASSUME NEW r \in Requests, PullRecover(r) PROVE GoodStep
    BY <1>8 DEF PullRecover, Poisoned
  <1>9. ASSUME NEW r \in Requests, PullSelect(r) PROVE GoodStep
    BY <1>9 DEF PullSelect, Page
  <1>10. ASSUME NEW r \in Requests, PullClaim(r) PROVE GoodStep
    BY <1>10 DEF PullClaim, EmptyRound, Claim, StillAccepted, Won
  <1>11. ASSUME NEW r \in Requests, ReopenUnfit(r) PROVE GoodStep
    BY <1>11 DEF ReopenUnfit, StillAccepted
  <1>12. ASSUME NEW r \in Requests, ReopenClaims(r) PROVE GoodStep
    BY <1>12 DEF ReopenClaims, StillAccepted, Won, Claim, EnvelopeFit
  <1>13. ASSUME NEW r \in Requests, ReopenAsIs(r) PROVE GoodStep
    BY <1>13 DEF ReopenAsIs, EnvelopeFit
  <1>14. ASSUME NEW r \in Requests, AckWrite(r) PROVE GoodStep
    BY <1>14 DEF AckWrite
  <1>15. ASSUME NEW r \in Requests, CatchUpMark(r) PROVE GoodStep
    BY <1>15 DEF CatchUpMark, Unopened
  <1>16. ASSUME NEW r \in Requests, Reply(r) PROVE GoodStep
    BY <1>16 DEF Reply, Finish
  <1>17. ASSUME NEW r \in Requests, Die(r) PROVE GoodStep
    BY <1>17 DEF Die, Finish
  <1>18. ASSUME NEW r \in Requests, NEW m \in Messages, ReopenSelect(r, m) PROVE GoodStep
    BY <1>18 DEF ReopenSelect
  <1>19. ASSUME NEW r \in Requests, NEW m \in Messages, NEW s \in AckStates, AckRead(r, m, s)
       PROVE  GoodStep
    BY <1>19 DEF AckRead
  <1>20. ASSUME NEW r \in Requests, NEW shown \in SUBSET TacMail, CatchUpSelect(r, shown)
       PROVE  GoodStep
    BY <1>20 DEF CatchUpSelect
  <1>21. CASE UNCHANGED vars
    BY <1>21 DEF vars
  <1>. QED
    BY <1>1, <1>2, <1>3, <1>4, <1>5, <1>6, <1>7, <1>8, <1>9, <1>10, <1>11, <1>12,
       <1>13, <1>14, <1>15, <1>16, <1>17, <1>18, <1>19, <1>20, <1>21
    DEF Next, Environment, Request, Pull, Reopen, Ack, CatchUp

\* A delivery is only ever taken when it is on offer.
THEOREM TakenWhenFreeHolds == Spec => TakenWhenFree
<1>1. TypeOK /\ [Next]_vars => StepTakes
  BY StepsAreGood DEF GoodStep
<1>. QED
  BY <1>1, TypeCorrect, PTL DEF Spec, TakenWhenFree, StepTakes

\* The body of a message with an unfit envelope never enters a response.
THEOREM UnfitBodyWithheldHolds == Spec => UnfitBodyWithheld
<1>1. TypeOK /\ [Next]_vars => StepShows
  BY StepsAreGood DEF GoodStep
<1>. QED
  BY <1>1, TypeCorrect, PTL DEF Spec, UnfitBodyWithheld, StepShows

\* Nothing but the write of an acknowledgement takes a delivery backwards.
THEOREM OnlyAckGoesBackHolds == Spec => OnlyAckGoesBack
<1>1. TypeOK /\ [Next]_vars => StepClimbs
  BY StepsAreGood DEF GoodStep
<1>. QED
  BY <1>1, TypeCorrect, PTL DEF Spec, OnlyAckGoesBack, StepClimbs

-----------------------------------------------------------------------------
(* The contract.  While nothing changes a row between the read and the     *)
(* write of an acknowledgement, the state it read is the state it replaces.*)

CalmInd ==
  \A r \in Requests : \A m \in rows[r] :
    /\ at[r] = "ack" => state[m] \in ALLOWED_DELIVERY_TRANSITIONS[goal[r]]
    /\ at[r] = "catchup" => m \in TacMail

CalmStep == [Next /\ AcksUndisturbed]_vars

LEMMA CalmIsSpec == CalmSpec => Spec
<1>1. CalmStep => [Next]_vars
  BY DEF CalmStep
<1>. QED
  BY <1>1, PTL DEF CalmSpec, Spec, CalmStep

LEMMA CalmHolds == CalmSpec => []CalmInd
<1>. USE KindsAssumption, AckStatesAre DEF CalmInd, TypeOK
<1>1. Init => CalmInd
  BY DEF Init
<1>2. CalmInd /\ UNCHANGED vars => CalmInd'
  BY DEF vars, threads, columns
<1>3. TypeOK /\ CalmInd /\ Next /\ AcksUndisturbed => CalmInd'
  <2>. SUFFICES ASSUME TypeOK, CalmInd, Next, AcksUndisturbed
                PROVE  CalmInd'
    OBVIOUS
  <2>. USE DEF columns, threads, AcksUndisturbed
  <2>1. ASSUME NEW m \in Messages, Deposit(m) PROVE CalmInd'
    BY <2>1 DEF Deposit
  <2>2. ASSUME NEW m \in Messages, LeaseRunsOut(m) PROVE CalmInd'
    BY <2>2 DEF LeaseRunsOut
  <2>3. ASSUME NEW m \in Messages, Spoil(m) PROVE CalmInd'
    BY <2>3 DEF Spoil
  <2>4. CASE Remove
    BY <2>4 DEF Remove
  <2>5. CASE Restore
    BY <2>5 DEF Restore
  <2>6. ASSUME NEW r \in Requests, StartPull(r) PROVE CalmInd'
    BY <2>6 DEF StartPull
  <2>7. ASSUME NEW r \in Requests, PullCheck(r) PROVE CalmInd'
    BY <2>7 DEF PullCheck, EmptyRound
  <2>8. ASSUME NEW r \in Requests, PullRecover(r) PROVE CalmInd'
    <3>. SUFFICES ASSUME NEW q \in Requests, NEW m \in rows'[q]
                  PROVE  /\ at'[q] = "ack" =>
                              state'[m] \in ALLOWED_DELIVERY_TRANSITIONS[goal'[q]]
                         /\ at'[q] = "catchup" => m \in TacMail
      OBVIOUS
    <3>1. CASE q = r
      BY <2>8, <3>1 DEF PullRecover
    <3>2. CASE q # r
      <4>1. at'[q] = at[q] /\ rows'[q] = rows[q] /\ goal'[q] = goal[q]
        BY <2>8, <3>2 DEF PullRecover
      <4>2. at[q] = "ack" => state'[m] = state[m]
        BY <4>1
      <4>. QED
        BY <4>1, <4>2
    <3>. QED
      BY <3>1, <3>2
  <2>9. ASSUME NEW r \in Requests, PullSelect(r) PROVE CalmInd'
    BY <2>9 DEF PullSelect, Page
  <2>10. ASSUME NEW r \in Requests, PullClaim(r) PROVE CalmInd'
    <3>. SUFFICES ASSUME NEW q \in Requests, NEW m \in rows'[q]
                  PROVE  /\ at'[q] = "ack" =>
                              state'[m] \in ALLOWED_DELIVERY_TRANSITIONS[goal'[q]]
                         /\ at'[q] = "catchup" => m \in TacMail
      OBVIOUS
    <3>1. CASE q = r
      BY <2>10, <3>1 DEF PullClaim, EmptyRound
    <3>2. CASE q # r
      <4>1. at'[q] = at[q] /\ rows'[q] = rows[q] /\ goal'[q] = goal[q]
        BY <2>10, <3>2 DEF PullClaim, EmptyRound
      <4>2. at[q] = "ack" => state'[m] = state[m]
        BY <4>1
      <4>. QED
        BY <4>1, <4>2
    <3>. QED
      BY <3>1, <3>2
  <2>11. ASSUME NEW r \in Requests, ReopenUnfit(r) PROVE CalmInd'
    BY <2>11 DEF ReopenUnfit, StillAccepted
  <2>12. ASSUME NEW r \in Requests, ReopenClaims(r) PROVE CalmInd'
    BY <2>12 DEF ReopenClaims, StillAccepted, Won, Claim, EnvelopeFit
  <2>13. ASSUME NEW r \in Requests, ReopenAsIs(r) PROVE CalmInd'
    BY <2>13 DEF ReopenAsIs, EnvelopeFit
  <2>14. ASSUME NEW r \in Requests, AckWrite(r) PROVE CalmInd'
    BY <2>14 DEF AckWrite
  <2>15. ASSUME NEW r \in Requests, CatchUpMark(r) PROVE CalmInd'
    BY <2>15 DEF CatchUpMark, Unopened
  <2>16. ASSUME NEW r \in Requests, Reply(r) PROVE CalmInd'
    BY <2>16 DEF Reply, Finish
  <2>17. ASSUME NEW r \in Requests, Die(r) PROVE CalmInd'
    BY <2>17 DEF Die, Finish
  <2>18. ASSUME NEW r \in Requests, NEW m \in Messages, ReopenSelect(r, m) PROVE CalmInd'
    BY <2>18 DEF ReopenSelect
  <2>19. ASSUME NEW r \in Requests, NEW m \in Messages, NEW s \in AckStates, AckRead(r, m, s)
       PROVE  CalmInd'
    BY <2>19 DEF AckRead
  <2>20. ASSUME NEW r \in Requests, NEW shown \in SUBSET TacMail, CatchUpSelect(r, shown)
       PROVE  CalmInd'
    BY <2>20 DEF CatchUpSelect
  <2>. QED
    BY <2>1, <2>2, <2>3, <2>4, <2>5, <2>6, <2>7, <2>8, <2>9, <2>10, <2>11, <2>12,
       <2>13, <2>14, <2>15, <2>16, <2>17, <2>18, <2>19, <2>20
    DEF Next, Environment, Request, Pull, Reopen, Ack, CatchUp
<1>. QED
  BY <1>1, <1>2, <1>3, TypeCorrect, CalmIsSpec, PTL DEF CalmSpec, CalmStep

\* A catch-up selects mail of tacs only.
CatchUpsAreTac ==
  \A r \in Requests : \A m \in rows[r] : at[r] = "catchup" => m \in TacMail

\* Every step follows the contract, or is the write of an acknowledgement.
LEMMA KeptButForAcks ==
  ASSUME TypeOK, PoisonRule, CatchUpsAreTac, [Next]_vars
  PROVE  \/ \A m \in Messages : Contract!Stays(m) \/ Contract!Progress(m)
         \/ \E r \in Requests : AckWrite(r)
<1>. USE KindsAssumption, BoundsAssumption DEF TypeOK, States
<1>. DEFINE Kept == \/ \A m \in Messages : Contract!Stays(m) \/ Contract!Progress(m)
                    \/ \E r \in Requests : AckWrite(r)
<1>. USE DEF columns, threads, CatchUpsAreTac, PoisonRule, Contract!Next, Contract!Stays,
     Contract!Progress, Contract!Moves, Contract!Untried
<1>1. ASSUME NEW m \in Messages, Deposit(m) PROVE Kept
  BY <1>1 DEF Deposit, Contract!Stored
<1>2. ASSUME NEW m \in Messages, LeaseRunsOut(m) PROVE Kept
  BY <1>2 DEF LeaseRunsOut
<1>3. ASSUME NEW m \in Messages, Spoil(m) PROVE Kept
  BY <1>3 DEF Spoil
<1>4. CASE Remove
  BY <1>4 DEF Remove
<1>5. CASE Restore
  BY <1>5 DEF Restore
<1>6. ASSUME NEW r \in Requests, StartPull(r) PROVE Kept
  BY <1>6 DEF StartPull
<1>7. ASSUME NEW r \in Requests, PullCheck(r) PROVE Kept
  BY <1>7 DEF PullCheck, EmptyRound
<1>8. ASSUME NEW r \in Requests, PullRecover(r) PROVE Kept
  <2>. SUFFICES ASSUME NEW m \in Messages PROVE Contract!Stays(m) \/ Contract!Progress(m)
    OBVIOUS
  <2>1. attempts'[m] = attempts[m] /\ attempts[m] \in Nat
    BY <1>8 DEF PullRecover
  <2>2. CASE Poisoned(m)
    <3>1. state[m] = "CLAIMED" /\ attempts[m] = MaxAttempts
      <4>1. attempts[m] >= MaxAttempts /\ attempts[m] <= MaxAttempts
        BY <2>2 DEF Poisoned
      <4>2. state[m] # "ACCEPTED"
        BY <4>1, <2>1
      <4>. QED
        BY <2>1, <2>2, <4>1, <4>2 DEF Poisoned, Lapsed
    <3>2. state'[m] = "DEAD"
      BY <1>8, <2>2 DEF PullRecover
    <3>. QED
      BY <2>1, <3>1, <3>2 DEF Contract!GivenUp
  <2>3. CASE ~Poisoned(m) /\ Lapsed(m)
    <3>1. state'[m] = "ACCEPTED" /\ state[m] = "CLAIMED" /\ attempts[m] < MaxAttempts
      BY <1>8, <2>3 DEF PullRecover, Poisoned, Lapsed
    <3>. QED
      BY <2>1, <3>1 DEF Contract!GivenBack
  <2>4. CASE ~Poisoned(m) /\ ~Lapsed(m)
    BY <1>8, <2>1, <2>4 DEF PullRecover
  <2>. QED
    BY <2>2, <2>3, <2>4
<1>9. ASSUME NEW r \in Requests, PullSelect(r) PROVE Kept
  BY <1>9 DEF PullSelect, Page
<1>10. ASSUME NEW r \in Requests, PullClaim(r) PROVE Kept
  BY <1>10 DEF PullClaim, EmptyRound, Claim, StillAccepted, Won, Contract!Taken,
     Contract!SetAside
<1>11. ASSUME NEW r \in Requests, ReopenUnfit(r) PROVE Kept
  BY <1>11 DEF ReopenUnfit, StillAccepted, Contract!SetAside
<1>12. ASSUME NEW r \in Requests, ReopenClaims(r) PROVE Kept
  BY <1>12 DEF ReopenClaims, StillAccepted, Won, Claim, EnvelopeFit,
     Contract!Taken
<1>13. ASSUME NEW r \in Requests, ReopenAsIs(r) PROVE Kept
  BY <1>13 DEF ReopenAsIs, EnvelopeFit
<1>14. ASSUME NEW r \in Requests, AckWrite(r) PROVE Kept
  BY <1>14
<1>15. ASSUME NEW r \in Requests, CatchUpMark(r) PROVE Kept
  BY <1>15 DEF CatchUpMark, Unopened, Contract!Shown, Contract!CaughtUp
<1>16. ASSUME NEW r \in Requests, Reply(r) PROVE Kept
  BY <1>16 DEF Reply, Finish
<1>17. ASSUME NEW r \in Requests, Die(r) PROVE Kept
  BY <1>17 DEF Die, Finish
<1>18. ASSUME NEW r \in Requests, NEW m \in Messages, ReopenSelect(r, m) PROVE Kept
  BY <1>18 DEF ReopenSelect
<1>19. ASSUME NEW r \in Requests, NEW m \in Messages, NEW s \in AckStates, AckRead(r, m, s)
     PROVE  Kept
  BY <1>19 DEF AckRead
<1>20. ASSUME NEW r \in Requests, NEW shown \in SUBSET TacMail, CatchUpSelect(r, shown)
     PROVE  Kept
  BY <1>20 DEF CatchUpSelect
<1>21. CASE UNCHANGED vars
  BY <1>21 DEF vars
<1>. QED
  BY <1>1, <1>2, <1>3, <1>4, <1>5, <1>6, <1>7, <1>8, <1>9, <1>10, <1>11, <1>12,
     <1>13, <1>14, <1>15, <1>16, <1>17, <1>18, <1>19, <1>20, <1>21
  DEF Next, Environment, Request, Pull, Reopen, Ack, CatchUp

\* Every row follows the contract, in every step of every thread, as long as
\* acknowledgements are not overtaken: the ladder of bus_ack, the single way
\* back of claim_new, one attempt for each claim and DEAD after the last.
THEOREM ContractKept == CalmSpec => KeepsContract
<1>. USE KindsAssumption, BoundsAssumption, AckStatesAre DEF TypeOK, States
<1>1. Init => Contract!Init
  BY DEF Init, Contract!Init
<1>2. TypeOK /\ PoisonRule /\ CalmInd /\ [Next]_vars => [Contract!Next]_<<state, attempts>>
  <2>. SUFFICES ASSUME TypeOK, PoisonRule, CalmInd, [Next]_vars
                PROVE  Contract!Next
    OBVIOUS
  <2>1. CatchUpsAreTac
    BY DEF CatchUpsAreTac, CalmInd
  <2>2. ASSUME NEW r \in Requests, AckWrite(r) PROVE Contract!Next
    BY <2>2 DEF AckWrite, CalmInd, Contract!Next, Contract!Stays, Contract!Progress,
       Contract!Moves, Contract!Untried, Contract!Shown, Contract!Read, Contract!Processed
  <2>. QED
    BY <2>1, <2>2, KeptButForAcks DEF Contract!Next
<1>. QED
  BY <1>1, <1>2, TypeCorrect, PoisonRuleHolds, CalmHolds, CalmIsSpec, PTL
  DEF CalmSpec, Spec, KeepsContract, Contract!Spec

\* With acknowledgements that are not overtaken no delivery ever goes backwards, but
\* for the recovery of a lapsed claim.
THEOREM NeverBackwardsHolds == CalmSpec => NeverBackwards
<1>1. TypeOK /\ CalmInd /\ [Next]_vars => [\A m \in Messages : Forward(m)]_vars
  <2>. SUFFICES ASSUME TypeOK, CalmInd, Next, NEW r \in Requests, AckWrite(r),
                       NEW m \in Messages
                PROVE  Forward(m)
    BY StepsAreGood DEF GoodStep, StepClimbs
  <2>1. CASE m \in rows[r]
    <3>1. state'[m] = goal[r] /\ state[m] \in ALLOWED_DELIVERY_TRANSITIONS[goal[r]]
      BY <2>1 DEF AckWrite, CalmInd, TypeOK
    <3>2. goal[r] \in {"INJECTED", "READ", "PROCESSED"}
      BY AckStatesAre DEF TypeOK
    <3>. QED
      BY <3>1, <3>2 DEF Forward, Stage, ALLOWED_DELIVERY_TRANSITIONS
  <2>2. CASE m \notin rows[r]
    <3>1. state'[m] = state[m] /\ state[m] \in States
      BY <2>2 DEF AckWrite, TypeOK
    <3>. QED
      BY <3>1 DEF Forward, Stage, States
  <2>. QED
    BY <2>1, <2>2
<1>. QED
  BY <1>1, TypeCorrect, CalmHolds, CalmIsSpec, PTL DEF CalmSpec, Spec, NeverBackwards

-----------------------------------------------------------------------------
(* The contract with acknowledgements that are overtaken.  An INJECTED that *)
(* is on its way is for a delivery that was taken once; a READ or PROCESSED *)
(* that is on its way finds the delivery on one of the last three rungs,    *)
(* because nothing takes it off them.                                       *)

Rungs == {"INJECTED", "READ", "PROCESSED"}

ContestInd ==
  /\ \A m \in Messages :
       /\ state[m] = "NONE" => attempts[m] = 0
       /\ state[m] = "CLAIMED" => attempts[m] > 0
  /\ \A r \in Requests : \A m \in rows[r] :
       /\ at[r] = "ack" /\ goal[r] = "INJECTED" => attempts[m] > 0
       /\ at[r] = "ack" /\ goal[r] # "INJECTED" => state[m] \in Rungs
  /\ CatchUpsAreTac

LEMMA ContestHolds == Spec => []ContestInd
<1>. USE KindsAssumption, AckStatesAre DEF ContestInd, CatchUpsAreTac, Rungs, TypeOK, States
<1>1. Init => ContestInd
  BY DEF Init
<1>2. TypeOK /\ ContestInd /\ [Next]_vars => ContestInd'
  <2>. SUFFICES ASSUME TypeOK, ContestInd, [Next]_vars PROVE ContestInd'
    OBVIOUS
  <2>. USE DEF columns, threads
  <2>1. ASSUME NEW m \in Messages, Deposit(m) PROVE ContestInd'
    BY <2>1 DEF Deposit
  <2>2. ASSUME NEW m \in Messages, LeaseRunsOut(m) PROVE ContestInd'
    BY <2>2 DEF LeaseRunsOut
  <2>3. ASSUME NEW m \in Messages, Spoil(m) PROVE ContestInd'
    BY <2>3 DEF Spoil
  <2>4. CASE Remove
    BY <2>4 DEF Remove
  <2>5. CASE Restore
    BY <2>5 DEF Restore
  <2>6. ASSUME NEW r \in Requests, StartPull(r) PROVE ContestInd'
    BY <2>6 DEF StartPull
  <2>7. ASSUME NEW r \in Requests, PullCheck(r) PROVE ContestInd'
    BY <2>7 DEF PullCheck, EmptyRound
  <2>8. ASSUME NEW r \in Requests, PullRecover(r) PROVE ContestInd'
    BY <2>8 DEF PullRecover, Lapsed, Poisoned
  <2>9. ASSUME NEW r \in Requests, PullSelect(r) PROVE ContestInd'
    BY <2>9 DEF PullSelect, Page
  <2>10. ASSUME NEW r \in Requests, PullClaim(r) PROVE ContestInd'
    BY <2>10 DEF PullClaim, EmptyRound, Claim, StillAccepted, Won
  <2>11. ASSUME NEW r \in Requests, ReopenUnfit(r) PROVE ContestInd'
    BY <2>11 DEF ReopenUnfit, StillAccepted
  <2>12. ASSUME NEW r \in Requests, ReopenClaims(r) PROVE ContestInd'
    BY <2>12 DEF ReopenClaims, StillAccepted, Won, Claim, EnvelopeFit
  <2>13. ASSUME NEW r \in Requests, ReopenAsIs(r) PROVE ContestInd'
    BY <2>13 DEF ReopenAsIs, EnvelopeFit
  <2>14. ASSUME NEW r \in Requests, AckWrite(r) PROVE ContestInd'
    BY <2>14 DEF AckWrite
  <2>15. ASSUME NEW r \in Requests, CatchUpMark(r) PROVE ContestInd'
    BY <2>15 DEF CatchUpMark, Unopened
  <2>16. ASSUME NEW r \in Requests, Reply(r) PROVE ContestInd'
    BY <2>16 DEF Reply, Finish
  <2>17. ASSUME NEW r \in Requests, Die(r) PROVE ContestInd'
    BY <2>17 DEF Die, Finish
  <2>18. ASSUME NEW r \in Requests, NEW m \in Messages, ReopenSelect(r, m) PROVE ContestInd'
    BY <2>18 DEF ReopenSelect
  <2>19. ASSUME NEW r \in Requests, NEW m \in Messages, NEW s \in AckStates, AckRead(r, m, s)
       PROVE  ContestInd'
    BY <2>19 DEF AckRead
  <2>20. ASSUME NEW r \in Requests, NEW shown \in SUBSET TacMail, CatchUpSelect(r, shown)
       PROVE  ContestInd'
    BY <2>20 DEF CatchUpSelect
  <2>21. CASE UNCHANGED vars
    BY <2>21 DEF vars
  <2>. QED
    BY <2>1, <2>2, <2>3, <2>4, <2>5, <2>6, <2>7, <2>8, <2>9, <2>10, <2>11, <2>12,
       <2>13, <2>14, <2>15, <2>16, <2>17, <2>18, <2>19, <2>20, <2>21
    DEF Next, Environment, Request, Pull, Reopen, Ack, CatchUp
<1>. QED
  BY <1>1, <1>2, TypeCorrect, PTL DEF Spec

LEMMA ContestedStep ==
  ASSUME TypeOK, PoisonRule, ContestInd, [Next]_vars
  PROVE  Contract!Contested
<1>1. CatchUpsAreTac
  BY DEF ContestInd
<1>2. ASSUME NEW r \in Requests, AckWrite(r), NEW m \in Messages
      PROVE  Contract!Stays(m) \/ Contract!Progress(m) \/ Contract!Overtaken(m)
  <2>1. attempts'[m] = attempts[m] /\ state[m] \in States
    BY <1>2 DEF AckWrite, TypeOK
  <2>2. CASE m \notin rows[r]
    BY <1>2, <2>1, <2>2 DEF AckWrite, TypeOK, Contract!Stays, Contract!Untried
  <2>3. CASE m \in rows[r]
    <3>1. state'[m] = goal[r] /\ at[r] = "ack"
      BY <1>2, <2>3 DEF AckWrite
    <3>2. goal[r] \in Rungs
      BY AckStatesAre DEF TypeOK, Rungs
    <3>3. CASE goal[r] = "INJECTED"
      <4>1. attempts[m] > 0 /\ state[m] # "NONE"
        BY <2>3, <3>1, <3>3 DEF ContestInd, TypeOK
      <4>. QED
        BY <2>1, <3>1, <3>3, <4>1 DEF States, Contract!Stays, Contract!Progress,
           Contract!Shown, Contract!Overtaken, Contract!Moves, Contract!Untried
    <3>4. CASE goal[r] # "INJECTED"
      <4>1. state[m] \in Rungs
        BY <2>3, <3>1, <3>4 DEF ContestInd
      <4>. QED
        BY <2>1, <3>1, <3>2, <3>4, <4>1 DEF Rungs, Contract!Stays, Contract!Progress,
           Contract!Read, Contract!Processed, Contract!Overtaken, Contract!Moves,
           Contract!Untried
    <3>. QED
      BY <3>3, <3>4
  <2>. QED
    BY <2>2, <2>3
<1>. QED
  BY <1>1, <1>2, KeptButForAcks DEF Contract!Contested

\* However requests overlap, every delivery follows the contract but for what an
\* overtaken acknowledgement can do to it.
THEOREM ContestedKept == Spec => KeepsContested
<1>1. Init => Contract!Init
  BY DEF Init, Contract!Init
<1>2. TypeOK /\ PoisonRule /\ ContestInd /\ [Next]_vars =>
        [Contract!Contested]_<<state, attempts>>
  BY ContestedStep
<1>. QED
  BY <1>1, <1>2, TypeCorrect, PoisonRuleHolds, ContestHolds, PTL
  DEF Spec, KeepsContested, Contract!ContestedSpec

\* A step of the contract, contested or not, as others see the delivery.
LEMMA ContestedSeen ==
  ASSUME NEW m \in Messages,
         Contract!Stays(m) \/ Contract!Progress(m) \/ Contract!Overtaken(m)
  PROVE  /\ \/ ForGates(m)' = ForGates(m)
            \/ ForGates(m) = "none" /\ ForGates(m)' = "unread"
            \/ ForGates(m) = "unread" /\ ForGates(m)' = "opened"
         /\ \/ ForBell(m)' = ForBell(m)
            \/ ForBell(m) = "none" /\ ForBell(m)' = "unread"
            \/ ForBell(m) = "unread" /\ ForBell(m)' = "done"
            \/ ForBell(m) = "done" /\ ForBell(m)' = "unread" /\ attempts[m] > 0
<1>. USE DEF ForGates, ForBell, Unopened, UNREAD_STATES, Contract!Moves, Contract!Untried
<1>1. CASE Contract!Stays(m)
  BY <1>1 DEF Contract!Stays
<1>2. CASE Contract!Progress(m)
  BY <1>2 DEF Contract!Progress, Contract!Stored, Contract!Taken, Contract!GivenBack,
     Contract!GivenUp, Contract!SetAside, Contract!Shown, Contract!CaughtUp, Contract!Read,
     Contract!Processed
<1>3. CASE Contract!Overtaken(m)
  BY <1>3 DEF Contract!Overtaken
<1>. QED
  BY <1>1, <1>2, <1>3

\* A message that has left the states the gates of a send count is not counted again,
\* although acknowledgements overtake each other.
THEOREM GatesOpenForGoodHolds == Spec => GatesOpenForGood
<1>. DEFINE Seen(m) == \/ ForGates(m)' = ForGates(m)
                       \/ ForGates(m) = "none" /\ ForGates(m)' = "unread"
                       \/ ForGates(m) = "unread" /\ ForGates(m)' = "opened"
<1>1. TypeOK /\ PoisonRule /\ ContestInd /\ [Next]_vars => [\A m \in Messages : Seen(m)]_vars
  BY ContestedStep, ContestedSeen DEF ContestInd, Contract!Contested
<1>. QED
  BY <1>1, TypeCorrect, PoisonRuleHolds, ContestHolds, PTL DEF Spec, GatesOpenForGood

\* What comes back to the doorbell after it was settled has been taken by a reader.
THEOREM ComesBackTakenHolds == Spec => ComesBackTaken
<1>. DEFINE Seen(m) == \/ ForBell(m)' = ForBell(m)
                       \/ ForBell(m) = "none" /\ ForBell(m)' = "unread"
                       \/ ForBell(m) = "unread" /\ ForBell(m)' = "done"
                       \/ ForBell(m) = "done" /\ ForBell(m)' = "unread" /\ attempts[m] > 0
<1>1. TypeOK /\ PoisonRule /\ ContestInd /\ [Next]_vars => [\A m \in Messages : Seen(m)]_vars
  BY ContestedStep, ContestedSeen DEF ContestInd, Contract!Contested
<1>. QED
  BY <1>1, TypeCorrect, PoisonRuleHolds, ContestHolds, PTL DEF Spec, ComesBackTaken
=============================================================================
