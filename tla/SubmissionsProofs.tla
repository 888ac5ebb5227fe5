------------------------- MODULE SubmissionsProofs -------------------------
(***************************************************************************)
(* What Submissions keeps for every number of cards, executors, sweeps and *)
(* faults.                                                                 *)
(***************************************************************************)
EXTENDS Submissions, TLAPS

Steps == Free \cup Holding

(***************************************************************************)
(* Type correctness, in the four parts an action leaves alone or changes.  *)
(***************************************************************************)
ProcOK ==
    /\ pc \in [Executors -> Steps]
    /\ goal \in [Executors -> Goals]
    /\ on \in [Executors -> Cards]

CardOK ==
    /\ kind \in [Cards -> {"email_send", "email", "site", "letter"}]
    /\ status \in [Cards -> {"absent", "pending", "approved", "rejected", "deleted"}]
    /\ age \in [Cards -> 0..2]
    /\ stamp \in [Cards -> {"none", "claimed", "completed"}]
    /\ \A c \in Cards : stamp[c] # "none" => status[c] = "approved"

AppOK ==
    /\ stage \in {"draft", "submitted", "later", "rejected"}
    /\ truth \in BOOLEAN /\ manual \in Reasons
    /\ siteSubmittedAt \in BOOLEAN /\ transmittedAt \in BOOLEAN

WorldOK ==
    /\ mailed \in [Cards -> 0..MaxSends] /\ clicked \in [Cards -> 0..MaxSends]
    /\ receipt \in BOOLEAN
    /\ faults \in 0..MaxFaults
    /\ interrupted \subseteq Cards
    /\ reopened \subseteq Cards
    /\ unmarked \in BOOLEAN

LEMMA TypeParts == TypeOK <=> CardOK /\ AppOK /\ ProcOK /\ WorldOK
  BY DEF TypeOK, CardOK, AppOK, ProcOK, WorldOK, Steps

LEMMA FirstCard == 1 \in Cards
  BY CardAssumption DEF Cards

\* A handler that goes on, or returns, keeps its program counter in its type.
LEMMA GoKeepsProc ==
    ASSUME ProcOK, NEW p \in Executors, NEW step \in Steps, Go(p, step)
    PROVE  ProcOK'
  BY FirstCard DEF ProcOK, Go, Goals

LEMMA BeginKeepsProc ==
    ASSUME ProcOK, NEW p \in Executors, NEW g \in Goals, NEW c \in Cards, NEW step \in Steps,
           Begin(p, g, c, step)
    PROVE  ProcOK'
  BY DEF ProcOK, Begin

\* Which step follows which.
LEMMA NextSteps ==
    /\ \A p \in Executors : AfterDecision(p) \in Steps /\ AfterMark(p) \in Steps
    /\ \A step \in Releasing : AfterRelease(step) \in Steps
    /\ \A step \in Claiming : AfterClaim(step) \in Steps
  BY DEF AfterDecision, AfterMark, AfterRelease, AfterClaim, Steps, Free, Holding, Claiming,
         Releasing, Sending, Marking

AllKinds == {"email_send", "email", "site", "letter"}

LEMMA CreateKeepsCards ==
    ASSUME CardOK, NEW c \in Cards, NEW k \in AllKinds, Create(c, k)
    PROVE  CardOK'
<1>1. CASE Insert(c, k)
  <2>1. stamp[c] = "none"
    BY <1>1 DEF CardOK, Insert
  <2> QED
    BY <1>1, <2>1 DEF CardOK, Insert, AllKinds
<1>2. CASE Refresh(c, k)
  BY <1>2 DEF CardOK, Refresh, cardVars
<1> QED
  BY <1>1, <1>2 DEF Create

LEMMA CreateKinds == Kinds \subseteq AllKinds /\ "email" \in AllKinds
  BY CardAssumption DEF AllKinds

LEMMA ProcInductive == TypeOK /\ [Next]_vars => ProcOK'
<1> SUFFICES ASSUME TypeOK, [Next]_vars PROVE ProcOK'
  OBVIOUS
<1> USE DEF Steps, Free, Holding, Sending, Recording, HeldManual, Releasing, Claiming, Marking
<1>0. ProcOK
  BY TypeParts
<1>1. ASSUME UNCHANGED procVars PROVE ProcOK'
  BY <1>0, <1>1 DEF ProcOK, procVars
<1>2. ASSUME NEW p \in Executors, NEW step \in Steps, Go(p, step) PROVE ProcOK'
  BY <1>0, <1>2, GoKeepsProc
<1>3. ASSUME NEW p \in Executors, NEW g \in Goals, NEW c \in Cards, NEW step \in Steps,
             Begin(p, g, c, step)
      PROVE ProcOK'
  BY <1>0, <1>3, BeginKeepsProc
<1>4. ASSUME NEW p \in Executors, Step(p) PROVE ProcOK'
  <2>1. CASE Decide(p)
    BY <2>1, <1>2, NextSteps DEF Decide, Promotion
  <2>2. CASE Mark(p)
    BY <2>2, <1>2, NextSteps DEF Mark
  <2>3. CASE Rearm(p)
    BY <2>3, <1>2, NextSteps DEF Rearm
  <2>4. CASE Move(p)
    BY <2>4, <1>2, NextSteps DEF Move
  <2>5. CASE Queue(p)
    <3>1. CASE Go(p, "idle")
      BY <3>1, <1>2
    <3>2. CASE ~Go(p, "idle")
      BY <1>0, <2>5, <3>2 DEF Queue, ProcOK
    <3> QED
      BY <3>1, <3>2
  <2>6. CASE Judge(p)
    BY <2>6, <1>2, NextSteps DEF Judge
  <2>7. CASE Load(p)
    BY <2>7, <1>2, NextSteps DEF Load
  <2>8. CASE Claim(p)
    BY <2>8, <1>2, NextSteps DEF Claim
  <2>9. CASE MailRefused(p)
    BY <2>9, <1>2, NextSteps DEF MailRefused
  <2>10. CASE MailSent(p)
    BY <2>10, <1>2, NextSteps DEF MailSent
  <2>11. CASE ClickRefused(p)
    BY <2>11, <1>2, NextSteps DEF ClickRefused
  <2>12. CASE Click(p)
    BY <2>12, <1>2, NextSteps DEF Click
  <2>13. CASE Classify(p)
    BY <2>13, <1>2, NextSteps DEF Classify
  <2>14. CASE Poll(p)
    BY <2>14, <1>2, NextSteps DEF Poll
  <2>15. CASE RecordMail(p)
    BY <2>15, <1>2, NextSteps DEF RecordMail
  <2>16. CASE RecordSite(p)
    BY <2>16, <1>2, NextSteps DEF RecordSite
  <2>17. CASE Complete(p)
    BY <2>17, <1>2, NextSteps DEF Complete
  <2>18. CASE RecordManual(p)
    BY <2>18, <1>2, NextSteps DEF RecordManual
  <2>19. CASE RecordPending(p)
    BY <2>19, <1>2, NextSteps DEF RecordPending
  <2>20. CASE Release(p)
    BY <2>20, <1>2, NextSteps DEF Release
  <2> QED
    BY <1>4, <2>1, <2>2, <2>3, <2>4, <2>5, <2>6, <2>7, <2>8, <2>9, <2>10, <2>11, <2>12, <2>13,
       <2>14, <2>15, <2>16, <2>17, <2>18, <2>19, <2>20 DEF Step
<1>5. ASSUME NEW p \in Executors, Fails(p) PROVE ProcOK'
  <2>1. CASE MailReplyLost(p)
    BY <2>1, <1>2, NextSteps DEF MailReplyLost
  <2>2. CASE DocumentFails(p)
    BY <2>2, <1>2, NextSteps DEF DocumentFails
  <2>3. CASE BrowserLost(p)
    BY <2>3, <1>2, NextSteps DEF BrowserLost
  <2>4. CASE PollFails(p)
    BY <2>4, <1>2, NextSteps DEF PollFails
  <2>5. CASE WriteFails(p)
    BY <2>5, <1>2, NextSteps DEF WriteFails
  <2>6. CASE MarkFails(p)
    BY <2>6, <1>2, NextSteps DEF MarkFails
  <2>7. CASE Dies(p)
    BY <2>7, <1>2, NextSteps DEF Dies
  <2> QED
    BY <1>5, <2>1, <2>2, <2>3, <2>4, <2>5, <2>6, <2>7 DEF Fails
<1>6. ASSUME NEW p \in Requests, Handle(p) PROVE ProcOK'
  BY <1>3, <1>6, FirstCard DEF Handle, Apply, RecordSubmission, ReadToMove, ReadToDecide,
     Reconfirm, Digest, Execute,
     RequestSubmission, AgentGrants, Goals, Executors
<1>7. ASSUME NEW p \in Sweepers, NEW c \in Cards, SweepSelect(p, c) PROVE ProcOK'
  BY <1>3, <1>7 DEF SweepSelect, Goals, Executors
<1>8. CASE World \/ Resting \/ UNCHANGED vars
  BY <1>1, <1>8 DEF World, Elapse, Delete, Raise, Answer, ReceiptArrives, InterviewInvite,
     Resting, vars, procVars
<1> QED
  BY <1>4, <1>5, <1>6, <1>7, <1>8 DEF Next

LEMMA CardInductive == TypeOK /\ [Next]_vars => CardOK'
<1> SUFFICES ASSUME TypeOK, [Next]_vars PROVE CardOK'
  OBVIOUS
<1>0. CardOK /\ AppOK /\ ProcOK /\ WorldOK
  BY TypeParts
<1>1. ASSUME UNCHANGED cardVars PROVE CardOK'
  BY <1>0, <1>1 DEF CardOK, cardVars
<1>4. ASSUME NEW p \in Executors, Step(p) PROVE CardOK'
  <2>1. CASE Decide(p)
    BY <1>0, <2>1 DEF CardOK, Decide, ProcOK, Resolve, cardVars
  <2>2. CASE Queue(p)
    BY <1>0, <2>2, CreateKeepsCards, CreateKinds DEF CardOK, Queue, cardVars
  <2>3. CASE Claim(p)
    BY <1>0, <2>3 DEF CardOK, Claim, ProcOK, ClaimExecution
  <2>4. CASE Complete(p)
    BY <1>0, <2>4 DEF CardOK, Complete, ProcOK
  <2>5. CASE Release(p)
    BY <1>0, <2>5 DEF CardOK, Release, ProcOK
  <2>6. CASE Mark(p) \/ Rearm(p) \/ Move(p) \/ Judge(p) \/ Load(p) \/ MailRefused(p)
             \/ MailSent(p) \/ ClickRefused(p) \/ Click(p) \/ Classify(p) \/ Poll(p)
             \/ RecordMail(p) \/ RecordSite(p) \/ RecordManual(p) \/ RecordPending(p)
    BY <1>1, <2>6 DEF Mark, Rearm, Move, Judge, Load, MailRefused, MailSent, ClickRefused,
       Click, Classify, Poll, RecordMail, RecordSite, RecordManual, RecordPending, cardVars
  <2> QED
    BY <1>4, <2>1, <2>2, <2>3, <2>4, <2>5, <2>6 DEF Step
<1>5. ASSUME NEW p \in Executors, Fails(p) PROVE CardOK'
  <2>1. CASE MailReplyLost(p) \/ DocumentFails(p) \/ BrowserLost(p) \/ PollFails(p)
             \/ WriteFails(p) \/ MarkFails(p) \/ Dies(p)
    BY <1>1, <2>1 DEF MailReplyLost, DocumentFails, BrowserLost, PollFails, WriteFails,
       MarkFails, Dies, cardVars
  <2> QED
    BY <1>5, <2>1 DEF Fails
<1>6. ASSUME NEW p \in Requests, Handle(p) PROVE CardOK'
  BY <1>0, <1>1, <1>6, CreateKeepsCards, CreateKinds DEF Handle, Apply, RecordSubmission,
     ReadToMove, ReadToDecide,
     Reconfirm, Digest, Execute, RequestSubmission, AgentGrants, CardOK, AllKinds
<1>7. ASSUME NEW p \in Sweepers, NEW c \in Cards, SweepSelect(p, c) PROVE CardOK'
  BY <1>1, <1>7 DEF SweepSelect
<1>8. ASSUME NEW c \in Cards, Elapse(c) PROVE CardOK'
  BY <1>0, <1>8 DEF Elapse, CardOK
<1>9. ASSUME NEW c \in Cards, Delete(c) PROVE CardOK'
  BY <1>0, <1>9 DEF Delete, CardOK
<1>10. ASSUME NEW c \in Cards, NEW k \in Kinds, Raise(c, k) PROVE CardOK'
  BY <1>0, <1>10, CreateKeepsCards, CreateKinds DEF Raise, Create
<1>11. CASE Answer \/ ReceiptArrives \/ InterviewInvite \/ Resting \/ UNCHANGED vars
  BY <1>1, <1>11 DEF Answer, ReceiptArrives, InterviewInvite, Resting, vars, cardVars
<1> QED
  BY <1>4, <1>5, <1>6, <1>7, <1>8, <1>9, <1>10, <1>11 DEF Next, World

LEMMA AppInductive == TypeOK /\ [Next]_vars => AppOK'
<1> SUFFICES ASSUME TypeOK, [Next]_vars PROVE AppOK'
  OBVIOUS
<1>0. CardOK /\ AppOK /\ ProcOK /\ WorldOK
  BY TypeParts
<1>1. ASSUME UNCHANGED appVars PROVE AppOK'
  BY <1>0, <1>1 DEF AppOK, appVars
<1>4. ASSUME NEW p \in Executors, Step(p) PROVE AppOK'
  <2>1. CASE Decide(p)
    BY <1>0, <2>1 DEF AppOK, Decide, Promotion
  <2>2. CASE Mark(p)
    BY <1>0, <2>2 DEF AppOK, Mark, MarksUnsent
  <2>3. CASE Rearm(p)
    BY <1>0, <2>3 DEF AppOK, Rearm, Reasons
  <2>4. CASE Move(p)
    BY <1>0, <2>4, ColumnAssumption DEF AppOK, Move
  <2>5. CASE Judge(p)
    BY <1>0, <2>5 DEF AppOK, Judge, Reasons
  <2>6. CASE RecordMail(p)
    BY <1>0, <2>6 DEF AppOK, RecordMail, Transmitted
  <2>7. CASE RecordSite(p)
    BY <1>0, <2>7 DEF AppOK, RecordSite, Transmitted, Reasons
  <2>8. CASE RecordManual(p)
    BY <1>0, <2>8 DEF AppOK, RecordManual, Reasons
  <2>9. CASE RecordPending(p)
    BY <1>0, <2>9 DEF AppOK, RecordPending, Reasons
  <2>10. CASE Queue(p) \/ Load(p) \/ Claim(p) \/ MailRefused(p) \/ MailSent(p)
              \/ ClickRefused(p) \/ Click(p) \/ Classify(p) \/ Poll(p) \/ Complete(p)
              \/ Release(p)
    BY <1>1, <2>10 DEF Queue, Load, Claim, MailRefused, MailSent, ClickRefused, Click,
       Classify, Poll, Complete, Release, appVars
  <2> QED
    BY <1>4, <2>1, <2>2, <2>3, <2>4, <2>5, <2>6, <2>7, <2>8, <2>9, <2>10 DEF Step
<1>5. ASSUME NEW p \in Executors, Fails(p) PROVE AppOK'
  <2>1. CASE MailReplyLost(p) \/ DocumentFails(p) \/ BrowserLost(p) \/ PollFails(p)
             \/ WriteFails(p) \/ MarkFails(p) \/ Dies(p)
    BY <1>1, <2>1 DEF MailReplyLost, DocumentFails, BrowserLost, PollFails, WriteFails,
       MarkFails, Dies, appVars
  <2> QED
    BY <1>5, <2>1 DEF Fails
<1>6. ASSUME NEW p \in Requests, Handle(p) PROVE AppOK'
  BY <1>0, <1>1, <1>6 DEF Handle, Apply, RecordSubmission, ReadToMove, ReadToDecide,
     Reconfirm, Digest, Execute, RequestSubmission, AgentGrants, AppOK, appVars
<1>7. ASSUME NEW p \in Sweepers, NEW c \in Cards, SweepSelect(p, c) PROVE AppOK'
  BY <1>1, <1>7 DEF SweepSelect
<1>8. CASE World \/ Resting \/ UNCHANGED vars
  BY <1>0, <1>8 DEF World, Elapse, Delete, Raise, Answer, ReceiptArrives, InterviewInvite,
     Resting, vars, appVars, AppOK, Reasons
<1> QED
  BY <1>4, <1>5, <1>6, <1>7, <1>8 DEF Next

LEMMA WorldInductive == TypeOK /\ [Next]_vars => WorldOK'
<1> SUFFICES ASSUME TypeOK, [Next]_vars PROVE WorldOK'
  OBVIOUS
<1>0. CardOK /\ AppOK /\ ProcOK /\ WorldOK
  BY TypeParts
<1>1. ASSUME UNCHANGED <<worldVars, faults, histVars>> PROVE WorldOK'
  BY <1>0, <1>1 DEF WorldOK, worldVars, histVars
<1>4. ASSUME NEW p \in Executors, Step(p) PROVE WorldOK'
  <2>1. CASE Move(p)
    BY <1>0, <2>1 DEF WorldOK, Move, worldVars
  <2>2. CASE MailSent(p)
    BY <1>0, <2>2, BoundAssumption DEF WorldOK, MailSent, Mailed, ProcOK, histVars
  <2>3. CASE Click(p)
    BY <1>0, <2>3, BoundAssumption DEF WorldOK, Click, ProcOK, histVars
  <2>4. CASE Decide(p) \/ Mark(p) \/ Rearm(p) \/ Queue(p) \/ Judge(p) \/ Load(p)
             \/ Claim(p) \/ MailRefused(p) \/ ClickRefused(p) \/ Classify(p) \/ Poll(p)
             \/ RecordMail(p) \/ RecordSite(p) \/ Complete(p) \/ RecordManual(p)
             \/ RecordPending(p) \/ Release(p)
    BY <1>1, <2>4 DEF Decide, Mark, Rearm, Queue, Judge, Load, Claim, MailRefused,
       ClickRefused, Classify, Poll, RecordMail, RecordSite, Complete, RecordManual,
       RecordPending, Release, worldVars, histVars
  <2> QED
    BY <1>4, <2>1, <2>2, <2>3, <2>4 DEF Step
<1>5. ASSUME NEW p \in Executors, Fails(p) PROVE WorldOK'
  <2>1. CASE MailReplyLost(p)
    BY <1>0, <2>1, BoundAssumption DEF WorldOK, MailReplyLost, Mailed, Reopen, Fault, ProcOK
  <2>2. CASE DocumentFails(p)
    BY <1>0, <2>2, BoundAssumption DEF WorldOK, DocumentFails, Fault, ProcOK, worldVars
  <2>3. CASE BrowserLost(p)
    BY <1>0, <2>3, BoundAssumption DEF WorldOK, BrowserLost, Fault, worldVars, histVars
  <2>4. CASE PollFails(p)
    BY <1>0, <2>4, BoundAssumption DEF WorldOK, PollFails, Fault, ProcOK, worldVars
  <2>5. CASE WriteFails(p)
    BY <1>0, <2>5, BoundAssumption DEF WorldOK, WriteFails, Fault, Reopen, ProcOK, worldVars
  <2>6. CASE MarkFails(p)
    BY <1>0, <2>6, BoundAssumption DEF WorldOK, MarkFails, Fault, worldVars
  <2>7. CASE Dies(p)
    BY <1>0, <2>7, BoundAssumption DEF WorldOK, Dies, Fault, ProcOK, worldVars
  <2> QED
    BY <1>5, <2>1, <2>2, <2>3, <2>4, <2>5, <2>6, <2>7 DEF Fails
<1>6. ASSUME NEW p \in Requests, Handle(p) PROVE WorldOK'
  BY <1>1, <1>6 DEF Handle, Apply, RecordSubmission, ReadToMove, ReadToDecide, Reconfirm,
     Digest, Execute,
     RequestSubmission, AgentGrants
<1>7. ASSUME NEW p \in Sweepers, NEW c \in Cards, SweepSelect(p, c) PROVE WorldOK'
  BY <1>1, <1>7 DEF SweepSelect
<1>8. CASE World \/ Resting \/ UNCHANGED vars
  BY <1>0, <1>8 DEF World, Elapse, Delete, Raise, Answer, ReceiptArrives, InterviewInvite,
     Resting, vars,
     worldVars, histVars, WorldOK
<1> QED
  BY <1>4, <1>5, <1>6, <1>7, <1>8 DEF Next

LEMMA TypeInductive == TypeOK /\ [Next]_vars => TypeOK'
  BY CardInductive, AppInductive, ProcInductive, WorldInductive, TypeParts, PTL

\* Every reachable state is well typed, and only an approved row carries an executedAt.
THEOREM TypeCorrect == Spec => []TypeOK
<1>1. ASSUME Init PROVE TypeOK
  <2>1. CardOK
    <3>1. kind \in [Cards -> {"email_send", "email", "site", "letter"}]
      BY <1>1 DEF Init
    <3>2. status \in [Cards -> {"absent", "pending", "approved", "rejected", "deleted"}]
      BY <1>1 DEF Init
    <3>3. age \in [Cards -> 0..2] /\ stamp \in [Cards -> {"none", "claimed", "completed"}]
      BY <1>1 DEF Init
    <3>4. \A c \in Cards : stamp[c] = "none"
      BY <1>1 DEF Init
    <3> QED
      BY <3>1, <3>2, <3>3, <3>4 DEF CardOK
  <2>4. AppOK
    BY <1>1 DEF Init, AppOK, Reasons
  <2>2. ProcOK
    BY <1>1, FirstCard DEF Init, ProcOK, Goals, Steps, Free
  <2>3. WorldOK
    <3>1. mailed \in [Cards -> 0..MaxSends] /\ clicked \in [Cards -> 0..MaxSends]
      BY <1>1, BoundAssumption DEF Init
    <3>2. faults \in 0..MaxFaults
      BY <1>1, BoundAssumption DEF Init
    <3> QED
      BY <1>1, <3>1, <3>2 DEF Init, WorldOK
  <2> QED
    BY <2>1, <2>2, <2>3, <2>4, TypeParts
<1> QED
  BY <1>1, TypeInductive, PTL DEF Spec

(***************************************************************************)
(* Claims.  A claim belongs to the one executor that holds it, until that  *)
(* executor completes, releases or abandons it.                            *)
(***************************************************************************)
HoldersClaimed ==
    \A p \in Executors, c \in Cards : Holds(p, c) => status[c] = "deleted" \/ stamp[c] = "claimed"

ClaimInv == OneExecutor /\ InterruptedStaysClaimed /\ HoldersClaimed

\* No executor gains a card.
NoNewHolder == \A q \in Executors, c \in Cards : Holds(q, c)' => Holds(q, c)

LEMMA GoGainsNothing ==
    ASSUME ProcOK, NEW p \in Executors, NEW step, Go(p, step),
           step \in Free \/ pc[p] \in Holding
    PROVE  NoNewHolder
<1>1. "idle" \notin Holding /\ Free \cap Holding = {}
  BY DEF Free, Holding, Sending, Recording, HeldManual, Releasing, Claiming, Marking
<1> QED
  BY <1>1 DEF ProcOK, Go, NoNewHolder, Holds

LEMMA BeginGainsNothing ==
    ASSUME ProcOK, NEW p \in Executors, NEW g, NEW c, NEW step \in Free, Begin(p, g, c, step)
    PROVE  NoNewHolder
<1>1. Free \cap Holding = {}
  BY DEF Free, Holding, Sending, Recording, HeldManual, Releasing, Claiming, Marking
<1> QED
  BY <1>1 DEF ProcOK, Begin, NoNewHolder, Holds

\* What becomes of the cards while nobody gains one.
LEMMA ClaimFrame ==
    ASSUME ClaimInv, NoNewHolder, UNCHANGED interrupted, TypeOK,
           \A c \in Cards : /\ status[c] = "deleted" => status'[c] = "deleted"
                            /\ stamp[c] = "claimed" => stamp'[c] = "claimed" \/ status'[c] = "deleted"
    PROVE  ClaimInv'
<1>1. OneExecutor'
  BY DEF ClaimInv, OneExecutor, NoNewHolder
<1>2. InterruptedStaysClaimed'
  BY DEF ClaimInv, InterruptedStaysClaimed, NoNewHolder, TypeOK
<1>3. HoldersClaimed'
  BY DEF ClaimInv, HoldersClaimed, NoNewHolder
<1> QED
  BY <1>1, <1>2, <1>3 DEF ClaimInv

\* An executor that abandons its claim leaves it behind.
LEMMA Abandon ==
    ASSUME TypeOK, ClaimInv, NEW p \in Executors, pc[p] \in Holding, Go(p, "idle"),
           interrupted' = interrupted \cup {on[p]}, UNCHANGED <<status, stamp>>
    PROVE  ClaimInv'
<1>1. ProcOK
  BY TypeParts
<1>2. NoNewHolder
  BY <1>1, GoGainsNothing DEF Free
<1>3. \A c \in Cards : ~Holds(p, c)'
  <2>1. "idle" \notin Holding
    BY DEF Holding, Sending, Recording, HeldManual, Releasing
  <2> QED
    BY <1>1, <2>1 DEF Go, ProcOK, Holds
<1>4. OneExecutor'
  BY <1>2 DEF ClaimInv, OneExecutor, NoNewHolder
<1>5. HoldersClaimed'
  BY <1>2 DEF ClaimInv, HoldersClaimed, NoNewHolder
<1>6. InterruptedStaysClaimed'
  <2>1. PICK c \in Cards : c = on[p]
    BY <1>1 DEF ProcOK
  <2>2. Holds(p, c) /\ (status[c] = "deleted" \/ stamp[c] = "claimed")
    BY <2>1 DEF ClaimInv, HoldersClaimed, Holds
  <2>3. \A q \in Executors : ~Holds(q, c)'
    BY <1>2, <1>3, <2>2 DEF ClaimInv, OneExecutor, NoNewHolder
  <2> QED
    BY <1>2, <2>1, <2>2, <2>3 DEF ClaimInv, InterruptedStaysClaimed, NoNewHolder, TypeOK
<1> QED
  BY <1>4, <1>5, <1>6 DEF ClaimInv

\* The winner of a claim is alone with the card.
LEMMA ClaimKeeps ==
    ASSUME TypeOK, ClaimInv, NEW p \in Executors, Claim(p)
    PROVE  ClaimInv'
<1>0. ProcOK /\ on[p] \in Cards
  BY TypeParts DEF ProcOK
<1>1. CASE Go(p, "idle") /\ UNCHANGED stamp
  <2>1. NoNewHolder
    BY <1>0, <1>1, GoGainsNothing DEF Free
  <2> QED
    BY <1>1, <2>1, ClaimFrame DEF Claim, histVars
<1>2. CASE ClaimExecution(on[p]) /\ Go(p, AfterClaim(pc[p]))
  <2> DEFINE c == on[p]
  <2>1. status[c] = "approved" /\ stamp[c] = "none" /\ status' = status /\ interrupted' = interrupted
    BY <1>2 DEF ClaimExecution, Claim, histVars
  <2>2. stamp' = [stamp EXCEPT ![c] = "claimed"]
    BY <1>2 DEF ClaimExecution
  <2>3. \A q \in Executors : ~Holds(q, c)
    BY <1>0, <2>1 DEF ClaimInv, HoldersClaimed
  <2>4. c \notin interrupted
    BY <1>0, <2>1 DEF ClaimInv, InterruptedStaysClaimed
  <2>5. \A q \in Executors, d \in Cards : Holds(q, d)' => (q = p /\ d = c) \/ (Holds(q, d) /\ d # c)
    <3>1. AfterClaim(pc[p]) # "idle"
      BY DEF AfterClaim
    <3>2. on' = on /\ pc' = [pc EXCEPT ![p] = AfterClaim(pc[p])]
      BY <1>0, <1>2, <3>1 DEF Go, ProcOK
    <3> QED
      BY <1>0, <2>3, <3>2 DEF Holds, ProcOK
  <2>6. OneExecutor'
    BY <2>5 DEF ClaimInv, OneExecutor
  <2>7. HoldersClaimed'
    BY <1>0, <2>1, <2>2, <2>5 DEF ClaimInv, HoldersClaimed, TypeOK
  <2>8. InterruptedStaysClaimed'
    BY <1>0, <2>1, <2>2, <2>4, <2>5 DEF ClaimInv, InterruptedStaysClaimed, TypeOK
  <2> QED
    BY <2>6, <2>7, <2>8 DEF ClaimInv
<1> QED
  BY <1>1, <1>2 DEF Claim

\* The executor that completes or releases is the only holder, and holds no more.
LEMMA GivenBack ==
    ASSUME TypeOK, ClaimInv, NEW p \in Executors, pc[p] \in Holding, NEW step \in Free, Go(p,
           step),
           NEW s, stamp' = [stamp EXCEPT ![on[p]] = s], UNCHANGED <<status, interrupted>>
    PROVE  ClaimInv'
<1>0. ProcOK
  BY TypeParts
<1>c. PICK c \in Cards : c = on[p]
  BY <1>0 DEF ProcOK
<1>1. NoNewHolder
  BY <1>0, GoGainsNothing
<1>2. Holds(p, c) /\ c \notin interrupted
  BY <1>c DEF ClaimInv, InterruptedStaysClaimed, Holds
<1>3. \A q \in Executors : ~Holds(q, c)'
  <2>1. step \notin Holding
    BY DEF Free, Holding, Sending, Recording, HeldManual, Releasing, Claiming, Marking
  <2>2. ~Holds(p, c)'
    BY <1>0, <2>1 DEF Go, ProcOK, Holds
  <2> QED
    BY <1>1, <1>2, <2>2 DEF ClaimInv, OneExecutor, NoNewHolder
<1>4. OneExecutor'
  BY <1>1 DEF ClaimInv, OneExecutor, NoNewHolder
<1>5. HoldersClaimed'
  BY <1>c, <1>1, <1>3 DEF ClaimInv, HoldersClaimed, NoNewHolder, TypeOK
<1>6. InterruptedStaysClaimed'
  BY <1>c, <1>1, <1>2 DEF ClaimInv, InterruptedStaysClaimed, NoNewHolder, TypeOK
<1> QED
  BY <1>4, <1>5, <1>6 DEF ClaimInv

LEMMA ClaimInductive == TypeOK /\ ClaimInv /\ [Next]_vars => ClaimInv'
<1> SUFFICES ASSUME TypeOK, ClaimInv, [Next]_vars PROVE ClaimInv'
  OBVIOUS
<1>0. ProcOK /\ CardOK
  BY TypeParts
<1>1. ASSUME NoNewHolder, UNCHANGED <<status, stamp, interrupted>> PROVE ClaimInv'
  BY <1>1, ClaimFrame
<1>2. ASSUME NEW p \in Executors, NEW step, Go(p, step), step \in Free \/ pc[p] \in Holding
      PROVE  NoNewHolder
  BY <1>0, <1>2, GoGainsNothing
<1>3. ASSUME NEW c \in Cards, NEW k, Create(c, k), NoNewHolder,
             UNCHANGED interrupted PROVE ClaimInv'
  <2>1. \A d \in Cards : /\ status[d] = "deleted" => status'[d] = "deleted"
                         /\ stamp'[d] = stamp[d]
    BY <1>0, <1>3 DEF Create, Insert, Refresh, cardVars, CardOK
  <2> QED
    BY <1>3, <2>1, ClaimFrame
<1>4. ASSUME NEW p \in Executors, Step(p) PROVE ClaimInv'
  <2> USE DEF Free, Holding, Sending, Recording, HeldManual, Releasing, Claiming, Marking
  <2>1. CASE Decide(p)
    <3>1. NoNewHolder
      BY <1>2, <2>1 DEF Decide, Promotion, AfterDecision
    <3>2. \A d \in Cards : /\ status[d] = "deleted" => status'[d] = "deleted"
                           /\ stamp'[d] = stamp[d]
      BY <1>0, <2>1 DEF Decide, Resolve, CardOK, ProcOK, cardVars
    <3> QED
      BY <2>1, <3>1, <3>2, ClaimFrame DEF Decide, histVars
  <2>2. CASE Mark(p)
    BY <1>1, <1>2, <2>2 DEF Mark, AfterMark, AfterDecision, cardVars, histVars
  <2>3. CASE Rearm(p)
    BY <1>1, <1>2, <2>3 DEF Rearm, At, cardVars, histVars
  <2>4. CASE Move(p)
    BY <1>1, <1>2, <2>4 DEF Move, At, cardVars, histVars
  <2>5. CASE Queue(p)
    <3>1. NoNewHolder
      <4>1. CASE Go(p, "idle")
        BY <1>2, <4>1
      <4>2. CASE ~Go(p, "idle")
        BY <1>0, <2>5, <4>2 DEF Queue, NoNewHolder, Holds, ProcOK
      <4> QED
        BY <4>1, <4>2
    <3> QED
      BY <1>1, <1>3, <2>5, <3>1 DEF Queue, cardVars, histVars
  <2>6. CASE Judge(p)
    BY <1>1, <1>2, <2>6 DEF Judge, At, cardVars, histVars
  <2>7. CASE Load(p)
    BY <1>1, <1>2, <2>7 DEF Load, At, cardVars, histVars
  <2>8. CASE Claim(p)
    BY <2>8, ClaimKeeps
  <2>9. CASE MailRefused(p)
    BY <1>1, <1>2, <2>9 DEF MailRefused, At, cardVars, histVars
  <2>10. CASE MailSent(p)
    BY <1>1, <1>2, <2>10 DEF MailSent, At, cardVars, histVars
  <2>11. CASE ClickRefused(p)
    BY <1>1, <1>2, <2>11 DEF ClickRefused, At, cardVars, histVars
  <2>12. CASE Click(p)
    BY <1>1, <1>2, <2>12 DEF Click, At, cardVars, histVars
  <2>13. CASE Classify(p)
    BY <1>1, <1>2, <2>13 DEF Classify, At, cardVars, histVars
  <2>14. CASE Poll(p)
    BY <1>1, <1>2, <2>14 DEF Poll, At, cardVars, histVars
  <2>15. CASE RecordMail(p)
    BY <1>1, <1>2, <2>15 DEF RecordMail, At, cardVars, histVars
  <2>16. CASE RecordSite(p)
    BY <1>1, <1>2, <2>16 DEF RecordSite, At, cardVars, histVars
  <2>17. CASE Complete(p)
    <3>1. NoNewHolder
      BY <1>2, <2>17 DEF Complete
    <3>2. CASE stamp[on[p]] = "claimed"
      BY <1>0, <2>17, <3>2, GivenBack DEF Complete, At, histVars, CardOK, ProcOK
    <3>3. CASE stamp[on[p]] # "claimed"
      BY <1>0, <1>1, <2>17, <3>1, <3>3 DEF Complete, histVars, CardOK, ProcOK
    <3> QED
      BY <3>2, <3>3
  <2>18. CASE RecordManual(p)
    BY <1>1, <1>2, <2>18 DEF RecordManual, At, cardVars, histVars
  <2>19. CASE RecordPending(p)
    BY <1>1, <1>2, <2>19 DEF RecordPending, At, cardVars, histVars
  <2>20. CASE Release(p)
    <3>1. AfterRelease(pc[p]) \in Free
      BY DEF AfterRelease
    <3> QED
      BY <2>20, <3>1, GivenBack DEF Release, histVars
  <2> QED
    BY <1>4, <2>1, <2>2, <2>3, <2>4, <2>5, <2>6, <2>7, <2>8, <2>9, <2>10, <2>11, <2>12, <2>13,
       <2>14, <2>15, <2>16, <2>17, <2>18, <2>19, <2>20 DEF Step
<1>5. ASSUME NEW p \in Executors, Fails(p) PROVE ClaimInv'
  <2> USE DEF Free, Holding, Sending, Recording, HeldManual, Releasing, Claiming, Marking
  <2>1. CASE MailReplyLost(p)
    BY <1>1, <1>2, <2>1 DEF MailReplyLost, At, cardVars, histVars
  <2>2. CASE DocumentFails(p)
    BY <1>1, <1>2, <2>2, Abandon DEF DocumentFails, At, cardVars, histVars
  <2>3. CASE BrowserLost(p)
    BY <1>1, <1>2, <2>3 DEF BrowserLost, At, cardVars, histVars
  <2>4. CASE PollFails(p)
    BY <1>1, <1>2, <2>4, Abandon DEF PollFails, At, cardVars, histVars
  <2>5. CASE WriteFails(p)
    BY <1>1, <1>2, <2>5, Abandon DEF WriteFails, At, cardVars, histVars
  <2>6. CASE MarkFails(p)
    BY <1>1, <1>2, <2>6 DEF MarkFails, AfterMark, AfterDecision, cardVars, histVars
  <2>7. CASE Dies(p)
    BY <1>1, <1>2, <2>7, Abandon DEF Dies, At, cardVars, histVars
  <2> QED
    BY <1>5, <2>1, <2>2, <2>3, <2>4, <2>5, <2>6, <2>7 DEF Fails
<1>6. ASSUME NEW p \in Executors, NEW g, NEW c, NEW step \in Free, Begin(p, g, c,
             step) PROVE NoNewHolder
  BY <1>0, <1>6, BeginGainsNothing
<1>7. ASSUME NEW p \in Requests, Handle(p) PROVE ClaimInv'
  <2> USE <1>6 DEF Executors, Free, Claiming, Marking
  <2>1. CASE Apply(p) \/ RecordSubmission(p) \/ ReadToMove(p)
    BY <1>1, <2>1 DEF Apply, RecordSubmission, ReadToMove, cardVars, histVars
  <2>2. ASSUME NEW c \in Cards, NEW g, ReadToDecide(p, c, g) PROVE ClaimInv'
    BY <1>1, <2>2 DEF ReadToDecide, cardVars, histVars
  <2>3. ASSUME NEW c \in Cards, Digest(p, c) \/ Execute(p, c) PROVE ClaimInv'
    BY <1>1, <2>3 DEF Digest, Execute, cardVars, histVars
  <2>4. ASSUME NEW c \in Cards, Reconfirm(p, c) PROVE ClaimInv'
    BY <1>3, <2>4 DEF Reconfirm, histVars
  <2>5. ASSUME NEW c \in Cards, NEW k \in Kinds, RequestSubmission(p, c, k) \/ AgentGrants(p,
               c, k)
        PROVE  ClaimInv'
    BY <1>3, <2>5 DEF RequestSubmission, AgentGrants, histVars
  <2> QED
    BY <1>7, <2>1, <2>2, <2>3, <2>4, <2>5 DEF Handle
<1>8. ASSUME NEW p \in Sweepers, NEW c \in Cards, SweepSelect(p, c) PROVE ClaimInv'
  BY <1>1, <1>6, <1>8 DEF SweepSelect, Executors, Free, cardVars, histVars
<1>9. ASSUME UNCHANGED procVars PROVE NoNewHolder
  BY <1>9 DEF procVars, NoNewHolder, Holds
<1>10. ASSUME NEW c \in Cards, Elapse(c) \/ Delete(c) \/ \E k \in Kinds : Raise(c,
              k) PROVE ClaimInv'
  <2>1. CASE Elapse(c)
    BY <1>1, <1>9, <2>1 DEF Elapse, histVars
  <2>2. CASE Delete(c)
    <3>1. \A d \in Cards : /\ status[d] = "deleted" => status'[d] = "deleted"
                           /\ stamp[d] = "claimed" => stamp'[d] = "claimed" \/ status'[d] = "deleted"
      BY <1>0, <2>2 DEF Delete, CardOK
    <3> QED
      BY <1>9, <2>2, <3>1, ClaimFrame DEF Delete, histVars
  <2>3. CASE \E k \in Kinds : Raise(c, k)
    BY <1>3, <1>9, <2>3 DEF Raise, Create, histVars
  <2> QED
    BY <1>10, <2>1, <2>2, <2>3
<1>11. CASE Answer \/ ReceiptArrives \/ InterviewInvite \/ Resting \/ UNCHANGED vars
  BY <1>1, <1>9, <1>11 DEF Answer, ReceiptArrives, InterviewInvite, Resting, vars, cardVars,
     procVars, histVars
<1> QED
  BY <1>4, <1>5, <1>7, <1>8, <1>10, <1>11 DEF Next, World

LEMMA ClaimInit == Init => ClaimInv
<1>1. "idle" \notin Holding
  BY DEF Holding, Sending, Recording, HeldManual, Releasing
<1> QED
  BY <1>1 DEF Init, ClaimInv, OneExecutor, InterruptedStaysClaimed, HoldersClaimed, Holds

LEMMA ClaimInvariant == Spec => []ClaimInv
  BY ClaimInit, ClaimInductive, TypeCorrect, PTL DEF Spec

\* A card is in the hands of at most one executor.
THEOREM ExecutorsExclude == Spec => []OneExecutor
<1>1. ClaimInv => OneExecutor
  BY DEF ClaimInv
<1> QED
  BY <1>1, ClaimInvariant, PTL

\* A claim that was abandoned, by a crash or an exception, is never taken up again.
THEOREM AbandonedStaysClaimed == Spec => []InterruptedStaysClaimed
<1>1. ClaimInv => InterruptedStaysClaimed
  BY DEF ClaimInv
<1> QED
  BY <1>1, ClaimInvariant, PTL

(***************************************************************************)
(* What was sent.                                                          *)
(***************************************************************************)
\* The record of what happened only grows, and a row keeps its kind.
Grows ==
    /\ \A c \in Cards :
         /\ status[c] # "absent" => kind'[c] = kind[c] /\ status'[c] # "absent"
         /\ status[c] \in {"approved", "deleted"} => status'[c] \in {"approved", "deleted"}
         /\ status[c] = "deleted" => status'[c] = "deleted"
         /\ mailed[c] > 0 => mailed'[c] > 0
         /\ clicked[c] > 0 => clicked'[c] > 0
    /\ receipt => receipt'
    /\ transmittedAt => transmittedAt'
    /\ reopened \subseteq reopened'

LEMMA CreateGrows ==
    ASSUME CardOK, NEW c \in Cards, NEW k, Create(c, k),
           UNCHANGED <<worldVars, transmittedAt, reopened>>
    PROVE  Grows
  BY DEF CardOK, Create, Insert, Refresh, cardVars, worldVars, Grows

LEMMA StepGrows == TypeOK /\ [Next]_vars => Grows
<1> SUFFICES ASSUME TypeOK, [Next]_vars PROVE Grows
  OBVIOUS
<1>0. CardOK /\ WorldOK /\ ProcOK
  BY TypeParts
<1>1. ASSUME UNCHANGED <<kind, status, worldVars, reopened>>,
             transmittedAt => transmittedAt' PROVE Grows
  BY <1>1 DEF Grows, worldVars
<1>2. ASSUME NEW c \in Cards, NEW k, Create(c, k), UNCHANGED <<worldVars, transmittedAt,
             reopened>> PROVE Grows
  BY <1>0, <1>2, CreateGrows
<1>4. ASSUME NEW p \in Executors, Step(p) PROVE Grows
  <2>1. CASE Decide(p)
    BY <1>0, <2>1 DEF Decide, Resolve, Grows, CardOK, ProcOK, cardVars, worldVars, histVars
  <2>2. CASE Mark(p)
    BY <1>1, <2>2 DEF Mark, cardVars, appVars, histVars
  <2>3. CASE Rearm(p)
    BY <1>1, <2>3 DEF Rearm, cardVars, appVars, histVars
  <2>4. CASE Move(p)
    BY <1>1, <2>4 DEF Move, cardVars, appVars, histVars
  <2>5. CASE Queue(p)
    BY <1>1, <1>2, <2>5 DEF Queue, cardVars, appVars, histVars
  <2>6. CASE Judge(p)
    BY <1>1, <2>6 DEF Judge, cardVars, appVars, histVars
  <2>7. CASE Load(p)
    BY <1>1, <2>7 DEF Load, cardVars, appVars, histVars
  <2>8. CASE Claim(p)
    BY <1>1, <2>8 DEF Claim, ClaimExecution, appVars, histVars
  <2>9. CASE MailRefused(p)
    BY <1>1, <2>9 DEF MailRefused, cardVars, appVars, histVars
  <2>10. CASE MailSent(p)
    BY <1>0, BoundAssumption, <2>10 DEF MailSent, Mailed, Grows, ProcOK, WorldOK, cardVars,
       appVars, histVars
  <2>11. CASE ClickRefused(p)
    BY <1>1, <2>11 DEF ClickRefused, cardVars, appVars, histVars
  <2>12. CASE Click(p)
    BY <1>0, BoundAssumption, <2>12 DEF Click, Grows, ProcOK, WorldOK, cardVars, appVars,
       histVars
  <2>13. CASE Classify(p)
    BY <1>1, <2>13 DEF Classify, cardVars, appVars, histVars
  <2>14. CASE Poll(p)
    BY <1>1, <2>14 DEF Poll, cardVars, appVars, histVars
  <2>15. CASE RecordMail(p)
    BY <1>1, <2>15 DEF RecordMail, Transmitted, cardVars, histVars
  <2>16. CASE RecordSite(p)
    BY <1>1, <2>16 DEF RecordSite, Transmitted, cardVars, histVars
  <2>17. CASE Complete(p)
    BY <1>1, <2>17 DEF Complete, cardVars, appVars, histVars
  <2>18. CASE RecordManual(p)
    BY <1>1, <2>18 DEF RecordManual, cardVars, appVars, histVars
  <2>19. CASE RecordPending(p)
    BY <1>1, <2>19 DEF RecordPending, cardVars, appVars, histVars
  <2>20. CASE Release(p)
    BY <1>1, <2>20 DEF Release, cardVars, appVars, histVars
  <2> QED
    BY <1>4, <2>1, <2>2, <2>3, <2>4, <2>5, <2>6, <2>7, <2>8, <2>9, <2>10, <2>11, <2>12, <2>13,
       <2>14, <2>15, <2>16, <2>17, <2>18, <2>19, <2>20 DEF Step
<1>5. ASSUME NEW p \in Executors, Fails(p) PROVE Grows
  <2>1. CASE MailReplyLost(p)
    BY <1>0, BoundAssumption, <2>1 DEF MailReplyLost, Reopen, Mailed, Grows, ProcOK, WorldOK,
       cardVars, appVars
  <2>2. CASE DocumentFails(p)
    BY <1>1, <2>2 DEF DocumentFails, cardVars, appVars, histVars
  <2>3. CASE BrowserLost(p)
    BY <1>1, <2>3 DEF BrowserLost, cardVars, appVars, histVars
  <2>4. CASE PollFails(p)
    BY <1>1, <2>4 DEF PollFails, cardVars, appVars, histVars
  <2>5. CASE WriteFails(p)
    BY <1>0, <2>5 DEF WriteFails, Reopen, Grows, cardVars, appVars, worldVars
  <2>6. CASE MarkFails(p)
    BY <1>1, <2>6 DEF MarkFails, cardVars, appVars, histVars
  <2>7. CASE Dies(p)
    BY <1>1, <2>7 DEF Dies, cardVars, appVars, histVars
  <2> QED
    BY <1>5, <2>1, <2>2, <2>3, <2>4, <2>5, <2>6, <2>7 DEF Fails
<1>6. ASSUME NEW p \in Requests, Handle(p) PROVE Grows
  BY <1>1, <1>2, <1>6 DEF Handle, Apply, RecordSubmission, ReadToMove, ReadToDecide,
     Reconfirm, Digest, Execute,
     RequestSubmission, AgentGrants, cardVars, appVars, histVars
<1>7. ASSUME NEW p \in Sweepers, NEW c \in Cards, SweepSelect(p, c) PROVE Grows
  BY <1>1, <1>7 DEF SweepSelect, cardVars, appVars, histVars
<1>8. ASSUME NEW c \in Cards, Elapse(c) \/ Delete(c) \/ \E k \in Kinds : Raise(c, k) PROVE Grows
  <2>1. CASE Elapse(c)
    BY <1>1, <2>1 DEF Elapse, appVars, histVars
  <2>2. CASE Delete(c)
    BY <1>0, <2>2 DEF Delete, Grows, CardOK, appVars, worldVars, histVars
  <2>3. CASE \E k \in Kinds : Raise(c, k)
    BY <1>2, <2>3 DEF Raise, Create, appVars, histVars
  <2> QED
    BY <1>8, <2>1, <2>2, <2>3
<1>9. CASE ReceiptArrives
  BY <1>9 DEF ReceiptArrives, Grows, cardVars, appVars, histVars
<1>10. CASE Answer \/ InterviewInvite \/ Resting \/ UNCHANGED vars
  BY <1>1, <1>10 DEF Answer, InterviewInvite, Resting, vars, cardVars, appVars, histVars
<1> QED
  BY <1>4, <1>5, <1>6, <1>7, <1>8, <1>9, <1>10 DEF Next, World

\* Only the holder of a claim sends, so what was sent had been approved.
LEMMA ApprovedInductive == TypeOK /\ ClaimInv /\ SentWasApproved /\ [Next]_vars => SentWasApproved'
<1> SUFFICES ASSUME TypeOK, ClaimInv, SentWasApproved, [Next]_vars PROVE SentWasApproved'
  OBVIOUS
<1>0. CardOK /\ WorldOK /\ ProcOK /\ Grows
  BY TypeParts, StepGrows
<1>1. ASSUME UNCHANGED <<mailed, clicked>> PROVE SentWasApproved'
  BY <1>0, <1>1 DEF SentWasApproved, Grows
<1>2. ASSUME NEW p \in Executors, pc[p] \in Sending, UNCHANGED status,
             \A c \in Cards : c # on[p] => mailed'[c] = mailed[c] /\ clicked'[c] = clicked[c]
      PROVE  SentWasApproved'
  <2>1. PICK c \in Cards : c = on[p]
    BY <1>0 DEF ProcOK
  <2>2. status[c] \in {"approved", "deleted"}
    BY <1>2, <2>1, TypeParts DEF ClaimInv, HoldersClaimed, Holds, Holding, CardOK
  <2> QED
    BY <1>2, <2>1, <2>2 DEF SentWasApproved
<1>3. ASSUME NEW p \in Executors,
             MailSent(p) \/ MailReplyLost(p) \/ Click(p) PROVE SentWasApproved'
  BY <1>0, <1>2, <1>3 DEF MailSent, MailReplyLost, Click, Mailed, At, Sending, WorldOK, cardVars
<1>4. ASSUME NEW p \in Executors, Step(p) \/ Fails(p), ~MailSent(p), ~MailReplyLost(p),
             ~Click(p)
      PROVE  SentWasApproved'
  BY <1>1, <1>4 DEF Step, Fails, Decide, Mark, Rearm, Move, Queue, Judge, Load, Claim,
     MailRefused, ClickRefused, Classify, Poll, RecordMail, RecordSite, Complete,
     RecordManual, RecordPending, Release, DocumentFails, BrowserLost, PollFails, WriteFails,
     MarkFails, Dies, worldVars
<1>5. ASSUME NEW p \in Executors, Handle(p) \/ \E c \in Cards : SweepSelect(p,
             c) PROVE SentWasApproved'
  BY <1>1, <1>5 DEF Handle, Apply, RecordSubmission, ReadToMove, ReadToDecide, Reconfirm,
     Digest, Execute,
     RequestSubmission, AgentGrants, SweepSelect, worldVars
<1>6. CASE World \/ Resting \/ UNCHANGED vars
  BY <1>1, <1>6 DEF World, Elapse, Delete, Raise, Answer, ReceiptArrives, InterviewInvite,
     Resting, vars, worldVars
<1> QED
  BY <1>3, <1>4, <1>5, <1>6 DEF Next, Executors

(***************************************************************************)
(* One message under one card.                                             *)
(***************************************************************************)
Settled == {"recordMail", "complete"}

\* While a sent card is in a hand, the hand can only record the message and complete.
SentOnce ==
    \A c \in Cards : c \notin reopened /\ mailed[c] > 0 =>
        /\ mailed[c] = 1
        /\ status[c] = "deleted" \/ stamp[c] # "none"
        /\ \A p \in Executors : Holds(p, c) => pc[p] \in Settled

\* No executor gains a card, or leaves the recording of a message for another act.
SettledStay ==
    \A q \in Executors, c \in Cards : Holds(q, c)' => Holds(q, c) /\ (pc[q] \in Settled => pc'[q] \in Settled)

LEMMA GoSettles ==
    ASSUME ProcOK, NEW p \in Executors, NEW step, Go(p, step),
           step \in Free \/ (pc[p] \in Holding /\ (pc[p] \in Settled => step \in Settled))
    PROVE  SettledStay
<1>1. "idle" \notin Holding /\ Free \cap Holding = {}
  BY DEF Free, Holding, Sending, Recording, HeldManual, Releasing, Claiming, Marking
<1> QED
  BY <1>1 DEF ProcOK, Go, SettledStay, Holds

LEMMA BeginSettles ==
    ASSUME ProcOK, NEW p \in Executors, NEW g, NEW c, NEW step \in Free, Begin(p, g, c, step)
    PROVE  SettledStay
<1>1. Free \cap Holding = {}
  BY DEF Free, Holding, Sending, Recording, HeldManual, Releasing, Claiming, Marking
<1> QED
  BY <1>1 DEF ProcOK, Begin, SettledStay, Holds

LEMMA OnceFrame ==
    ASSUME SentOnce, Grows, SettledStay, UNCHANGED mailed,
           \A c \in Cards : status[c] = "deleted" \/ stamp[c] # "none" =>
                            status'[c] = "deleted" \/ stamp'[c] # "none"
    PROVE  SentOnce'
  BY DEF SentOnce, SettledStay, Grows

LEMMA OnceInductive == TypeOK /\ ClaimInv /\ SentOnce /\ [Next]_vars => SentOnce'
<1> SUFFICES ASSUME TypeOK, ClaimInv, SentOnce, [Next]_vars PROVE SentOnce'
  OBVIOUS
<1>0. ProcOK /\ CardOK /\ WorldOK /\ Grows
  BY TypeParts, StepGrows
<1>1. ASSUME SettledStay, UNCHANGED <<status, stamp, mailed>> PROVE SentOnce'
  BY <1>0, <1>1, OnceFrame
<1>2. ASSUME NEW p \in Executors, NEW step, Go(p, step),
             step \in Free \/ (pc[p] \in Holding /\ (pc[p] \in Settled => step \in Settled))
      PROVE  SettledStay
  BY <1>0, <1>2, GoSettles
<1>3. ASSUME NEW c \in Cards, NEW k, Create(c, k), SettledStay, UNCHANGED mailed PROVE SentOnce'
  <2>1. \A d \in Cards : /\ status[d] = "deleted" => status'[d] = "deleted"
                         /\ stamp'[d] = stamp[d]
    BY <1>0, <1>3 DEF Create, Insert, Refresh, cardVars, CardOK
  <2> QED
    BY <1>0, <1>3, <2>1, OnceFrame
<1>4. ASSUME NEW p \in Executors, Step(p) PROVE SentOnce'
  <2> USE DEF Free, Holding, Sending, Recording, HeldManual, Releasing, Claiming, Marking
  <2>1. CASE Decide(p)
    <3>1. SettledStay
      BY <1>2, <2>1 DEF Decide, Promotion, AfterDecision
    <3>2. \A d \in Cards : /\ status[d] = "deleted" => status'[d] = "deleted"
                           /\ stamp'[d] = stamp[d]
      BY <1>0, <2>1 DEF Decide, Resolve, CardOK, ProcOK, cardVars
    <3> QED
      BY <1>0, <2>1, <3>1, <3>2, OnceFrame DEF Decide, worldVars
  <2>2. CASE Mark(p)
    BY <1>1, <1>2, <2>2 DEF Mark, AfterMark, AfterDecision, cardVars, worldVars
  <2>3. CASE Rearm(p)
    BY <1>1, <1>2, <2>3 DEF Rearm, At, Settled, cardVars, worldVars
  <2>4. CASE Move(p)
    BY <1>1, <1>2, <2>4 DEF Move, At, Settled, cardVars, worldVars
  <2>5. CASE Queue(p)
    <3>1. SettledStay
      <4>1. CASE Go(p, "idle")
        BY <1>2, <4>1
      <4>2. CASE ~Go(p, "idle")
        BY <1>0, <2>5, <4>2 DEF Queue, SettledStay, Holds, ProcOK
      <4> QED
        BY <4>1, <4>2
    <3> QED
      BY <1>1, <1>3, <2>5, <3>1 DEF Queue, cardVars, worldVars
  <2>6. CASE Judge(p)
    BY <1>1, <1>2, <2>6 DEF Judge, At, Settled, cardVars, worldVars
  <2>7. CASE Load(p)
    BY <1>1, <1>2, <2>7 DEF Load, At, Settled, cardVars, worldVars
  <2>8. CASE Claim(p)
    <3>1. CASE Go(p, "idle") /\ UNCHANGED stamp
      BY <1>1, <1>2, <2>8, <3>1 DEF Claim, worldVars
    <3>2. CASE ClaimExecution(on[p]) /\ Go(p, AfterClaim(pc[p]))
      <4>1. PICK c \in Cards : c = on[p]
        BY <1>0 DEF ProcOK
      <4>2. status[c] = "approved" /\ stamp[c] = "none" /\ stamp' = [stamp EXCEPT ![c] = "claimed"]
        BY <3>2, <4>1 DEF ClaimExecution
      <4>3. c \in reopened \/ ~(mailed[c] > 0)
        BY <4>2 DEF SentOnce
      <4>4. AfterClaim(pc[p]) # "idle"
        BY DEF AfterClaim
      <4>5. \A q \in Executors, d \in Cards :
                Holds(q, d)' => (q = p /\ d = c) \/ (Holds(q, d) /\ pc'[q] = pc[q])
        BY <1>0, <3>2, <4>1, <4>4 DEF Go, ProcOK, Holds
      <4>6. UNCHANGED <<mailed, status, reopened>>
        BY <2>8 DEF Claim, worldVars, histVars
      <4> QED
        BY <1>0, <4>2, <4>3, <4>5, <4>6 DEF SentOnce, CardOK
    <3> QED
      BY <2>8, <3>1, <3>2 DEF Claim
  <2>9. CASE MailRefused(p)
    BY <1>1, <1>2, <2>9 DEF MailRefused, At, Settled, cardVars, worldVars
  <2>10. CASE MailSent(p)
    <3>1. PICK c \in Cards : c = on[p]
      BY <1>0 DEF ProcOK
    <3>2. Holds(p, c) /\ pc[p] = "mail"
      BY <2>10, <3>1 DEF MailSent, At, Holds
    <3>3. /\ status[c] = "deleted" \/ stamp[c] = "claimed"
          /\ \A q \in Executors : Holds(q, c) => q = p
      BY <3>2 DEF ClaimInv, HoldersClaimed, OneExecutor
    <3>4. c \notin reopened => mailed[c] = 0
      BY <1>0, <3>2 DEF SentOnce, Settled, WorldOK
    <3>5. mailed' = [mailed EXCEPT ![c] = mailed[c] + 1] /\ UNCHANGED <<status, stamp>>
      BY <2>10, <3>1 DEF MailSent, Mailed, cardVars
    <3>6. \A q \in Executors, d \in Cards :
              Holds(q, d)' => Holds(q, d) /\ (pc'[q] \in Settled \/ (q # p /\ pc'[q] = pc[q]))
      <4>1. PICK step \in Settled : Go(p, step)
        BY <2>10 DEF MailSent, Settled
      <4>2. pc' = [pc EXCEPT ![p] = step] /\ on' = on
        BY <1>0, <4>1 DEF Go, ProcOK, Settled
      <4> QED
        BY <1>0, <3>1, <3>2, <4>2 DEF ProcOK, Holds
    <3>7. UNCHANGED reopened
      BY <2>10 DEF MailSent, histVars
    <3>8. ASSUME NEW d \in Cards, d \notin reopened', mailed'[d] > 0
          PROVE  /\ mailed'[d] = 1
                 /\ status'[d] = "deleted" \/ stamp'[d] # "none"
                 /\ \A q \in Executors : Holds(q, d)' => pc'[q] \in Settled
      <4>1. CASE d = c
        BY <1>0, <3>3, <3>4, <3>5, <3>6, <3>7, <3>8, <4>1 DEF WorldOK
      <4>2. CASE d # c
        BY <1>0, <3>5, <3>6, <3>7, <3>8, <4>2 DEF SentOnce, WorldOK
      <4> QED
        BY <4>1, <4>2
    <3> QED
      BY <3>8 DEF SentOnce
  <2>11. CASE ClickRefused(p)
    BY <1>1, <1>2, <2>11 DEF ClickRefused, At, Settled, cardVars, worldVars
  <2>12. CASE Click(p)
    BY <1>1, <1>2, <2>12 DEF Click, At, Settled, cardVars, worldVars
  <2>13. CASE Classify(p)
    BY <1>1, <1>2, <2>13 DEF Classify, At, Settled, cardVars, worldVars
  <2>14. CASE Poll(p)
    BY <1>1, <1>2, <2>14 DEF Poll, At, Settled, cardVars, worldVars
  <2>15. CASE RecordMail(p)
    BY <1>1, <1>2, <2>15 DEF RecordMail, At, Settled, cardVars, worldVars
  <2>16. CASE RecordSite(p)
    BY <1>1, <1>2, <2>16 DEF RecordSite, At, Settled, cardVars, worldVars
  <2>17. CASE Complete(p)
    <3>1. SettledStay
      BY <1>2, <2>17 DEF Complete
    <3>2. \A d \in Cards : stamp[d] # "none" => stamp'[d] # "none"
      BY <1>0, <2>17 DEF Complete, CardOK, ProcOK
    <3> QED
      BY <1>0, <2>17, <3>1, <3>2, OnceFrame DEF Complete, worldVars
  <2>18. CASE RecordManual(p)
    BY <1>1, <1>2, <2>18 DEF RecordManual, At, Settled, cardVars, worldVars
  <2>19. CASE RecordPending(p)
    BY <1>1, <1>2, <2>19 DEF RecordPending, At, Settled, cardVars, worldVars
  <2>20. CASE Release(p)
    <3>1. PICK c \in Cards : c = on[p]
      BY <1>0 DEF ProcOK
    <3>2. c \in reopened \/ ~(mailed[c] > 0)
      BY <2>20, <3>1 DEF Release, SentOnce, Settled, Holds
    <3>3. SettledStay
      BY <1>2, <2>20 DEF Release, AfterRelease
    <3>4. stamp' = [stamp EXCEPT ![c] = "none"] /\ UNCHANGED <<status, mailed, reopened>>
      BY <2>20, <3>1 DEF Release, worldVars, histVars
    <3> QED
      BY <1>0, <3>2, <3>3, <3>4 DEF SentOnce, SettledStay, CardOK
  <2> QED
    BY <1>4, <2>1, <2>2, <2>3, <2>4, <2>5, <2>6, <2>7, <2>8, <2>9, <2>10, <2>11, <2>12, <2>13,
       <2>14, <2>15, <2>16, <2>17, <2>18, <2>19, <2>20 DEF Step
<1>5. ASSUME NEW p \in Executors, Fails(p) PROVE SentOnce'
  <2> USE DEF Free, Holding, Sending, Recording, HeldManual, Releasing, Claiming, Marking
  <2>1. CASE MailReplyLost(p)
    <3>1. PICK c \in Cards : c = on[p]
      BY <1>0 DEF ProcOK
    <3>2. Holds(p, c) /\ pc[p] = "mail"
      BY <2>1, <3>1 DEF MailReplyLost, At, Holds
    <3>3. /\ status[c] = "deleted" \/ stamp[c] = "claimed"
          /\ \A q \in Executors : Holds(q, c) => q = p
      BY <3>2 DEF ClaimInv, HoldersClaimed, OneExecutor
    <3>4. c \notin reopened => mailed[c] = 0
      BY <1>0, <3>2 DEF SentOnce, Settled, WorldOK
    <3>5. mailed' = [mailed EXCEPT ![c] = mailed[c] + 1] /\ UNCHANGED <<status, stamp>>
      BY <2>1, <3>1 DEF MailReplyLost, Mailed, cardVars
    <3>6. SettledStay
      BY <1>2, <2>1 DEF MailReplyLost, At, Settled
    <3>7. reopened' = reopened \cup {c}
      BY <2>1, <3>1 DEF MailReplyLost, Reopen
    <3> QED
      BY <1>0, <3>5, <3>6, <3>7 DEF SentOnce, SettledStay, WorldOK
  <2>2. CASE DocumentFails(p)
    BY <1>1, <1>2, <2>2 DEF DocumentFails, At, Settled, cardVars, worldVars
  <2>3. CASE BrowserLost(p)
    BY <1>1, <1>2, <2>3 DEF BrowserLost, At, Settled, cardVars, worldVars
  <2>4. CASE PollFails(p)
    BY <1>1, <1>2, <2>4 DEF PollFails, At, Settled, cardVars, worldVars
  <2>5. CASE WriteFails(p)
    <3>1. CASE Go(p, "idle") \/ ~(pc[p] \in Settled)
      BY <1>1, <1>2, <2>5, <3>1 DEF WriteFails, At, Settled, cardVars, worldVars
    <3>2. CASE Go(p, "release") /\ Reopen(on[p])
      <4>1. PICK c \in Cards : c = on[p]
        BY <1>0 DEF ProcOK
      <4>2. \A q \in Executors, d \in Cards :
                Holds(q, d)' => Holds(q, d) /\ (pc'[q] = pc[q] \/ d = c)
        BY <1>0, <2>5, <3>2, <4>1 DEF WriteFails, Go, ProcOK, Holds
      <4>3. c \in reopened' /\ UNCHANGED <<status, stamp, mailed>>
        BY <2>5, <3>2, <4>1 DEF WriteFails, Reopen, cardVars, worldVars
      <4> QED
        BY <1>0, <4>2, <4>3 DEF SentOnce, Grows
    <3> QED
      BY <2>5, <3>1, <3>2 DEF WriteFails, At, Settled
  <2>6. CASE MarkFails(p)
    BY <1>1, <1>2, <2>6 DEF MarkFails, AfterMark, AfterDecision, cardVars, worldVars
  <2>7. CASE Dies(p)
    BY <1>1, <1>2, <2>7 DEF Dies, At, Settled, cardVars, worldVars
  <2> QED
    BY <1>5, <2>1, <2>2, <2>3, <2>4, <2>5, <2>6, <2>7 DEF Fails
<1>6. ASSUME NEW p \in Executors, NEW g, NEW c, NEW step \in Free, Begin(p, g, c,
             step) PROVE SettledStay
  BY <1>0, <1>6, BeginSettles
<1>7. ASSUME NEW p \in Requests, Handle(p) PROVE SentOnce'
  <2> USE <1>6 DEF Executors, Free, Claiming, Marking
  <2>1. CASE Apply(p) \/ RecordSubmission(p) \/ ReadToMove(p)
    BY <1>1, <2>1 DEF Apply, RecordSubmission, ReadToMove, cardVars, worldVars
  <2>2. ASSUME NEW c \in Cards, NEW g, ReadToDecide(p, c, g) PROVE SentOnce'
    BY <1>1, <2>2 DEF ReadToDecide, cardVars, worldVars
  <2>3. ASSUME NEW c \in Cards, Digest(p, c) \/ Execute(p, c) PROVE SentOnce'
    BY <1>1, <2>3 DEF Digest, Execute, cardVars, worldVars
  <2>4. ASSUME NEW c \in Cards, Reconfirm(p, c) PROVE SentOnce'
    BY <1>3, <2>4 DEF Reconfirm, worldVars
  <2>5. ASSUME NEW c \in Cards, NEW k \in Kinds, RequestSubmission(p, c, k) \/ AgentGrants(p,
               c, k)
        PROVE  SentOnce'
    BY <1>3, <2>5 DEF RequestSubmission, AgentGrants, worldVars
  <2> QED
    BY <1>7, <2>1, <2>2, <2>3, <2>4, <2>5 DEF Handle
<1>8. ASSUME NEW p \in Sweepers, NEW c \in Cards, SweepSelect(p, c) PROVE SentOnce'
  BY <1>1, <1>6, <1>8 DEF SweepSelect, Executors, Free, cardVars, worldVars
<1>9. ASSUME UNCHANGED procVars PROVE SettledStay
  BY <1>9 DEF procVars, SettledStay, Holds
<1>10. ASSUME NEW c \in Cards, Elapse(c) \/ Delete(c) \/ \E k \in Kinds : Raise(c,
              k) PROVE SentOnce'
  <2>1. CASE Elapse(c)
    BY <1>1, <1>9, <2>1 DEF Elapse, worldVars
  <2>2. CASE Delete(c)
    <3>1. \A d \in Cards : status[d] = "deleted" \/ stamp[d] # "none" =>
                           status'[d] = "deleted" \/ stamp'[d] # "none"
      BY <1>0, <2>2 DEF Delete, CardOK
    <3> QED
      BY <1>0, <1>9, <2>2, <3>1, OnceFrame DEF Delete, worldVars
  <2>3. CASE \E k \in Kinds : Raise(c, k)
    BY <1>3, <1>9, <2>3 DEF Raise, Create, worldVars
  <2> QED
    BY <1>10, <2>1, <2>2, <2>3
<1>11. CASE Answer \/ ReceiptArrives \/ InterviewInvite \/ Resting \/ UNCHANGED vars
  BY <1>1, <1>9, <1>11 DEF Answer, ReceiptArrives, InterviewInvite, Resting, vars, cardVars,
     procVars, worldVars
<1> QED
  BY <1>4, <1>5, <1>7, <1>8, <1>10, <1>11 DEF Next, World

LEMMA SendInit == Init => SentOnce /\ SentWasApproved
  BY DEF Init, SentOnce, SentWasApproved

LEMMA SendInvariant == Spec => [](SentOnce /\ SentWasApproved)
  BY SendInit, OnceInductive, ApprovedInductive, TypeCorrect, ClaimInvariant, PTL DEF Spec

\* One approval sends at most one message, for any number of executors racing for the
\* card and any number of crashes, unless a send left while its claim was given back.
THEOREM NeverMailedTwice == Spec => []MailedOnce
<1>1. ASSUME TypeOK, SentOnce PROVE MailedOnce
  BY <1>1, TypeParts DEF SentOnce, MailedOnce, WorldOK
<1> QED
  BY <1>1, SendInvariant, TypeCorrect, PTL

\* Nothing goes out under a card that is pending or rejected.
THEOREM SendsAreApproved == Spec => []SentWasApproved
  BY SendInvariant, PTL

(***************************************************************************)
(* Evidence: what an executor may rely on at the step it is at.            *)
(***************************************************************************)
OnSite == {"judge", "load", "toClick", "toPoll", "click", "clicked", "poll", "pollNew", "recordSite"}

HasGrounds(p) ==
    LET c == on[p] IN
    /\ pc[p] \in OnSite \cup {"recordMail"} => kind[c] # "email_send"
    /\ pc[p] \in OnSite \cup {"recordMail", "complete"} => status[c] # "absent"
    /\ pc[p] = "recordMail" => mailed[c] > 0
    /\ pc[p] = "recordSite" => receipt
    /\ pc[p] = "complete" => IF kind[c] = "email_send" THEN mailed[c] > 0 ELSE transmittedAt

Grounds == \A p \in Executors : HasGrounds(p)

\* The executors that do not move keep their grounds.
LEMMA GroundsFrame ==
    ASSUME ProcOK, Grows, Grounds, NEW p \in Executors, HasGrounds(p)',
           \A q \in Executors : q # p => pc'[q] = pc[q] /\ on'[q] = on[q]
    PROVE  Grounds'
<1> SUFFICES ASSUME NEW q \in Executors, q # p PROVE HasGrounds(q)'
  BY DEF Grounds
<1>1. PICK c \in Cards : c = on[q]
  BY DEF ProcOK
<1>2. HasGrounds(q) /\ pc'[q] = pc[q] /\ on'[q] = c
  BY <1>1 DEF Grounds
<1> QED
  BY <1>1, <1>2 DEF HasGrounds, Grows, OnSite

\* The steps that need grounds.
Founded == OnSite \cup {"recordMail", "complete"}

LEMMA GroundsGo ==
    ASSUME ProcOK, Grows, Grounds, NEW p \in Executors, NEW step, Go(p, step),
           step \notin Founded
    PROVE  Grounds'
<1>1. pc'[p] = step /\ \A q \in Executors : q # p => pc'[q] = pc[q] /\ on'[q] = on[q]
  BY DEF Go, ProcOK
<1>2. HasGrounds(p)'
  BY <1>1 DEF HasGrounds, Founded, OnSite
<1> QED
  BY <1>1, <1>2, GroundsFrame

LEMMA GroundsBegin ==
    ASSUME ProcOK, Grows, Grounds, NEW p \in Executors, NEW g, NEW c \in Cards, NEW step,
           Begin(p, g, c, step), ~(step \in {"recordMail", "recordSite", "complete"}),
           step \in OnSite => kind'[c] # "email_send" /\ status'[c] # "absent"
    PROVE  Grounds'
<1>1. pc'[p] = step /\ on'[p] = c /\ \A q \in Executors : q # p => pc'[q] = pc[q] /\ on'[q] = on[q]
  BY DEF Begin, ProcOK
<1>2. HasGrounds(p)'
  BY <1>1 DEF HasGrounds, OnSite
<1> QED
  BY <1>1, <1>2, GroundsFrame

\* On the way through a site attempt the card does not change.
LEMMA GroundsOnSite ==
    ASSUME ProcOK, Grows, Grounds, NEW p \in Executors, NEW step \in OnSite, Go(p, step),
           pc[p] \in OnSite,
           step = "recordSite" => receipt'
    PROVE  Grounds'
<1>1. pc'[p] = step /\ on'[p] = on[p] /\ \A q \in Executors : q # p => pc'[q] = pc[q] /\ on'[q] = on[q]
  BY DEF Go, ProcOK, OnSite
<1>2. PICK c \in Cards : c = on[p]
  BY DEF ProcOK
<1>3. kind'[c] # "email_send" /\ status'[c] # "absent"
  BY <1>2 DEF Grounds, HasGrounds, Grows
<1>4. HasGrounds(p)'
  BY <1>1, <1>2, <1>3 DEF HasGrounds, OnSite
<1> QED
  BY <1>1, <1>4, GroundsFrame

LEMMA GroundsInductive == TypeOK /\ ClaimInv /\ Grounds /\ [Next]_vars => Grounds'
<1> SUFFICES ASSUME TypeOK, ClaimInv, Grounds, [Next]_vars PROVE Grounds'
  OBVIOUS
<1>0. ProcOK /\ CardOK /\ WorldOK /\ Grows
  BY TypeParts, StepGrows
<1>1. ASSUME NEW p \in Executors, NEW step, Go(p, step),
             step \notin Founded \/ (step \in OnSite \ {"recordSite"} /\ pc[p] \in OnSite)
      PROVE  Grounds'
  BY <1>0, <1>1, GroundsGo, GroundsOnSite
<1>2. ASSUME NEW p \in Executors, NEW step, Go(p, step), NEW c \in Cards, c = on[p],
             step # "idle",
             kind'[c] = kind[c], status'[c] = status[c], ~(step \in {"recordMail", "recordSite"}),
             step \in OnSite => kind[c] # "email_send" /\ status[c] # "absent",
             step = "complete" => /\ status[c] # "absent"
                                  /\ IF kind[c] = "email_send" THEN mailed'[c] > 0 ELSE transmittedAt'
      PROVE  Grounds'
  <2>1. pc'[p] = step /\ on'[p] = c /\ \A q \in Executors : q # p => pc'[q] = pc[q] /\ on'[q] = on[q]
    BY <1>0, <1>2 DEF Go, ProcOK
  <2>2. HasGrounds(p)'
    BY <1>2, <2>1 DEF HasGrounds, OnSite
  <2> QED
    BY <1>0, <2>1, <2>2, GroundsFrame
<1>4. ASSUME NEW p \in Executors, Step(p) PROVE Grounds'
  <2> USE DEF Free, Holding, Sending, Recording, HeldManual, Releasing, Claiming, Marking
  <2>1. CASE Decide(p)
    BY <1>1, <2>1 DEF Decide, Promotion, AfterDecision, Founded, OnSite
  <2>2. CASE Mark(p)
    BY <1>1, <2>2 DEF Mark, AfterMark, AfterDecision, Founded, OnSite
  <2>3. CASE Rearm(p)
    BY <1>1, <2>3 DEF Rearm, At, Founded, OnSite
  <2>4. CASE Move(p)
    BY <1>1, <2>4 DEF Move, At, Founded, OnSite
  <2>5. CASE Queue(p)
    <3>1. CASE Go(p, "idle")
      BY <1>1, <3>1 DEF Founded, OnSite
    <3>2. CASE ~Go(p, "idle")
      <4>1. pc'[p] = "decide" /\ \A q \in Executors : q # p => pc'[q] = pc[q] /\ on'[q] = on[q]
        BY <1>0, <2>5, <3>2 DEF Queue, ProcOK
      <4>2. HasGrounds(p)'
        BY <4>1 DEF HasGrounds, OnSite
      <4> QED
        BY <1>0, <4>1, <4>2, GroundsFrame
    <3> QED
      BY <3>1, <3>2
  <2>6. CASE Judge(p)
    BY <1>1, <2>6 DEF Judge, At, Founded, OnSite
  <2>7. CASE Load(p)
    BY <1>1, <2>7 DEF Load, At, Founded, OnSite
  <2>8. CASE Claim(p)
    <3>1. PICK c \in Cards : c = on[p]
      BY <1>0 DEF ProcOK
    <3>2. CASE Go(p, "idle")
      BY <1>1, <3>2 DEF Founded, OnSite
    <3>3. CASE ClaimExecution(c) /\ Go(p, AfterClaim(pc[p]))
      <4>1. pc[p] \in {"toClick", "toPoll"} => kind[c] # "email_send"
        BY <3>1 DEF Grounds, HasGrounds, OnSite
      <4>2. /\ status[c] = "approved" /\ kind'[c] = kind[c] /\ status'[c] = status[c]
        BY <2>8, <3>3 DEF Claim, ClaimExecution
      <4>3. /\ AfterClaim(pc[p]) \in {"mail", "click", "poll", "release"}
            /\ AfterClaim(pc[p]) \in {"click", "poll"} => pc[p] \in {"toClick", "toPoll"}
        BY DEF AfterClaim
      <4> QED
        BY <1>2, <3>1, <3>3, <4>1, <4>2, <4>3 DEF OnSite
    <3> QED
      BY <2>8, <3>1, <3>2, <3>3 DEF Claim
  <2>9. CASE MailRefused(p)
    BY <1>1, <2>9 DEF MailRefused, At, Founded, OnSite
  <2>10. CASE MailSent(p)
    <3>1. PICK c \in Cards : c = on[p]
      BY <1>0 DEF ProcOK
    <3>2. status[c] # "absent"
      BY <2>10, <1>0, <3>1 DEF MailSent, At, ClaimInv, HoldersClaimed, Holds, CardOK
    <3>3. mailed'[c] > 0 /\ UNCHANGED <<kind, status>>
      BY <2>10, <1>0, <3>1, BoundAssumption DEF MailSent, Mailed, WorldOK, cardVars
    <3>4. CASE kind[c] = "email_send" /\ Go(p, "complete")
      BY <1>2, <3>1, <3>2, <3>3, <3>4 DEF OnSite
    <3>5. CASE kind[c] # "email_send" /\ Go(p, "recordMail")
      <4>1. pc'[p] = "recordMail" /\ on'[p] = c /\ \A q \in Executors : q # p => pc'[q] = pc[q] /\ on'[q] = on[q]
        BY <1>0, <3>1, <3>5 DEF Go, ProcOK
      <4>2. HasGrounds(p)'
        BY <3>2, <3>3, <3>5, <4>1 DEF HasGrounds, OnSite
      <4> QED
        BY <1>0, <4>1, <4>2, GroundsFrame
    <3> QED
      BY <2>10, <3>1, <3>4, <3>5 DEF MailSent
  <2>11. CASE ClickRefused(p)
    BY <1>1, <2>11 DEF ClickRefused, At, Founded, OnSite
  <2>12. CASE Click(p)
    BY <1>1, <2>12 DEF Click, At, Founded, OnSite
  <2>13. CASE Classify(p)
    BY <1>1, <2>13 DEF Classify, At, Founded, OnSite
  <2>14. CASE Poll(p)
    <3>1. CASE Go(p, "recordSite") /\ receipt
      BY <1>0, <2>14, <3>1, GroundsOnSite DEF Poll, OnSite, worldVars
    <3> QED
      BY <1>1, <2>14, <3>1 DEF Poll, ReceiptFound, Founded, OnSite
  <2>15. CASE RecordMail(p)
    <3>1. PICK c \in Cards : c = on[p]
      BY <1>0 DEF ProcOK
    <3>2. kind[c] # "email_send" /\ status[c] # "absent"
      BY <2>15, <3>1 DEF RecordMail, At, Grounds, HasGrounds, OnSite
    <3> QED
      BY <1>2, <2>15, <3>1, <3>2 DEF RecordMail, Transmitted, cardVars, OnSite
  <2>16. CASE RecordSite(p)
    <3>1. PICK c \in Cards : c = on[p]
      BY <1>0 DEF ProcOK
    <3>2. kind[c] # "email_send" /\ status[c] # "absent"
      BY <2>16, <3>1 DEF RecordSite, At, Grounds, HasGrounds, OnSite
    <3> QED
      BY <1>2, <2>16, <3>1, <3>2 DEF RecordSite, Transmitted, cardVars, OnSite
  <2>17. CASE Complete(p)
    BY <1>1, <2>17 DEF Complete, At, Founded, OnSite
  <2>18. CASE RecordManual(p)
    BY <1>1, <2>18 DEF RecordManual, At, Founded, OnSite
  <2>19. CASE RecordPending(p)
    BY <1>1, <2>19 DEF RecordPending, At, Founded, OnSite
  <2>20. CASE Release(p)
    BY <1>1, <2>20 DEF Release, AfterRelease, Founded, OnSite
  <2> QED
    BY <1>4, <2>1, <2>2, <2>3, <2>4, <2>5, <2>6, <2>7, <2>8, <2>9, <2>10, <2>11, <2>12, <2>13,
       <2>14, <2>15, <2>16, <2>17, <2>18, <2>19, <2>20 DEF Step
<1>5. ASSUME NEW p \in Executors, Fails(p) PROVE Grounds'
  <2> USE DEF Free, Holding, Sending, Recording, HeldManual, Releasing, Claiming, Marking
  <2>1. CASE MailReplyLost(p)
    BY <1>1, <2>1 DEF MailReplyLost, At, Founded, OnSite
  <2>2. CASE DocumentFails(p)
    BY <1>1, <2>2 DEF DocumentFails, At, Founded, OnSite
  <2>3. CASE BrowserLost(p)
    BY <1>1, <2>3 DEF BrowserLost, At, Founded, OnSite
  <2>4. CASE PollFails(p)
    BY <1>1, <2>4 DEF PollFails, At, Founded, OnSite
  <2>5. CASE WriteFails(p)
    BY <1>1, <2>5 DEF WriteFails, At, Founded, OnSite
  <2>6. CASE MarkFails(p)
    BY <1>1, <2>6 DEF MarkFails, AfterMark, AfterDecision, Founded, OnSite
  <2>7. CASE Dies(p)
    BY <1>1, <2>7 DEF Dies, At, Founded, OnSite
  <2> QED
    BY <1>5, <2>1, <2>2, <2>3, <2>4, <2>5, <2>6, <2>7 DEF Fails
<1>6. ASSUME NEW p \in Executors, NEW g, NEW c \in Cards, NEW step, Begin(p, g, c, step),
             ~(step \in {"recordMail", "recordSite", "complete"}),
             step \in OnSite => kind'[c] # "email_send" /\ status'[c] # "absent"
      PROVE  Grounds'
  BY <1>0, <1>6, GroundsBegin
<1>7. ASSUME NEW p \in Requests, Handle(p) PROVE Grounds'
  BY <1>6, <1>7, FirstCard DEF Handle, Apply, RecordSubmission, ReadToMove, ReadToDecide,
     Reconfirm, Digest,
     Execute, ActionAllowed, RequestSubmission, AgentGrants, Executors, OnSite, cardVars
<1>8. ASSUME NEW p \in Sweepers, NEW c \in Cards, SweepSelect(p, c) PROVE Grounds'
  BY <1>6, <1>8 DEF SweepSelect, Newest, Executors, cardVars
<1>9. ASSUME UNCHANGED procVars PROVE Grounds'
  <2> SUFFICES ASSUME NEW q \in Executors PROVE HasGrounds(q)'
    BY DEF Grounds
  <2>1. PICK c \in Cards : c = on[q]
    BY <1>0 DEF ProcOK
  <2>2. HasGrounds(q) /\ pc'[q] = pc[q] /\ on'[q] = c
    BY <1>9, <2>1 DEF Grounds, procVars
  <2> QED
    BY <1>0, <2>1, <2>2 DEF HasGrounds, Grows, OnSite
<1>10. CASE World \/ Resting \/ UNCHANGED vars
  BY <1>9, <1>10 DEF World, Elapse, Delete, Raise, Answer, ReceiptArrives, InterviewInvite,
     Resting, vars, procVars
<1> QED
  BY <1>4, <1>5, <1>7, <1>8, <1>10 DEF Next

\* The record of a transmission, of a receipt and of a completion.
ReceiptWasEarned == receipt => \E c \in Cards : clicked[c] > 0

EvidenceInv == ReceiptWasEarned /\ TransmissionHasEvidence /\ CompletedIsProof

LEMMA EvidenceFrame ==
    ASSUME TypeOK, SentWasApproved, Grows, EvidenceInv,
           UNCHANGED <<receipt, transmittedAt>>,
           \A c \in Cards : stamp'[c] = "completed" => stamp[c] = "completed"
    PROVE  EvidenceInv'
<1>1. ReceiptWasEarned'
  BY DEF EvidenceInv, ReceiptWasEarned, Grows
<1>2. TransmissionHasEvidence'
  BY TypeParts DEF EvidenceInv, TransmissionHasEvidence, Grows, SentWasApproved, WorldOK
<1>3. CompletedIsProof'
  BY TypeParts DEF EvidenceInv, CompletedIsProof, Grows, CardOK
<1> QED
  BY <1>1, <1>2, <1>3 DEF EvidenceInv

LEMMA EvidenceInductive ==
    TypeOK /\ SentWasApproved /\ Grounds /\ EvidenceInv /\ [Next]_vars => EvidenceInv'
<1> SUFFICES ASSUME TypeOK, SentWasApproved, Grounds, EvidenceInv, [Next]_vars PROVE EvidenceInv'
  OBVIOUS
<1>0. ProcOK /\ CardOK /\ WorldOK /\ Grows
  BY TypeParts, StepGrows
<1>1. ASSUME UNCHANGED <<stamp, receipt, transmittedAt>> PROVE EvidenceInv'
  BY <1>0, <1>1, EvidenceFrame
<1>2. ASSUME NEW c \in Cards, NEW k, Create(c, k), UNCHANGED <<receipt,
             transmittedAt>> PROVE EvidenceInv'
  BY <1>1, <1>2 DEF Create, Insert, Refresh, cardVars
<1>4. ASSUME NEW p \in Executors, Step(p) PROVE EvidenceInv'
  <2>1. CASE Decide(p)
    BY <1>1, <2>1 DEF Decide, Resolve, cardVars, worldVars
  <2>2. CASE Mark(p)
    BY <1>1, <2>2 DEF Mark, cardVars, appVars, worldVars
  <2>3. CASE Rearm(p)
    BY <1>1, <2>3 DEF Rearm, cardVars, appVars, worldVars
  <2>4. CASE Move(p)
    BY <1>1, <2>4 DEF Move, cardVars, appVars, worldVars
  <2>5. CASE Queue(p)
    BY <1>1, <1>2, <2>5 DEF Queue, cardVars, appVars, worldVars
  <2>6. CASE Judge(p)
    BY <1>1, <2>6 DEF Judge, cardVars, appVars, worldVars
  <2>7. CASE Load(p)
    BY <1>1, <2>7 DEF Load, cardVars, appVars, worldVars
  <2>8. CASE Claim(p)
    <3>1. \A d \in Cards : stamp'[d] = "completed" => stamp[d] = "completed"
      BY <1>0, <2>8 DEF Claim, ClaimExecution, CardOK, ProcOK
    <3> QED
      BY <1>0, <2>8, <3>1, EvidenceFrame DEF Claim, appVars, worldVars
  <2>9. CASE MailRefused(p)
    BY <1>1, <2>9 DEF MailRefused, cardVars, appVars, worldVars
  <2>10. CASE MailSent(p)
    BY <1>1, <2>10 DEF MailSent, cardVars, appVars, worldVars
  <2>11. CASE ClickRefused(p)
    BY <1>1, <2>11 DEF ClickRefused, cardVars, appVars, worldVars
  <2>12. CASE Click(p)
    BY <1>1, <2>12 DEF Click, cardVars, appVars, worldVars
  <2>13. CASE Classify(p)
    BY <1>1, <2>13 DEF Classify, cardVars, appVars, worldVars
  <2>14. CASE Poll(p)
    BY <1>1, <2>14 DEF Poll, cardVars, appVars, worldVars
  <2>15. CASE RecordMail(p)
    <3>1. PICK c \in Cards : c = on[p] /\ kind[c] # "email_send" /\ mailed[c] > 0
      BY <1>0, <2>15 DEF RecordMail, At, Grounds, HasGrounds, ProcOK
    <3>2. UNCHANGED <<kind, status, stamp, mailed, clicked, receipt>> /\ transmittedAt'
      BY <2>15 DEF RecordMail, Transmitted, cardVars, worldVars
    <3> QED
      BY <3>1, <3>2 DEF EvidenceInv, ReceiptWasEarned, TransmissionHasEvidence, CompletedIsProof
  <2>16. CASE RecordSite(p)
    <3>1. receipt /\ \E c \in Cards : clicked[c] > 0
      BY <2>16 DEF RecordSite, At, Grounds, HasGrounds, EvidenceInv, ReceiptWasEarned
    <3>2. UNCHANGED <<kind, status, stamp, mailed, clicked, receipt>> /\ transmittedAt'
      BY <2>16 DEF RecordSite, Transmitted, cardVars, worldVars
    <3> QED
      BY <3>1, <3>2 DEF EvidenceInv, ReceiptWasEarned, TransmissionHasEvidence, CompletedIsProof
  <2>17. CASE Complete(p)
    <3>1. PICK c \in Cards : c = on[p]
      BY <1>0 DEF ProcOK
    <3>2. IF kind[c] = "email_send" THEN mailed[c] > 0 ELSE transmittedAt
      BY <2>17, <3>1 DEF Complete, At, Grounds, HasGrounds
    <3>3. /\ UNCHANGED <<kind, status, transmittedAt, mailed, clicked, receipt>>
          /\ \A d \in Cards : d # c => stamp'[d] = stamp[d]
      BY <1>0, <2>17, <3>1 DEF Complete, CardOK, appVars, worldVars
    <3>4. CompletedIsProof'
      BY <3>2, <3>3 DEF EvidenceInv, CompletedIsProof
    <3>5. ReceiptWasEarned' /\ TransmissionHasEvidence'
      BY <3>3 DEF EvidenceInv, ReceiptWasEarned, TransmissionHasEvidence
    <3> QED
      BY <3>4, <3>5 DEF EvidenceInv
  <2>18. CASE RecordManual(p)
    BY <1>1, <2>18 DEF RecordManual, cardVars, appVars, worldVars
  <2>19. CASE RecordPending(p)
    BY <1>1, <2>19 DEF RecordPending, cardVars, appVars, worldVars
  <2>20. CASE Release(p)
    <3>1. \A d \in Cards : stamp'[d] = "completed" => stamp[d] = "completed"
      BY <1>0, <2>20 DEF Release, CardOK, ProcOK
    <3> QED
      BY <1>0, <2>20, <3>1, EvidenceFrame DEF Release, appVars, worldVars
  <2> QED
    BY <1>4, <2>1, <2>2, <2>3, <2>4, <2>5, <2>6, <2>7, <2>8, <2>9, <2>10, <2>11, <2>12, <2>13,
       <2>14, <2>15, <2>16, <2>17, <2>18, <2>19, <2>20 DEF Step
<1>5. ASSUME NEW p \in Executors, Fails(p) PROVE EvidenceInv'
  BY <1>1, <1>5 DEF Fails, MailReplyLost, DocumentFails, BrowserLost, PollFails, WriteFails,
     MarkFails, Dies, cardVars, appVars, worldVars
<1>6. ASSUME NEW p \in Executors, Handle(p) \/ \E c \in Cards : SweepSelect(p,
             c) PROVE EvidenceInv'
  BY <1>1, <1>2, <1>6 DEF Handle, Apply, RecordSubmission, ReadToMove, ReadToDecide,
     Reconfirm, Digest, Execute,
     RequestSubmission, AgentGrants, SweepSelect, cardVars, appVars, worldVars
<1>7. ASSUME NEW c \in Cards, Elapse(c) \/ Delete(c) \/ \E k \in Kinds : Raise(c,
             k) PROVE EvidenceInv'
  <2>1. CASE Elapse(c)
    BY <1>1, <2>1 DEF Elapse, appVars, worldVars
  <2>2. CASE Delete(c)
    <3>1. \A d \in Cards : stamp'[d] = "completed" => stamp[d] = "completed"
      BY <1>0, <2>2 DEF Delete, CardOK
    <3> QED
      BY <1>0, <2>2, <3>1, EvidenceFrame DEF Delete, appVars, worldVars
  <2>3. CASE \E k \in Kinds : Raise(c, k)
    BY <1>2, <2>3 DEF Raise, Create, appVars, worldVars
  <2> QED
    BY <1>7, <2>1, <2>2, <2>3
<1>8. CASE ReceiptArrives
  <2>1. UNCHANGED <<kind, stamp, transmittedAt, mailed, clicked>> /\ \E c \in Cards : clicked[c] > 0
    BY <1>8 DEF ReceiptArrives, cardVars, appVars
  <2> QED
    BY <1>0, <2>1 DEF Grows, EvidenceInv, ReceiptWasEarned, TransmissionHasEvidence,
       CompletedIsProof
<1>9. CASE Answer \/ InterviewInvite \/ Resting \/ UNCHANGED vars
  BY <1>1, <1>9 DEF Answer, InterviewInvite, Resting, vars, cardVars, appVars, worldVars
<1> QED
  BY <1>4, <1>5, <1>6, <1>7, <1>8, <1>9 DEF Next, World, Executors

LEMMA EvidenceInit == Init => Grounds /\ EvidenceInv
<1>1. Init => Grounds
  BY DEF Init, Grounds, HasGrounds, OnSite
<1>2. Init => EvidenceInv
  BY DEF Init, EvidenceInv, ReceiptWasEarned, TransmissionHasEvidence, CompletedIsProof
<1> QED
  BY <1>1, <1>2

LEMMA EvidenceInvariant == Spec => []EvidenceInv
  BY EvidenceInit, GroundsInductive, EvidenceInductive, TypeCorrect, ClaimInvariant,
     SendInvariant, PTL DEF Spec

\* An application recorded as transmitted was mailed, or clicked and receipted.
THEOREM TransmissionIsEvidenced == Spec => []TransmissionHasEvidence
<1>1. EvidenceInv => TransmissionHasEvidence
  BY DEF EvidenceInv
<1> QED
  BY <1>1, EvidenceInvariant, PTL

\* A completed card did what it was approved for.
THEOREM CompletionIsProof == Spec => []CompletedIsProof
<1>1. EvidenceInv => CompletedIsProof
  BY DEF EvidenceInv
<1> QED
  BY <1>1, EvidenceInvariant, PTL

(***************************************************************************)
(* The marker "recorded, not transmitted".                                 *)
(***************************************************************************)
MarkInv == MarkerExcludesEvidence /\ SubmittedIsExplained

\* No executor that owes the marker turns to another step.
MarkersStay == \A q \in Executors : pc[q] \in Marking => pc'[q] \in Marking

LEMMA MarkersGo ==
    ASSUME ProcOK, NEW p \in Executors, NEW step, Go(p, step),
           pc[p] \notin Marking PROVE MarkersStay
  BY DEF MarkersStay, Go, ProcOK

LEMMA MarkersBegin ==
    ASSUME ProcOK, NEW p \in Executors, NEW g, NEW c, NEW step, Begin(p, g, c,
           step) PROVE MarkersStay
  BY DEF MarkersStay, Begin, At, Marking, ProcOK

\* Explained rows stay explained while the markers stay and only evidence is added.
LEMMA MarkFrame ==
    ASSUME TypeOK, MarkInv, UNCHANGED <<truth, transmittedAt>>, unmarked => unmarked',
           \/ MarkersStay /\ (stage' \in {"submitted", "later"} => stage \in {"submitted", "later"})
           \/ \E p \in Executors : pc'[p] \in Marking
           \/ unmarked'
    PROVE  MarkInv'
<1>1. MarkerExcludesEvidence'
  BY DEF MarkInv, MarkerExcludesEvidence
<1>2. SubmittedIsExplained'
  BY DEF MarkInv, SubmittedIsExplained, MarkersStay
<1> QED
  BY <1>1, <1>2 DEF MarkInv

LEMMA MarkInductive == TypeOK /\ MarkInv /\ [Next]_vars => MarkInv'
<1> SUFFICES ASSUME TypeOK, MarkInv, [Next]_vars PROVE MarkInv'
  OBVIOUS
<1>0. ProcOK /\ AppOK
  BY TypeParts
<1>1. ASSUME MarkersStay, UNCHANGED <<stage, truth, transmittedAt, unmarked>> PROVE MarkInv'
  BY <1>1, MarkFrame
<1>2. ASSUME NEW p \in Executors, NEW step, Go(p, step), pc[p] \notin Marking PROVE MarkersStay
  BY <1>0, <1>2, MarkersGo
<1>3. ASSUME NEW p \in Executors, NEW step \in Marking, pc' = [pc EXCEPT ![p] = step],
             UNCHANGED <<truth, transmittedAt, unmarked>>
      PROVE  MarkInv'
  BY <1>0, <1>3, MarkFrame DEF ProcOK
<1>4. ASSUME Transmitted PROVE MarkInv'
  BY <1>0, <1>4 DEF Transmitted, MarkInv, MarkerExcludesEvidence, SubmittedIsExplained
<1>5. ASSUME NEW p \in Executors, Step(p) PROVE MarkInv'
  <2> USE DEF Free, Holding, Sending, Recording, HeldManual, Releasing, Claiming, Marking
  <2>1. CASE Decide(p)
    <3>1. CASE Promotion(p)
      BY <1>3, <2>1, <3>1 DEF Decide, Promotion, Go, histVars
    <3>2. CASE stage' = "rejected" /\ Go(p, "idle")
      BY <1>2, <2>1, <3>2, MarkFrame DEF Decide, At, histVars
    <3>3. CASE UNCHANGED stage /\ (Go(p, "idle") \/ Go(p, AfterDecision(p)))
      BY <1>1, <1>2, <2>1, <3>3 DEF Decide, At, histVars
    <3> QED
      BY <2>1, <3>1, <3>2, <3>3 DEF Decide
  <2>2. CASE Mark(p)
    <3>1. truth' = (truth \/ ~transmittedAt) /\ UNCHANGED transmittedAt
      BY <2>2 DEF Mark, MarksUnsent
    <3> QED
      BY <1>0, <3>1 DEF MarkInv, MarkerExcludesEvidence, SubmittedIsExplained, AppOK
  <2>3. CASE Rearm(p)
    BY <1>1, <1>2, <2>3 DEF Rearm, At, appVars, histVars
  <2>4. CASE Move(p)
    <3>1. MarkersStay
      BY <1>2, <2>4 DEF Move, At
    <3>2. unmarked => unmarked'
      BY <2>4 DEF Move
    <3>3. unmarked' \/ (stage' \in {"submitted", "later"} => stage \in {"submitted", "later"})
      BY <1>0, <2>4 DEF Move, AppOK
    <3> QED
      BY <2>4, <3>1, <3>2, <3>3, MarkFrame DEF Move
  <2>5. CASE Queue(p)
    <3>1. MarkersStay
      <4>1. CASE Go(p, "idle")
        BY <1>2, <2>5, <4>1 DEF Queue, At
      <4>2. CASE ~Go(p, "idle")
        BY <1>0, <2>5, <4>2 DEF Queue, At, MarkersStay, ProcOK
      <4> QED
        BY <4>1, <4>2
    <3> QED
      BY <1>1, <2>5, <3>1 DEF Queue, appVars, histVars
  <2>6. CASE Judge(p)
    BY <1>1, <1>2, <2>6 DEF Judge, At, appVars, histVars
  <2>7. CASE Load(p)
    BY <1>1, <1>2, <2>7 DEF Load, At, appVars, histVars
  <2>8. CASE Claim(p)
    BY <1>1, <1>2, <2>8 DEF Claim, At, appVars, histVars
  <2>9. CASE MailRefused(p)
    BY <1>1, <1>2, <2>9 DEF MailRefused, At, appVars, histVars
  <2>10. CASE MailSent(p)
    BY <1>1, <1>2, <2>10 DEF MailSent, At, appVars, histVars
  <2>11. CASE ClickRefused(p)
    BY <1>1, <1>2, <2>11 DEF ClickRefused, At, appVars, histVars
  <2>12. CASE Click(p)
    BY <1>1, <1>2, <2>12 DEF Click, At, appVars, histVars
  <2>13. CASE Classify(p)
    BY <1>1, <1>2, <2>13 DEF Classify, At, appVars, histVars
  <2>14. CASE Poll(p)
    BY <1>1, <1>2, <2>14 DEF Poll, At, appVars, histVars
  <2>15. CASE RecordMail(p)
    BY <1>4, <2>15 DEF RecordMail
  <2>16. CASE RecordSite(p)
    BY <1>4, <2>16 DEF RecordSite
  <2>17. CASE Complete(p)
    BY <1>1, <1>2, <2>17 DEF Complete, At, appVars, histVars
  <2>18. CASE RecordManual(p)
    BY <1>1, <1>2, <2>18 DEF RecordManual, At, appVars, histVars
  <2>19. CASE RecordPending(p)
    BY <1>1, <1>2, <2>19 DEF RecordPending, At, appVars, histVars
  <2>20. CASE Release(p)
    BY <1>1, <1>2, <2>20 DEF Release, At, appVars, histVars
  <2> QED
    BY <1>5, <2>1, <2>2, <2>3, <2>4, <2>5, <2>6, <2>7, <2>8, <2>9, <2>10, <2>11, <2>12, <2>13,
       <2>14, <2>15, <2>16, <2>17, <2>18, <2>19, <2>20 DEF Step
<1>6. ASSUME NEW p \in Executors, Fails(p) PROVE MarkInv'
  <2> USE DEF Free, Holding, Sending, Recording, HeldManual, Releasing, Claiming, Marking
  <2>1. CASE MailReplyLost(p)
    BY <1>1, <1>2, <2>1 DEF MailReplyLost, At, appVars, histVars
  <2>2. CASE DocumentFails(p)
    BY <1>1, <1>2, <2>2 DEF DocumentFails, At, appVars, histVars
  <2>3. CASE BrowserLost(p)
    BY <1>1, <1>2, <2>3 DEF BrowserLost, At, appVars, histVars
  <2>4. CASE PollFails(p)
    BY <1>1, <1>2, <2>4 DEF PollFails, At, appVars, histVars
  <2>5. CASE WriteFails(p)
    BY <1>1, <1>2, <2>5 DEF WriteFails, At, appVars, histVars
  <2>6. CASE MarkFails(p)
    BY <2>6, MarkFrame DEF MarkFails, appVars
  <2>7. CASE Dies(p)
    <3>1. MarkersStay \/ unmarked'
      BY <1>2, <2>7 DEF Dies
    <3> QED
      BY <2>7, <3>1, MarkFrame DEF Dies, appVars
  <2> QED
    BY <1>6, <2>1, <2>2, <2>3, <2>4, <2>5, <2>6, <2>7 DEF Fails
<1>7. ASSUME NEW p \in Executors, NEW g, NEW c, NEW step, Begin(p, g, c, step) PROVE MarkersStay
  BY <1>0, <1>7, MarkersBegin
<1>8. ASSUME NEW p \in Requests, Handle(p) PROVE MarkInv'
  <2> USE <1>7 DEF Executors
  <2>1. CASE Apply(p) \/ RecordSubmission(p)
    <3>1. CASE stage = "draft"
      BY <1>3, <2>1, <3>1 DEF Apply, RecordSubmission, Begin, Marking, histVars
    <3>2. CASE stage # "draft"
      BY <1>1, <2>1, <3>2 DEF Apply, RecordSubmission, histVars
    <3> QED
      BY <3>1, <3>2
  <2>2. CASE ReadToMove(p) \/ \E c \in Cards : Reconfirm(p, c) \/ Digest(p, c) \/ Execute(p, c)
    BY <1>1, <2>2 DEF ReadToMove, Reconfirm, Digest, Execute, appVars, histVars
  <2>3. CASE \E c \in Cards : ReadToDecide(p, c, "approve") \/ ReadToDecide(p, c, "reject")
    BY <1>1, <2>3 DEF ReadToDecide, appVars, histVars
  <2>4. CASE \E c \in Cards, k \in Kinds : RequestSubmission(p, c, k) \/ AgentGrants(p, c, k)
    BY <1>1, <2>4 DEF RequestSubmission, AgentGrants, appVars, histVars
  <2> QED
    BY <1>8, <2>1, <2>2, <2>3, <2>4 DEF Handle
<1>9. ASSUME NEW p \in Sweepers, NEW c \in Cards, SweepSelect(p, c) PROVE MarkInv'
  BY <1>1, <1>7, <1>9 DEF SweepSelect, Executors, appVars, histVars
<1>10. ASSUME UNCHANGED procVars PROVE MarkersStay
  BY <1>10 DEF procVars, MarkersStay
<1>11. CASE InterviewInvite
  BY <1>10, <1>11, MarkFrame DEF InterviewInvite, histVars
<1>12. CASE World /\ ~InterviewInvite
  BY <1>1, <1>10, <1>12 DEF World, Elapse, Delete, Raise, Answer, ReceiptArrives, appVars,
     histVars
<1>13. CASE Resting \/ UNCHANGED vars
  BY <1>1, <1>10, <1>13 DEF Resting, vars, appVars, procVars, histVars
<1> QED
  BY <1>5, <1>6, <1>8, <1>9, <1>11, <1>12, <1>13 DEF Next

LEMMA MarkInvariant == Spec => []MarkInv
<1>1. Init => MarkInv
  BY DEF Init, MarkInv, MarkerExcludesEvidence, SubmittedIsExplained
<1> QED
  BY <1>1, MarkInductive, TypeCorrect, PTL DEF Spec

\* A transmitted application never carries the marker.
THEOREM MarkerIsHonest == Spec => []MarkerExcludesEvidence
<1>1. MarkInv => MarkerExcludesEvidence
  BY DEF MarkInv
<1> QED
  BY <1>1, MarkInvariant, PTL

\* Every row that claims a submission says on what grounds, or a handler is about to.
THEOREM ClaimsAreExplained == Spec => []SubmittedIsExplained
<1>1. MarkInv => SubmittedIsExplained
  BY DEF MarkInv
<1> QED
  BY <1>1, MarkInvariant, PTL

(***************************************************************************)
(* Nobody sets out under a stale approval: only an approved card grows     *)
(* stale, so whoever decides one, or judges one fit, has another in hand.  *)
(***************************************************************************)
YoungInv == \A c \in Cards : status[c] \in {"absent", "pending"} => age[c] < 2

LEMMA YoungInductive == TypeOK /\ YoungInv /\ [Next]_vars => YoungInv'
<1> SUFFICES ASSUME TypeOK, YoungInv, [Next]_vars PROVE YoungInv'
  OBVIOUS
<1>0. CardOK
  BY TypeParts
<1>1. ASSUME age' = age,
             \A c \in Cards : status'[c] \in {status[c], "pending", "approved", "rejected"},
             \A c \in Cards : status'[c] = "pending" => status[c] \in {"absent", "pending"}
      PROVE  YoungInv'
  BY <1>1 DEF YoungInv
<1>2. ASSUME UNCHANGED <<status, age>> PROVE YoungInv'
  BY <1>2 DEF YoungInv
<1>3. ASSUME NEW c \in Cards, NEW k, Create(c, k) PROVE YoungInv'
  BY <1>0, <1>1, <1>2, <1>3 DEF Create, Insert, Refresh, cardVars, CardOK
<1>4. ASSUME NEW p \in Executors, Step(p) PROVE YoungInv'
  <2>1. CASE Decide(p)
    <3>1. PICK c \in Cards : c = on[p]
      BY TypeParts DEF ProcOK
    <3>2. CASE Resolve(p, c)
      BY <1>0, <1>1, <3>2 DEF Resolve, CardOK
    <3>3. CASE UNCHANGED cardVars
      BY <1>2, <3>3 DEF cardVars
    <3> QED
      BY <2>1, <3>1, <3>2, <3>3 DEF Decide
  <2>2. CASE Queue(p)
    BY <1>2, <1>3, <2>2 DEF Queue, cardVars
  <2>3. CASE ~Decide(p) /\ ~Queue(p)
    BY <1>2, <1>4, <2>3 DEF Step, Mark, Rearm, Move, Judge, Load, Claim, MailRefused, MailSent,
       ClickRefused, Click, Classify, Poll, RecordMail, RecordSite, Complete, RecordManual,
       RecordPending, Release, cardVars
  <2> QED
    BY <2>1, <2>2, <2>3
<1>5. ASSUME NEW p \in Executors, Fails(p) PROVE YoungInv'
  BY <1>2, <1>5 DEF Fails, MailReplyLost, DocumentFails, BrowserLost, PollFails, WriteFails,
     MarkFails, Dies, cardVars
<1>6. ASSUME NEW p \in Requests, Handle(p) PROVE YoungInv'
  <2>1. CASE Apply(p) \/ RecordSubmission(p) \/ ReadToMove(p)
    BY <1>2, <2>1 DEF Apply, RecordSubmission, ReadToMove, cardVars
  <2>2. CASE \E c \in Cards : \/ ReadToDecide(p, c, "approve") \/ ReadToDecide(p, c, "reject")
                              \/ Digest(p, c) \/ Execute(p, c)
    BY <1>2, <2>2 DEF ReadToDecide, Digest, Execute, cardVars
  <2>3. CASE \E c \in Cards : \/ Reconfirm(p, c)
                              \/ \E k \in Kinds : RequestSubmission(p, c, k) \/ AgentGrants(p, c, k)
    BY <1>3, <2>3 DEF Reconfirm, RequestSubmission, AgentGrants
  <2> QED
    BY <1>6, <2>1, <2>2, <2>3 DEF Handle
<1>7. ASSUME NEW p \in Sweepers, NEW c \in Cards, SweepSelect(p, c) PROVE YoungInv'
  BY <1>2, <1>7 DEF SweepSelect, cardVars
<1>8. ASSUME NEW c \in Cards, Elapse(c) PROVE YoungInv'
  BY <1>0, <1>8 DEF Elapse, YoungInv, CardOK
<1>9. ASSUME NEW c \in Cards, Delete(c) PROVE YoungInv'
  BY <1>0, <1>9 DEF Delete, YoungInv, CardOK
<1>10. ASSUME NEW c \in Cards, NEW k \in Kinds, Raise(c, k) PROVE YoungInv'
  BY <1>3, <1>10 DEF Raise, Create
<1>11. CASE Answer \/ ReceiptArrives \/ InterviewInvite \/ Resting \/ UNCHANGED vars
  BY <1>2, <1>11 DEF Answer, ReceiptArrives, InterviewInvite, Resting, vars, cardVars
<1> QED
  BY <1>4, <1>5, <1>6, <1>7, <1>8, <1>9, <1>10, <1>11 DEF Next, World

LEMMA StaysBehind ==
    ASSUME TypeOK, YoungInv, [Next]_vars, ~siteSubmittedAt, NEW c \in Cards, age[c] = 2, ~SetOut(c)
    PROVE  ~SetOut(c)'
<1> DEFINE Underway == {"load"} \cup Claiming \cup Sending
<1>0. ProcOK /\ CardOK
  BY TypeParts
<1>1. ASSUME NEW p \in Executors, NEW step, Go(p, step), step \notin Underway, step # "mark"
      PROVE  ~SetOut(c)'
  BY <1>0, <1>1 DEF Go, ProcOK, SetOut, At, AfterDecision
<1>2. ASSUME NEW p \in Executors, NEW step, Go(p, step), on[p] # c PROVE ~SetOut(c)'
  <2>1. CASE step = "idle"
    BY <1>1, <1>2, <2>1 DEF Claiming, Sending
  <2>2. CASE step # "idle"
    BY <1>0, <1>2, <2>2 DEF Go, ProcOK, SetOut, At, AfterDecision
  <2> QED
    BY <2>1, <2>2
<1>3. ASSUME UNCHANGED procVars PROVE ~SetOut(c)'
  BY <1>3 DEF procVars, SetOut, At, AfterDecision
<1>4. ASSUME NEW p \in Executors, NEW g, NEW d \in Cards, NEW step, Begin(p, g, d, step),
             d # c \/ step \notin Underway, step = "mark" => g = "record"
      PROVE  ~SetOut(c)'
  BY <1>0, <1>4 DEF Begin, ProcOK, SetOut, At, AfterDecision, Claiming, Sending
<1>5. ASSUME NEW p \in Executors, pc[p] \in Underway PROVE on[p] # c
  BY <1>5 DEF SetOut
<1>6. ASSUME NEW p \in Executors, Step(p) PROVE ~SetOut(c)'
  <2> USE DEF Claiming, Sending, Recording, HeldManual, Releasing, Marking
  <2>1. CASE Decide(p)
    BY <1>1, <1>2, <2>1 DEF Decide, Resolve, Promotion, YoungInv
  <2>2. CASE Mark(p)
    <3>1. CASE At(p, "markFirst")
      BY <1>1, <2>2, <3>1 DEF Mark, AfterMark
    <3>2. CASE At(p, "mark") /\ on[p] = c
      BY <1>1, <2>2, <3>2 DEF Mark, AfterMark, AfterDecision, SetOut, At
    <3>3. CASE on[p] # c
      BY <1>2, <2>2, <3>3 DEF Mark
    <3> QED
      BY <2>2, <3>1, <3>2, <3>3 DEF Mark, At
  <2>3. CASE Rearm(p) \/ Move(p) \/ RecordMail(p) \/ RecordSite(p) \/ Complete(p) \/ RecordManual(p)
    BY <1>1, <2>3 DEF Rearm, Move, RecordMail, RecordSite, Complete, RecordManual
  <2>4. CASE RecordPending(p) \/ Release(p)
    BY <1>1, <2>4 DEF RecordPending, Release, AfterRelease
  <2>5. CASE Queue(p)
    <3>1. CASE Go(p, "idle")
      BY <1>1, <3>1
    <3>2. CASE ~Go(p, "idle")
      BY <1>0, <2>5, <3>2 DEF Queue, ProcOK, SetOut, At, AfterDecision
    <3> QED
      BY <3>1, <3>2
  <2>6. CASE Judge(p)
    BY <1>1, <1>2, <2>6 DEF Judge, TooOld
  <2>7. CASE Load(p) \/ Claim(p)
    BY <1>2, <1>5, <2>7 DEF Load, Claim, At
  <2>8. CASE MailRefused(p) \/ MailSent(p) \/ ClickRefused(p) \/ Click(p) \/ Classify(p) \/ Poll(p)
    BY <1>2, <1>5, <2>8 DEF MailRefused, MailSent, ClickRefused, Click, Classify, Poll, At
  <2> QED
    BY <1>6, <2>1, <2>2, <2>3, <2>4, <2>5, <2>6, <2>7, <2>8 DEF Step
<1>7. ASSUME NEW p \in Executors, Fails(p) PROVE ~SetOut(c)'
  <2>1. CASE MarkFails(p)
    <3>1. CASE At(p, "markFirst")
      BY <1>1, <2>1, <3>1 DEF MarkFails, AfterMark, Claiming, Sending
    <3>2. CASE At(p, "mark") /\ on[p] = c
      BY <1>1, <2>1, <3>2 DEF MarkFails, AfterMark, AfterDecision, SetOut, At, Claiming, Sending
    <3>3. CASE on[p] # c
      BY <1>2, <2>1, <3>3 DEF MarkFails
    <3> QED
      BY <2>1, <3>1, <3>2, <3>3 DEF MarkFails, Marking, At
  <2>2. CASE ~MarkFails(p)
    BY <1>1, <1>7, <2>2 DEF Fails, MailReplyLost, DocumentFails, BrowserLost, PollFails,
       WriteFails, Dies, Claiming, Sending
  <2> QED
    BY <2>1, <2>2
<1>8. ASSUME NEW p \in Requests, Handle(p) PROVE ~SetOut(c)'
  <2> USE DEF Executors, Claiming, Sending
  <2>1. CASE Apply(p) \/ RecordSubmission(p) \/ ReadToMove(p)
    BY <1>4, <2>1, FirstCard DEF Apply, RecordSubmission, ReadToMove
  <2>2. CASE \E d \in Cards : Execute(p, d)
    BY <1>4, <2>2 DEF Execute, ActionAllowed
  <2>3. CASE \E d \in Cards : \/ ReadToDecide(p, d, "approve") \/ ReadToDecide(p, d, "reject")
                              \/ Digest(p, d) \/ Reconfirm(p, d)
    BY <1>4, <2>3 DEF ReadToDecide, Digest, Reconfirm
  <2>4. CASE \E d \in Cards, k \in Kinds : RequestSubmission(p, d, k) \/ AgentGrants(p, d, k)
    BY <1>4, <2>4 DEF RequestSubmission, AgentGrants
  <2> QED
    BY <1>8, <2>1, <2>2, <2>3, <2>4 DEF Handle
<1>9. ASSUME NEW p \in Sweepers, NEW d \in Cards, SweepSelect(p, d) PROVE ~SetOut(c)'
  BY <1>4, <1>9 DEF SweepSelect, Executors, Claiming, Sending
<1>10. CASE World \/ Resting \/ UNCHANGED vars
  BY <1>3, <1>10 DEF World, Elapse, Delete, Raise, Answer, ReceiptArrives, InterviewInvite, Resting,
     vars, procVars
<1> QED
  BY <1>6, <1>7, <1>8, <1>9, <1>10 DEF Next

\* Once an approval is too old, nobody sets out to send under it.
THEOREM StaleIsLeft == Spec => StaleIsNotTakenUp
<1>1. Init => YoungInv
  BY DEF Init, YoungInv
<1>2. Spec => []YoungInv
  BY <1>1, YoungInductive, TypeCorrect, PTL DEF Spec
<1>3. TypeOK /\ YoungInv /\ [Next]_vars =>
        [~siteSubmittedAt => \A c \in Cards : age[c] = 2 /\ ~SetOut(c) => ~SetOut(c)']_vars
  BY StaysBehind
<1> QED
  BY <1>2, <1>3, TypeCorrect, PTL DEF Spec, StaleIsNotTakenUp

(***************************************************************************)
(* Every handler, sweep and crash is a step of ApprovalCards, or none.     *)
(***************************************************************************)
CardsSeen == <<status, Hands, mailed>>

\* Nobody takes a card or lets one go.
SameHolders == \A q \in Executors, c \in Cards : Holds(q, c)' <=> Holds(q, c)

LEMMA GoKeepsHolders ==
    ASSUME ProcOK, NEW p \in Executors, NEW step, Go(p, step),
           \/ pc[p] \notin Holding /\ step \in Free
           \/ pc[p] \in Holding /\ step \in Holding
    PROVE  SameHolders
<1>1. "idle" \notin Holding /\ Free \cap Holding = {}
  BY DEF Free, Holding, Sending, Recording, HeldManual, Releasing, Claiming, Marking
<1> QED
  BY <1>1 DEF ProcOK, Go, SameHolders, Holds

LEMMA BeginKeepsHolders ==
    ASSUME ProcOK, NEW p \in Executors, NEW g, NEW c, NEW step \in Free, Begin(p, g, c, step)
    PROVE  SameHolders
<1>1. "idle" \notin Holding /\ Free \cap Holding = {}
  BY DEF Free, Holding, Sending, Recording, HeldManual, Releasing, Claiming, Marking
<1> QED
  BY <1>1 DEF ProcOK, Begin, At, SameHolders, Holds

LEMMA HandsFrame ==
    ASSUME SameHolders, UNCHANGED stamp
    PROVE  UNCHANGED Hands
<1>1. \A c \in Cards : Hand(c)' = Hand(c)
  BY DEF SameHolders, Hand
<1> QED
  BY <1>1 DEF Hands

\* A card is raised, or an old one refreshed.
LEMMA CreateStep ==
    ASSUME CardOK, NEW c \in Cards, NEW k, Create(c, k), SameHolders, UNCHANGED mailed
    PROVE  [Approval!Next]_CardsSeen
<1>1. UNCHANGED Hands
  BY HandsFrame DEF Create, Insert, Refresh, cardVars
<1>2. CASE Insert(c, k)
  BY <1>1, <1>2 DEF Insert, Approval!Next, Approval!Raise
<1>3. CASE Refresh(c, k)
  BY <1>1, <1>3 DEF Refresh, cardVars, CardsSeen
<1> QED
  BY <1>2, <1>3 DEF Create

\* The one holder of a card sends, and keeps the card in hand.
LEMMA SendStep ==
    ASSUME TypeOK, SentOnce, reopened = {}, NEW p \in Executors, pc[p] = "mail",
           Mailed(on[p]), SameHolders, UNCHANGED cardVars
    PROVE  Approval!Next
<1>1. PICK c \in Cards : c = on[p]
  BY TypeParts DEF ProcOK
<1>2. Holds(p, c)
  BY <1>1 DEF Holds, Holding, Sending
<1>3. mailed[c] = 0
  BY <1>2, TypeParts DEF SentOnce, Settled, WorldOK
<1>4. mailed' = [mailed EXCEPT ![c] = 1]
  BY <1>1, <1>3 DEF Mailed
<1>5. Hands[c] = "taken"
  BY <1>2 DEF Hands, Hand
<1>6. UNCHANGED <<status, Hands>>
  BY HandsFrame DEF cardVars
<1> QED
  BY <1>3, <1>4, <1>5, <1>6 DEF Approval!Next, Approval!Send

\* The holder lets its card go: with an executedAt it is out of reach for good, without
\* one it is free again, and then nothing was sent under it or it is deleted.
LEMMA LetGo ==
    ASSUME TypeOK, ClaimInv, NEW p \in Executors, NEW c \in Cards, Holds(p, c),
           NEW step \in Free, Go(p, step), UNCHANGED <<status, mailed>>,
           \A d \in Cards \ {c} : stamp'[d] = stamp[d],
           IF stamp'[c] # "none" THEN status[c] = "approved"
                                 ELSE mailed[c] = 0 \/ status[c] = "deleted"
    PROVE  Approval!Next
<1>1. ProcOK
  BY TypeParts
<1>2. \A q \in Executors : ~Holds(q, c)'
  <2>1. step \notin Holding /\ "idle" \notin Holding
    BY DEF Free, Holding, Sending, Recording, HeldManual, Releasing, Claiming, Marking
  <2>2. ~Holds(p, c)'
    BY <1>1, <2>1 DEF Go, ProcOK, Holds
  <2>3. \A q \in Executors \ {p} : Holds(q, c)' => Holds(q, c)
    BY <1>1 DEF Go, ProcOK, Holds
  <2> QED
    BY <2>2, <2>3 DEF ClaimInv, OneExecutor
<1>3. \A q \in Executors, d \in Cards \ {c} : Holds(q, d)' <=> Holds(q, d)
  <2>1. step \notin Holding /\ "idle" \notin Holding
    BY DEF Free, Holding, Sending, Recording, HeldManual, Releasing, Claiming, Marking
  <2>2. \A q \in Executors \ {p} : pc'[q] = pc[q] /\ on'[q] = on[q]
    BY <1>1 DEF Go, ProcOK
  <2>3. pc'[p] = step /\ on[p] = c
    BY <1>1 DEF Go, ProcOK, Holds
  <2> QED
    BY <2>1, <2>2, <2>3 DEF Holds
<1>4. Hands' = [Hands EXCEPT ![c] = IF stamp'[c] # "none" THEN "kept" ELSE "free"]
  <2>1. Hand(c)' = IF stamp'[c] # "none" THEN "kept" ELSE "free"
    BY <1>2 DEF Hand
  <2>2. \A d \in Cards \ {c} : Hand(d)' = Hand(d)
    BY <1>3 DEF Hand
  <2> QED
    BY <2>1, <2>2 DEF Hands
<1>5. Hands[c] = "taken"
  BY DEF Hands, Hand
<1>6. CASE stamp'[c] # "none"
  BY <1>4, <1>5, <1>6 DEF Approval!Next, Approval!Keep
<1>7. CASE stamp'[c] = "none"
  BY <1>4, <1>5, <1>7 DEF Approval!Next, Approval!LayBack
<1> QED
  BY <1>6, <1>7

\* An executor that stops where it is leaves its claim behind, if the card is still there.
LEMMA Abandoned ==
    ASSUME TypeOK, ClaimInv, NEW p \in Executors, pc[p] \in Holding, Go(p, "idle"),
           UNCHANGED <<status, stamp, mailed>>
    PROVE  Approval!Next
<1>1. PICK c \in Cards : c = on[p]
  BY TypeParts DEF ProcOK
<1>2. Holds(p, c)
  BY <1>1 DEF Holds
<1>3. IF stamp[c] # "none" THEN status[c] = "approved" ELSE status[c] = "deleted"
  BY <1>2, TypeParts DEF ClaimInv, HoldersClaimed, CardOK
<1> QED
  BY <1>2, <1>3, LetGo DEF Free

\* The winner of a claim finds the card free.
LEMMA TakeStep ==
    ASSUME TypeOK, ClaimInv, NEW p \in Executors, pc[p] \in Claiming,
           ClaimExecution(on[p]), Go(p, AfterClaim(pc[p])), UNCHANGED <<status, mailed>>
    PROVE  Approval!Next
<1>0. ProcOK
  BY TypeParts
<1>1. PICK c \in Cards : c = on[p]
  BY <1>0 DEF ProcOK
<1>2. status[c] = "approved" /\ stamp[c] = "none" /\ stamp' = [stamp EXCEPT ![c] = "claimed"]
  BY <1>1 DEF ClaimExecution
<1>3. \A q \in Executors : ~Holds(q, c)
  BY <1>2 DEF ClaimInv, HoldersClaimed
<1>4. AfterClaim(pc[p]) \in Holding \ {"idle"} /\ pc[p] \notin Holding
  BY DEF AfterClaim, Holding, Sending, Recording, HeldManual, Releasing, Claiming
<1>5. pc' = [pc EXCEPT ![p] = AfterClaim(pc[p])] /\ on' = on
  BY <1>0, <1>4 DEF Go, ProcOK
<1>6. Holds(p, c)'
  BY <1>0, <1>1, <1>4, <1>5 DEF Holds, ProcOK
<1>7. \A q \in Executors, d \in Cards \ {c} : Holds(q, d)' <=> Holds(q, d)
  BY <1>0, <1>1, <1>4, <1>5 DEF Holds, ProcOK
<1>8. Hands' = [Hands EXCEPT ![c] = "taken"]
  <2>1. Hand(c)' = "taken"
    BY <1>6 DEF Hand
  <2>2. \A d \in Cards \ {c} : Hand(d)' = Hand(d)
    BY <1>2, <1>7, TypeParts DEF Hand, CardOK
  <2> QED
    BY <2>1, <2>2 DEF Hands
<1>9. Hands[c] = "free"
  BY <1>2, <1>3 DEF Hands, Hand
<1> QED
  BY <1>2, <1>8, <1>9 DEF Approval!Next, Approval!Take

LEMMA ApprovalStep ==
    ASSUME TypeOK, ClaimInv, SentOnce, reopened = {}, [Next]_vars
    PROVE  [Approval!Next]_CardsSeen
<1>0. ProcOK /\ CardOK
  BY TypeParts
<1>1. ASSUME SameHolders, UNCHANGED <<status, stamp, mailed>> PROVE UNCHANGED CardsSeen
  BY <1>1, HandsFrame DEF CardsSeen
<1>2. ASSUME NEW p \in Executors, NEW step, Go(p, step),
             \/ pc[p] \notin Holding /\ step \in Free
             \/ pc[p] \in Holding /\ step \in Holding
      PROVE  SameHolders
  BY <1>0, <1>2, GoKeepsHolders
<1>3. ASSUME NEW c \in Cards, NEW k, Create(c, k), SameHolders, UNCHANGED mailed
      PROVE  [Approval!Next]_CardsSeen
  BY <1>0, <1>3, CreateStep
<1>4. ASSUME NEW p \in Executors, pc[p] \in Holding, Go(p, "idle"), UNCHANGED <<status, stamp, mailed>>
      PROVE  Approval!Next
  BY <1>4, Abandoned
<1>5. ASSUME NEW p \in Executors, Step(p) PROVE [Approval!Next]_CardsSeen
  <2> USE DEF Free, Holding, Sending, Recording, HeldManual, Releasing, Claiming, Marking
  <2>1. CASE Decide(p)
    <3>1. SameHolders
      BY <1>2, <2>1 DEF Decide, Promotion, AfterDecision, At
    <3>2. UNCHANGED <<Hands, mailed>>
      BY <2>1, <3>1, HandsFrame DEF Decide, Resolve, cardVars, worldVars
    <3>3. on[p] \in Cards
      BY <1>0 DEF ProcOK
    <3>4. CASE Resolve(p, on[p])
      BY <3>2, <3>3, <3>4 DEF Resolve, Approval!Next, Approval!Decide
    <3>5. CASE UNCHANGED cardVars
      BY <3>2, <3>5 DEF cardVars, CardsSeen
    <3> QED
      BY <2>1, <3>4, <3>5 DEF Decide
  <2>2. CASE Mark(p) \/ Rearm(p) \/ Move(p)
    BY <1>1, <1>2, <2>2 DEF Mark, AfterMark, AfterDecision, Rearm, Move, At, cardVars, worldVars
  <2>3. CASE Queue(p)
    <3>1. SameHolders
      <4>1. CASE Go(p, "idle")
        BY <1>2, <2>3, <4>1 DEF Queue, At
      <4>2. CASE ~Go(p, "idle")
        BY <1>0, <2>3, <4>2 DEF Queue, SameHolders, Holds, ProcOK, At
      <4> QED
        BY <4>1, <4>2
    <3> QED
      BY <1>1, <1>3, <2>3, <3>1 DEF Queue, cardVars, worldVars
  <2>4. CASE Judge(p) \/ Load(p)
    BY <1>1, <1>2, <2>4 DEF Judge, Load, At, cardVars, worldVars
  <2>5. CASE Claim(p)
    <3>1. CASE Go(p, "idle") /\ UNCHANGED stamp
      BY <1>1, <1>2, <2>5, <3>1 DEF Claim, worldVars
    <3>2. CASE ClaimExecution(on[p]) /\ Go(p, AfterClaim(pc[p]))
      BY <2>5, <3>2, TakeStep DEF Claim, worldVars
    <3> QED
      BY <2>5, <3>1, <3>2 DEF Claim
  <2>6. CASE MailSent(p)
    <3>1. SameHolders
      BY <1>2, <2>6 DEF MailSent, At
    <3> QED
      BY <2>6, <3>1, SendStep DEF MailSent, At
  <2>7. CASE MailRefused(p) \/ ClickRefused(p) \/ Click(p) \/ Classify(p) \/ Poll(p)
    BY <1>1, <1>2, <2>7 DEF MailRefused, ClickRefused, Click, Classify, Poll, At, cardVars, worldVars
  <2>8. CASE RecordMail(p) \/ RecordSite(p)
    BY <1>1, <1>2, <2>8 DEF RecordMail, RecordSite, At, cardVars, worldVars
  <2>9. CASE RecordManual(p) \/ RecordPending(p)
    BY <1>1, <1>2, <2>9 DEF RecordManual, RecordPending, At, cardVars, worldVars
  <2>10. CASE Complete(p)
    <3>1. PICK c \in Cards : c = on[p]
      BY <1>0 DEF ProcOK
    <3>2. Holds(p, c)
      BY <2>10, <3>1 DEF Complete, At, Holds
    <3>3. /\ stamp' = [stamp EXCEPT ![c] = IF @ = "claimed" THEN "completed" ELSE @]
          /\ Go(p, "idle") /\ UNCHANGED <<status, mailed>>
      BY <2>10, <3>1 DEF Complete, worldVars
    <3>4. IF stamp'[c] # "none" THEN status[c] = "approved" ELSE status[c] = "deleted"
      BY <1>0, <3>2, <3>3 DEF ClaimInv, HoldersClaimed, CardOK
    <3>5. \A d \in Cards \ {c} : stamp'[d] = stamp[d]
      BY <1>0, <3>3 DEF CardOK
    <3> QED
      BY <3>2, <3>3, <3>4, <3>5, LetGo
  <2>11. CASE Release(p)
    <3>1. PICK c \in Cards : c = on[p]
      BY <1>0 DEF ProcOK
    <3>2. Holds(p, c) /\ pc[p] \notin Settled
      BY <2>11, <3>1 DEF Release, Holds, Settled
    <3>3. /\ stamp' = [stamp EXCEPT ![c] = "none"] /\ UNCHANGED <<status, mailed>>
          /\ Go(p, AfterRelease(pc[p])) /\ AfterRelease(pc[p]) \in Free
      BY <2>11, <3>1 DEF Release, AfterRelease, worldVars
    <3>4. mailed[c] = 0
      BY <3>2, TypeParts DEF SentOnce, WorldOK
    <3>5. stamp'[c] = "none" /\ \A d \in Cards \ {c} : stamp'[d] = stamp[d]
      BY <1>0, <3>3 DEF CardOK
    <3> QED
      BY <3>2, <3>3, <3>4, <3>5, LetGo
  <2> QED
    BY <1>5, <2>1, <2>2, <2>3, <2>4, <2>5, <2>6, <2>7, <2>8, <2>9, <2>10, <2>11 DEF Step
<1>6. ASSUME NEW p \in Executors, Fails(p) PROVE [Approval!Next]_CardsSeen
  <2> USE DEF Free, Holding, Sending, Recording, HeldManual, Releasing, Claiming, Marking
  <2>1. CASE MailReplyLost(p)
    <3>1. SameHolders
      BY <1>2, <2>1 DEF MailReplyLost, At
    <3> QED
      BY <2>1, <3>1, SendStep DEF MailReplyLost, At
  <2>2. CASE DocumentFails(p)
    BY <1>1, <1>2, <1>4, <2>2 DEF DocumentFails, At, cardVars, worldVars
  <2>3. CASE BrowserLost(p) \/ MarkFails(p)
    BY <1>1, <1>2, <2>3 DEF BrowserLost, MarkFails, AfterMark, AfterDecision, At, cardVars, worldVars
  <2>4. CASE PollFails(p)
    BY <1>1, <1>2, <1>4, <2>4 DEF PollFails, At, cardVars, worldVars
  <2>5. CASE WriteFails(p)
    BY <1>1, <1>2, <1>4, <2>5 DEF WriteFails, At, cardVars, worldVars
  <2>6. CASE Dies(p)
    <3>1. Go(p, "idle") /\ UNCHANGED <<status, stamp, mailed>>
      BY <2>6 DEF Dies, cardVars, worldVars
    <3> QED
      BY <1>1, <1>2, <1>4, <3>1
  <2> QED
    BY <1>6, <2>1, <2>2, <2>3, <2>4, <2>5, <2>6 DEF Fails
<1>7. ASSUME NEW p \in Executors, NEW g, NEW c, NEW step \in Free, Begin(p, g, c, step)
      PROVE  SameHolders
  BY <1>0, <1>7, BeginKeepsHolders
<1>8. ASSUME NEW p \in Requests, Handle(p) PROVE [Approval!Next]_CardsSeen
  <2> USE <1>7 DEF Executors, Free, Claiming, Marking
  <2>1. CASE Apply(p) \/ RecordSubmission(p) \/ ReadToMove(p)
    BY <1>1, <2>1 DEF Apply, RecordSubmission, ReadToMove, cardVars, worldVars
  <2>2. ASSUME NEW c \in Cards, NEW g, ReadToDecide(p, c, g) PROVE [Approval!Next]_CardsSeen
    BY <1>1, <2>2 DEF ReadToDecide, cardVars, worldVars
  <2>3. ASSUME NEW c \in Cards, Digest(p, c) \/ Execute(p, c) PROVE [Approval!Next]_CardsSeen
    BY <1>1, <2>3 DEF Digest, Execute, cardVars, worldVars
  <2>4. ASSUME NEW c \in Cards, Reconfirm(p, c) PROVE [Approval!Next]_CardsSeen
    BY <1>3, <2>4 DEF Reconfirm, worldVars
  <2>5. ASSUME NEW c \in Cards, NEW k \in Kinds,
               RequestSubmission(p, c, k) \/ AgentGrants(p, c, k)
        PROVE  [Approval!Next]_CardsSeen
    BY <1>3, <2>5 DEF RequestSubmission, AgentGrants, worldVars
  <2> QED
    BY <1>8, <2>1, <2>2, <2>3, <2>4, <2>5 DEF Handle
<1>9. ASSUME NEW p \in Sweepers, NEW c \in Cards, SweepSelect(p, c)
      PROVE  [Approval!Next]_CardsSeen
  BY <1>1, <1>7, <1>9 DEF SweepSelect, Executors, Free, cardVars, worldVars
<1>10. ASSUME UNCHANGED procVars PROVE SameHolders
  BY <1>10 DEF procVars, SameHolders, Holds
<1>11. ASSUME NEW c \in Cards, Delete(c) PROVE [Approval!Next]_CardsSeen
  <2>1. /\ status[c] \in {"pending", "approved", "rejected"} /\ UNCHANGED <<procVars, mailed>>
        /\ status' = [status EXCEPT ![c] = "deleted"]
        /\ stamp' = [stamp EXCEPT ![c] = "none"]
    BY <1>11 DEF Delete, worldVars
  <2>2. SameHolders
    BY <1>10, <2>1
  <2>3. Hand(c)' = IF Hand(c) = "kept" THEN "free" ELSE Hand(c)
    BY <1>0, <2>1, <2>2 DEF Hand, SameHolders, CardOK
  <2>4. \A d \in Cards \ {c} : Hand(d)' = Hand(d)
    BY <1>0, <2>1, <2>2 DEF Hand, SameHolders, CardOK
  <2>5. Hands' = [Hands EXCEPT ![c] = IF @ = "kept" THEN "free" ELSE @]
    BY <2>3, <2>4 DEF Hands
  <2> QED
    BY <2>1, <2>5 DEF Approval!Next, Approval!Delete
<1>12. ASSUME NEW c \in Cards, Elapse(c) \/ \E k \in Kinds : Raise(c, k)
       PROVE  [Approval!Next]_CardsSeen
  <2>1. CASE Elapse(c)
    BY <1>1, <1>10, <2>1 DEF Elapse, worldVars
  <2>2. CASE \E k \in Kinds : Raise(c, k)
    BY <1>3, <1>10, <2>2 DEF Raise, Create, worldVars
  <2> QED
    BY <1>12, <2>1, <2>2
<1>13. CASE Answer \/ ReceiptArrives \/ InterviewInvite \/ Resting \/ UNCHANGED vars
  BY <1>1, <1>10, <1>13 DEF Answer, ReceiptArrives, InterviewInvite, Resting, vars, cardVars,
     procVars, worldVars
<1> QED
  BY <1>5, <1>6, <1>8, <1>9, <1>11, <1>12, <1>13 DEF Next, World

\* The endpoint, the sweep, the autonomous path and their crashes are together one hand
\* that takes an approved card and sends at most once under it, as long as no claim is
\* given back although a message may have left.
THEOREM SubmissionsImplementApproval == Spec => ImplementsApproval
<1>1. Init => Approval!Init
  <2> SUFFICES ASSUME Init PROVE Approval!Init
    OBVIOUS
  <2>1. \A c \in Cards : Hand(c) = "free"
    <3>1. "idle" \notin Holding
      BY DEF Holding, Sending, Recording, HeldManual, Releasing
    <3> QED
      BY <3>1 DEF Init, Hand, Holds
  <2> QED
    BY <2>1 DEF Init, Hands, Approval!Init
<1>2. TypeOK /\ ClaimInv /\ SentOnce /\ reopened = {} /\ [Next]_vars => [Approval!Next]_CardsSeen
  BY ApprovalStep
<1> QED
  BY <1>1, <1>2, TypeCorrect, ClaimInvariant, SendInvariant, PTL
     DEF Spec, ImplementsApproval, Approval!Spec, CardsSeen
=============================================================================
