------------------------ MODULE CompositeJobsProofs ------------------------
(***************************************************************************)
(* What CompositeJobs keeps for every number of jobs, steps, deliveries,   *)
(* watchdogs and deaths.                                                   *)
(***************************************************************************)
EXTENDS CompositeJobs, FiniteSetTheorems, TLAPS

USE DEF Open, Idle, Watchers

(***************************************************************************)
(* Type correctness.                                                       *)
(***************************************************************************)
\* What refund_pipeline_outstanding may do to the columns it writes.
LEMMA RefundOutstandingTypes ==
    ASSUME TypeOK, NEW j \in Jobs, RefundOutstanding(j)
    PROVE  /\ runsUsed' \in 0..RunsAllowed
           /\ refundedCount' \in [Jobs -> Nat]
           /\ given' \in [Jobs -> Nat]
<1>1. CASE /\ reservedCount[j] - refundedCount[j] > 0
           /\ refundedCount' = [refundedCount EXCEPT ![j] = reservedCount[j]]
           /\ GiveBack(j, reservedCount[j] - refundedCount[j])
  BY <1>1, BoundAssumption DEF TypeOK, GiveBack
<1>2. CASE UNCHANGED <<refundedCount, runsUsed, given>>
  BY <1>2 DEF TypeOK
<1> QED
  BY <1>1, <1>2 DEF RefundOutstanding

\* A body inside a metered step has not run past the last one.
StepInBounds == \A j \in Jobs : pc[j] \in InStep => step[j] <= Steps

Typed == TypeOK /\ StepInBounds

LEMMA TypedInductive == Typed /\ [Next]_vars => Typed'
<1> SUFFICES ASSUME Typed, [Next]_vars PROVE Typed'
  OBVIOUS
<1> USE JobsAssumption, BoundAssumption, WatcherAssumption
<1> USE DEF Typed, TypeOK, StepInBounds, NonTerminal, Terminal, Ended, InStep, Awake, Scars,
            CanDie, Goto, Scar, Request, BodyOnly, rowVars, countVars, arqVars, bodyVars,
            watchVars, tallyVars
<1>1. CASE SweepRead
  BY <1>1 DEF SweepRead, WatchRead
<1>2. ASSUME NEW j \in Jobs, Enqueue(j) PROVE Typed'
  <2>1. CASE Admit(j) \/ CreateRow(j) \/ Push(j)
    BY SMTT(40), <2>1 DEF Admit, CreateRow, Push
  <2>2. CASE CompensateFail(j) \/ CompensatePlan(j)
    BY SMTT(40), <2>2 DEF CompensateFail, CompensatePlan, EndPlan
  <2> QED
    BY <1>2, <2>1, <2>2 DEF Enqueue
<1>3. ASSUME NEW j \in Jobs, Body(j) PROVE Typed'
  <2>1. CASE PlanStart(j) \/ RecordPlan(j)
    BY <2>1 DEF PlanStart, RecordPlan, EndPlan
  <2>2. CASE LeaveOut(j)
    BY <2>2 DEF LeaveOut, Instead, Resume, Exit, Last
  <2>3. CASE BodyEnds(j)
    BY <2>3 DEF BodyEnds, Resume, Exit, Last
  <2>10. CASE QuotaExceeded(j)
    <3>1. CASE Resume(j, "return")
      BY <2>10, <3>1 DEF QuotaExceeded, Resume, Exit, Last
    <3>2. CASE Resume(j, "raise")
      BY <2>10, <3>2 DEF QuotaExceeded, Resume, Exit
    <3> QED
      BY <2>10, <3>1, <3>2 DEF QuotaExceeded, Halt
  <2>4. CASE ReserveStep(j)
    BY <2>4 DEF ReserveStep
  <2>5. CASE CapRefund(j)
    <3>1. CASE Resume(j, "return")
      BY <2>5, <3>1 DEF CapRefund, GiveBack, Resume, Exit, Last
    <3>2. CASE Resume(j, "raise")
      BY <2>5, <3>2 DEF CapRefund, GiveBack, Resume, Exit
    <3> QED
      BY <2>5, <3>1, <3>2 DEF CapRefund, Halt
  <2>6. CASE CountReserved(j)
    BY <2>6 DEF CountReserved
  <2>7. CASE RunStep(j)
    <3>1. CASE delivered' = [delivered EXCEPT ![j] = @ + 1] /\ Resume(j, "continue")
               /\ UNCHANGED after
      BY <2>7, <3>1 DEF RunStep, Resume, Exit
    <3>2. CASE (\E how \in HandBack(j) : after' = [after EXCEPT ![j] = how])
               /\ Goto(j, "refund") /\ UNCHANGED <<delivered, step>>
      BY <2>7, <3>2 DEF RunStep, HandBack
    <3> QED
      BY <2>7, <3>1, <3>2 DEF RunStep
  <2>8. CASE RefundStep(j)
    BY <2>8 DEF RefundStep, GiveBack
  <2>9. CASE CountRefunded(j)
    BY <2>9 DEF CountRefunded, Resume, Exit, Last
  <2>11. CASE ExemptStep(j)
    BY <2>11 DEF ExemptStep
  <2>12. CASE RunExempt(j)
    <3>1. CASE Resume(j, "continue") /\ UNCHANGED <<after, waived>>
      BY <2>12, <3>1 DEF RunExempt, Resume, Exit
    <3>2. CASE /\ \E how \in HandBack(j) : after' = [after EXCEPT ![j] = how]
               /\ Goto(j, "countRefund") /\ UNCHANGED step
               /\ waived' = [waived EXCEPT ![j] = @ + 1]
      BY <2>12, <3>2 DEF RunExempt, HandBack
    <3> QED
      BY <2>12, <3>1, <3>2 DEF RunExempt
  <2> QED
    BY <1>3, <2>1, <2>2, <2>3, <2>4, <2>5, <2>6, <2>7, <2>8, <2>9, <2>10, <2>11, <2>12
       DEF Body
<1>4. ASSUME NEW j \in Jobs, Worker(j) PROVE Typed'
  <2>1. CASE Claim(j)
    <3>1. tries' \in [Jobs -> 0..MaxTries]
      BY <2>1 DEF Claim
    <3>2. CASE Open(j)
      <4>1. /\ status' = [status EXCEPT ![j] = "processing"]
            /\ task' = [task EXCEPT ![j] = "run"]
            /\ pc' = [pc EXCEPT ![j] = IF j \in PlanJobs THEN "start" ELSE "next"]
            /\ step' = [step EXCEPT ![j] = 1]
        BY <2>1, <3>2 DEF Claim
      <4>2. late' \in [Jobs -> BOOLEAN]
        <5>1. late' = [late EXCEPT ![j] = late[j] /\ status[j] = "processing"]
          BY <2>1, <3>2 DEF Claim
        <5>2. \A b \in BOOLEAN : [late EXCEPT ![j] = b] \in [Jobs -> BOOLEAN]
          OBVIOUS
        <5>3. (late[j] /\ status[j] = "processing") \in BOOLEAN
          OBVIOUS
        <5> QED
          BY <5>1, <5>2, <5>3, Zenon
      <4> QED
        BY <2>1, <3>1, <4>1, <4>2 DEF Claim
    <3>3. CASE ~Open(j)
      <4>1. task' = [task EXCEPT ![j] = "gone"] /\ UNCHANGED <<status, late, pc, step>>
        BY <2>1, <3>3 DEF Claim
      <4> QED
        BY <2>1, <3>1, <4>1 DEF Claim
    <3> QED
      BY <3>2, <3>3
  <2>2. CASE GiveUp(j) \/ Timeout(j)
    BY <2>2 DEF GiveUp, Timeout
  <2>3. CASE Complete(j)
    <3>1. \E next \in {"refund", "gone"} : task' = [task EXCEPT ![j] = next]
      BY <2>3 DEF Complete
    <3>2. \E r \in {result[j], "refusal", "summary"} : result' = [result EXCEPT ![j] = r]
      BY <2>3 DEF Complete
    <3> QED
      BY <2>3, <3>1, <3>2 DEF Complete
  <2>6. CASE Fail(j)
    <3>1. \E next \in {"refund", "failPlan", "gone"} : task' = [task EXCEPT ![j] = next]
      BY <2>6 DEF Fail, Fallback
    <3> QED
      BY <2>6, <3>1 DEF Fail
  <2>4. CASE RefundJob(j)
    BY <2>4, RefundOutstandingTypes DEF RefundJob, Fallback
  <2>5. CASE FailRunPlan(j)
    BY <2>5 DEF FailRunPlan, EndPlan
  <2> QED
    BY <1>4, <2>1, <2>2, <2>3, <2>6, <2>4, <2>5 DEF Worker
<1>5. ASSUME NEW j \in Jobs, Elapse(j) PROVE Typed'
  BY <1>5 DEF Elapse
<1>6. ASSUME NEW w \in Watchers, NEW j \in Jobs,
             PollRead(w, j) \/ WatchFail(w, j) \/ WatchRefund(w, j)
      PROVE  Typed'
  <2>1. CASE PollRead(w, j)
    BY <2>1 DEF PollRead, WatchRead
  <2>2. CASE WatchFail(w, j)
    <3>1. scars' \in [Jobs -> SUBSET Scars]
      BY <2>2 DEF WatchFail
    <3>2. owes' \in [Watchers -> Jobs \cup {"nobody"}]
      BY <2>2 DEF WatchFail
    <3>3. status' \in [Jobs -> {"absent"} \cup NonTerminal \cup Terminal]
      BY <2>2 DEF WatchFail
    <3>4. todo' \in [Watchers -> SUBSET Jobs]
      BY <2>2 DEF WatchFail
    <3>5. UNCHANGED <<runsUsed, result, late, countVars, planRow, api, arqVars, bodyVars,
                      faults, tallyVars>>
      BY <2>2 DEF WatchFail
    <3> QED
      BY <3>1, <3>2, <3>3, <3>4, <3>5
  <2>3. CASE WatchRefund(w, j)
    BY <2>3, RefundOutstandingTypes DEF WatchRefund
  <2> QED
    BY <1>6, <2>1, <2>2, <2>3
<1>7. ASSUME NEW j \in Jobs, ProcessDies(j) \/ CountingFails(j) \/ StepWriteFails(j)
                             \/ StepStateFails(j) \/ JobWriteFails(j)
      PROVE  Typed'
  <2>1. CASE ProcessDies(j)
    <3>1. Cut(pc[j]) \subseteq Scars
      BY DEF Cut
    <3> QED
      BY <2>1, <3>1 DEF ProcessDies
  <2>2. CASE CountingFails(j)
    <3>1. CASE pc[j] = "count"
      BY <2>2, <3>1 DEF CountingFails
    <3>2. CASE pc[j] = "countRefund"
      <4>1. pc' = [pc EXCEPT ![j] = Exit(j)[after[j]]]
            /\ step' = [step EXCEPT ![j] = IF after[j] = "continue" THEN @ + 1 ELSE @]
        BY <2>2, <3>2 DEF CountingFails, Resume
      <4>2. Exit(j)[after[j]] \in {"next", "record", "returned", "refused", "raised"}
        BY DEF Exit, Last
      <4>3. scars' \in [Jobs -> SUBSET Scars]
        BY <2>2, <3>2 DEF CountingFails
      <4> QED
        BY <2>2, <3>2, <4>1, <4>2, <4>3 DEF CountingFails
    <3> QED
      BY <2>2, <3>1, <3>2 DEF CountingFails
  <2>3. CASE StepWriteFails(j)
    BY <2>3 DEF StepWriteFails, Resume, Exit, Last
  <2>4. CASE StepStateFails(j)
    BY <2>4 DEF StepStateFails, Resume, Exit, Last
  <2>5. CASE JobWriteFails(j)
    BY <2>5 DEF JobWriteFails
  <2> QED
    BY <1>7, <2>1, <2>2, <2>3, <2>4, <2>5
<1>8. ASSUME NEW w \in Watchers, WatcherDies(w) PROVE Typed'
  BY <1>8 DEF WatcherDies
<1>9. CASE UNCHANGED vars
  BY <1>9 DEF vars
<1> QED
  BY <1>1, <1>2, <1>3, <1>4, <1>5, <1>6, <1>7, <1>8, <1>9
     DEF Next, Watchdogs, Deaths, Terminating

LEMMA TypedInvariant == Spec => []Typed
<1>1. Init => Typed
  BY BoundAssumption, JobsAssumption, WatcherAssumption
     DEF Init, Typed, TypeOK, StepInBounds, NonTerminal, Terminal, Ended, InStep, Awake, Scars
<1> QED
  BY <1>1, TypedInductive, PTL DEF Spec

\* Every reachable state is well typed; runsUsed never leaves 0..RunsAllowed, and
\* no body books a step past its last.
THEOREM TypeCorrect == Spec => []TypeOK
<1> QED
  BY TypedInvariant, PTL DEF Typed

(***************************************************************************)
(* The accounting invariant of one job.  What the counters say is right    *)
(* step by step only because nobody refunds the job while a step is in     *)
(* hand: a refund belongs to a terminal state (Debts), and a terminal      *)
(* state to a body at rest unless a watchdog overlapped it (AtRest).       *)
(***************************************************************************)
\* What the counters say is outstanding, what would be without the exempt steps that
\* failed, and the run of the step in hand.
Outstanding(j) == reservedCount[j] - refundedCount[j]
Owned(j) == Outstanding(j) + waived[j]
InHand(j) == IF pc[j] \in {"body", "refund", "countRefund"} THEN 1 ELSE 0

Clean == {"overlap", "untracked", "unmarked"}

\* Until the request is done nothing but the request touches the row.
Fresh(j) ==
    api[j] # "done" =>
        /\ task[j] = "none" /\ ~late[j]
        /\ \A w \in Watchers : j \notin todo[w] /\ owes[w] # j

Untouched(j) ==
    task[j] = "none" =>
        /\ pc[j] = "off" /\ result[j] = "null"
        /\ reservedCount[j] = 0 /\ refundedCount[j] = 0
        /\ booked[j] = 0 /\ given[j] = 0 /\ delivered[j] = 0 /\ waived[j] = 0

AtRest(j) ==
    /\ status[j] \in Terminal => pc[j] \in Ended \/ "overlap" \in scars[j]
    /\ task[j] \in {"none", "queued", "refund", "failPlan"} => pc[j] \in Ended

Debts(j) ==
    /\ task[j] = "refund" => status[j] = "failed" \/ result[j] = "refusal"
    /\ \A w \in Watchers : owes[w] = j => status[j] = "failed"
    /\ result[j] # "null" => status[j] = "completed"

Counters(j) ==
    Healthy(j, Clean) =>
        /\ booked[j] - given[j] = Owned(j)
               + (IF pc[j] \in {"capRefund", "count"} THEN 1 ELSE 0)
               - (IF pc[j] = "countRefund" THEN 1 ELSE 0)
        /\ Owned(j) >= InHand(j)

Refunded(j) ==
    Healthy(j, Clean \cup {"unpaid"}) /\ (status[j] = "failed" \/ result[j] = "refusal") =>
        \/ Outstanding(j) <= 0
        \/ task[j] = "refund"
        \/ \E w \in Watchers : owes[w] = j

Bills(j) ==
    Healthy(j, Scars) /\ status[j] # "failed" /\ result[j] # "refusal" =>
        Owned(j) = delivered[j] + InHand(j)

JobInv(j) ==
    /\ Fresh(j) /\ Untouched(j) /\ AtRest(j) /\ Debts(j)
    /\ Counters(j) /\ Refunded(j) /\ Bills(j)

AccountingInv == \A j \in Jobs : JobInv(j)

\* A step that leaves everything about job k alone keeps k's invariant.
LEMMA JobFrame ==
    ASSUME NEW k \in Jobs, JobInv(k),
           status'[k] = status[k], result'[k] = result[k], late'[k] = late[k],
           reservedCount'[k] = reservedCount[k], refundedCount'[k] = refundedCount[k],
           api'[k] = api[k], task'[k] = task[k], pc'[k] = pc[k],
           booked'[k] = booked[k], given'[k] = given[k], delivered'[k] = delivered[k],
           waived'[k] = waived[k], scars'[k] = scars[k],
           \A w \in Watchers : k \in todo'[w] => k \in todo[w],
           \A w \in Watchers : owes'[w] = k <=> owes[w] = k
    PROVE  JobInv(k)'
<1> USE DEF JobInv, Healthy, Outstanding, Owned, InHand
<1>1. Fresh(k)' /\ Untouched(k)' /\ AtRest(k)' /\ Debts(k)'
  BY DEF Fresh, Untouched, AtRest, Debts
<1>2. Counters(k)' /\ Bills(k)'
  BY DEF Counters, Bills
<1>3. Refunded(k)'
  BY DEF Refunded
<1> QED
  BY <1>1, <1>2, <1>3

\* refund_pipeline_outstanding leaves nothing outstanding, hands back what it marks as
\* refunded, and touches one job only.
LEMMA RefundOutstandingEffect ==
    ASSUME TypeOK, NEW j \in Jobs, RefundOutstanding(j)
    PROVE  /\ \A k \in Jobs \ {j} : refundedCount'[k] = refundedCount[k] /\ given'[k] = given[k]
           /\ reservedCount[j] - refundedCount'[j] <= 0
           /\ given'[j] - given[j] = refundedCount'[j] - refundedCount[j]
           /\ refundedCount'[j] = refundedCount[j] \/ refundedCount'[j] = reservedCount[j]
<1>1. CASE /\ Outstanding(j) > 0
           /\ refundedCount' = [refundedCount EXCEPT ![j] = reservedCount[j]]
           /\ GiveBack(j, Outstanding(j))
  BY <1>1 DEF TypeOK, GiveBack, Outstanding
<1>2. CASE Outstanding(j) <= 0 /\ UNCHANGED <<refundedCount, runsUsed, given>>
  <2>1. reservedCount[j] \in Nat /\ refundedCount[j] \in Nat /\ given[j] \in Nat
    BY DEF TypeOK
  <2> QED
    BY <1>2, <2>1 DEF Outstanding
<1> QED
  BY <1>1, <1>2 DEF RefundOutstanding, Outstanding

\* It moves both sides of a job's balance by the same amount.
LEMMA RefundKeepsBalance ==
    ASSUME TypeOK, NEW j \in Jobs, RefundOutstanding(j),
           UNCHANGED <<booked, reservedCount, waived>>,
           booked[j] - given[j] = Owned(j), Owned(j) >= 0
    PROVE  booked'[j] - given'[j] = Owned(j)' /\ Owned(j)' >= 0 /\ Owned(j)' \in Int
<1>1. /\ booked[j] \in Nat /\ given[j] \in Nat /\ waived[j] \in Nat
      /\ reservedCount[j] \in Nat /\ refundedCount[j] \in Nat
  BY DEF TypeOK
<1>2. CASE /\ Outstanding(j) > 0
           /\ refundedCount' = [refundedCount EXCEPT ![j] = reservedCount[j]]
           /\ GiveBack(j, Outstanding(j))
  <2>1. refundedCount'[j] = reservedCount[j] /\ given'[j] = given[j] + Outstanding(j)
    BY <1>2 DEF TypeOK, GiveBack
  <2> QED
    BY <1>1, <2>1 DEF Outstanding, Owned
<1>3. CASE UNCHANGED <<refundedCount, runsUsed, given>>
  BY <1>1, <1>3 DEF Outstanding, Owned
<1> QED
  BY <1>2, <1>3 DEF RefundOutstanding, Outstanding

\* A step of the body keeps its job's invariant: it belongs to a job nobody has ended,
\* and moves a run between the counters, the step in hand and the deliveries.
LEMMA BodyKeepsJob ==
    ASSUME Typed, NEW j \in Jobs, JobInv(j), Body(j)
    PROVE  JobInv(j)'
<1> USE DEF Typed, TypeOK, JobInv, Fresh, Untouched, AtRest, Debts, Counters, Refunded,
            Bills, Healthy, Outstanding, Owned, InHand, Clean, Terminal, NonTerminal, Ended,
            InStep, Scars, BodyOnly, Goto, rowVars, countVars, arqVars, bodyVars,
            watchVars, tallyVars
<1>1. /\ pc[j] \notin Ended /\ task[j] # "none"
      /\ Healthy(j, Clean) => status[j] \notin Terminal /\ result[j] = "null"
  BY DEF Body, PlanStart, LeaveOut, BodyEnds, ReserveStep, QuotaExceeded, CapRefund,
     CountReserved, RunStep, RefundStep, CountRefunded, RecordPlan, ExemptStep, RunExempt
<1>2. CASE PlanStart(j) \/ RecordPlan(j)
  <2>1. /\ UNCHANGED <<status, result, late, reservedCount, refundedCount, api, task,
                       booked, given, delivered, waived, scars, todo, owes>>
        /\ pc[j] \in {"start", "record"} /\ pc'[j] \in {"next", "returned"}
    BY <1>2 DEF PlanStart, RecordPlan
  <2> QED
    BY SMTT(40), <1>1, <2>1
<1>3. CASE LeaveOut(j)
  <2>1. /\ UNCHANGED <<status, result, late, reservedCount, refundedCount, api, task,
                       booked, given, delivered, waived, scars, todo, owes>>
        /\ pc[j] = "next"
        /\ pc'[j] \in {"next", "record", "returned", "refused", "raised"}
    BY <1>3 DEF LeaveOut, Instead, Resume, Exit, Last
  <2> QED
    BY SMTT(40), <1>1, <2>1
<1>4. CASE BodyEnds(j) \/ QuotaExceeded(j)
  BY <1>1, <1>4 DEF BodyEnds, QuotaExceeded, Halt, Resume, Exit, Last
<1>5. CASE ReserveStep(j)
  BY <1>1, <1>5 DEF ReserveStep
<1>6. CASE CapRefund(j)
  BY <1>1, <1>6 DEF CapRefund, GiveBack, Halt, Resume, Exit, Last
<1>7. CASE CountReserved(j)
  BY <1>1, <1>7 DEF CountReserved
<1>8. CASE RunStep(j)
  BY <1>1, <1>8 DEF RunStep, Resume, Exit
<1>9. CASE RefundStep(j)
  BY <1>1, <1>9 DEF RefundStep, GiveBack
<1>10. CASE CountRefunded(j)
  BY <1>1, <1>10 DEF CountRefunded, Resume, Exit, Last
<1>11. CASE ExemptStep(j)
  BY <1>1, <1>11 DEF ExemptStep
<1>12. CASE RunExempt(j)
  BY <1>1, <1>12 DEF RunExempt, Resume, Exit
<1> QED
  BY <1>2, <1>3, <1>4, <1>5, <1>6, <1>7, <1>8, <1>9, <1>10, <1>11, <1>12 DEF Body

LEMMA RequestKeepsJob ==
    ASSUME Typed, NEW j \in Jobs, JobInv(j), Enqueue(j) \/ Elapse(j)
    PROVE  JobInv(j)'
<1> USE DEF Typed, TypeOK, JobInv, Fresh, Untouched, AtRest, Debts, Counters, Refunded,
            Bills, Healthy, Outstanding, Owned, InHand, Terminal, NonTerminal, Ended,
            Request, rowVars, countVars, arqVars, bodyVars, watchVars, tallyVars
<1>1. CASE Admit(j) \/ CompensatePlan(j)
  <2>1. /\ UNCHANGED <<status, result, late, reservedCount, refundedCount, task, pc,
                        booked, given, delivered, waived, scars, todo, owes>>
        /\ api[j] # "done"
    BY <1>1 DEF Admit, CompensatePlan
  <2> QED
    BY <2>1
<1>2. CASE CreateRow(j)
  BY <1>2 DEF CreateRow
<1>3. CASE Push(j)
  BY <1>3 DEF Push
<1>4. CASE CompensateFail(j)
  BY <1>4 DEF CompensateFail
<1>5. CASE Elapse(j)
  BY <1>5 DEF Elapse
<1> QED
  BY <1>1, <1>2, <1>3, <1>4, <1>5 DEF Enqueue

LEMMA WorkerKeepsJob ==
    ASSUME Typed, NEW j \in Jobs, JobInv(j), Worker(j)
    PROVE  JobInv(j)'
<1> USE DEF Typed, TypeOK, JobInv, Fresh, Untouched, AtRest, Debts, Counters, Refunded,
            Bills, Healthy, Outstanding, Owned, InHand, Clean, Terminal, NonTerminal, Ended,
            Scars, Goto, rowVars, countVars, arqVars, bodyVars, watchVars, tallyVars
<1>1. CASE Claim(j)
  <2>1. CASE Open(j)
    BY <1>1, <2>1 DEF Claim
  <2>2. CASE ~Open(j)
    BY <1>1, <2>2 DEF Claim
  <2> QED
    BY <2>1, <2>2
<1>2. CASE GiveUp(j) \/ Timeout(j) \/ FailRunPlan(j)
  BY <1>2 DEF GiveUp, Timeout, FailRunPlan
<1>3. CASE Complete(j)
  BY <1>3 DEF Complete
<1>4. CASE Fail(j)
  BY <1>4 DEF Fail, Fallback
<1>5. CASE RefundJob(j)
  <2>1. /\ pc[j] \in Ended /\ task'[j] \in {"gone", "failPlan"} /\ api[j] = "done"
        /\ status[j] = "failed" \/ result[j] = "refusal"
    BY <1>5 DEF RefundJob, Fallback
  <2>2. UNCHANGED <<status, result, late, reservedCount, api, pc, booked, delivered, waived,
                    scars, todo, owes>>
    BY <1>5 DEF RefundJob
  <2>3. /\ reservedCount[j] - refundedCount'[j] <= 0
        /\ given'[j] - given[j] = refundedCount'[j] - refundedCount[j]
        /\ refundedCount'[j] = refundedCount[j] \/ refundedCount'[j] = reservedCount[j]
        /\ Healthy(j, Clean) => booked[j] - given[j] = Owned(j)
    BY <1>5, <2>1, RefundOutstandingEffect DEF RefundJob
  <2>4. refundedCount'[j] \in Nat /\ given'[j] \in Nat
    BY <1>5, RefundOutstandingTypes DEF RefundJob
  <2>5. Fresh(j)' /\ Untouched(j)' /\ AtRest(j)' /\ Debts(j)' /\ Bills(j)'
    BY <2>1, <2>2
  <2>6. Counters(j)' /\ Refunded(j)'
    BY <2>1, <2>2, <2>3, <2>4
  <2> QED
    BY <2>5, <2>6
<1> QED
  BY <1>1, <1>2, <1>3, <1>4, <1>5 DEF Worker

LEMMA WatcherKeepsJob ==
    ASSUME Typed, NEW w \in Watchers, NEW j \in Jobs, JobInv(j),
           PollRead(w, j) \/ WatchFail(w, j) \/ WatchRefund(w, j)
    PROVE  JobInv(j)'
<1> USE DEF Typed, TypeOK, JobInv, Fresh, Untouched, AtRest, Debts, Counters, Refunded,
            Bills, Healthy, Outstanding, Owned, InHand, Clean, Terminal, NonTerminal, Ended,
            Scars, Scar, rowVars, countVars, arqVars, bodyVars, watchVars, tallyVars
<1>1. CASE PollRead(w, j)
  BY <1>1 DEF PollRead, WatchRead, Stale
<1>2. CASE WatchFail(w, j)
  BY <1>2 DEF WatchFail
<1>3. CASE WatchRefund(w, j)
  <2>0. owes[w] = j
    BY <1>3 DEF WatchRefund
  <2>1. /\ status[j] = "failed" /\ api[j] = "done" /\ result[j] = "null"
        /\ Healthy(j, Clean) => pc[j] \in Ended
    BY <2>0
  <2>2. /\ UNCHANGED <<status, result, late, reservedCount, api, task, pc, booked, delivered,
                       waived, todo>>
        /\ \A v \in Watchers : owes'[v] = j => owes[v] = j
    BY <1>3 DEF WatchRefund
  <2>3. Fresh(j)' /\ Debts(j)' /\ Bills(j)'
    BY <2>1, <2>2
  <2>4. CASE RefundOutstanding(j) /\ UNCHANGED scars
    <3>1. /\ reservedCount[j] - refundedCount'[j] <= 0
          /\ given'[j] - given[j] = refundedCount'[j] - refundedCount[j]
          /\ refundedCount'[j] = refundedCount[j] \/ refundedCount'[j] = reservedCount[j]
          /\ Healthy(j, Clean) => booked[j] - given[j] = Owned(j)
      BY <2>1, <2>4, RefundOutstandingEffect
    <3>2. refundedCount'[j] \in Nat /\ given'[j] \in Nat
      BY <2>4, RefundOutstandingTypes
    <3>3. AtRest(j)'
      BY <2>1, <2>2, <2>4
    <3>4. Counters(j)'
      <4>1. ASSUME Healthy(j, Clean)'
            PROVE  /\ booked'[j] - given'[j] = Owned(j)' /\ Owned(j)' >= 0
                   /\ Owned(j)' \in Int /\ pc'[j] \in Ended
        <5>1. Healthy(j, Clean)
          BY <2>4, <4>1
        <5>2. pc[j] \in Ended /\ pc'[j] = pc[j]
          BY <2>1, <2>2, <5>1
        <5>3. booked[j] - given[j] = Owned(j) /\ Owned(j) >= 0
          BY <5>1, <5>2
        <5>4. TypeOK /\ UNCHANGED <<booked, reservedCount, waived>>
          BY <2>2
        <5> HIDE DEF TypeOK, Outstanding, Owned, Typed, JobInv
        <5> QED
          BY <2>4, <5>2, <5>3, <5>4, RefundKeepsBalance
      <4> QED
        BY <4>1
    <3>5. Refunded(j)'
      BY <2>1, <2>2, <2>4, <3>1, <3>2
    <3>6. Untouched(j)'
      <4>1. SUFFICES ASSUME task[j] = "none"
                     PROVE  refundedCount'[j] = 0 /\ given'[j] = 0
        BY <2>2
      <4>2. Outstanding(j) = 0 /\ reservedCount[j] = 0 /\ given[j] = 0
        BY <4>1
      <4> QED
        BY <2>4, <3>2, <4>2, RefundOutstandingEffect
    <3> QED
      BY <2>3, <3>3, <3>4, <3>5, <3>6
  <2>5. CASE Scar(j, "unpaid") /\ UNCHANGED <<runsUsed, refundedCount, given>>
    <3>1. scars'[j] = scars[j] \cup {"unpaid"}
      BY <2>5
    <3>2. Untouched(j)' /\ AtRest(j)'
      BY <2>2, <2>5, <3>1
    <3>3. Counters(j)'
      BY <2>2, <2>5, <3>1
    <3>4. Refunded(j)'
      BY <3>1
    <3> QED
      BY <2>3, <3>2, <3>3, <3>4
  <2> QED
    BY <1>3, <2>4, <2>5 DEF WatchRefund
<1> QED
  BY <1>1, <1>2, <1>3

LEMMA DeathKeepsJob ==
    ASSUME Typed, NEW j \in Jobs, JobInv(j),
           ProcessDies(j) \/ CountingFails(j) \/ StepWriteFails(j)
               \/ StepStateFails(j) \/ JobWriteFails(j)
    PROVE  JobInv(j)'
<1> USE DEF Typed, TypeOK, JobInv, Fresh, Untouched, AtRest, Debts, Counters, Refunded,
            Bills, Healthy, Outstanding, Owned, InHand, Clean, Terminal, NonTerminal, Ended,
            InStep, Scars, Scar, Awake, Goto, rowVars, countVars, arqVars, bodyVars,
            watchVars, tallyVars
<1>1. CASE ProcessDies(j)
  <2>1. /\ UNCHANGED <<status, result, late, reservedCount, refundedCount, api, booked,
                       given, delivered, waived, todo, owes>>
        /\ pc'[j] = "off" /\ task'[j] = IF task[j] \in Awake THEN "queued" ELSE task[j]
        /\ task[j] # "none"
    BY <1>1 DEF ProcessDies
  <2>2. Fresh(j)' /\ Untouched(j)' /\ AtRest(j)' /\ Debts(j)'
    BY <2>1
  <2>3. scars'[j] = scars[j] \cup Cut(pc[j]) \cup (IF task[j] = "refund" THEN {"unpaid"} ELSE {})
    BY <1>1 DEF ProcessDies
  <2>4. CASE Cut(pc[j]) = {}
    <3>1. pc[j] \notin {"capRefund", "count", "body", "refund", "countRefund"}
      BY <2>4 DEF Cut, CutAt
    <3>2. scars[j] \subseteq scars'[j] /\ (task[j] = "refund" => "unpaid" \in scars'[j])
      BY <2>3
    <3>3. Counters(j)'
      BY <2>1, <3>1, <3>2
    <3>4. Bills(j)'
      BY <2>1, <3>1, <3>2
    <3>5. Refunded(j)'
      BY <2>1, <3>1, <3>2
    <3> QED
      BY <2>2, <3>3, <3>4, <3>5
  <2>5. CASE Cut(pc[j]) # {}
    <3>1. /\ pc[j] \in InStep
          /\ pc[j] \in {"capRefund", "count"} => "untracked" \in scars'[j]
          /\ pc[j] = "countRefund" => "unmarked" \in scars'[j]
          /\ pc[j] \in {"body", "refund"} => "abandoned" \in scars'[j]
          /\ scars[j] \subseteq scars'[j]
          /\ task[j] # "refund"
      BY <2>3, <2>5 DEF Cut, CutAt
    <3>2. Counters(j)' /\ Bills(j)'
      BY <2>1, <3>1
    <3>3. Refunded(j)'
      BY <2>1, <3>1
    <3> QED
      BY <2>2, <3>2, <3>3
  <2> QED
    BY <2>4, <2>5
<1>2. CASE CountingFails(j)
  <2>1. /\ UNCHANGED <<status, result, late, reservedCount, refundedCount, api, task, booked,
                       given, delivered, waived, todo, owes>>
        /\ pc[j] \in {"count", "countRefund"}
        /\ "untracked" \in scars'[j] \/ "unmarked" \in scars'[j]
        /\ scars[j] \subseteq scars'[j] /\ scars'[j] \subseteq Scars
    BY <1>2 DEF CountingFails
  <2> QED
    BY <2>1
<1>3. CASE StepWriteFails(j)
  <2>1. /\ UNCHANGED <<status, result, late, reservedCount, refundedCount, api, task, booked,
                       given, delivered, waived, todo, owes>>
        /\ pc[j] \in {"body", "refund", "exempt"} /\ pc'[j] \in {"next", "raised"}
    BY <1>3 DEF StepWriteFails, Resume, Exit
  <2>2. CASE pc[j] = "exempt" /\ UNCHANGED scars
    BY SMTT(40), <2>1, <2>2
  <2>3. CASE pc[j] # "exempt" /\ Scar(j, "abandoned")
    <3>1. "abandoned" \in scars'[j] /\ scars[j] \subseteq scars'[j]
      BY <2>3
    <3>2. Fresh(j)' /\ Untouched(j)' /\ AtRest(j)' /\ Debts(j)'
      BY <2>1, <2>3, <3>1
    <3>3. Bills(j)'
      BY <3>1
    <3>4. scars'[j] \cap Clean = scars[j] \cap Clean
      BY <2>3
    <3>5. Counters(j)'
      BY <2>1, <3>4
    <3>6. Refunded(j)'
      BY <2>1, <2>3, <3>1
    <3> QED
      BY <3>2, <3>3, <3>5, <3>6
  <2> QED
    BY <1>3, <2>2, <2>3 DEF StepWriteFails
<1>4. CASE StepStateFails(j)
  BY <1>4 DEF StepStateFails, Resume, Exit
<1>5. CASE JobWriteFails(j)
  <2>1. /\ UNCHANGED <<status, result, late, reservedCount, refundedCount, api, pc, booked,
                       given, delivered, waived, todo, owes>>
        /\ task'[j] = "gone" /\ task[j] \in {"run", "refund"}
        /\ scars[j] \subseteq scars'[j] /\ scars'[j] \subseteq Scars
        /\ task[j] = "refund" => "unpaid" \in scars'[j]
    BY <1>5 DEF JobWriteFails
  <2> QED
    BY <2>1
<1> QED
  BY <1>1, <1>2, <1>3, <1>4, <1>5

(***************************************************************************)
(* The invariant is inductive: a step concerns one job, or one watchdog.   *)
(***************************************************************************)
LEMMA AccountingInductive == Typed /\ AccountingInv /\ [Next]_vars => AccountingInv'
<1> SUFFICES ASSUME Typed, AccountingInv, [Next]_vars, NEW k \in Jobs
             PROVE  JobInv(k)'
  BY DEF AccountingInv
<1>0. JobInv(k)
  BY DEF AccountingInv
<1> USE DEF rowVars, countVars, arqVars, bodyVars, watchVars, tallyVars, BodyOnly, Goto,
            Request, Scar
<1>1. CASE UNCHANGED vars
  BY <1>0, <1>1, JobFrame DEF vars
<1>2. CASE SweepRead
  <2>1. Fresh(k)'
    BY <1>0, <1>2 DEF SweepRead, WatchRead, Stale, JobInv, Fresh, Typed, TypeOK
  <2>2. UNCHANGED <<status, result, late, reservedCount, refundedCount, api, task, pc,
                    booked, given, delivered, waived, scars, owes>>
    BY <1>2 DEF SweepRead, WatchRead
  <2> QED
    BY <1>0, <2>1, <2>2 DEF JobInv, Untouched, AtRest, Debts, Counters, Refunded, Bills,
       Healthy, Outstanding, Owned, InHand
<1>3. ASSUME NEW j \in Jobs, Enqueue(j) \/ Elapse(j) PROVE JobInv(k)'
  <2>1. CASE k = j
    BY <1>0, <1>3, <2>1, RequestKeepsJob
  <2>2. CASE k # j
    BY <1>0, <1>3, <2>2, JobFrame DEF Enqueue, Admit, CreateRow, Push, CompensateFail,
       CompensatePlan, Elapse, Typed, TypeOK
  <2> QED
    BY <2>1, <2>2
<1>4. ASSUME NEW j \in Jobs, Body(j) PROVE JobInv(k)'
  <2>1. CASE k = j
    BY <1>0, <1>4, <2>1, BodyKeepsJob
  <2>2. CASE k # j
    BY <1>0, <1>4, <2>2, JobFrame DEF Body, PlanStart, LeaveOut, BodyEnds, ReserveStep,
       QuotaExceeded, CapRefund, CountReserved, RunStep, RefundStep, CountRefunded,
       RecordPlan, ExemptStep, RunExempt, GiveBack, Resume, Typed, TypeOK
  <2> QED
    BY <2>1, <2>2
<1>5. ASSUME NEW j \in Jobs, Worker(j) PROVE JobInv(k)'
  <2>1. CASE k = j
    BY <1>0, <1>5, <2>1, WorkerKeepsJob
  <2>2. CASE k # j
    BY <1>0, <1>5, <2>2, JobFrame, RefundOutstandingEffect DEF Worker, Claim, GiveUp,
       Complete, Fail, RefundJob, FailRunPlan, Timeout, Typed, TypeOK
  <2> QED
    BY <2>1, <2>2
<1>6. ASSUME NEW w \in Watchers, NEW j \in Jobs,
             PollRead(w, j) \/ WatchFail(w, j) \/ WatchRefund(w, j)
      PROVE  JobInv(k)'
  <2>1. CASE k = j
    BY <1>0, <1>6, <2>1, WatcherKeepsJob
  <2>2. CASE k # j
    <3>1. CASE PollRead(w, j)
      BY <1>0, <2>2, <3>1, JobFrame DEF PollRead, WatchRead, Typed, TypeOK
    <3>2. CASE WatchFail(w, j)
      <4>1. owes[w] = "nobody" /\ k # "nobody"
        BY <3>2, WatcherAssumption DEF WatchFail
      <4>2. \A v \in Watchers : owes'[v] = k <=> owes[v] = k
        BY <2>2, <3>2, <4>1 DEF WatchFail, Typed, TypeOK
      <4>3. \A v \in Watchers : k \in todo'[v] => k \in todo[v]
        BY <3>2 DEF WatchFail, Typed, TypeOK
      <4>4. status'[k] = status[k] /\ scars'[k] = scars[k]
        BY <2>2, <3>2 DEF WatchFail, Typed, TypeOK
      <4>5. UNCHANGED <<result, late, reservedCount, refundedCount, api, task, pc, booked,
                        given, delivered, waived>>
        BY <3>2 DEF WatchFail
      <4> QED
        BY <1>0, <4>2, <4>3, <4>4, <4>5, JobFrame
    <3>3. CASE WatchRefund(w, j)
      <4>1. refundedCount'[k] = refundedCount[k] /\ given'[k] = given[k]
        BY <2>2, <3>3, RefundOutstandingEffect DEF WatchRefund, Typed
      <4>2. owes'[w] = "nobody" /\ \A v \in Watchers \ {w} : owes'[v] = owes[v]
        BY <3>3 DEF WatchRefund, Typed, TypeOK
      <4>3. owes[w] = j /\ k # "nobody"
        BY <3>3, WatcherAssumption DEF WatchRefund
      <4>4. scars'[k] = scars[k]
        BY <2>2, <3>3 DEF WatchRefund, Typed, TypeOK
      <4>5. UNCHANGED <<status, result, late, reservedCount, api, task, pc, booked, delivered,
                        waived, todo>>
        BY <3>3 DEF WatchRefund
      <4>6. \A v \in Watchers : owes'[v] = k <=> owes[v] = k
        BY <2>2, <4>2, <4>3
      <4> QED
        BY <1>0, <4>1, <4>4, <4>5, <4>6, JobFrame
    <3> QED
      BY <1>6, <3>1, <3>2, <3>3
  <2> QED
    BY <2>1, <2>2
<1>7. ASSUME NEW j \in Jobs, ProcessDies(j) \/ CountingFails(j) \/ StepWriteFails(j)
                                 \/ StepStateFails(j) \/ JobWriteFails(j)
      PROVE  JobInv(k)'
  <2>1. CASE k = j
    BY <1>0, <1>7, <2>1, DeathKeepsJob
  <2>2. CASE k # j
    BY <1>0, <1>7, <2>2, JobFrame DEF ProcessDies, CountingFails, StepWriteFails,
       StepStateFails, JobWriteFails, Resume, Typed, TypeOK
  <2> QED
    BY <2>1, <2>2
<1>8. ASSUME NEW w \in Watchers, WatcherDies(w) PROVE JobInv(k)'
  <2>1. /\ UNCHANGED <<status, result, late, reservedCount, refundedCount, api, task, pc,
                       booked, given, delivered, waived>>
        /\ \A v \in Watchers : todo'[v] \subseteq todo[v]
        /\ \A v \in Watchers : owes'[v] = IF v = w THEN "nobody" ELSE owes[v]
        /\ scars'[k] = scars[k] \cup (IF owes[w] = k THEN {"unpaid"} ELSE {})
    BY <1>8 DEF WatcherDies, Typed, TypeOK
  <2>2. scars[k] \subseteq scars'[k] /\ (owes[w] = k => "unpaid" \in scars'[k])
    BY <2>1
  <2>3. k # "nobody"
    BY WatcherAssumption
  <2>4. Fresh(k)' /\ Untouched(k)' /\ AtRest(k)' /\ Debts(k)'
    BY <1>0, <2>1, <2>2, <2>3 DEF JobInv, Fresh, Untouched, AtRest, Debts
  <2>5. Counters(k)' /\ Bills(k)'
    BY <1>0, <2>1, <2>2 DEF JobInv, Counters, Bills, Healthy, Outstanding, Owned, InHand
  <2>6. Refunded(k)'
    BY <1>0, <2>1, <2>2, <2>3 DEF JobInv, Refunded, Healthy, Outstanding, Clean
  <2> QED
    BY <2>4, <2>5, <2>6 DEF JobInv
<1> QED
  BY <1>1, <1>2, <1>3, <1>4, <1>5, <1>6, <1>7, <1>8 DEF Next, Watchdogs, Deaths, Terminating

LEMMA AccountingInvariant == Spec => []AccountingInv
<1>1. Init => AccountingInv
  BY JobsAssumption, WatcherAssumption
     DEF Init, AccountingInv, JobInv, Fresh, Untouched, AtRest, Debts, Counters, Refunded,
         Bills, Healthy, Outstanding, Owned, InHand, Terminal, Ended, Clean, Scars
<1> QED
  BY <1>1, AccountingInductive, TypedInvariant, PTL DEF Spec

\* The counters of a job nobody overlapped and no death cut always say what is booked
\* and not handed back.
THEOREM CountersAreRight == Spec => []CountersTrackBookings
<1>1. AccountingInv => CountersTrackBookings
  BY DEF AccountingInv, CountersTrackBookings, JobInv, Counters, Outstanding, Owned, Clean
<1> QED
  BY <1>1, AccountingInvariant, PTL

\* Such a job is never given back more runs than it booked.
THEOREM NoOverRefund == Spec => []NeverOverRefunded
<1>1. TypeOK /\ AccountingInv => NeverOverRefunded
  BY DEF TypeOK, AccountingInv, NeverOverRefunded, JobInv, Counters, Outstanding, Owned, InHand, Clean
<1> QED
  BY <1>1, AccountingInvariant, TypeCorrect, PTL

\* Once nobody works for it, a failed or refused composite has got everything back, but
\* for as many runs as exempt steps of it failed.
THEOREM FailureNotBilled == Spec => []FailedIsNotBilled
<1>1. TypeOK /\ AccountingInv => FailedIsNotBilled
  <2> SUFFICES ASSUME TypeOK, AccountingInv, NEW j \in Jobs,
                      Healthy(j, {"overlap", "untracked", "unmarked", "unpaid"}), Settled(j),
                      status[j] = "failed" \/ result[j] = "refusal"
               PROVE  given[j] <= booked[j] /\ booked[j] <= given[j] + waived[j]
    BY DEF FailedIsNotBilled
  <2>1. Healthy(j, Clean) /\ Healthy(j, Clean \cup {"unpaid"})
    BY DEF Healthy, Clean
  <2>2. Outstanding(j) <= 0
    BY <2>1 DEF AccountingInv, JobInv, Refunded, Settled
  <2>3. booked[j] - given[j] = Owned(j) /\ Owned(j) >= 0
    BY <2>1 DEF TypeOK, AccountingInv, JobInv, Counters, Settled, Ended, Outstanding, Owned,
       InHand
  <2> QED
    BY <2>2, <2>3 DEF TypeOK, Outstanding, Owned
<1> QED
  BY <1>1, AccountingInvariant, TypeCorrect, PTL

\* And a completed one pays for its deliveries and nothing else.
THEOREM DeliveriesBilled == Spec => []CompletedBillsDeliveries
<1>1. TypeOK /\ AccountingInv => CompletedBillsDeliveries
  BY DEF TypeOK, AccountingInv, CompletedBillsDeliveries, JobInv, Counters, Bills, Debts,
     Outstanding, Owned, InHand, Healthy, Clean, Scars, Settled, Ended
<1> QED
  BY <1>1, AccountingInvariant, TypeCorrect, PTL

(***************************************************************************)
(* The composites keep the ledger, a step at a time.                       *)
(***************************************************************************)
\* What the ledger sees of a state.
Seen == <<runsUsed, Kept, Billed>>

\* n runs of job j go back: less than it has, and none if it is billed.
LEMMA HandBackStep ==
    ASSUME Typed, NEW j \in Jobs, NEW n \in Nat \ {0}, n <= booked[j] - given[j],
           result[j] # "summary", GiveBack(j, n), UNCHANGED <<booked, result>>
    PROVE  Ledger!Next
<1>1. Kept' = [Kept EXCEPT ![j] = @ - n]
  <2>1. given' = [given EXCEPT ![j] = given[j] + n] /\ booked' = booked
    BY DEF GiveBack
  <2>2. booked \in [Jobs -> Nat] /\ given \in [Jobs -> Nat]
    BY DEF Typed, TypeOK
  <2>3. ASSUME NEW k \in Jobs
        PROVE  booked'[k] - given'[k] = IF k = j THEN booked[k] - given[k] - n
                                                 ELSE booked[k] - given[k]
    BY <2>1, <2>2
  <2> QED
    BY <2>3 DEF Kept
<1>2. /\ Kept[j] = booked[j] - given[j] /\ Kept[j] \in Int
      /\ j \notin Billed /\ Billed' = Billed
  BY DEF Kept, Billed, Typed, TypeOK
<1>3. n \in 1..Kept[j]
  BY <1>2
<1>4. runsUsed' = IF runsUsed > n THEN runsUsed - n ELSE 0
  BY DEF GiveBack
<1> QED
  BY <1>1, <1>2, <1>3, <1>4 DEF Ledger!Next, Ledger!HandBack

\* A refund of what is outstanding, for a job at rest whose counters are true.
LEMMA RefundOutstandingStep ==
    ASSUME Typed, NEW j \in Jobs, JobInv(j), Healthy(j, Clean), pc[j] \in Ended,
           result[j] # "summary", RefundOutstanding(j), UNCHANGED <<booked, result>>
    PROVE  [Ledger!Next]_Seen
<1>1. /\ Outstanding(j) <= booked[j] - given[j] /\ Outstanding(j) \in Int
      /\ Outstanding(j) = reservedCount[j] - refundedCount[j]
  BY DEF JobInv, Counters, Ended, Outstanding, Owned, Typed, TypeOK
<1>2. CASE Outstanding(j) > 0 /\ GiveBack(j, Outstanding(j))
  BY <1>1, <1>2, HandBackStep
<1>3. CASE UNCHANGED <<runsUsed, given>>
  BY <1>3 DEF Seen, Kept, Billed
<1> QED
  BY <1>1, <1>2, <1>3 DEF RefundOutstanding

\* A step that leaves the ledger's part of the state alone.
LEMMA LedgerFrame ==
    ASSUME UNCHANGED <<runsUsed, booked, given, result>>
    PROVE  UNCHANGED Seen
  BY DEF Seen, Kept, Billed

LEMMA LedgerStep ==
    ASSUME Typed, AccountingInv, CountsAreTrue, [Next]_vars
    PROVE  [Ledger!Next]_Seen
<1> USE DEF rowVars, countVars, arqVars, bodyVars, watchVars, tallyVars, BodyOnly
<1>1. ASSUME NEW j \in Jobs PROVE JobInv(j) /\ Healthy(j, Clean)
  BY DEF AccountingInv, CountsAreTrue, Clean
<1>2. ASSUME NEW j \in Jobs, Body(j) PROVE [Ledger!Next]_Seen
  <2>1. result[j] = "null"
    BY <1>1, <1>2 DEF JobInv, AtRest, Debts, Healthy, Clean, Terminal, Ended, InStep, Body,
       PlanStart, LeaveOut, BodyEnds, ReserveStep, QuotaExceeded, CapRefund, CountReserved,
       RunStep, RefundStep, CountRefunded, RecordPlan, ExemptStep, RunExempt, Typed, TypeOK
  <2>2. CASE ReserveStep(j)
    <3>1. /\ runsUsed < RunsAllowed /\ runsUsed' = runsUsed + 1
          /\ booked' = [booked EXCEPT ![j] = @ + 1] /\ UNCHANGED <<given, result>>
      BY <2>2 DEF ReserveStep
    <3>2. Kept' = [Kept EXCEPT ![j] = @ + 1]
      <4>1. booked \in [Jobs -> Nat] /\ given \in [Jobs -> Nat]
        BY DEF Typed, TypeOK
      <4>2. ASSUME NEW k \in Jobs
            PROVE  booked'[k] - given'[k] = IF k = j THEN booked[k] - given[k] + 1
                                                     ELSE booked[k] - given[k]
        BY <3>1, <4>1
      <4> QED
        BY <4>2 DEF Kept
    <3>3. j \notin Billed /\ Billed' = Billed
      BY <2>1, <3>1 DEF Billed
    <3> QED
      BY <3>1, <3>2, <3>3 DEF Ledger!Next, Ledger!Book
  <2>3. CASE CapRefund(j) \/ RefundStep(j)
    <3>1. GiveBack(j, 1) /\ UNCHANGED <<booked, result>> /\ pc[j] \in {"capRefund", "refund"}
      BY <2>3 DEF CapRefund, RefundStep
    <3>2. 1 <= booked[j] - given[j]
      BY <1>1, <3>1 DEF JobInv, Counters, Outstanding, Owned, InHand, Typed, TypeOK
    <3> QED
      BY <2>1, <3>1, <3>2, HandBackStep
  <2>4. CASE ~ReserveStep(j) /\ ~CapRefund(j) /\ ~RefundStep(j)
    <3>1. UNCHANGED <<runsUsed, booked, given, result>>
      BY <1>2, <2>4 DEF Body, PlanStart, LeaveOut, BodyEnds, QuotaExceeded, CountReserved,
         RunStep, CountRefunded, RecordPlan, ExemptStep, RunExempt
    <3> QED
      BY <3>1, LedgerFrame
  <2> QED
    BY <2>2, <2>3, <2>4
<1>3. ASSUME NEW j \in Jobs, Worker(j) PROVE [Ledger!Next]_Seen
  <2>1. CASE RefundJob(j)
    <3>1. /\ task[j] = "refund" /\ RefundOutstanding(j) /\ UNCHANGED <<booked, result>>
      BY <2>1 DEF RefundJob
    <3>2. pc[j] \in Ended /\ result[j] # "summary"
      BY <1>1, <3>1 DEF JobInv, AtRest, Debts
    <3> QED
      BY <1>1, <3>1, <3>2, RefundOutstandingStep
  <2>2. CASE Complete(j)
    <3>1. /\ UNCHANGED <<runsUsed, booked, given>>
          /\ \E r \in {result[j], "refusal", "summary"} : result' = [result EXCEPT ![j] = r]
          /\ result'[j] # result[j] => Open(j)
      BY <2>2 DEF Complete, Typed, TypeOK
    <3>2. Kept' = Kept
      BY <3>1 DEF Kept
    <3>3. Open(j) => result[j] = "null"
      BY <1>1 DEF JobInv, Debts, NonTerminal
    <3>4. Billed' = Billed \/ Billed' = Billed \cup {j}
      BY <3>1, <3>3 DEF Billed, Typed, TypeOK
    <3> QED
      BY <3>1, <3>2, <3>4 DEF Seen, Ledger!Next, Ledger!Bill
  <2>3. CASE ~RefundJob(j) /\ ~Complete(j)
    <3>1. UNCHANGED <<runsUsed, booked, given, result>>
      BY <1>3, <2>3 DEF Worker, Claim, GiveUp, Fail, FailRunPlan, Timeout
    <3> QED
      BY <3>1, LedgerFrame
  <2> QED
    BY <2>1, <2>2, <2>3
<1>4. ASSUME NEW w \in Watchers, NEW j \in Jobs, WatchRefund(w, j) PROVE [Ledger!Next]_Seen
  <2>1. owes[w] = j /\ UNCHANGED <<booked, result>>
    BY <1>4 DEF WatchRefund
  <2>2. pc[j] \in Ended /\ result[j] # "summary"
    BY <1>1, <2>1 DEF JobInv, AtRest, Debts, Terminal, Healthy, Clean
  <2>3. CASE RefundOutstanding(j)
    BY <1>1, <2>1, <2>2, <2>3, RefundOutstandingStep
  <2>4. CASE UNCHANGED <<runsUsed, given>>
    BY <2>1, <2>4, LedgerFrame
  <2> QED
    BY <1>4, <2>3, <2>4 DEF WatchRefund
<1>5. ASSUME NEW w \in Watchers, NEW j \in Jobs, PollRead(w, j) \/ WatchFail(w, j)
      PROVE  [Ledger!Next]_Seen
  BY <1>5, LedgerFrame DEF PollRead, WatchRead, WatchFail
<1>6. ASSUME NEW j \in Jobs, Enqueue(j) \/ Elapse(j) PROVE [Ledger!Next]_Seen
  BY <1>6, LedgerFrame DEF Enqueue, Admit, CreateRow, Push, CompensateFail, CompensatePlan, Elapse
<1>7. ASSUME NEW j \in Jobs, ProcessDies(j) \/ CountingFails(j) \/ StepWriteFails(j)
                             \/ StepStateFails(j) \/ JobWriteFails(j)
      PROVE  [Ledger!Next]_Seen
  BY <1>7, LedgerFrame
     DEF ProcessDies, CountingFails, StepWriteFails, StepStateFails, JobWriteFails
<1>8. ASSUME NEW w \in Watchers, WatcherDies(w) PROVE [Ledger!Next]_Seen
  BY <1>8, LedgerFrame DEF WatcherDies
<1>9. CASE SweepRead \/ UNCHANGED vars
  BY <1>9, LedgerFrame DEF SweepRead, WatchRead, vars
<1> QED
  BY <1>2, <1>3, <1>4, <1>5, <1>6, <1>7, <1>8, <1>9 DEF Next, Watchdogs, Deaths, Terminating

\* run_agent_job, its body and the watchdogs together keep the ledger of StepLedger for
\* as long as the counters say the truth: no composite is given back a run that it does
\* not have, and a completed one's bill is final.
THEOREM CompositesImplementLedger == Spec => ImplementsLedger
<1>1. Init => Ledger!Init
  <2> SUFFICES ASSUME Init PROVE Ledger!Init
    OBVIOUS
  <2>1. Kept = [j \in Jobs |-> 0] /\ Billed = {} /\ runsUsed = 0
    BY DEF Init, Kept, Billed
  <2> QED
    BY <2>1 DEF Ledger!Init
<1>2. Typed /\ AccountingInv /\ CountsAreTrue /\ [Next]_vars => [Ledger!Next]_Seen
  BY LedgerStep
<1> QED
  BY <1>1, <1>2, TypedInvariant, AccountingInvariant, PTL
     DEF Spec, ImplementsLedger, Ledger!Spec, Seen

(***************************************************************************)
(* Counting what the composites keep.                                      *)
(***************************************************************************)
RunsOf(f) == UNION {{j} \X (1..f[j]) : j \in Jobs}

LEMMA RunMember ==
    ASSUME NEW f \in [Jobs -> Nat], NEW x
    PROVE  x \in RunsOf(f) <=> \E j \in Jobs : \E i \in 1..f[j] : x = <<j, i>>
  BY DEF RunsOf

\* One job's count changes, and the whole changes by as much.
LEMMA OneCountChanges ==
    ASSUME NEW f \in [Jobs -> Nat], NEW j \in Jobs, NEW n \in Nat,
           IsFiniteSet(RunsOf(f))
    PROVE  LET g == [f EXCEPT ![j] = n] IN
           /\ IsFiniteSet(RunsOf(g)) /\ Cardinality(RunsOf(g)) \in Nat
           /\ Cardinality(RunsOf(f)) \in Nat /\ Cardinality(RunsOf(f)) >= f[j]
           /\ Cardinality(RunsOf(g)) = Cardinality(RunsOf(f)) - f[j] + n
<1> DEFINE g == [f EXCEPT ![j] = n]
           Rest == {x \in RunsOf(f) : x[1] # j}
           Column(m) == {j} \X (1..m)
<1>1. ASSUME NEW m \in Nat PROVE IsFiniteSet(Column(m)) /\ Cardinality(Column(m)) = m
  <2> DEFINE One == {j}
             Upto == 1..m
  <2>1. IsFiniteSet(One) /\ Cardinality(One) = 1
    BY FS_Singleton
  <2>2. IsFiniteSet(Upto) /\ Cardinality(Upto) = m
    <3>1. Cardinality(1..m) = (IF 1 > m THEN 0 ELSE m - 1 + 1) /\ IsFiniteSet(1..m)
      BY FS_Interval
    <3> QED
      BY <3>1
  <2>3. Column(m) = One \X Upto
    OBVIOUS
  <2> HIDE DEF One, Upto, Column
  <2>4. IsFiniteSet(One \X Upto) /\ Cardinality(One \X Upto) = Cardinality(One) * Cardinality(Upto)
    BY <2>1, <2>2, FS_Product
  <2> QED
    BY <2>1, <2>2, <2>3, <2>4
<1>2. g \in [Jobs -> Nat] /\ g[j] = n /\ \A k \in Jobs \ {j} : g[k] = f[k]
  OBVIOUS
<1>3. RunsOf(f) = Rest \cup Column(f[j])
  <2>1. \A x : x \in RunsOf(f) <=> \E k \in Jobs : \E i \in 1..f[k] : x = <<k, i>>
    BY RunMember
  <2>2. ASSUME NEW x \in RunsOf(f) PROVE x \in Rest \cup Column(f[j])
    BY <2>1
  <2>3. Column(f[j]) \subseteq RunsOf(f)
    BY <2>1
  <2> QED
    BY <2>2, <2>3
<1>4. RunsOf(g) = Rest \cup Column(n)
  <2> HIDE DEF g
  <2>1. \A x : x \in RunsOf(f) <=> \E k \in Jobs : \E i \in 1..f[k] : x = <<k, i>>
    BY RunMember
  <2>2. \A x : x \in RunsOf(g) <=> \E k \in Jobs : \E i \in 1..g[k] : x = <<k, i>>
    BY <1>2, RunMember
  <2>3. ASSUME NEW x \in RunsOf(g) PROVE x \in Rest \cup Column(n)
    <3>1. PICK k \in Jobs : \E i \in 1..g[k] : x = <<k, i>>
      BY <2>2
    <3>2. PICK i \in 1..g[k] : x = <<k, i>>
      BY <3>1
    <3>3. CASE k = j
      BY <1>2, <3>2, <3>3
    <3>4. CASE k # j
      <4>1. i \in 1..f[k]
        BY <1>2, <3>2, <3>4
      <4> QED
        BY <2>1, <3>2, <3>4, <4>1
    <3> QED
      BY <3>3, <3>4
  <2>4. ASSUME NEW x \in Rest PROVE x \in RunsOf(g)
    <3>1. PICK k \in Jobs : \E i \in 1..f[k] : x = <<k, i>>
      BY <2>1
    <3>2. k # j
      BY <3>1
    <3> QED
      BY <1>2, <2>2, <3>1, <3>2
  <2>5. Column(n) \subseteq RunsOf(g)
    BY <1>2, <2>2
  <2> QED
    BY <2>3, <2>4, <2>5
<1>5. Rest \cap Column(f[j]) = {} /\ Rest \cap Column(n) = {} /\ Rest \subseteq RunsOf(f)
  OBVIOUS
<1>6. IsFiniteSet(Rest) /\ Cardinality(Rest) \in Nat
  BY <1>5, FS_Subset, FS_CardinalityType
<1> HIDE DEF Rest, Column, g
<1>7. Cardinality({}) = 0
  BY FS_EmptySet
<1>8. f[j] \in Nat /\ n \in Nat
  OBVIOUS
<1>9. ASSUME NEW m \in Nat, Rest \cap Column(m) = {}
      PROVE  IsFiniteSet(Rest \cup Column(m)) /\ Cardinality(Rest \cup Column(m)) = Cardinality(Rest) + m
  <2>1. IsFiniteSet(Column(m)) /\ Cardinality(Column(m)) = m
    BY <1>1
  <2>2. /\ IsFiniteSet(Rest \cup Column(m))
        /\ Cardinality(Rest \cup Column(m))
             = Cardinality(Rest) + Cardinality(Column(m)) - Cardinality(Rest \cap Column(m))
    BY <1>6, <2>1, FS_Union
  <2>3. Cardinality(Rest \cap Column(m)) = 0
    BY <1>7, <1>9
  <2> QED
    BY <1>6, <2>1, <2>2, <2>3
<1>10. Cardinality(RunsOf(f)) = Cardinality(Rest) + f[j]
  BY <1>3, <1>5, <1>8, <1>9
<1>11. IsFiniteSet(RunsOf(g)) /\ Cardinality(RunsOf(g)) = Cardinality(Rest) + n
  BY <1>4, <1>5, <1>8, <1>9
<1> QED
  BY <1>6, <1>8, <1>10, <1>11 DEF g

(***************************************************************************)
(* The user's counter.                                                     *)
(***************************************************************************)
Charged == CountsAreTrue => IsFiniteSet(RunsOf(Kept)) /\ runsUsed = Cardinality(RunsOf(Kept))

\* Scars stay.
LEMMA ScarsStay == Typed /\ [Next]_vars => \A j \in Jobs : scars[j] \subseteq scars'[j]
<1> SUFFICES ASSUME Typed, [Next]_vars PROVE \A j \in Jobs : scars[j] \subseteq scars'[j]
  OBVIOUS
<1>0. scars \in [Jobs -> SUBSET Scars]
  BY DEF Typed, TypeOK
<1>1. CASE UNCHANGED scars
  BY <1>1
<1>2. ASSUME NEW j \in Jobs, NEW s, Scar(j, s) PROVE \A k \in Jobs : scars[k] \subseteq scars'[k]
  BY <1>0, <1>2 DEF Scar
<1>3. ASSUME NEW j \in Jobs, Enqueue(j) \/ Body(j) \/ Worker(j) \/ Elapse(j)
      PROVE  UNCHANGED scars
  <2>1. CASE Enqueue(j) \/ Elapse(j)
    BY <2>1 DEF Enqueue, Admit, CreateRow, Push, CompensateFail, CompensatePlan, Elapse
  <2>2. CASE Body(j)
    BY <2>2 DEF Body, PlanStart, LeaveOut, BodyEnds, ReserveStep, QuotaExceeded, CapRefund,
       CountReserved, RunStep, RefundStep, CountRefunded, RecordPlan, ExemptStep, RunExempt,
       BodyOnly
  <2>3. CASE Worker(j)
    BY <2>3 DEF Worker, Claim, GiveUp, Complete, Fail, RefundJob, FailRunPlan, Timeout
  <2> QED
    BY <1>3, <2>1, <2>2, <2>3
<1>4. ASSUME NEW w \in Watchers, NEW j \in Jobs,
             PollRead(w, j) \/ WatchFail(w, j) \/ WatchRefund(w, j)
      PROVE  \A k \in Jobs : scars[k] \subseteq scars'[k]
  BY <1>1, <1>2, <1>4 DEF PollRead, WatchRead, WatchFail, WatchRefund
<1>5. CASE SweepRead
  BY <1>5 DEF SweepRead, WatchRead
<1>6. ASSUME NEW j \in Jobs, ProcessDies(j) \/ CountingFails(j) \/ StepWriteFails(j)
                             \/ StepStateFails(j) \/ JobWriteFails(j)
      PROVE  \A k \in Jobs : scars[k] \subseteq scars'[k]
  <2>1. CASE ProcessDies(j)
    BY <1>0, <2>1 DEF ProcessDies
  <2>2. CASE ~ProcessDies(j)
    BY <1>1, <1>2, <1>6, <2>2 DEF CountingFails, StepWriteFails, StepStateFails, JobWriteFails
  <2> QED
    BY <2>1, <2>2
<1>7. ASSUME NEW w \in Watchers, WatcherDies(w) PROVE \A k \in Jobs : scars[k] \subseteq scars'[k]
  BY <1>0, <1>7 DEF WatcherDies
<1>8. CASE Terminating \/ UNCHANGED vars
  BY <1>8 DEF Terminating, vars
<1> QED
  BY <1>1, <1>3, <1>4, <1>5, <1>6, <1>7, <1>8 DEF Next, Watchdogs, Deaths

LEMMA ChargedInductive == Typed /\ AccountingInv /\ Charged /\ [Next]_vars => Charged'
<1> SUFFICES ASSUME Typed, AccountingInv, Charged, [Next]_vars, CountsAreTrue'
             PROVE  IsFiniteSet(RunsOf(Kept)') /\ runsUsed' = Cardinality(RunsOf(Kept)')
  BY DEF Charged
<1>1. CountsAreTrue
  BY ScarsStay DEF CountsAreTrue, Healthy
<1>2. IsFiniteSet(RunsOf(Kept)) /\ runsUsed = Cardinality(RunsOf(Kept))
  BY <1>1 DEF Charged
<1>3. Kept \in [Jobs -> Nat]
  <2>1. ASSUME NEW j \in Jobs PROVE booked[j] - given[j] \in Nat
    <3>1. JobInv(j) /\ Healthy(j, Clean)
      BY <1>1 DEF AccountingInv, CountsAreTrue, Clean
    <3> QED
      BY <3>1 DEF JobInv, Counters, Outstanding, Owned, InHand, Typed, TypeOK
  <2> QED
    BY <2>1 DEF Kept
<1>4. [Ledger!Next]_Seen
  BY <1>1, LedgerStep
<1>5. ASSUME NEW j \in Jobs, NEW n \in Nat, Kept' = [Kept EXCEPT ![j] = n],
             runsUsed' = runsUsed - Kept[j] + n
      PROVE  IsFiniteSet(RunsOf(Kept)') /\ runsUsed' = Cardinality(RunsOf(Kept)')
  <2>1. RunsOf(Kept)' = RunsOf([Kept EXCEPT ![j] = n])
    BY <1>5 DEF RunsOf
  <2> QED
    BY <1>2, <1>3, <1>5, <2>1, OneCountChanges
<1>6. CASE UNCHANGED <<runsUsed, Kept>>
  BY <1>2, <1>6 DEF RunsOf
<1>7. ASSUME NEW j \in Jobs, Ledger!Book(j)
      PROVE  \E n \in Nat : Kept' = [Kept EXCEPT ![j] = n] /\ runsUsed' = runsUsed - Kept[j] + n
  <2>1. Kept[j] \in Nat /\ runsUsed \in Nat
    BY <1>3, BoundAssumption DEF Typed, TypeOK
  <2>2. Kept' = [Kept EXCEPT ![j] = Kept[j] + 1] /\ runsUsed' = runsUsed - Kept[j] + (Kept[j] + 1)
    BY <1>7, <2>1 DEF Ledger!Book
  <2>3. Kept[j] + 1 \in Nat
    BY <2>1
  <2> WITNESS Kept[j] + 1 \in Nat
  <2> QED
    BY <2>2
<1>8. ASSUME NEW j \in Jobs, NEW n \in 1..Kept[j], Ledger!HandBack(j, n)
      PROVE  \E m \in Nat : Kept' = [Kept EXCEPT ![j] = m] /\ runsUsed' = runsUsed - Kept[j] + m
  <2>1. Kept[j] \in Nat /\ runsUsed \in Nat /\ n \in Nat /\ n <= Kept[j]
    BY <1>3, BoundAssumption DEF Typed, TypeOK
  <2>2. runsUsed >= Kept[j]
    BY <1>2, <1>3, OneCountChanges
  <2>3. Kept' = [Kept EXCEPT ![j] = Kept[j] - n] /\ runsUsed' = runsUsed - Kept[j] + (Kept[j] - n)
    BY <1>8, <2>1, <2>2 DEF Ledger!HandBack
  <2>4. Kept[j] - n \in Nat
    BY <2>1
  <2> WITNESS Kept[j] - n \in Nat
  <2> QED
    BY <2>3
<1>9. CASE Ledger!Next
  BY <1>5, <1>6, <1>7, <1>8, <1>9 DEF Ledger!Next, Ledger!Bill
<1> QED
  BY <1>4, <1>6, <1>9 DEF Seen

\* The runs a user is charged for composites are those that the composites keep: every
\* refund hands back runs that are there, and none is handed back twice or forgotten.
THEOREM CounterIsExact == Spec => []CounterIsWhatIsKept
<1>1. Init => Charged
  <2> SUFFICES ASSUME Init PROVE IsFiniteSet(RunsOf(Kept)) /\ runsUsed = Cardinality(RunsOf(Kept))
    BY DEF Charged
  <2>1. RunsOf(Kept) = {} /\ runsUsed = 0
    BY DEF Init, Kept, RunsOf
  <2> QED
    BY <2>1, FS_EmptySet
<1>2. Charged => CounterIsWhatIsKept
  BY DEF Charged, CounterIsWhatIsKept, RunsOf
<1> QED
  BY <1>1, <1>2, ChargedInductive, TypedInvariant, AccountingInvariant, PTL DEF Spec
=============================================================================
