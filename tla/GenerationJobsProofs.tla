----------------------- MODULE GenerationJobsProofs -----------------------
(***************************************************************************)
(* What GenerationJobs keeps for every number of jobs and pollers, every   *)
(* allowance and window, and any number of deaths and quota periods.       *)
(***************************************************************************)
EXTENDS GenerationJobs, FiniteSetTheorems, TLAPS

USE DEF Open, Idle, Watchers, Stale

(***************************************************************************)
(* Type correctness.                                                       *)
(***************************************************************************)
\* What refund_single_reservation may do to the two columns it writes.
LEMMA RefundSingleTypes ==
    ASSUME TypeOK, NEW j \in Jobs, RefundSingle(j)
    PROVE  /\ runsUsed' \in 0..RunsAllowed
           /\ quotaRefundedAt' \in [Jobs -> BOOLEAN]
           /\ refunds' \in [Jobs -> Nat] /\ strays' \in Nat
<1>1. CASE quotaRefundedAt' = [quotaRefundedAt EXCEPT ![j] = TRUE] /\ GiveBack(j)
  BY <1>1, QuotaAssumption DEF TypeOK, GiveBack
<1>2. CASE UNCHANGED <<quotaRefundedAt, runsUsed, refunds, strays>>
  BY <1>2 DEF TypeOK
<1> QED
  BY <1>1, <1>2 DEF RefundSingle

\* Every reachable state is well typed; in particular runsUsed never leaves
\* 0..RunsAllowed, whatever refunds and period changes interleave.
THEOREM TypeCorrect == Spec => []TypeOK
<1> USE JobsAssumption, QuotaAssumption, WindowAssumption, BoundAssumption,
        FaultAssumption, WatcherAssumption
<1>1. Init => TypeOK
  BY DEF Init, TypeOK, NonTerminal, Terminal, InFlight, Running, Settling
<1>2. TypeOK /\ [Next]_vars => TypeOK'
  <2> SUFFICES ASSUME TypeOK, [Next]_vars PROVE TypeOK'
    OBVIOUS
  <2> USE DEF TypeOK, NonTerminal, Terminal, InFlight, Running, Settling, CanDie,
              quotaVars, rowVars, ageVars, arqVars, watchVars, cutVars, bookVars, Goto
  <2>1. CASE NextMonth
    BY <2>1 DEF NextMonth
  <2>2. CASE RollExpiredPeriod
    BY <2>2 DEF RollExpiredPeriod, Rolls
  <2>3. CASE Tick
    BY <2>3 DEF Tick, Older
  <2>4. CASE SweepRead
    BY <2>4 DEF SweepRead
  <2>5. ASSUME NEW j \in Jobs, Request(j) PROVE TypeOK'
    <3>1. CASE Refuse(j)
      BY <3>1 DEF Refuse
    <3>2. CASE SkipQuota(j)
      BY <3>2 DEF SkipQuota
    <3>3. CASE Reserve(j)
      BY <3>3 DEF Reserve, CanReserve, RunsOnceReserved, Rolls
    <3>4. CASE QuotaExceeded(j)
      BY <3>4 DEF QuotaExceeded
    <3>5. CASE CapRefund(j)
      BY <3>5 DEF CapRefund, RefundRun, GiveBack
    <3>6. CASE CreateRow(j)
      BY <3>6 DEF CreateRow
    <3>7. CASE Push(j)
      BY <3>7 DEF Push
    <3>8. CASE CompensateRefund(j)
      BY <3>8 DEF CompensateRefund, RefundRun, GiveBack
    <3>9. CASE CompensateFail(j)
      <4>1. CASE Open(j)
        <5>1. quotaRefundedAt' = [quotaRefundedAt EXCEPT ![j] = quotaRefundedAt[j] \/ j \in Metered]
          BY <3>9, <4>1 DEF CompensateFail
        <5>2. \A b \in BOOLEAN : [quotaRefundedAt EXCEPT ![j] = b] \in [Jobs -> BOOLEAN]
          OBVIOUS
        <5>3. (quotaRefundedAt[j] \/ j \in Metered) \in BOOLEAN
          OBVIOUS
        <5>4. quotaRefundedAt' \in [Jobs -> BOOLEAN]
          BY <5>1, <5>2, <5>3, Zenon
        <5> QED
          BY <3>9, <4>1, <5>4 DEF CompensateFail
      <4>2. CASE ~Open(j)
        BY <3>9, <4>2 DEF CompensateFail
      <4> QED
        BY <4>1, <4>2
    <3> QED
      BY <2>5, <3>1, <3>2, <3>3, <3>4, <3>5, <3>6, <3>7, <3>8, <3>9 DEF Request
  <2>6. ASSUME NEW j \in Jobs, Worker(j) PROVE TypeOK'
    <3>1. CASE Claim(j)
      BY <3>1 DEF Claim
    <3>2. CASE GiveUp(j)
      BY <3>2 DEF GiveUp
    <3>3. CASE Finish(j)
      BY <3>3 DEF Finish, Outcomes
    <3>4. CASE SettleRefund(j)
      BY <3>4, RefundSingleTypes DEF SettleRefund
    <3>5. CASE SettleSpend(j)
      BY <3>5 DEF SettleSpend
    <3>6. CASE Timeout(j)
      BY <3>6 DEF Timeout
    <3> QED
      BY <2>6, <3>1, <3>2, <3>3, <3>4, <3>5, <3>6 DEF Worker
  <2>7. ASSUME NEW w \in Watchers, NEW j \in Jobs,
               PollRead(w, j) \/ WatchFail(w, j) \/ WatchRefund(w, j)
        PROVE  TypeOK'
    <3>1. CASE PollRead(w, j)
      BY <3>1 DEF PollRead
    <3>2. CASE WatchFail(w, j)
      BY <3>2 DEF WatchFail
    <3>3. CASE WatchRefund(w, j)
      BY <3>3, RefundSingleTypes DEF WatchRefund
    <3> QED
      BY <2>7, <3>1, <3>2, <3>3
  <2>8. ASSUME NEW j \in Jobs, RequestDies(j) \/ TaskDies(j) \/ DatabaseFails(j)
        PROVE  TypeOK'
    BY <2>8 DEF RequestDies, TaskDies, DatabaseFails
  <2>9. ASSUME NEW w \in Watchers, WatcherDies(w) PROVE TypeOK'
    BY <2>9 DEF WatcherDies
  <2>10. CASE UNCHANGED vars
    BY <2>10 DEF vars
  <2> QED
    BY <2>1, <2>2, <2>3, <2>4, <2>5, <2>6, <2>7, <2>8, <2>9, <2>10 DEF Next
<1> QED
  BY <1>1, <1>2, PTL DEF Spec

(***************************************************************************)
(* The billing invariant: what holds of one job whose compensation is not  *)
(* torn.  RefundedAtMostOnce, DeliveredIsCharged and FailureIsRefunded do   *)
(* not follow from one another step by step; they need to know which        *)
(* phase of the request a row belongs to, and that quotaRefundedAt and the  *)
(* number of decrements agree outside the compensation.                     *)
(***************************************************************************)
Unborn(j) ==
    status[j] = "absent" =>
        /\ task[j] = "none" /\ result[j] = "null" /\ ~quotaRefundedAt[j]
        /\ createdAge[j] = 0 /\ refunds[j] <= 1
        /\ api[j] \notin {"push", "compRefund", "compFail"}
        /\ \A w \in Watchers : j \notin todo[w]

Preparing(j) ==
    api[j] \in {"idle", "capRefund", "insert"} => status[j] = "absent" /\ refunds[j] = 0

Handing(j) ==
    api[j] \in {"push", "compRefund", "compFail"} =>
        /\ status[j] = "enqueued" /\ task[j] = "none" /\ createdAge[j] < EnqWindow
        /\ \A w \in Watchers : j \notin todo[w]
        /\ ~quotaRefundedAt[j]
        /\ refunds[j] = IF api[j] = "compFail" /\ j \in Metered THEN 1 ELSE 0

Stamped(j) ==
    /\ j \notin Metered => refunds[j] = 0 /\ ~quotaRefundedAt[j] /\ api[j] # "capRefund"
    /\ j \in Metered /\ status[j] # "absent" /\ api[j] # "compFail" =>
           refunds[j] = IF quotaRefundedAt[j] THEN 1 ELSE 0
    /\ status[j] \in NonTerminal => ~quotaRefundedAt[j]

Debt(j) ==
    /\ \A w \in Watchers : owes[w] = j => status[j] = "failed"
    /\ task[j] \in {"refund", "refundSpend"} => status[j] \in Terminal /\ result[j] # "asset"

Delivered(j) ==
    result[j] = "asset" => status[j] = "completed" /\ refunds[j] = 0 /\ ~quotaRefundedAt[j]

Owed(j) ==
    j \in Metered \ orphaned /\ status[j] \in Terminal /\ result[j] # "asset" =>
        \/ refunds[j] = 1
        \/ task[j] \in {"refund", "refundSpend"}
        \/ \E w \in Watchers : owes[w] = j

JobInv(j) ==
    /\ Unborn(j) /\ Preparing(j) /\ Handing(j) /\ Stamped(j)
    /\ Debt(j) /\ Delivered(j) /\ Owed(j)

BillingInv == \A j \in Jobs \ torn : JobInv(j)

\* A step that leaves everything about job k alone keeps k's invariant.
LEMMA JobFrame ==
    ASSUME NEW k \in Jobs, JobInv(k),
           status'[k] = status[k], result'[k] = result[k],
           quotaRefundedAt'[k] = quotaRefundedAt[k], refunds'[k] = refunds[k],
           createdAge'[k] = createdAge[k], api'[k] = api[k], task'[k] = task[k],
           \A w \in Watchers : k \in todo'[w] => k \in todo[w],
           \A w \in Watchers : owes'[w] = k <=> owes[w] = k,
           k \in orphaned => k \in orphaned'
    PROVE  JobInv(k)'
<1> USE DEF JobInv
<1>1. Unborn(k)' /\ Preparing(k)' /\ Handing(k)'
  BY DEF Unborn, Preparing, Handing
<1>2. Stamped(k)' /\ Debt(k)' /\ Delivered(k)'
  BY DEF Stamped, Debt, Delivered
<1>3. Owed(k)'
  BY DEF Owed
<1> QED
  BY <1>1, <1>2, <1>3

(***************************************************************************)
(* The invariant is inductive.                                             *)
(***************************************************************************)
LEMMA BillingInductive == TypeOK /\ BillingInv /\ [Next]_vars => BillingInv'
<1> SUFFICES ASSUME TypeOK, BillingInv, [Next]_vars, NEW k \in Jobs, k \notin torn'
             PROVE  JobInv(k)'
  BY DEF BillingInv
<1> USE JobsAssumption, WindowAssumption, WatcherAssumption
<1> USE DEF NonTerminal, Terminal, InFlight, Running, Settling, CanDie,
            quotaVars, rowVars, ageVars, arqVars, watchVars, cutVars, bookVars, Goto
<1>0. JobInv(k)
  <2>1. torn \subseteq torn'
    <3>1. CASE NextMonth \/ RollExpiredPeriod \/ Tick \/ SweepRead \/ UNCHANGED vars
      BY <3>1 DEF NextMonth, RollExpiredPeriod, Tick, SweepRead, vars
    <3>2. ASSUME NEW j \in Jobs, Request(j) PROVE torn \subseteq torn'
      BY <3>2 DEF Request, Refuse, SkipQuota, Reserve, QuotaExceeded, CapRefund, CreateRow,
         Push, CompensateRefund, CompensateFail
    <3>3. ASSUME NEW j \in Jobs, Worker(j) PROVE torn \subseteq torn'
      BY <3>3 DEF Worker, Claim, GiveUp, Finish, SettleRefund, SettleSpend, Timeout
    <3>4. ASSUME NEW w \in Watchers, NEW j \in Jobs,
                 PollRead(w, j) \/ WatchFail(w, j) \/ WatchRefund(w, j)
          PROVE  torn \subseteq torn'
      BY <3>4 DEF PollRead, WatchFail, WatchRefund
    <3>5. ASSUME NEW j \in Jobs, RequestDies(j) \/ TaskDies(j) \/ DatabaseFails(j)
          PROVE  torn \subseteq torn'
      BY <3>5 DEF RequestDies, TaskDies, DatabaseFails
    <3>6. ASSUME NEW w \in Watchers, WatcherDies(w) PROVE torn \subseteq torn'
      BY <3>6 DEF WatcherDies
    <3> QED
      BY <3>1, <3>2, <3>3, <3>4, <3>5, <3>6 DEF Next
  <2> QED
    BY <2>1 DEF BillingInv
<1>1. CASE NextMonth \/ RollExpiredPeriod \/ UNCHANGED vars
  BY <1>0, <1>1, JobFrame DEF NextMonth, RollExpiredPeriod, vars
<1>2. CASE Tick
  BY <1>0, <1>2 DEF Tick, Older, JobInv, Unborn, Preparing, Handing, Stamped,
              Debt, Delivered, Owed, TypeOK
<1>3. CASE SweepRead
  BY <1>0, <1>3 DEF SweepRead, JobInv, Unborn, Preparing, Handing, Stamped,
              Debt, Delivered, Owed, TypeOK
<1>4. ASSUME NEW j \in Jobs, Request(j) PROVE JobInv(k)'
  <2>1. CASE k # j
    <3>1. CASE Refuse(j) \/ SkipQuota(j) \/ Reserve(j) \/ QuotaExceeded(j) \/ CapRefund(j)
      BY <1>0, <2>1, <3>1, JobFrame DEF Refuse, SkipQuota, Reserve, QuotaExceeded,
         CapRefund, RefundRun, GiveBack, TypeOK
    <3>2. CASE CreateRow(j) \/ Push(j) \/ CompensateRefund(j)
      BY <1>0, <2>1, <3>2, JobFrame DEF CreateRow, Push, CompensateRefund, RefundRun,
         GiveBack, TypeOK
    <3>3. CASE CompensateFail(j)
      BY <1>0, <2>1, <3>3, JobFrame DEF CompensateFail, TypeOK
    <3> QED
      BY <1>4, <3>1, <3>2, <3>3 DEF Request
  <2>2. CASE k = j
    <3> USE <1>0, <2>2 DEF JobInv, Unborn, Preparing, Handing, Stamped, Debt,
                     Delivered, Owed, TypeOK
    <3>1. CASE Refuse(j) \/ SkipQuota(j) \/ QuotaExceeded(j)
      BY <3>1 DEF Refuse, SkipQuota, QuotaExceeded
    <3>2. CASE Reserve(j)
      BY <3>2 DEF Reserve
    <3>3. CASE CapRefund(j)
      BY <3>3 DEF CapRefund, RefundRun, GiveBack
    <3>4. CASE CreateRow(j)
      BY <3>4 DEF CreateRow
    <3>5. CASE Push(j)
      <4>1. PICK o \in PushOutcomes :
               /\ api' = [api EXCEPT ![j] = IF o = "accepted" THEN "done" ELSE "compRefund"]
               /\ task' = IF o = "refused" THEN task ELSE [task EXCEPT ![j] = "queued"]
               /\ torn' = IF o = "replyLost" THEN torn \cup {j} ELSE torn
        BY <3>5 DEF Push
      <4>2. o # "replyLost"
        BY <4>1
      <4> QED
        BY <3>5, <4>1, <4>2, FaultAssumption DEF Push
    <3>6. CASE CompensateRefund(j)
      BY <3>6 DEF CompensateRefund, RefundRun, GiveBack
    <3>7. CASE CompensateFail(j)
      <4>1. /\ status[j] = "enqueued" /\ task[j] = "none" /\ ~quotaRefundedAt[j]
            /\ refunds[j] = IF j \in Metered THEN 1 ELSE 0
            /\ \A w \in Watchers : j \notin todo[w] /\ owes[w] # j
            /\ result[j] # "asset"
        BY <3>7 DEF CompensateFail
      <4>2. /\ status' = [status EXCEPT ![j] = "failed"]
            /\ quotaRefundedAt' = [quotaRefundedAt EXCEPT ![j] = @ \/ j \in Metered]
            /\ api' = [api EXCEPT ![j] = "done"]
        BY <3>7, <4>1 DEF CompensateFail
      <4>20. status'[j] = "failed" /\ api'[j] = "done"
        BY <4>2
      <4>21. quotaRefundedAt'[j] <=> j \in Metered
        BY <4>1, <4>2
      <4>3. UNCHANGED <<result, refunds, task, createdAge, todo, owes, orphaned>>
        BY <3>7 DEF CompensateFail
      <4>4. Unborn(k)' /\ Preparing(k)' /\ Handing(k)' /\ Debt(k)' /\ Delivered(k)'
        BY <4>1, <4>20, <4>21, <4>3
      <4>5. j \in Metered => refunds'[j] = 1
        BY <4>1, <4>3
      <4>6. j \notin Metered => refunds'[j] = 0
        BY <4>1, <4>3
      <4>7. Stamped(k)'
        BY <4>20, <4>21, <4>5, <4>6
      <4>8. Owed(k)'
        BY <4>20, <4>3, <4>5
      <4> QED
        BY <4>4, <4>7, <4>8
    <3> QED
      BY <1>4, <3>1, <3>2, <3>3, <3>4, <3>5, <3>6, <3>7 DEF Request
  <2> QED
    BY <2>1, <2>2
<1>5. ASSUME NEW j \in Jobs, Worker(j) PROVE JobInv(k)'
  <2>1. CASE k # j
    BY <1>0, <1>5, <2>1, JobFrame DEF Worker, Claim, GiveUp, Finish, SettleRefund,
       SettleSpend, Timeout, RefundSingle, GiveBack, TypeOK
  <2>2. CASE k = j
    <3> USE <1>0, <2>2 DEF JobInv, Unborn, Preparing, Handing, Stamped, Debt,
                     Delivered, Owed, TypeOK
    <3>1. CASE Claim(j)
      BY <3>1 DEF Claim
    <3>2. CASE GiveUp(j) \/ SettleSpend(j) \/ Timeout(j)
      BY <3>2 DEF GiveUp, SettleSpend, Timeout
    <3>3. CASE Finish(j)
      <4>1. /\ status[j] # "absent" /\ api[j] \notin {"push", "compRefund", "compFail"}
            /\ api[j] \notin {"idle", "capRefund", "insert"}
        BY <3>3 DEF Finish
      <4>2. UNCHANGED <<api, quotaRefundedAt, refunds, createdAge, todo, owes, orphaned>>
        BY <3>3 DEF Finish
      <4>3. PICK o \in Outcomes :
               \/ /\ status[j] \in NonTerminal
                  /\ status' = [status EXCEPT ![j] = o.to]
                  /\ result' = [result EXCEPT ![j] = o.stores]
                  /\ task' = [task EXCEPT ![j] = o.next]
               \/ /\ status[j] \notin NonTerminal
                  /\ task' = [task EXCEPT ![j] = "gone"]
                  /\ UNCHANGED <<status, result>>
        BY <3>3 DEF Finish
      <4>4. CASE status[j] \in NonTerminal
        <5>1. status'[j] = o.to /\ result'[j] = o.stores /\ task'[j] = o.next
          BY <4>3, <4>4
        <5>2. ~quotaRefundedAt[j] /\ (\A w \in Watchers : owes[w] # j)
          BY <4>1, <4>4
        <5>4. refunds[j] = 0
          BY <4>1, <4>4, <5>2
        <5>3. /\ o.to \in Terminal
              /\ o.stores = "asset" => o.to = "completed" /\ o.next = "spend"
              /\ o.stores # "asset" => o.next \in {"refund", "refundSpend"}
          BY DEF Outcomes
        <5> QED
          BY <4>1, <4>2, <5>1, <5>2, <5>3, <5>4
      <4>5. CASE status[j] \notin NonTerminal
        BY <3>3, <4>1, <4>2, <4>3, <4>5 DEF Finish
      <4> QED
        BY <4>4, <4>5
    <3>4. CASE SettleRefund(j)
      BY <3>4 DEF SettleRefund, RefundSingle, GiveBack
    <3> QED
      BY <1>5, <3>1, <3>2, <3>3, <3>4 DEF Worker
  <2> QED
    BY <2>1, <2>2
<1>6. ASSUME NEW w \in Watchers, NEW j \in Jobs,
             PollRead(w, j) \/ WatchFail(w, j) \/ WatchRefund(w, j)
      PROVE  JobInv(k)'
  <2>1. CASE k # j
    BY <1>0, <1>6, <2>1, JobFrame DEF PollRead, WatchFail, WatchRefund,
       RefundSingle, GiveBack, TypeOK
  <2>2. CASE k = j
    <3> USE <1>0, <2>2 DEF JobInv, Unborn, Preparing, Handing, Stamped, Debt,
                     Delivered, Owed, TypeOK
    <3>1. CASE PollRead(w, j)
      BY <3>1 DEF PollRead
    <3>2. CASE WatchFail(w, j)
      BY <3>2 DEF WatchFail
    <3>3. CASE WatchRefund(w, j)
      BY <3>3 DEF WatchRefund, RefundSingle, GiveBack
    <3> QED
      BY <1>6, <3>1, <3>2, <3>3
  <2> QED
    BY <2>1, <2>2
<1>7. ASSUME NEW j \in Jobs, RequestDies(j) \/ TaskDies(j) \/ DatabaseFails(j)
      PROVE  JobInv(k)'
  <2>1. CASE k # j
    BY <1>0, <1>7, <2>1, JobFrame DEF RequestDies, TaskDies, DatabaseFails, TypeOK
  <2>2. CASE k = j
    BY <1>0, <1>7, <2>2 DEF RequestDies, TaskDies, DatabaseFails, JobInv, Unborn,
       Preparing, Handing, Stamped, Debt, Delivered, Owed, TypeOK
  <2> QED
    BY <2>1, <2>2
<1>8. ASSUME NEW w \in Watchers, WatcherDies(w) PROVE JobInv(k)'
  BY <1>0, <1>8 DEF WatcherDies, JobInv, Unborn, Preparing, Handing, Stamped,
     Debt, Delivered, Owed, TypeOK
<1> QED
  BY <1>1, <1>2, <1>3, <1>4, <1>5, <1>6, <1>7, <1>8 DEF Next

LEMMA BillingInvariant == Spec => []BillingInv
<1>1. Init => BillingInv
  BY WindowAssumption, JobsAssumption, WatcherAssumption
     DEF Init, BillingInv, JobInv, Unborn, Preparing, Handing, Stamped, Debt, Delivered,
         Owed, Terminal
<1> QED
  BY <1>1, BillingInductive, TypeCorrect, PTL DEF Spec

\* However workers, redeliveries, the cron and the pollers race for a job, its
\* reservation is handed back at most once.
THEOREM RefundedOnce == Spec => []RefundedAtMostOnce
<1>1. TypeOK /\ BillingInv => RefundedAtMostOnce
  BY JobsAssumption DEF BillingInv, RefundedAtMostOnce, JobInv, Unborn, Handing, Stamped, TypeOK
<1> QED
  BY <1>1, BillingInvariant, TypeCorrect, PTL

\* A run that produced its document stays charged.
THEOREM DeliveryIsCharged == Spec => []DeliveredIsCharged
<1>1. BillingInv => DeliveredIsCharged
  BY DEF BillingInv, DeliveredIsCharged, JobInv, Delivered
<1> QED
  BY <1>1, BillingInvariant, PTL

\* A job that ended without its document is refunded, or somebody alive is about to.
THEOREM FailureRefunded == Spec => []FailureIsRefunded
<1>1. BillingInv => FailureIsRefunded
  BY JobsAssumption DEF BillingInv, FailureIsRefunded, JobInv, Owed
<1> QED
  BY <1>1, BillingInvariant, PTL

(***************************************************************************)
(* The counter.  Booking relates the ghosts of the ledger to the program:  *)
(* only a metered request past "idle" has booked a run.                    *)
(***************************************************************************)
Booked(j) ==
    /\ api[j] \in {"idle", "capRefund", "insert"} => status[j] = "absent" /\ j \notin torn
    /\ api[j] \in {"idle", "capRefund", "insert", "push"} => task[j] = "none"
    /\ api[j] = "idle" \/ j \notin Metered => bookedIn[j] = 0
    /\ j \in Metered /\ (api[j] \in InFlight \/ status[j] # "absent") => bookedIn[j] # 0
    /\ j \notin Metered => api[j] # "capRefund"
    /\ bookedIn[j] <= period

Booking == \A j \in Jobs : Booked(j)

LEMMA BookingInductive == TypeOK /\ Booking /\ [Next]_vars => Booking'
<1> SUFFICES ASSUME TypeOK, Booking, [Next]_vars, NEW k \in Jobs
             PROVE  Booked(k)'
  BY DEF Booking
<1> USE DEF TypeOK, Booking, Booked, NonTerminal, Terminal, InFlight, Running, Settling, CanDie,
            quotaVars, rowVars, ageVars, arqVars, watchVars, cutVars, bookVars, Goto
<1>1. CASE NextMonth \/ RollExpiredPeriod \/ Tick \/ SweepRead \/ UNCHANGED vars
  BY <1>1 DEF NextMonth, RollExpiredPeriod, Tick, SweepRead, vars
<1>2. ASSUME NEW j \in Jobs, Request(j) PROVE Booked(k)'
  <2>1. CASE Refuse(j) \/ SkipQuota(j) \/ QuotaExceeded(j) \/ CapRefund(j) \/ CreateRow(j)
    BY <2>1 DEF Refuse, SkipQuota, QuotaExceeded, CapRefund, CreateRow
  <2>2. CASE Reserve(j)
    BY <2>2 DEF Reserve
  <2>3. CASE Push(j)
    BY <2>3 DEF Push
  <2>4. CASE CompensateRefund(j)
    BY <2>4 DEF CompensateRefund
  <2>5. CASE CompensateFail(j)
    BY <2>5 DEF CompensateFail
  <2> QED
    BY <1>2, <2>1, <2>2, <2>3, <2>4, <2>5 DEF Request
<1>3. ASSUME NEW j \in Jobs, Worker(j) PROVE Booked(k)'
  <2>1. CASE Claim(j)
    BY <2>1 DEF Claim
  <2>2. CASE Finish(j)
    BY <2>2 DEF Finish, Outcomes
  <2>3. CASE GiveUp(j) \/ SettleRefund(j) \/ SettleSpend(j) \/ Timeout(j)
    BY <2>3 DEF GiveUp, SettleRefund, SettleSpend, Timeout
  <2> QED
    BY <1>3, <2>1, <2>2, <2>3 DEF Worker
<1>4. ASSUME NEW w \in Watchers, NEW j \in Jobs,
             PollRead(w, j) \/ WatchFail(w, j) \/ WatchRefund(w, j)
      PROVE  Booked(k)'
  BY <1>4 DEF PollRead, WatchFail, WatchRefund
<1>5. ASSUME NEW j \in Jobs, RequestDies(j) \/ TaskDies(j) \/ DatabaseFails(j)
      PROVE  Booked(k)'
  BY <1>5 DEF RequestDies, TaskDies, DatabaseFails
<1>6. ASSUME NEW w \in Watchers, WatcherDies(w) PROVE Booked(k)'
  BY <1>6 DEF WatcherDies
<1> QED
  BY <1>1, <1>2, <1>3, <1>4, <1>5, <1>6 DEF Next

LEMMA BookingInvariant == Spec => []Booking
<1>1. Init => Booking
  BY JobsAssumption DEF Init, Booking, Booked, InFlight
<1> QED
  BY <1>1, BookingInductive, TypeCorrect, PTL DEF Spec

\* A refund takes a live reservation out together with one from the counter, and
\* any other refund is a stray.
LEMMA GiveBackKeepsCounter ==
    ASSUME TypeOK, CounterFollowsRuns, NEW j \in Jobs, GiveBack(j),
           UNCHANGED <<period, bookedIn>>
    PROVE  CounterFollowsRuns'
<1>1. Live' = Live \ {j}
  BY DEF Live, GiveBack, TypeOK
<1>2. IsFiniteSet(Live)
  BY JobsAssumption, FS_Subset, Live \subseteq Jobs DEF Live
<1>3. Cardinality(Live) \in Nat /\ Cardinality(Live') \in Nat
  BY <1>1, <1>2, FS_CardinalityType, FS_RemoveElement
<1>5. /\ runsUsed \in Nat /\ runsUsed' = IF runsUsed > 0 THEN runsUsed - 1 ELSE 0
      /\ strays \in Nat /\ strays' = IF j \in Live THEN strays ELSE strays + 1
  BY QuotaAssumption DEF TypeOK, GiveBack
<1>6. CASE j \in Live
  <2>1. Cardinality(Live') = Cardinality(Live) - 1
    BY <1>1, <1>2, <1>6, FS_RemoveElement
  <2> QED
    BY <1>3, <1>5, <1>6, <2>1 DEF CounterFollowsRuns
<1>7. CASE j \notin Live
  <2>1. Live' = Live
    BY <1>1, <1>7
  <2> QED
    BY <1>3, <1>5, <1>7, <2>1 DEF CounterFollowsRuns
<1> QED
  BY <1>6, <1>7

LEMMA CounterStep ==
    TypeOK /\ BillingInv /\ Booking /\ CounterFollowsRuns /\ [Next]_vars => CounterFollowsRuns'
<1> SUFFICES ASSUME TypeOK, BillingInv, Booking, CounterFollowsRuns, [Next]_vars
             PROVE  CounterFollowsRuns'
  OBVIOUS
<1> USE DEF quotaVars, rowVars, ageVars, arqVars, watchVars, cutVars, bookVars
<1> DEFINE Same == UNCHANGED <<runsUsed, period, bookedIn, refunds, strays>>
<1>1. ASSUME Same PROVE CounterFollowsRuns'
  BY <1>1 DEF CounterFollowsRuns, Live
<1>2. ASSUME NEW j \in Jobs, RefundSingle(j), UNCHANGED <<period, bookedIn>>
      PROVE  CounterFollowsRuns'
  BY <1>1, <1>2, GiveBackKeepsCounter DEF RefundSingle
<1>3. ASSUME NEW j \in Jobs, Reserve(j) PROVE CounterFollowsRuns'
  <2>1. /\ bookedIn[j] = 0 /\ refunds[j] = 0
        /\ period' = month /\ period \in Nat /\ month \in Nat /\ month # 0
    BY <1>3 DEF Reserve, Booking, Booked, BillingInv, JobInv, Preparing, TypeOK
  <2>2. bookedIn' = [bookedIn EXCEPT ![j] = month] /\ refunds' = refunds
    BY <1>3 DEF Reserve
  <2>3. j \in Live' /\ Live' \subseteq Jobs
    BY <2>1, <2>2 DEF Live, TypeOK
  <2>4. IsFiniteSet(Live') /\ Cardinality(Live') \in Nat
    BY <2>3, JobsAssumption, FS_Subset, FS_CardinalityType
  <2>5. CASE Rolls
    <3>1. ASSUME NEW i \in Jobs PROVE bookedIn[i] <= period
      BY <3>1 DEF Booking, Booked
    <3>2. Live' = {j}
      BY <2>1, <2>2, <2>5, <3>1 DEF Live, TypeOK, Rolls
    <3>3. Cardinality(Live') = 1
      BY <3>2, FS_Singleton
    <3> QED
      BY <1>3, <2>5, <3>3 DEF Reserve, RunsOnceReserved, CounterFollowsRuns
  <2>6. CASE ~Rolls
    <3>1. period = month
      BY <2>6 DEF Rolls, TypeOK
    <3>2. Live' = Live \cup {j} /\ j \notin Live /\ Live \subseteq Jobs
      BY <2>1, <2>2, <3>1 DEF Live, TypeOK
    <3>3. IsFiniteSet(Live) /\ Cardinality(Live) \in Nat
      BY <3>2, JobsAssumption, FS_Subset, FS_CardinalityType
    <3>4. Cardinality(Live') = Cardinality(Live) + 1
      BY <3>2, <3>3, FS_AddElement
    <3>5. runsUsed \in Nat /\ runsUsed' = runsUsed + 1
      BY <1>3, <2>6, QuotaAssumption DEF Reserve, RunsOnceReserved, TypeOK
    <3> QED
      BY <1>3, <2>6, <3>3, <3>4, <3>5, QuotaAssumption DEF Reserve, CounterFollowsRuns, TypeOK
  <2> QED
    BY <2>5, <2>6
<1>4. CASE RollExpiredPeriod
  <2>1. \A i \in Jobs : bookedIn[i] <= period
    BY DEF Booking, Booked
  <2>2. Live' = {}
    BY <1>4, <2>1 DEF RollExpiredPeriod, Rolls, Live, TypeOK
  <2> QED
    BY <1>4, <2>2, FS_EmptySet DEF RollExpiredPeriod, CounterFollowsRuns
<1>5. CASE NextMonth \/ Tick \/ SweepRead \/ UNCHANGED vars
  BY <1>1, <1>5 DEF NextMonth, Tick, SweepRead, vars
<1>6. ASSUME NEW j \in Jobs, Request(j) PROVE CounterFollowsRuns'
  <2>1. CASE CapRefund(j) \/ CompensateRefund(j)
    BY <1>1, <2>1, GiveBackKeepsCounter DEF CapRefund, CompensateRefund, RefundRun
  <2>2. CASE Refuse(j) \/ SkipQuota(j) \/ QuotaExceeded(j) \/ CreateRow(j) \/ Push(j)
             \/ CompensateFail(j)
    BY <1>1, <2>2 DEF Refuse, SkipQuota, QuotaExceeded, CreateRow, Push, CompensateFail
  <2> QED
    BY <1>3, <1>6, <2>1, <2>2 DEF Request
<1>7. ASSUME NEW j \in Jobs, Worker(j) PROVE CounterFollowsRuns'
  <2>1. CASE SettleRefund(j)
    BY <1>2, <2>1 DEF SettleRefund
  <2>2. CASE Claim(j) \/ GiveUp(j) \/ Finish(j) \/ SettleSpend(j) \/ Timeout(j)
    BY <1>1, <2>2 DEF Claim, GiveUp, Finish, SettleSpend, Timeout
  <2> QED
    BY <1>7, <2>1, <2>2 DEF Worker
<1>8. ASSUME NEW w \in Watchers, NEW j \in Jobs,
             PollRead(w, j) \/ WatchFail(w, j) \/ WatchRefund(w, j)
      PROVE  CounterFollowsRuns'
  BY <1>1, <1>2, <1>8 DEF PollRead, WatchFail, WatchRefund
<1>9. ASSUME NEW j \in Jobs, RequestDies(j) \/ TaskDies(j) \/ DatabaseFails(j)
      PROVE  CounterFollowsRuns'
  BY <1>1, <1>9 DEF RequestDies, TaskDies, DatabaseFails
<1>10. ASSUME NEW w \in Watchers, WatcherDies(w) PROVE CounterFollowsRuns'
  BY <1>1, <1>10 DEF WatcherDies
<1> QED
  BY <1>4, <1>5, <1>6, <1>7, <1>8, <1>9, <1>10 DEF Next

\* The user's counter never exceeds the runs the period holds, and falls short of
\* them by no more than the refunds that came late or twice.
THEOREM CounterFollows == Spec => []CounterFollowsRuns
<1>1. Init => CounterFollowsRuns
  <2>1. ASSUME Init PROVE Live = {}
    BY <2>1 DEF Init, Live
  <2> QED
    BY <2>1, FS_EmptySet DEF Init, CounterFollowsRuns
<1> QED
  BY <1>1, CounterStep, TypeCorrect, BillingInvariant, BookingInvariant, PTL DEF Spec

(***************************************************************************)
(* Terminal rows.                                                          *)
(***************************************************************************)
\* First terminal wins: neither the status nor the result of a finished row changes.
THEOREM TerminalStays == Spec => TerminalIsFinal
<1>1. TypeOK /\ Booking /\ [Next]_vars =>
        [\A j \in Jobs : status[j] \in Terminal =>
            status'[j] = status[j] /\ result'[j] = result[j]]_vars
  <2> SUFFICES ASSUME TypeOK, Booking, [Next]_vars, NEW k \in Jobs, status[k] \in Terminal
               PROVE  status'[k] = status[k] /\ result'[k] = result[k]
    OBVIOUS
  <2> USE DEF NonTerminal, Terminal, quotaVars, rowVars, ageVars, arqVars, watchVars,
              cutVars, bookVars, TypeOK
  <2>1. CASE NextMonth \/ RollExpiredPeriod \/ Tick \/ SweepRead \/ UNCHANGED vars
    BY <2>1 DEF NextMonth, RollExpiredPeriod, Tick, SweepRead, vars
  <2>2. ASSUME NEW j \in Jobs, Request(j)
        PROVE  status'[k] = status[k] /\ result'[k] = result[k]
    <3>1. CASE CreateRow(j)
      BY <3>1 DEF CreateRow, Booking, Booked
    <3>2. CASE CompensateFail(j)
      BY <3>2 DEF CompensateFail
    <3> QED
      BY <2>2, <3>1, <3>2 DEF Request, Refuse, SkipQuota, Reserve, QuotaExceeded,
         CapRefund, Push, CompensateRefund
  <2>3. ASSUME NEW j \in Jobs, Worker(j)
        PROVE  status'[k] = status[k] /\ result'[k] = result[k]
    <3>1. CASE Claim(j)
      BY <3>1 DEF Claim
    <3>2. CASE Finish(j)
      BY <3>2 DEF Finish
    <3> QED
      BY <2>3, <3>1, <3>2 DEF Worker, GiveUp, SettleRefund, SettleSpend, Timeout
  <2>4. ASSUME NEW w \in Watchers, NEW j \in Jobs,
               PollRead(w, j) \/ WatchFail(w, j) \/ WatchRefund(w, j)
        PROVE  status'[k] = status[k] /\ result'[k] = result[k]
    BY <2>4 DEF PollRead, WatchFail, WatchRefund
  <2>5. ASSUME NEW j \in Jobs, RequestDies(j) \/ TaskDies(j) \/ DatabaseFails(j)
        PROVE  status'[k] = status[k] /\ result'[k] = result[k]
    BY <2>5 DEF RequestDies, TaskDies, DatabaseFails
  <2>6. ASSUME NEW w \in Watchers, WatcherDies(w)
        PROVE  status'[k] = status[k] /\ result'[k] = result[k]
    BY <2>6 DEF WatcherDies
  <2> QED
    BY <2>1, <2>2, <2>3, <2>4, <2>5, <2>6 DEF Next
<1> QED
  BY <1>1, TypeCorrect, BookingInvariant, PTL DEF Spec, TerminalIsFinal

(***************************************************************************)
(* The staleness windows.  While a job runs for the first time its row and *)
(* its coroutine have the same age.                                        *)
(***************************************************************************)
Aged(j) ==
    /\ tries[j] = 0 => status[j] # "processing" /\ task[j] \notin Running
    /\ task[j] = "run" => status[j] # "enqueued"
    /\ task[j] = "run" /\ tries[j] = 1 /\ status[j] = "processing" => startedAge[j] = runAge[j]

Aging == \A j \in Jobs : Aged(j)

LEMMA AgingInductive == TypeOK /\ Booking /\ Aging /\ [Next]_vars => Aging'
<1> SUFFICES ASSUME TypeOK, Booking, Aging, [Next]_vars, NEW k \in Jobs PROVE Aged(k)'
  BY DEF Aging
<1> USE WindowAssumption, BoundAssumption
<1> USE DEF TypeOK, Aging, Aged, NonTerminal, Terminal, Running, Settling,
            quotaVars, rowVars, ageVars, arqVars, watchVars, cutVars, bookVars
<1>1. CASE NextMonth \/ RollExpiredPeriod \/ SweepRead \/ UNCHANGED vars
  BY <1>1 DEF NextMonth, RollExpiredPeriod, SweepRead, vars
<1>2. CASE Tick
  <2>1. UNCHANGED <<tries, status, task>>
    BY <1>2 DEF Tick
  <2>2. ASSUME task[k] = "run", tries[k] = 1, status[k] = "processing"
        PROVE  startedAge'[k] = runAge'[k]
    BY <1>2, <2>2 DEF Tick, Older
  <2> QED
    BY <2>1, <2>2
<1>3. ASSUME NEW j \in Jobs, Request(j) PROVE Aged(k)'
  <2>1. CASE CreateRow(j)
    BY <2>1 DEF CreateRow, Booking, Booked
  <2>2. CASE Push(j)
    BY <2>2 DEF Push, Booking, Booked
  <2>3. CASE CompensateFail(j)
    BY <2>3 DEF CompensateFail
  <2> QED
    BY <1>3, <2>1, <2>2, <2>3 DEF Request, Refuse, SkipQuota, Reserve, QuotaExceeded,
       CapRefund, CompensateRefund
<1>4. ASSUME NEW j \in Jobs, Worker(j) PROVE Aged(k)'
  <2>1. CASE Claim(j)
    BY <2>1 DEF Claim
  <2>2. CASE Finish(j)
    BY <2>2 DEF Finish, Outcomes
  <2> QED
    BY <1>4, <2>1, <2>2 DEF Worker, GiveUp, SettleRefund, SettleSpend, Timeout
<1>5. ASSUME NEW w \in Watchers, NEW j \in Jobs,
             PollRead(w, j) \/ WatchFail(w, j) \/ WatchRefund(w, j)
      PROVE  Aged(k)'
  BY <1>5 DEF PollRead, WatchFail, WatchRefund
<1>6. ASSUME NEW j \in Jobs, RequestDies(j) \/ TaskDies(j) \/ DatabaseFails(j)
      PROVE  Aged(k)'
  BY <1>6 DEF RequestDies, TaskDies, DatabaseFails
<1>7. ASSUME NEW w \in Watchers, WatcherDies(w) PROVE Aged(k)'
  BY <1>7 DEF WatcherDies
<1> QED
  BY <1>1, <1>2, <1>3, <1>4, <1>5, <1>6, <1>7 DEF Next

\* No watchdog can read a row as stale while its first run is within the ceiling.
THEOREM FirstRunNotStale == Spec => []FirstRunIsNeverStale
<1>1. Init => Aging
  BY DEF Init, Aging, Aged, Running, Settling
<1>2. TypeOK /\ Aging => FirstRunIsNeverStale
  BY WindowAssumption DEF TypeOK, Aging, Aged, FirstRunIsNeverStale, NonTerminal, Terminal
<1> QED
  BY <1>1, <1>2, AgingInductive, TypeCorrect, BookingInvariant, PTL DEF Spec

(***************************************************************************)
(* The refinement.  NoTear says that compensations cannot be torn: no push *)
(* raises after Redis took the job and no request dies.                    *)
(***************************************************************************)
NoTear == "replyLost" \notin PushOutcomes /\ "request" \notin Faults

LEMMA NothingTorn == ASSUME NoTear PROVE Spec => [](torn = {})
<1>1. Init => torn = {}
  BY DEF Init
<1>2. torn = {} /\ [Next]_vars => (torn = {})'
  <2> USE DEF quotaVars, rowVars, ageVars, arqVars, watchVars, cutVars, bookVars
  <2> SUFFICES ASSUME torn = {}, [Next]_vars PROVE torn' = {}
    OBVIOUS
  <2>1. ASSUME NEW j \in Jobs, Push(j) PROVE torn' = {}
    BY <2>1, NoTear DEF Push, NoTear
  <2> QED
    BY <2>1, NoTear DEF NoTear, Next, NextMonth, RollExpiredPeriod, Tick, SweepRead, Request,
       Refuse, SkipQuota, Reserve, QuotaExceeded, CapRefund, CreateRow, CompensateRefund,
       CompensateFail, Worker, Claim, GiveUp, Finish, SettleRefund, SettleSpend, Timeout,
       PollRead, WatchFail, WatchRefund, RequestDies, TaskDies, DatabaseFails,
       WatcherDies, CanDie, vars
<1> QED
  BY <1>1, <1>2, PTL DEF Spec

\* One lot moves and the others stay: the mapped function changes at one point.
LEMMA OneLotMoves ==
    ASSUME NEW j \in Jobs, NEW l, Lot(j)' = l,
           \A i \in Jobs : i # j => Lot(i)' = Lot(i)
    PROVE  [i \in Jobs |-> Lot(i)]' = [[i \in Jobs |-> Lot(i)] EXCEPT ![j] = l]
OBVIOUS

\* A refund of a held lot is the ledger's Return.
LEMMA ReturnStep ==
    ASSUME TypeOK, NEW j \in Jobs, Lot(j) = "held", GiveBack(j),
           UNCHANGED <<period, bookedIn, result>>
    PROVE  Ledger!Return(j)
<1>1. [i \in Jobs |-> Lot(i)]' = [[i \in Jobs |-> Lot(i)] EXCEPT ![j] = "returned"]
  <2>1. Lot(j)' = "returned"
    BY DEF Lot, GiveBack, TypeOK
  <2>2. \A i \in Jobs : i # j => Lot(i)' = Lot(i)
    BY DEF Lot, GiveBack, TypeOK
  <2> QED
    BY <2>1, <2>2, OneLotMoves
<1>2. refunds[j] = 0
  BY DEF Lot, TypeOK
<1>3. strays' = IF bookedIn[j] = period THEN strays ELSE strays + 1
  BY <1>2 DEF GiveBack, Live
<1> QED
  BY <1>1, <1>3 DEF Ledger!Return, GiveBack

\* Every step of the jobs is a step of the ledger or leaves it alone.
LEMMA LedgerStep ==
    TypeOK /\ BillingInv /\ Booking /\ torn = {} /\ (torn = {})' /\ [Next]_vars =>
        [Ledger!Next]_<<period, runsUsed, strays, bookedIn, [j \in Jobs |-> Lot(j)]>>
<1> DEFINE lot == [j \in Jobs |-> Lot(j)]
           Goal == [Ledger!Next]_<<period, runsUsed, strays, bookedIn, lot>>
<1> SUFFICES ASSUME TypeOK, BillingInv, Booking, torn = {}, torn' = {}, [Next]_vars
             PROVE  Goal
  OBVIOUS
<1> USE DEF NonTerminal, Terminal, InFlight, quotaVars, rowVars, ageVars, arqVars,
            watchVars, cutVars, bookVars
<1>1. ASSUME UNCHANGED <<period, runsUsed, bookedIn, refunds, strays, result>> PROVE Goal
  BY <1>1 DEF Lot
<1>2. ASSUME NEW j \in Jobs, RefundSingle(j), status[j] # "absent", api[j] # "compFail",
             result[j] # "asset", UNCHANGED <<period, bookedIn, result>>
      PROVE  Goal
  <2>1. CASE GiveBack(j) /\ j \in Metered /\ ~quotaRefundedAt[j]
    <3>1. Lot(j) = "held"
      BY <1>2, <2>1 DEF Lot, BillingInv, JobInv, Stamped, Booking, Booked
    <3> QED
      BY <1>2, <2>1, <3>1, ReturnStep DEF Ledger!Next
  <2>2. CASE UNCHANGED <<quotaRefundedAt, runsUsed, refunds, strays>>
    BY <1>1, <1>2, <2>2
  <2> QED
    BY <1>2, <2>1, <2>2 DEF RefundSingle
<1>3. ASSUME NEW j \in Jobs, Reserve(j) PROVE Goal
  <2>1. bookedIn[j] = 0 /\ refunds[j] = 0 /\ result[j] = "null"
    BY <1>3 DEF Reserve, Booking, Booked, BillingInv, JobInv, Preparing, Unborn
  <2>2. month \in Nat /\ month # 0 /\ period \in Nat /\ period <= month
    BY DEF TypeOK
  <2>3. lot' = [lot EXCEPT ![j] = "held"]
    <3>1. Lot(j)' = "held"
      BY <1>3, <2>1, <2>2 DEF Reserve, Lot, TypeOK
    <3>2. \A i \in Jobs : i # j => Lot(i)' = Lot(i)
      BY <1>3 DEF Reserve, Lot, TypeOK
    <3> QED
      BY <3>1, <3>2, OneLotMoves
  <2>4. lot[j] = "free"
    BY <2>1 DEF Lot
  <2>5. \/ period' = period /\ runsUsed < RunsAllowed /\ runsUsed' = runsUsed + 1 /\ strays' = strays
        \/ period' > period /\ runsUsed' = 1 /\ strays' = 0
    BY <1>3, <2>2 DEF Reserve, CanReserve, RunsOnceReserved, Rolls
  <2>6. bookedIn' = [bookedIn EXCEPT ![j] = period']
    BY <1>3 DEF Reserve
  <2> QED
    BY <2>3, <2>4, <2>5, <2>6 DEF Ledger!Next, Ledger!Book
<1>4. CASE RollExpiredPeriod
  <2>1. period' > period /\ runsUsed' = 0 /\ strays' = 0 /\ bookedIn' = bookedIn
    BY <1>4 DEF RollExpiredPeriod, Rolls, TypeOK
  <2>2. lot' = lot
    BY <1>4 DEF RollExpiredPeriod, Lot
  <2> QED
    BY <2>1, <2>2 DEF Ledger!Next, Ledger!NewCycle
<1>5. CASE NextMonth \/ Tick \/ SweepRead \/ UNCHANGED vars
  BY <1>1, <1>5 DEF NextMonth, Tick, SweepRead, vars
<1>6. ASSUME NEW j \in Jobs, Request(j) PROVE Goal
  <2>1. CASE CapRefund(j)
    <3>1. Lot(j) = "held"
      BY <2>1 DEF CapRefund, Lot, BillingInv, JobInv, Preparing, Unborn, Booking, Booked
    <3> QED
      BY <2>1, <3>1, ReturnStep DEF CapRefund, RefundRun, Ledger!Next
  <2>2. CASE CompensateRefund(j) /\ j \in Metered
    <3>1. Lot(j) = "held"
      BY <2>2 DEF CompensateRefund, Lot, BillingInv, JobInv, Handing, Delivered, Booking, Booked
    <3> QED
      BY <2>2, <3>1, ReturnStep DEF CompensateRefund, RefundRun, Ledger!Next
  <2>3. CASE CompensateRefund(j) /\ j \notin Metered
    BY <1>1, <2>3 DEF CompensateRefund
  <2>4. CASE Refuse(j) \/ SkipQuota(j) \/ QuotaExceeded(j) \/ CreateRow(j) \/ Push(j)
             \/ CompensateFail(j)
    BY <1>1, <2>4 DEF Refuse, SkipQuota, QuotaExceeded, CreateRow, Push, CompensateFail
  <2> QED
    BY <1>3, <1>6, <2>1, <2>2, <2>3, <2>4 DEF Request
<1>7. ASSUME NEW j \in Jobs, Worker(j) PROVE Goal
  <2>1. CASE SettleRefund(j)
    <3>1. status[j] # "absent" /\ api[j] # "compFail" /\ result[j] # "asset"
      BY <2>1 DEF SettleRefund, BillingInv, JobInv, Debt, Unborn, Handing
    <3> QED
      BY <1>2, <2>1, <3>1 DEF SettleRefund
  <2>2. CASE Claim(j) \/ GiveUp(j) \/ SettleSpend(j) \/ Timeout(j)
    BY <1>1, <2>2 DEF Claim, GiveUp, SettleSpend, Timeout
  <2>3. CASE Finish(j)
    <3>1. UNCHANGED <<period, runsUsed, bookedIn, refunds, strays>>
      BY <2>3 DEF Finish
    <3>2. PICK o \in Outcomes :
             \/ status[j] \in NonTerminal /\ result' = [result EXCEPT ![j] = o.stores]
             \/ result' = result
      BY <2>3 DEF Finish, Open
    <3>3. CASE result' = result
      BY <1>1, <3>1, <3>3
    <3>4. CASE status[j] \in NonTerminal /\ result' = [result EXCEPT ![j] = o.stores]
      <4>1. result[j] # "asset" /\ api[j] # "compFail" /\ result \in [Jobs -> {"null", "asset", "refusal"}]
        BY <2>3, <3>4 DEF Finish, BillingInv, JobInv, Delivered, Handing, TypeOK
      <4>2. CASE o.stores # "asset" \/ bookedIn[j] = 0
        <5>1. lot' = lot
          BY <3>1, <3>4, <4>1, <4>2 DEF Lot
        <5> QED
          BY <3>1, <5>1
      <4>3. CASE o.stores = "asset" /\ bookedIn[j] # 0
        <5>1. j \in Metered /\ refunds[j] = 0
          BY <3>4, <4>1, <4>3 DEF Booking, Booked, BillingInv, JobInv, Stamped
        <5>2. lot[j] = "held"
          BY <4>1, <4>3, <5>1 DEF Lot
        <5>3. lot' = [lot EXCEPT ![j] = "spent"]
          <6>1. Lot(j)' = "spent"
            BY <3>1, <3>4, <4>1, <4>3, <5>1 DEF Lot
          <6>2. \A i \in Jobs : i # j => Lot(i)' = Lot(i)
            BY <3>1, <3>4, <4>1 DEF Lot
          <6> QED
            BY <6>1, <6>2, OneLotMoves
        <5> QED
          BY <3>1, <5>2, <5>3 DEF Ledger!Next, Ledger!Spend
      <4> QED
        BY <4>2, <4>3
    <3> QED
      BY <3>2, <3>3, <3>4
  <2> QED
    BY <1>7, <2>1, <2>2, <2>3 DEF Worker
<1>8. ASSUME NEW w \in Watchers, NEW j \in Jobs,
             PollRead(w, j) \/ WatchFail(w, j) \/ WatchRefund(w, j)
      PROVE  Goal
  <2>1. CASE WatchRefund(w, j)
    <3>1. status[j] = "failed" /\ api[j] # "compFail" /\ result[j] # "asset"
      BY <2>1 DEF WatchRefund, BillingInv, JobInv, Debt, Handing, Delivered
    <3> QED
      BY <1>2, <2>1, <3>1 DEF WatchRefund
  <2>2. CASE PollRead(w, j) \/ WatchFail(w, j)
    BY <1>1, <2>2 DEF PollRead, WatchFail
  <2> QED
    BY <1>8, <2>1, <2>2
<1>9. ASSUME NEW j \in Jobs, RequestDies(j) \/ TaskDies(j) \/ DatabaseFails(j) PROVE Goal
  BY <1>1, <1>9 DEF RequestDies, TaskDies, DatabaseFails
<1>10. ASSUME NEW w \in Watchers, WatcherDies(w) PROVE Goal
  BY <1>1, <1>10 DEF WatcherDies
<1> QED
  BY <1>4, <1>5, <1>6, <1>7, <1>8, <1>9, <1>10 DEF Next

\* The spine implements the run ledger for every number of jobs, pollers, worker
\* deaths, redeliveries and periods, provided compensations are not torn.
THEOREM JobsImplementLedger == ASSUME NoTear PROVE Spec => ImplementsLedger
<1>1. Init => Ledger!Init
  BY DEF Init, Ledger!Init, Lot
<1>2. Spec => []TypeOK /\ []BillingInv /\ []Booking /\ [](torn = {})
  BY TypeCorrect, BillingInvariant, BookingInvariant, NothingTorn, NoTear
<1> QED
  BY <1>1, <1>2, LedgerStep, PTL DEF Spec, ImplementsLedger, Ledger!Spec

=============================================================================
