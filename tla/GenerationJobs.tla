--------------------------- MODULE GenerationJobs ---------------------------
(***************************************************************************)
(* The background-generation spine for single-agent runs (tailor, cover    *)
(* letter, ...): one HTTP request handler per job, the BackgroundJob rows, *)
(* the user's UsageQuota row, the ARQ queue and its worker coroutines, and *)
(* the two staleness watchdogs (the worker's cron and the lazy one inside  *)
(* GET /agents/jobs/{id}).                                                 *)
(*                                                                         *)
(* One action is one committed database transaction or one Redis call, so  *)
(* everything between two actions is a point where another process may     *)
(* run, or where the process may die.  All jobs belong to one user: the    *)
(* quota row is the only thing two jobs share.                             *)
(*                                                                         *)
(* Time is kept as ages.  An age stops growing once it has passed the      *)
(* window that reads it, and is 0 while nothing reads it.                  *)
(***************************************************************************)
EXTENDS Naturals, FiniteSets

CONSTANTS
    Jobs,          \* requests / BackgroundJob ids; request j inserts row j
    Metered,       \* the jobs that reserve a run (metered and not unlimited)
    Pollers,       \* handlers of GET /agents/jobs/{id}
    Cron,          \* the worker's sweep_stale_jobs cron
    RunsAllowed,   \* UsageQuota.runsAllowed
    SpendCap,      \* UsageQuota.spendCapUsd, in units of one run's cost
    EnqWindow,     \* "enqueued" staleness window
    ProcWindow,    \* "processing" staleness window
    JobTimeout,    \* ARQ job_timeout
    MaxTries,      \* ARQ max_tries
    WorkerSlots,   \* ARQ max_jobs
    PushOutcomes,  \* what a push to Redis may do to its caller
    Faults,        \* which kinds of actor may die
    MaxFaults,     \* bound: deaths in a behaviour
    MaxMonth       \* bound: quota periods in a behaviour

Watchers == Pollers \cup {Cron}

ASSUME JobsAssumption == IsFiniteSet(Jobs) /\ Metered \subseteq Jobs
ASSUME QuotaAssumption == RunsAllowed \in Nat \ {0} /\ SpendCap \in Nat \ {0}
ASSUME WindowAssumption ==
    /\ EnqWindow \in Nat \ {0} /\ ProcWindow \in Nat /\ JobTimeout \in Nat
    /\ JobTimeout < ProcWindow
ASSUME BoundAssumption ==
    /\ MaxTries \in Nat \ {0} /\ WorkerSlots \in Nat \ {0}
    /\ MaxFaults \in Nat /\ MaxMonth \in Nat \ {0}
ASSUME FaultAssumption ==
    /\ PushOutcomes \subseteq {"accepted", "refused", "replyLost"}
    /\ Faults \subseteq {"request", "task", "watcher", "database"}
ASSUME WatcherAssumption == Cron \notin Pollers /\ "nobody" \notin Jobs

VARIABLES
    month, period, runsUsed, spendUsed,          \* the calendar; UsageQuota
    status, result, quotaRefundedAt,             \* BackgroundJob rows
    createdAge, startedAge,                      \* age of createdAt, startedAt
    api,                                         \* where request j stands
    task, tries, runAge,                         \* ARQ's view of job j
    todo, owes,                                  \* what a watchdog has read
    faults,                                      \* deaths so far
    bookedIn, refunds, strays, torn, orphaned    \* history

quotaVars == <<month, period, runsUsed, spendUsed>>
rowVars   == <<status, result, quotaRefundedAt>>
ageVars   == <<createdAge, startedAge, runAge>>
arqVars   == <<task, tries>>
watchVars == <<todo, owes>>
cutVars   == <<faults, torn, orphaned>>
bookVars  == <<bookedIn, refunds, strays>>
vars == <<quotaVars, rowVars, ageVars, api, arqVars, watchVars, cutVars, bookVars>>

NonTerminal == {"enqueued", "processing"}
Terminal    == {"completed", "failed"}
InFlight    == {"capRefund", "insert", "push", "compRefund", "compFail"}
Settling    == {"refund", "refundSpend", "spend"}
Running     == {"run"} \cup Settling

(***************************************************************************)
(* The type invariant.                                                     *)
(***************************************************************************)
TypeOK ==
    /\ month \in 1..MaxMonth /\ period \in 1..month
    /\ runsUsed \in 0..RunsAllowed /\ spendUsed \in Nat
    /\ status \in [Jobs -> {"absent"} \cup NonTerminal \cup Terminal]
    /\ result \in [Jobs -> {"null", "asset", "refusal"}]
    /\ quotaRefundedAt \in [Jobs -> BOOLEAN]
    /\ createdAge \in [Jobs -> 0..EnqWindow]
    /\ startedAge \in [Jobs -> 0..ProcWindow]
    /\ runAge \in [Jobs -> 0..JobTimeout]
    /\ api \in [Jobs -> {"idle", "done", "dead"} \cup InFlight]
    /\ task \in [Jobs -> {"none", "queued", "gone"} \cup Running]
    /\ tries \in [Jobs -> 0..MaxTries]
    /\ todo \in [Watchers -> SUBSET Jobs]
    /\ owes \in [Watchers -> Jobs \cup {"nobody"}]
    /\ faults \in 0..MaxFaults /\ torn \subseteq Jobs /\ orphaned \subseteq Jobs
    /\ bookedIn \in [Jobs -> 0..MaxMonth] /\ refunds \in [Jobs -> Nat] /\ strays \in Nat

Init ==
    /\ month = 1 /\ period = 1 /\ runsUsed = 0 /\ spendUsed = 0
    /\ status = [j \in Jobs |-> "absent"]
    /\ result = [j \in Jobs |-> "null"]
    /\ quotaRefundedAt = [j \in Jobs |-> FALSE]
    /\ createdAge = [j \in Jobs |-> 0]
    /\ startedAge = [j \in Jobs |-> 0]
    /\ runAge = [j \in Jobs |-> 0]
    /\ api = [j \in Jobs |-> "idle"]
    /\ task = [j \in Jobs |-> "none"]
    /\ tries = [j \in Jobs |-> 0]
    /\ todo = [w \in Watchers |-> {}]
    /\ owes = [w \in Watchers |-> "nobody"]
    /\ faults = 0 /\ torn = {} /\ orphaned = {}
    /\ bookedIn = [j \in Jobs |-> 0]
    /\ refunds = [j \in Jobs |-> 0]
    /\ strays = 0

\* Mutant: the terminal and processing UPDATEs lose their WHERE "status" IN (...).
OpenAnyRow(j) == status[j] # "absent"

\* The rows mark_processing, mark_completed and mark_failed may still change.
Open(j) == status[j] \in NonTerminal

(***************************************************************************)
(* UsageQuota statements.                                                  *)
(***************************************************************************)
Rolls == month > period

CanReserve == Rolls \/ runsUsed < RunsAllowed

\* Mutant: the UPDATE that rolls the period starts its counter at nothing.
RolledUncounted == IF Rolls THEN 0 ELSE runsUsed + 1

RunsOnceReserved == IF Rolls THEN 1 ELSE runsUsed + 1

\* The reservations the current quota period still holds for the user.
Live == {j \in Jobs : bookedIn[j] = period /\ refunds[j] = 0}

(* Mutant: the claim is stamped but the counter is not decremented. *)
GiveBackUncounted(j) ==
    /\ runsUsed' = runsUsed
    /\ refunds' = [refunds EXCEPT ![j] = @ + 1]
    /\ UNCHANGED strays

\* GREATEST("runsUsed" - 1, 0): every refund decrements whatever period the
\* row is in when the statement runs, not the one the run was booked in.  One
\* that gives back no run of this period, or one given back before, is a stray.
GiveBack(j) ==
    /\ runsUsed' = IF runsUsed > 0 THEN runsUsed - 1 ELSE 0
    /\ refunds' = [refunds EXCEPT ![j] = @ + 1]
    /\ strays' = IF j \in Live THEN strays ELSE strays + 1

\* refund_run: unconditional, knows the user and not the job.
RefundRun(j) == GiveBack(j) /\ UNCHANGED quotaRefundedAt

\* Mutant: the claim never matches a row.
RefundSingleNoMatch(j) == j \in Jobs /\ UNCHANGED <<quotaRefundedAt, runsUsed, refunds, strays>>

\* refund_single_reservation: claims the stamp and decrements in one statement.
RefundSingle(j) ==
    \/ /\ j \in Metered /\ ~quotaRefundedAt[j]
       /\ quotaRefundedAt' = [quotaRefundedAt EXCEPT ![j] = TRUE]
       /\ GiveBack(j)
    \/ /\ j \notin Metered \/ quotaRefundedAt[j]
       /\ UNCHANGED <<quotaRefundedAt, runsUsed, refunds, strays>>

\* A month ends.
NextMonth ==
    /\ month < MaxMonth
    /\ month' = month + 1
    /\ UNCHANGED <<period, runsUsed, spendUsed, rowVars, ageVars, api, arqVars,
                   watchVars, cutVars, bookVars>>

\* get_or_create: reading the quota rolls an expired period.
RollExpiredPeriod ==
    /\ Rolls
    /\ period' = month /\ runsUsed' = 0 /\ spendUsed' = 0
    /\ strays' = 0
    /\ UNCHANGED <<month, rowVars, ageVars, api, arqVars, watchVars, cutVars,
                   bookedIn, refunds>>

(***************************************************************************)
(* _enqueue_single_agent, one transaction at a time.                       *)
(***************************************************************************)
Goto(j, l) == api' = [api EXCEPT ![j] = l]

\* The agent is paused, the paywall or a provider cooldown refuses: no effect.
Refuse(j) ==
    /\ api[j] = "idle" /\ Goto(j, "done")
    /\ UNCHANGED <<quotaVars, rowVars, ageVars, arqVars, watchVars, cutVars, bookVars>>

SkipQuota(j) ==
    /\ api[j] = "idle" /\ j \notin Metered /\ Goto(j, "insert")
    /\ UNCHANGED <<quotaVars, rowVars, ageVars, arqVars, watchVars, cutVars, bookVars>>

\* reserve: one UPDATE that rolls an expired period and takes a run, or none.
Reserve(j) ==
    /\ api[j] = "idle" /\ j \in Metered
    /\ CanReserve
    /\ period' = month
    /\ runsUsed' = RunsOnceReserved
    /\ spendUsed' = IF Rolls THEN 0 ELSE spendUsed
    /\ Goto(j, IF spendUsed' >= SpendCap THEN "capRefund" ELSE "insert")
    /\ bookedIn' = [bookedIn EXCEPT ![j] = month]
    /\ strays' = IF Rolls THEN 0 ELSE strays
    /\ UNCHANGED <<month, refunds, rowVars, ageVars, arqVars, watchVars, cutVars>>

QuotaExceeded(j) ==
    /\ api[j] = "idle" /\ j \in Metered
    /\ ~CanReserve
    /\ Goto(j, "done")
    /\ UNCHANGED <<quotaVars, rowVars, ageVars, arqVars, watchVars, cutVars, bookVars>>

\* The spend cap is reached: hand the run back, answer 429.
CapRefund(j) ==
    /\ api[j] = "capRefund" /\ Goto(j, "done")
    /\ RefundRun(j)
    /\ UNCHANGED <<month, period, spendUsed, status, result, ageVars, arqVars,
                   watchVars, cutVars, bookedIn>>

\* BackgroundJobRepository.create.
CreateRow(j) ==
    /\ api[j] = "insert" /\ Goto(j, "push")
    /\ status' = [status EXCEPT ![j] = "enqueued"]
    /\ UNCHANGED <<quotaVars, result, quotaRefundedAt, ageVars, arqVars, watchVars,
                   cutVars, bookVars>>

\* _enqueue_to_arq: Redis takes the job, refuses it, or takes it and the
\* caller still sees an exception (the reply, or the pool's close, failed).
Push(j) ==
    /\ api[j] = "push"
    /\ \E o \in PushOutcomes :
         /\ Goto(j, IF o = "accepted" THEN "done" ELSE "compRefund")
         /\ task' = IF o = "refused" THEN task ELSE [task EXCEPT ![j] = "queued"]
         /\ torn' = IF o = "replyLost" THEN torn \cup {j} ELSE torn
    /\ UNCHANGED <<quotaVars, rowVars, ageVars, tries, watchVars, faults, orphaned,
                   bookVars>>

\* The except branch: refund_run ...
CompensateRefund(j) ==
    /\ api[j] = "compRefund" /\ Goto(j, "compFail")
    /\ \/ j \in Metered /\ RefundRun(j)
       \/ j \notin Metered /\ UNCHANGED <<runsUsed, quotaRefundedAt, refunds, strays>>
    /\ UNCHANGED <<month, period, spendUsed, status, result, ageVars, arqVars,
                   watchVars, cutVars, bookedIn>>

\* Mutant: the compensation stops after refund_run.
CompensateFailUnrecorded(j) ==
    /\ api[j] = "compFail" /\ Goto(j, "done")
    /\ UNCHANGED <<quotaVars, rowVars, ageVars, arqVars, watchVars, cutVars, bookVars>>

\* ... and then mark_failed(refunded=reserved), a transaction of its own.
CompensateFail(j) ==
    /\ api[j] = "compFail" /\ Goto(j, "done")
    /\ \/ /\ Open(j)
          /\ status' = [status EXCEPT ![j] = "failed"]
          /\ quotaRefundedAt' = [quotaRefundedAt EXCEPT ![j] = @ \/ j \in Metered]
       \/ /\ ~Open(j)
          /\ UNCHANGED <<status, quotaRefundedAt>>
    /\ UNCHANGED <<quotaVars, result, ageVars, arqVars, watchVars, cutVars, bookVars>>

Request(j) ==
    \/ Refuse(j) \/ SkipQuota(j) \/ Reserve(j) \/ QuotaExceeded(j)
    \/ CapRefund(j) \/ CreateRow(j) \/ Push(j)
    \/ CompensateRefund(j) \/ CompensateFail(j)

(***************************************************************************)
(* ARQ and run_agent_job.                                                  *)
(***************************************************************************)
\* ARQ starts the coroutine and mark_processing claims the row; startedAt is
\* COALESCEd, so a redelivered job keeps its first start.
Claim(j) ==
    /\ task[j] = "queued" /\ tries[j] < MaxTries
    /\ Cardinality({k \in Jobs : task[k] \in Running}) < WorkerSlots
    /\ tries' = [tries EXCEPT ![j] = @ + 1]
    /\ \/ /\ Open(j)
          /\ status' = [status EXCEPT ![j] = "processing"]
          /\ startedAge' = [startedAge EXCEPT ![j] = IF status[j] = "enqueued" THEN 0 ELSE @]
          /\ task' = [task EXCEPT ![j] = "run"]
          /\ runAge' = [runAge EXCEPT ![j] = 0]
       \/ /\ ~Open(j)
          /\ task' = [task EXCEPT ![j] = "gone"]
          /\ UNCHANGED <<status, startedAge, runAge>>
    /\ UNCHANGED <<quotaVars, result, quotaRefundedAt, createdAge, api, watchVars,
                   cutVars, bookVars>>

\* ARQ drops a job that has used up its tries without calling the function.
GiveUp(j) ==
    /\ task[j] = "queued" /\ tries[j] >= MaxTries
    /\ task' = [task EXCEPT ![j] = "gone"]
    /\ UNCHANGED <<quotaVars, rowVars, ageVars, api, tries, watchVars, cutVars, bookVars>>

\* How the body can end: the terminal status it writes, what the row stores,
\* and the quota statements that follow in later transactions.
Outcomes ==
    {[to |-> "completed", stores |-> "asset",   next |-> "spend"],       \* success
     [to |-> "completed", stores |-> "refusal", next |-> "refund"],      \* no-op, no resume, no LLM call
     [to |-> "completed", stores |-> "refusal", next |-> "refundSpend"], \* cover letter withheld
     [to |-> "failed",    stores |-> "null",    next |-> "refund"]}      \* any other exception

\* mark_completed / mark_failed: the first terminal state wins, and only the
\* winner goes on to refund or to record the spend.
Finish(j) ==
    /\ task[j] = "run"
    /\ \E o \in Outcomes :
         \/ /\ Open(j)
            /\ status' = [status EXCEPT ![j] = o.to]
            /\ result' = [result EXCEPT ![j] = o.stores]
            /\ task' = [task EXCEPT ![j] = o.next]
         \/ /\ ~Open(j)
            /\ task' = [task EXCEPT ![j] = "gone"]
            /\ UNCHANGED <<status, result>>
    /\ UNCHANGED <<quotaVars, quotaRefundedAt, ageVars, api, tries, watchVars,
                   cutVars, bookVars>>

SettleRefund(j) ==
    /\ task[j] \in {"refund", "refundSpend"}
    /\ RefundSingle(j)
    /\ task' = [task EXCEPT ![j] = IF @ = "refundSpend" THEN "spend" ELSE "gone"]
    /\ UNCHANGED <<month, period, spendUsed, status, result, ageVars, api, tries,
                   watchVars, cutVars, bookedIn>>

\* record_spend, only when the job holds a reservation.
SettleSpend(j) ==
    /\ task[j] = "spend"
    /\ spendUsed' = IF j \in Metered THEN spendUsed + 1 ELSE spendUsed
    /\ task' = [task EXCEPT ![j] = "gone"]
    /\ UNCHANGED <<month, period, runsUsed, rowVars, ageVars, api, tries, watchVars,
                   cutVars, bookVars>>

\* job_timeout cancels the coroutine while it awaits the thread.  The
\* cancellation is not an Exception, so no handler runs, and ARQ does not retry.
Timeout(j) ==
    /\ task[j] = "run" /\ runAge[j] = JobTimeout
    /\ task' = [task EXCEPT ![j] = "gone"]
    /\ UNCHANGED <<quotaVars, rowVars, ageVars, api, tries, watchVars, cutVars, bookVars>>

Worker(j) ==
    Claim(j) \/ GiveUp(j) \/ Finish(j) \/ SettleRefund(j) \/ SettleSpend(j) \/ Timeout(j)

(***************************************************************************)
(* The watchdogs.  Reading the stale rows, failing one and refunding it    *)
(* are three transactions; nothing is locked between them.                 *)
(***************************************************************************)
Stale(j) ==
    \/ status[j] = "enqueued" /\ createdAge[j] >= EnqWindow
    \/ status[j] = "processing" /\ startedAge[j] >= ProcWindow

Idle(w) == todo[w] = {} /\ owes[w] = "nobody"

\* sweep_stale: every stale row.
SweepRead ==
    /\ Idle(Cron)
    /\ \E j \in Jobs : Stale(j)
    /\ todo' = [todo EXCEPT ![Cron] = {j \in Jobs : Stale(j)}]
    /\ UNCHANGED <<quotaVars, rowVars, ageVars, api, arqVars, owes, cutVars, bookVars>>

\* get_background_job reads the row the user polls.
PollRead(w, j) ==
    /\ w \in Pollers /\ Idle(w)
    /\ Stale(j)
    /\ todo' = [todo EXCEPT ![w] = {j}]
    /\ UNCHANGED <<quotaVars, rowVars, ageVars, api, arqVars, owes, cutVars, bookVars>>

WatchFail(w, j) ==
    /\ owes[w] = "nobody" /\ j \in todo[w]
    /\ todo' = [todo EXCEPT ![w] = @ \ {j}]
    /\ \/ /\ Open(j)
          /\ status' = [status EXCEPT ![j] = "failed"]
          /\ owes' = [owes EXCEPT ![w] = j]
       \/ /\ ~Open(j)
          /\ UNCHANGED <<status, owes>>
    /\ UNCHANGED <<quotaVars, result, quotaRefundedAt, ageVars, api, arqVars, cutVars,
                   bookVars>>

WatchRefund(w, j) ==
    /\ owes[w] = j
    /\ RefundSingle(j)
    /\ owes' = [owes EXCEPT ![w] = "nobody"]
    /\ UNCHANGED <<month, period, spendUsed, status, result, ageVars, api, arqVars,
                   todo, cutVars, bookedIn>>

(***************************************************************************)
(* Deaths.  A process that dies takes each of its requests, coroutines and *)
(* sweeps with it: one of these steps for each.                            *)
(***************************************************************************)
CanDie(kind) == kind \in Faults /\ faults < MaxFaults

\* A reservation whose row was not inserted yet has no owner any more; one
\* whose refund_run is done but whose mark_failed is not may be refunded again.
RequestDies(j) ==
    /\ CanDie("request") /\ api[j] \in InFlight
    /\ Goto(j, "dead") /\ faults' = faults + 1
    /\ orphaned' = IF api[j] \in {"insert", "capRefund"} THEN orphaned \cup {j} ELSE orphaned
    /\ torn' = IF api[j] = "compFail" THEN torn \cup {j} ELSE torn
    /\ UNCHANGED <<quotaVars, rowVars, ageVars, arqVars, watchVars, bookVars>>

\* A worker process dies: ARQ delivers the job again.
TaskDies(j) ==
    /\ CanDie("task") /\ task[j] \in Running
    /\ task' = [task EXCEPT ![j] = "queued"] /\ faults' = faults + 1
    /\ orphaned' = IF task[j] \in {"refund", "refundSpend"} THEN orphaned \cup {j} ELSE orphaned
    /\ UNCHANGED <<quotaVars, rowVars, ageVars, api, tries, watchVars, torn, bookVars>>

\* The database refuses the terminal UPDATE or the refund: the exception ends
\* the coroutine, ARQ records a failed job and does not run it again.  A
\* record_spend that fails is swallowed, with the same effect.
DatabaseFails(j) ==
    /\ CanDie("database") /\ task[j] \in Running
    /\ task' = [task EXCEPT ![j] = "gone"] /\ faults' = faults + 1
    /\ orphaned' = IF task[j] \in {"refund", "refundSpend"} THEN orphaned \cup {j} ELSE orphaned
    /\ UNCHANGED <<quotaVars, rowVars, ageVars, api, tries, watchVars, torn, bookVars>>

WatcherDies(w) ==
    /\ CanDie("watcher") /\ ~Idle(w)
    /\ todo' = [todo EXCEPT ![w] = {}]
    /\ owes' = [owes EXCEPT ![w] = "nobody"]
    /\ faults' = faults + 1
    /\ orphaned' = orphaned \cup ({owes[w]} \ {"nobody"})
    /\ UNCHANGED <<quotaVars, rowVars, ageVars, api, arqVars, torn, bookVars>>

(***************************************************************************)
(* Time.  ARQ cancels a coroutine at its ceiling before the clock moves on,*)
(* and a request ends long before its row is 15 minutes old.               *)
(***************************************************************************)
Older(age, top) == IF age < top THEN age + 1 ELSE age

Tick ==
    /\ \A j \in Jobs : task[j] \in Running => runAge[j] < JobTimeout
    /\ \A j \in Jobs : api[j] \in InFlight => createdAge[j] + 1 < EnqWindow
    /\ createdAge' = [j \in Jobs |->
           IF status[j] = "enqueued" THEN Older(createdAge[j], EnqWindow) ELSE 0]
    /\ startedAge' = [j \in Jobs |->
           IF status[j] = "processing" THEN Older(startedAge[j], ProcWindow) ELSE 0]
    /\ runAge' = [j \in Jobs |->
           IF task[j] \in Running THEN Older(runAge[j], JobTimeout) ELSE 0]
    /\ UNCHANGED <<quotaVars, rowVars, api, arqVars, watchVars, cutVars, bookVars>>

Next ==
    \/ NextMonth \/ RollExpiredPeriod \/ Tick \/ SweepRead
    \/ \E j \in Jobs : Request(j) \/ Worker(j)
    \/ \E w \in Watchers, j \in Jobs : PollRead(w, j) \/ WatchFail(w, j) \/ WatchRefund(w, j)
    \/ \E j \in Jobs : RequestDies(j) \/ TaskDies(j) \/ DatabaseFails(j)
    \/ \E w \in Watchers : WatcherDies(w)

Spec == Init /\ [][Next]_vars

(***************************************************************************)
(* Safety.                                                                 *)
(***************************************************************************)
\* A reservation is given back at most once, however the worker, a redelivered
\* worker, the cron and the pollers race for the job (first-terminal-wins plus
\* refund_single_reservation) -- unless the enqueue compensation was torn.
RefundedAtMostOnce == \A j \in Jobs \ torn : refunds[j] <= 1

\* A job that delivered its asset keeps its charge.
DeliveredIsCharged == \A j \in Jobs \ torn : result[j] = "asset" => refunds[j] = 0

\* A reservation is never forgotten: every finished job that did not deliver has
\* been refunded, or some live actor still has the refund to do, or the actor that
\* had to do it died in between.
FailureIsRefunded ==
    \A j \in Metered \ (orphaned \cup torn) :
        status[j] \in Terminal /\ result[j] # "asset" =>
            \/ refunds[j] = 1
            \/ task[j] \in {"refund", "refundSpend"}
            \/ \E w \in Watchers : owes[w] = j

\* The quota counter stands for the runs the period holds.  It never exceeds them,
\* and falls short of them by no more than the refunds that reached this period for
\* a run of an earlier one, or for the second time: each lets one run through above
\* the allowance, whatever rolls, floors and races lie in between.
CounterFollowsRuns ==
    /\ runsUsed <= Cardinality(Live)
    /\ Cardinality(Live) <= runsUsed + strays

\* The MON-020 windows: while the worker runs a job for the first time, the
\* row is too young for a watchdog to read it as a stale "processing" row.
FirstRunIsNeverStale ==
    \A j \in Jobs : task[j] = "run" /\ tries[j] = 1 => ~Stale(j)

\* Terminal rows never change: neither the status nor the result a client has
\* been shown.
TerminalIsFinal ==
    [][\A j \in Jobs : status[j] \in Terminal =>
          status'[j] = status[j] /\ result'[j] = result[j]]_vars

(***************************************************************************)
(* The refinement: a run is spent by the delivered asset and returned by   *)
(* the first decrement made for it.                                        *)
(***************************************************************************)
Lot(j) ==
    IF bookedIn[j] = 0 THEN "free"
    ELSE IF refunds[j] > 0 THEN "returned"
    ELSE IF result[j] = "asset" THEN "spent"
    ELSE "held"

Ledger == INSTANCE RunLedger
    WITH Runs <- Jobs, Allowed <- RunsAllowed,
         cycle <- period, used <- runsUsed, late <- strays,
         since <- bookedIn, lot <- [j \in Jobs |-> Lot(j)]

\* The jobs implement the ledger when no compensation can be torn.
ImplementsLedger == Ledger!Spec

(***************************************************************************)
(* Liveness.  The cron runs every five minutes while a worker process is   *)
(* up; a request that has started and a poll that has claimed a job run to *)
(* their end; ARQ enforces its ceiling.  Nothing assumes that a worker     *)
(* picks a job up or that a body returns.                                  *)
(***************************************************************************)
Fairness ==
    /\ WF_vars(Tick) /\ WF_vars(SweepRead)
    /\ \A w \in Watchers, j \in Jobs :
         WF_vars(WatchFail(w, j)) /\ WF_vars(WatchRefund(w, j))
    /\ \A j \in Jobs :
         /\ WF_vars(api[j] \in InFlight /\ Request(j))
         /\ WF_vars(Timeout(j)) /\ WF_vars(SettleRefund(j)) /\ WF_vars(SettleSpend(j))

FairSpec == Spec /\ Fairness

\* Every booked run is in the end delivered, handed back, or lost with an actor
\* that died holding it.
EveryBookingSettles ==
    \A j \in Jobs : bookedIn[j] # 0 ~>
        refunds[j] > 0 \/ result[j] = "asset" \/ j \in orphaned
=============================================================================
