--------------------------- MODULE CompositeJobs ---------------------------
(***************************************************************************)
(* Composite background jobs: the "pipeline" job and the run-plan job.     *)
(* Neither reserves a run when it is enqueued.  Its body, a thread, books  *)
(* one run per metered step and counts it on the BackgroundJob row, refunds*)
(* a step that failed and counts that too; whoever fails the whole job     *)
(* refunds the outstanding difference of the two counters.                 *)
(*                                                                         *)
(* One action is one committed transaction.  job_timeout cancels the       *)
(* coroutine that awaits the thread, never the thread.  One quota period;  *)
(* clock ages are reduced to one bit per row (late), set only when the     *)
(* windows of GenerationJobs can have passed.                              *)
(***************************************************************************)
EXTENDS Integers, FiniteSets

CONSTANTS
    Jobs,          \* composite BackgroundJob ids
    PlanJobs,      \* those with agentKey "orchestrationPlan"; the rest are pipelines
    Exempt,        \* those of an account that is unlimited at times
    Pollers, Cron, \* as in GenerationJobs
    Steps,         \* metered steps of a body
    RunsAllowed,   \* UsageQuota.runsAllowed
    MaxTries,      \* ARQ max_tries
    Pushes,        \* subset of {"accepted", "refused"}
    Faults,        \* subset of {"process", "database", "watcher"}
    MaxRequests,   \* bound: composites requested in a behaviour
    MaxFaults      \* bound: deaths in a behaviour

Watchers == Pollers \cup {Cron}

ASSUME JobsAssumption == IsFiniteSet(Jobs) /\ PlanJobs \subseteq Jobs
ASSUME BoundAssumption ==
    /\ Steps \in Nat /\ RunsAllowed \in Nat \ {0} /\ MaxTries \in Nat \ {0}
    /\ MaxRequests \in Nat /\ MaxFaults \in Nat
ASSUME WatcherAssumption == Cron \notin Pollers /\ "nobody" \notin Jobs

VARIABLES
    runsUsed,                        \* UsageQuota
    status, result, late,            \* BackgroundJob rows; late: past its window
    reservedCount, refundedCount,    \* quotaReservedCount, quotaRefundedCount
    planRow,                         \* the RunPlan row of a plan job
    api, task, tries,                \* the enqueuing request; ARQ
    pc, step, after,                 \* the body's thread
    todo, owes,                      \* what a watchdog has read
    faults,
    booked, given, delivered,        \* history: runs booked, handed back, delivered,
    waived, scars                    \* counted back without having been booked

rowVars   == <<status, result, late>>
countVars == <<reservedCount, refundedCount>>
arqVars   == <<task, tries>>
bodyVars  == <<pc, step, after>>
watchVars == <<todo, owes>>
tallyVars == <<booked, given, delivered, waived>>
vars == <<runsUsed, rowVars, countVars, planRow, api, arqVars, bodyVars, watchVars,
          faults, tallyVars, scars>>

NonTerminal == {"enqueued", "processing"}
Terminal    == {"completed", "failed"}
Ended       == {"off", "returned", "refused", "raised"}
InStep      == {"capRefund", "count", "body", "exempt", "refund", "countRefund"}
Awake       == {"run", "refund", "failPlan"}

\* How the accounting of a job may have been cut: its terminal state was written
\* while the thread ran on; a booked run was never counted, a refunded one never
\* marked; a death left a counted step in flight; whoever owed the refund is gone.
Scars == {"overlap", "untracked", "unmarked", "abandoned", "unpaid"}

(***************************************************************************)
(* The type invariant.                                                     *)
(***************************************************************************)
TypeOK ==
    /\ runsUsed \in 0..RunsAllowed
    /\ status \in [Jobs -> {"absent"} \cup NonTerminal \cup Terminal]
    /\ result \in [Jobs -> {"null", "summary", "refusal"}]
    /\ late \in [Jobs -> BOOLEAN]
    /\ reservedCount \in [Jobs -> Nat] /\ refundedCount \in [Jobs -> Nat]
    /\ planRow \in [Jobs -> {"none", "planned", "running", "ended"}]
    /\ api \in [Jobs -> {"idle", "insert", "push", "compFail", "failPlan", "done"}]
    /\ task \in [Jobs -> {"none", "queued", "gone"} \cup Awake]
    /\ tries \in [Jobs -> 0..MaxTries]
    /\ pc \in [Jobs -> {"start", "next", "record"} \cup InStep \cup Ended]
    /\ step \in [Jobs -> 1..(Steps + 1)]
    /\ after \in [Jobs -> {"continue", "return", "refuse", "raise"}]
    /\ todo \in [Watchers -> SUBSET Jobs]
    /\ owes \in [Watchers -> Jobs \cup {"nobody"}]
    /\ faults \in 0..MaxFaults
    /\ booked \in [Jobs -> Nat] /\ given \in [Jobs -> Nat] /\ delivered \in [Jobs -> Nat]
    /\ waived \in [Jobs -> Nat]
    /\ scars \in [Jobs -> SUBSET Scars]

Init ==
    /\ runsUsed = 0
    /\ status = [j \in Jobs |-> "absent"]
    /\ result = [j \in Jobs |-> "null"]
    /\ late = [j \in Jobs |-> FALSE]
    /\ reservedCount = [j \in Jobs |-> 0] /\ refundedCount = [j \in Jobs |-> 0]
    /\ planRow = [j \in Jobs |-> "none"]
    /\ api = [j \in Jobs |-> "idle"]
    /\ task = [j \in Jobs |-> "none"]
    /\ tries = [j \in Jobs |-> 0]
    /\ pc = [j \in Jobs |-> "off"]
    /\ step = [j \in Jobs |-> 1]
    /\ after = [j \in Jobs |-> "continue"]
    /\ todo = [w \in Watchers |-> {}]
    /\ owes = [w \in Watchers |-> "nobody"]
    /\ faults = 0
    /\ booked = [j \in Jobs |-> 0] /\ given = [j \in Jobs |-> 0]
    /\ delivered = [j \in Jobs |-> 0] /\ waived = [j \in Jobs |-> 0]
    /\ scars = [j \in Jobs |-> {}]

Open(j) == status[j] \in NonTerminal
Scar(j, s) == scars' = [scars EXCEPT ![j] = @ \cup {s}]

(***************************************************************************)
(* Quota statements.                                                       *)
(***************************************************************************)
\* GREATEST("runsUsed" - n, 0).
GiveBack(j, n) ==
    /\ runsUsed' = IF runsUsed > n THEN runsUsed - n ELSE 0
    /\ given' = [given EXCEPT ![j] = @ + n]

\* Mutant: the outstanding runs are handed back without being marked refunded.
RefundOutstandingUnmarked(j) ==
    LET outstanding == reservedCount[j] - refundedCount[j] IN
    /\ GiveBack(j, IF outstanding > 0 THEN outstanding ELSE 0)
    /\ UNCHANGED refundedCount

\* refund_pipeline_outstanding, under the row lock.
RefundOutstanding(j) ==
    LET outstanding == reservedCount[j] - refundedCount[j] IN
    \/ /\ outstanding > 0
       /\ refundedCount' = [refundedCount EXCEPT ![j] = reservedCount[j]]
       /\ GiveBack(j, outstanding)
    \/ /\ outstanding <= 0
       /\ UNCHANGED <<refundedCount, runsUsed, given>>

(***************************************************************************)
(* _enqueue_pipeline and run_everything.                                   *)
(***************************************************************************)
Request(j, l) == api' = [api EXCEPT ![j] = l]

\* The paywall lets it pass; a plan job's RunPlan row was admitted first.
Admit(j) ==
    /\ api[j] = "idle" /\ Cardinality({k \in Jobs : api[k] # "idle"}) < MaxRequests
    /\ Request(j, "insert")
    /\ planRow' = [planRow EXCEPT ![j] = IF j \in PlanJobs THEN "planned" ELSE @]
    /\ UNCHANGED <<runsUsed, rowVars, countVars, arqVars, bodyVars, watchVars, faults,
                   tallyVars, scars>>

\* create(quota_reserved=False).
CreateRow(j) ==
    /\ api[j] = "insert" /\ Request(j, "push")
    /\ status' = [status EXCEPT ![j] = "enqueued"]
    /\ UNCHANGED <<runsUsed, result, late, countVars, planRow, arqVars, bodyVars,
                   watchVars, faults, tallyVars, scars>>

Push(j) ==
    /\ api[j] = "push"
    /\ \/ /\ "accepted" \in Pushes /\ Request(j, "done")
          /\ task' = [task EXCEPT ![j] = "queued"]
       \/ /\ "refused" \in Pushes /\ Request(j, "compFail")
          /\ UNCHANGED task
    /\ UNCHANGED <<runsUsed, rowVars, countVars, planRow, tries, bodyVars, watchVars,
                   faults, tallyVars, scars>>

\* The push failed: mark_failed, and for a plan finish("failed") after it.
CompensateFail(j) ==
    /\ api[j] = "compFail" /\ Request(j, IF j \in PlanJobs THEN "failPlan" ELSE "done")
    /\ status' = [status EXCEPT ![j] = IF Open(j) THEN "failed" ELSE @]
    /\ UNCHANGED <<runsUsed, result, late, countVars, planRow, arqVars, bodyVars,
                   watchVars, faults, tallyVars, scars>>

\* RunPlanRepository.finish: first terminal wins.
EndPlan(j) ==
    planRow' = [planRow EXCEPT ![j] = IF @ \in {"planned", "running"} THEN "ended" ELSE @]

CompensatePlan(j) ==
    /\ api[j] = "failPlan" /\ Request(j, "done")
    /\ EndPlan(j)
    /\ UNCHANGED <<runsUsed, rowVars, countVars, arqVars, bodyVars, watchVars, faults,
                   tallyVars, scars>>

Enqueue(j) == Admit(j) \/ CreateRow(j) \/ Push(j) \/ CompensateFail(j) \/ CompensatePlan(j)

(***************************************************************************)
(* The body: _pipeline_core or execute_run_plan, with _record_run and      *)
(* _execute_reserved_run for each metered step.                            *)
(***************************************************************************)
Goto(j, l) == pc' = [pc EXCEPT ![j] = l]

\* Where the body stands once it stops taking steps: a plan still records its end.
Last(j) == IF j \in PlanJobs THEN "record" ELSE "returned"

\* What follows a step: the next one, the end, or an exception out of the body.
Exit(j) == [continue |-> "next", return |-> Last(j), refuse |-> "refused", raise |-> "raised"]

Resume(j, how) ==
    /\ step' = [step EXCEPT ![j] = IF how = "continue" THEN @ + 1 ELSE @]
    /\ Goto(j, Exit(j)[how])

BodyOnly == UNCHANGED <<rowVars, api, arqVars, watchVars, faults, scars>>

\* mark_running: a plan that is not "planned" any more is skipped.
PlanStart(j) ==
    /\ pc[j] = "start"
    /\ \/ /\ planRow[j] = "planned" /\ Goto(j, "next")
          /\ planRow' = [planRow EXCEPT ![j] = "running"]
       \/ /\ planRow[j] # "planned" /\ Goto(j, "returned")
          /\ UNCHANGED planRow
    /\ BodyOnly /\ UNCHANGED <<runsUsed, countVars, step, after, tallyVars>>

\* What may happen instead of a metered step.  A pipeline with no matching job or
\* below the threshold returns; an unmetered agent, the paywall or a cooldown raises.
\* A plan passes over a step whose predecessors broke or whose slot is taken, and
\* halts at a 402 or 429.
Instead(j) == IF j \in PlanJobs THEN {"continue", "return"} ELSE {"return", "refuse", "raise"}

LeaveOut(j) ==
    /\ pc[j] = "next" /\ step[j] <= Steps
    /\ \E how \in Instead(j) : Resume(j, how)
    /\ BodyOnly /\ UNCHANGED <<runsUsed, countVars, planRow, after, tallyVars>>

BodyEnds(j) ==
    /\ pc[j] = "next" /\ step[j] > Steps
    /\ Resume(j, "return")
    /\ BodyOnly /\ UNCHANGED <<runsUsed, countVars, planRow, after, tallyVars>>

\* A 429 of the quota halts a plan and fails a pipeline.
Halt(j) == IF j \in PlanJobs THEN "return" ELSE "raise"

ReserveStep(j) ==
    /\ pc[j] = "next" /\ step[j] <= Steps
    /\ runsUsed < RunsAllowed
    /\ runsUsed' = runsUsed + 1
    /\ booked' = [booked EXCEPT ![j] = @ + 1]
    /\ \E capped \in BOOLEAN : Goto(j, IF capped THEN "capRefund" ELSE "count")
    /\ BodyOnly /\ UNCHANGED <<countVars, planRow, step, after, given, delivered, waived>>

\* An administrator or an unlimited account reserves nothing and counts nothing.
ExemptStep(j) ==
    /\ j \in Exempt
    /\ pc[j] = "next" /\ step[j] <= Steps
    /\ Goto(j, "exempt")
    /\ BodyOnly /\ UNCHANGED <<runsUsed, countVars, planRow, step, after, tallyVars>>

QuotaExceeded(j) ==
    /\ pc[j] = "next" /\ step[j] <= Steps
    /\ runsUsed >= RunsAllowed
    /\ Resume(j, Halt(j))
    /\ BodyOnly /\ UNCHANGED <<runsUsed, countVars, planRow, after, tallyVars>>

\* The spend cap is reached: refund_run before anything was counted.
CapRefund(j) ==
    /\ pc[j] = "capRefund"
    /\ GiveBack(j, 1)
    /\ Resume(j, Halt(j))
    /\ BodyOnly /\ UNCHANGED <<countVars, planRow, after, booked, delivered, waived>>

\* increment_reserved.
CountReserved(j) ==
    /\ pc[j] = "count" /\ Goto(j, "body")
    /\ reservedCount' = [reservedCount EXCEPT ![j] = @ + 1]
    /\ BodyOnly /\ UNCHANGED <<runsUsed, refundedCount, planRow, step, after, tallyVars>>

\* How a step that is handed back goes on.  Pipeline: a no-op or degraded step
\* continues, a withheld letter returns, a missing resume refuses, the rest raises.
\* A plan records every exception and continues, or halts at a provider's 429.
HandBack(j) ==
    IF j \in PlanJobs THEN {"continue", "return"}
                      ELSE {"continue", "return", "refuse", "raise"}

RunStep(j) ==
    /\ pc[j] = "body"
    /\ \/ /\ delivered' = [delivered EXCEPT ![j] = @ + 1]
          /\ Resume(j, "continue")
          /\ UNCHANGED after
       \/ /\ \E how \in HandBack(j) : after' = [after EXCEPT ![j] = how]
          /\ Goto(j, "refund")
          /\ UNCHANGED <<delivered, step>>
    /\ BodyOnly /\ UNCHANGED <<runsUsed, countVars, planRow, booked, given, waived>>

\* _refund_once of an exempt step: _SpendOnlyQuota.refund_run does nothing, and the
\* refund is counted all the same.
RunExempt(j) ==
    /\ pc[j] = "exempt"
    /\ \/ /\ Resume(j, "continue")
          /\ UNCHANGED <<after, waived>>
       \/ /\ \E how \in HandBack(j) : after' = [after EXCEPT ![j] = how]
          /\ Goto(j, "countRefund")
          /\ waived' = [waived EXCEPT ![j] = @ + 1]
          /\ UNCHANGED step
    /\ BodyOnly /\ UNCHANGED <<runsUsed, countVars, planRow, booked, given, delivered>>

\* _refund_once: refund_run ...
RefundStep(j) ==
    /\ pc[j] = "refund" /\ Goto(j, "countRefund")
    /\ GiveBack(j, 1)
    /\ BodyOnly /\ UNCHANGED <<countVars, planRow, step, after, booked, delivered, waived>>

\* ... then increment_refunded.
CountRefunded(j) ==
    /\ pc[j] = "countRefund"
    /\ refundedCount' = [refundedCount EXCEPT ![j] = @ + 1]
    /\ Resume(j, after[j])
    /\ BodyOnly /\ UNCHANGED <<runsUsed, reservedCount, planRow, after, tallyVars>>

RecordPlan(j) ==
    /\ pc[j] = "record" /\ Goto(j, "returned")
    /\ EndPlan(j)
    /\ BodyOnly /\ UNCHANGED <<runsUsed, countVars, step, after, tallyVars>>

Body(j) ==
    \/ PlanStart(j) \/ LeaveOut(j) \/ BodyEnds(j)
    \/ ReserveStep(j) \/ QuotaExceeded(j) \/ CapRefund(j) \/ CountReserved(j)
    \/ RunStep(j) \/ RefundStep(j) \/ CountRefunded(j) \/ RecordPlan(j)
    \/ ExemptStep(j) \/ RunExempt(j)

(***************************************************************************)
(* run_agent_job.                                                          *)
(***************************************************************************)
Claim(j) ==
    /\ task[j] = "queued" /\ tries[j] < MaxTries
    /\ tries' = [tries EXCEPT ![j] = @ + 1]
    /\ \/ /\ Open(j)
          /\ status' = [status EXCEPT ![j] = "processing"]
          /\ late' = [late EXCEPT ![j] = @ /\ status[j] = "processing"]
          /\ task' = [task EXCEPT ![j] = "run"]
          /\ Goto(j, IF j \in PlanJobs THEN "start" ELSE "next")
          /\ step' = [step EXCEPT ![j] = 1]
       \/ /\ ~Open(j)
          /\ task' = [task EXCEPT ![j] = "gone"]
          /\ UNCHANGED <<status, late, pc, step>>
    /\ UNCHANGED <<runsUsed, result, countVars, planRow, api, after, watchVars, faults,
                   tallyVars, scars>>

GiveUp(j) ==
    /\ task[j] = "queued" /\ tries[j] >= MaxTries
    /\ task' = [task EXCEPT ![j] = "gone"]
    /\ UNCHANGED <<runsUsed, rowVars, countVars, planRow, api, tries, bodyVars, watchVars,
                   faults, tallyVars, scars>>

\* Mutant: a completed job refunds too, whatever it returned.
CompleteAndRefund(j) ==
    /\ task[j] = "run" /\ pc[j] \in {"returned", "refused"}
    /\ status' = [status EXCEPT ![j] = IF Open(j) THEN "completed" ELSE @]
    /\ result' = [result EXCEPT ![j] =
           IF ~Open(j) THEN @ ELSE IF pc[j] = "refused" THEN "refusal" ELSE "summary"]
    /\ task' = [task EXCEPT ![j] = IF Open(j) THEN "refund" ELSE "gone"]
    /\ UNCHANGED <<runsUsed, late, countVars, planRow, api, tries, bodyVars, watchVars,
                   faults, tallyVars, scars>>

\* mark_completed; a refusal's winner also refunds what is outstanding.
Complete(j) ==
    /\ task[j] = "run" /\ pc[j] \in {"returned", "refused"}
    /\ status' = [status EXCEPT ![j] = IF Open(j) THEN "completed" ELSE @]
    /\ result' = [result EXCEPT ![j] =
           IF ~Open(j) THEN @ ELSE IF pc[j] = "refused" THEN "refusal" ELSE "summary"]
    /\ task' = [task EXCEPT ![j] = IF Open(j) /\ pc[j] = "refused" THEN "refund" ELSE "gone"]
    /\ UNCHANGED <<runsUsed, late, countVars, planRow, api, tries, bodyVars, watchVars,
                   faults, tallyVars, scars>>

\* What a plan's except branch does last.
Fallback(j) == IF j \in PlanJobs /\ pc[j] = "raised" THEN "failPlan" ELSE "gone"

\* Mutant: the loser of mark_failed refunds, the winner does not.
FailInverted(j) ==
    /\ task[j] = "run" /\ pc[j] = "raised"
    /\ status' = [status EXCEPT ![j] = IF Open(j) THEN "failed" ELSE @]
    /\ task' = [task EXCEPT ![j] = IF Open(j) THEN Fallback(j) ELSE "refund"]
    /\ UNCHANGED <<runsUsed, result, late, countVars, planRow, api, tries, bodyVars,
                   watchVars, faults, tallyVars, scars>>

\* mark_failed; only the winner refunds.
Fail(j) ==
    /\ task[j] = "run" /\ pc[j] = "raised"
    /\ status' = [status EXCEPT ![j] = IF Open(j) THEN "failed" ELSE @]
    /\ task' = [task EXCEPT ![j] = IF Open(j) THEN "refund" ELSE Fallback(j)]
    /\ UNCHANGED <<runsUsed, result, late, countVars, planRow, api, tries, bodyVars,
                   watchVars, faults, tallyVars, scars>>

RefundJob(j) ==
    /\ task[j] = "refund"
    /\ RefundOutstanding(j)
    /\ task' = [task EXCEPT ![j] = Fallback(j)]
    /\ UNCHANGED <<rowVars, reservedCount, planRow, api, tries, bodyVars, watchVars,
                   faults, booked, delivered, waived, scars>>

\* _fail_run_plan.
FailRunPlan(j) ==
    /\ task[j] = "failPlan"
    /\ EndPlan(j)
    /\ task' = [task EXCEPT ![j] = "gone"]
    /\ UNCHANGED <<runsUsed, rowVars, countVars, api, tries, bodyVars, watchVars, faults,
                   tallyVars, scars>>

\* job_timeout: the coroutine is gone, its thread is not.
Timeout(j) ==
    /\ task[j] = "run" /\ pc[j] \notin Ended
    /\ task' = [task EXCEPT ![j] = "gone"]
    /\ UNCHANGED <<runsUsed, rowVars, countVars, planRow, api, tries, bodyVars, watchVars,
                   faults, tallyVars, scars>>

Worker(j) ==
    \/ Claim(j) \/ GiveUp(j) \/ Complete(j) \/ Fail(j) \/ RefundJob(j)
    \/ FailRunPlan(j) \/ Timeout(j)

(***************************************************************************)
(* The watchdogs.                                                          *)
(***************************************************************************)
\* A row's window passes: an enqueued row's whenever nobody claims it, a processing
\* row's never while a first run is inside the ceiling (FirstRunIsNeverStale).
Elapse(j) ==
    /\ Open(j) /\ ~late[j] /\ api[j] = "done"
    /\ status[j] = "processing" => task[j] # "run" \/ tries[j] > 1
    /\ late' = [late EXCEPT ![j] = TRUE]
    /\ UNCHANGED <<runsUsed, status, result, countVars, planRow, api, arqVars, bodyVars,
                   watchVars, faults, tallyVars, scars>>

\* Mutant: only claimed rows are looked at.
StaleClaimed(j) == status[j] = "processing" /\ late[j]

Stale(j) == Open(j) /\ late[j]
Idle(w) == todo[w] = {} /\ owes[w] = "nobody"

WatchRead(w, rows) ==
    /\ Idle(w) /\ rows # {}
    /\ todo' = [todo EXCEPT ![w] = rows]
    /\ UNCHANGED <<runsUsed, rowVars, countVars, planRow, api, arqVars, bodyVars, owes,
                   faults, tallyVars, scars>>

SweepRead == WatchRead(Cron, {j \in Jobs : Stale(j)})
PollRead(w, j) == w \in Pollers /\ WatchRead(w, {j} \cap {k \in Jobs : Stale(k)})

WatchFail(w, j) ==
    /\ owes[w] = "nobody" /\ j \in todo[w]
    /\ todo' = [todo EXCEPT ![w] = @ \ {j}]
    /\ \/ /\ Open(j)
          /\ status' = [status EXCEPT ![j] = "failed"]
          /\ owes' = [owes EXCEPT ![w] = j]
          /\ \/ pc[j] \notin Ended /\ Scar(j, "overlap")
             \/ pc[j] \in Ended /\ UNCHANGED scars
       \/ /\ ~Open(j)
          /\ UNCHANGED <<status, owes, scars>>
    /\ UNCHANGED <<runsUsed, result, late, countVars, planRow, api, arqVars, bodyVars,
                   faults, tallyVars>>

\* The cron refunds every composite; the lazy watchdog knows only "pipeline" and
\* sends a plan job to refund_single_reservation, which matches no plan row.
WatchRefund(w, j) ==
    /\ owes[w] = j
    /\ owes' = [owes EXCEPT ![w] = "nobody"]
    /\ \/ /\ w = Cron \/ j \notin PlanJobs
          /\ RefundOutstanding(j)
          /\ UNCHANGED scars
       \/ /\ w # Cron /\ j \in PlanJobs
          /\ Scar(j, "unpaid")
          /\ UNCHANGED <<runsUsed, refundedCount, given>>
    /\ UNCHANGED <<rowVars, reservedCount, planRow, api, arqVars, bodyVars, todo, faults,
                   booked, delivered, waived>>

Watchdogs ==
    SweepRead \/ \E w \in Watchers, j \in Jobs :
                     PollRead(w, j) \/ WatchFail(w, j) \/ WatchRefund(w, j)

(***************************************************************************)
(* Deaths.                                                                 *)
(***************************************************************************)
CanDie(kind) == kind \in Faults /\ faults < MaxFaults

\* What a death in the middle of a step does to the job's accounting.
CutAt == {<<"capRefund", "untracked">>, <<"count", "untracked">>,
          <<"body", "abandoned">>, <<"refund", "abandoned">>,
          <<"countRefund", "unmarked">>}
Cut(l) == {s \in Scars : <<l, s>> \in CutAt}

\* The worker process dies with the thread and the coroutine, if it is still there.
ProcessDies(j) ==
    /\ CanDie("process") /\ faults' = faults + 1
    /\ task[j] \in Awake \/ pc[j] \notin Ended
    /\ task' = [task EXCEPT ![j] = IF @ \in Awake THEN "queued" ELSE @]
    /\ Goto(j, "off")
    /\ scars' = [scars EXCEPT ![j] =
           @ \cup Cut(pc[j]) \cup (IF task[j] = "refund" THEN {"unpaid"} ELSE {})]
    /\ UNCHANGED <<runsUsed, rowVars, countVars, planRow, api, tries, step, after,
                   watchVars, tallyVars>>

\* A counting statement fails and is swallowed.
CountingFails(j) ==
    /\ CanDie("database") /\ faults' = faults + 1
    /\ \/ /\ pc[j] = "count" /\ Goto(j, "body")
          /\ Scar(j, "untracked") /\ UNCHANGED step
       \/ /\ pc[j] = "countRefund" /\ Resume(j, after[j])
          /\ Scar(j, "unmarked")
    /\ UNCHANGED <<runsUsed, rowVars, countVars, planRow, api, arqVars, after, watchVars,
                   tallyVars>>

\* A statement of the step raises before or instead of refund_run: the run, where one
\* was booked, stays outstanding and the exception leaves the step.
StepWriteFails(j) ==
    /\ CanDie("database") /\ faults' = faults + 1
    /\ pc[j] \in {"body", "refund", "exempt"}
    /\ Resume(j, IF j \in PlanJobs THEN "continue" ELSE "raise")
    /\ \/ pc[j] # "exempt" /\ Scar(j, "abandoned")
       \/ pc[j] = "exempt" /\ UNCHANGED scars
    /\ UNCHANGED <<runsUsed, rowVars, countVars, planRow, api, arqVars, after, watchVars,
                   tallyVars>>

\* record_step_state raises out of the executor.
StepStateFails(j) ==
    /\ CanDie("database") /\ faults' = faults + 1
    /\ j \in PlanJobs /\ pc[j] \in {"start", "next", "record"}
    /\ Resume(j, "raise")
    /\ UNCHANGED <<runsUsed, rowVars, countVars, planRow, api, arqVars, after, watchVars,
                   tallyVars, scars>>

\* A terminal write or the job's refund raises out of run_agent_job; ARQ records a
\* failed job and does not run it again.
JobWriteFails(j) ==
    /\ CanDie("database") /\ faults' = faults + 1
    /\ (task[j] = "run" /\ pc[j] \in Ended) \/ task[j] = "refund"
    /\ task' = [task EXCEPT ![j] = "gone"]
    /\ \/ task[j] = "refund" /\ Scar(j, "unpaid")
       \/ task[j] = "run" /\ UNCHANGED scars
    /\ UNCHANGED <<runsUsed, rowVars, countVars, planRow, api, tries, bodyVars, watchVars,
                   tallyVars>>

WatcherDies(w) ==
    /\ CanDie("watcher") /\ faults' = faults + 1
    /\ ~Idle(w)
    /\ todo' = [todo EXCEPT ![w] = {}]
    /\ owes' = [owes EXCEPT ![w] = "nobody"]
    /\ scars' = [j \in Jobs |-> scars[j] \cup (IF owes[w] = j THEN {"unpaid"} ELSE {})]
    /\ UNCHANGED <<runsUsed, rowVars, countVars, planRow, api, arqVars, bodyVars, tallyVars>>

Deaths ==
    \/ \E j \in Jobs : \/ ProcessDies(j) \/ CountingFails(j) \/ StepWriteFails(j)
                       \/ StepStateFails(j) \/ JobWriteFails(j)
    \/ \E w \in Watchers : WatcherDies(w)

\* Nothing is left to do; a state in which the system stops short of this is a
\* deadlock.
Terminating ==
    /\ \A j \in Jobs : api[j] \in {"idle", "done"} /\ status[j] \in {"absent"} \cup Terminal
                       /\ task[j] \in {"none", "gone"} /\ pc[j] \in Ended
    /\ \A w \in Watchers : Idle(w)
    /\ UNCHANGED vars

Next ==
    \/ \E j \in Jobs : Enqueue(j) \/ Body(j) \/ Worker(j) \/ Elapse(j)
    \/ Watchdogs \/ Deaths \/ Terminating

Spec == Init /\ [][Next]_vars

(***************************************************************************)
(* Safety.                                                                 *)
(***************************************************************************)
Healthy(j, s) == scars[j] \cap s = {}

\* Nobody still works for the job: no coroutine, no thread, no watchdog's debt.
Settled(j) ==
    /\ task[j] = "gone" /\ pc[j] \in Ended
    /\ \A w \in Watchers : owes[w] # j

\* The two counters say what is outstanding: the runs booked and not handed back, but
\* for the statement a live step is about to make, and less one for every exempt step
\* that failed.  So refund_pipeline_outstanding never hands back too much, and too
\* little only for an account whose exemption came or went under the job.
CountersTrackBookings ==
    \A j \in Jobs : Healthy(j, {"overlap", "untracked", "unmarked"}) =>
        booked[j] - given[j] =
            reservedCount[j] - refundedCount[j] + waived[j]
            + (IF pc[j] \in {"capRefund", "count"} THEN 1 ELSE 0)
            - (IF pc[j] = "countRefund" THEN 1 ELSE 0)

\* No composite hands back more runs than it booked, whoever refunds it.
NeverOverRefunded ==
    \A j \in Jobs : Healthy(j, {"overlap", "untracked", "unmarked"}) => given[j] <= booked[j]

\* A failed or refused composite is not billed, its delivered steps included, but for
\* as many runs as failed exempt steps were counted back.
FailedIsNotBilled ==
    \A j \in Jobs :
        /\ Healthy(j, {"overlap", "untracked", "unmarked", "unpaid"})
        /\ Settled(j)
        /\ status[j] = "failed" \/ result[j] = "refusal"
        => given[j] <= booked[j] /\ booked[j] <= given[j] + waived[j]

\* A completed composite is billed exactly for the steps that delivered.
CompletedBillsDeliveries ==
    \A j \in Jobs :
        /\ Healthy(j, Scars)
        /\ Settled(j)
        /\ result[j] = "summary"
        => booked[j] - given[j] = delivered[j]

(***************************************************************************)
(* The abstract promise, kept for as long as the counters say the truth.   *)
(***************************************************************************)
Kept == [j \in Jobs |-> booked[j] - given[j]]
Billed == {j \in Jobs : result[j] = "summary"}

Ledger == INSTANCE StepLedger WITH
    Allowed <- RunsAllowed, used <- runsUsed, kept <- Kept, billed <- Billed

\* Nobody ended a job under its running body, and no counting statement was lost.
CountsAreTrue == \A j \in Jobs : Healthy(j, {"overlap", "untracked", "unmarked"})

ImplementsLedger == []CountsAreTrue => Ledger!Spec

\* The user's counter is what the composites keep: no run that nobody has is charged,
\* and GREATEST(..., 0) never has anything to cut off.
CounterIsWhatIsKept ==
    CountsAreTrue => runsUsed = Cardinality(UNION {{j} \X (1..Kept[j]) : j \in Jobs})

(***************************************************************************)
(* Liveness: time passes and the cron runs.                                *)
(***************************************************************************)
Fairness ==
    /\ \A j \in Jobs : /\ WF_vars(Elapse(j))
                       /\ WF_vars(api[j] # "idle" /\ Enqueue(j))
                       /\ WF_vars(Timeout(j))
                       /\ WF_vars(Complete(j)) /\ WF_vars(Fail(j)) /\ WF_vars(RefundJob(j))
    /\ WF_vars(SweepRead)
    /\ \A j \in Jobs : WF_vars(WatchFail(Cron, j)) /\ WF_vars(WatchRefund(Cron, j))

FairSpec == Spec /\ Fairness

\* Every composite reaches a terminal state, whatever becomes of its body.
EveryCompositeEnds == \A j \in Jobs : status[j] = "enqueued" ~> status[j] \in Terminal

(***************************************************************************)
(* Claims of comments that the code does not keep: TLC refutes each.       *)
(***************************************************************************)
\* workers/tasks.py: "a failed composite is not billed".
FailedPlanIsNotBilled ==
    \A j \in PlanJobs :
        status[j] = "failed" /\ Settled(j) /\ "overlap" \notin scars[j] => given[j] = booked[j]

\* workers/tasks.py: a crashed plan job must not leave its plan "stuck in running
\* forever".
PlanEndsWithJob ==
    \A j \in PlanJobs : Settled(j) /\ status[j] \in Terminal => planRow[j] # "running"
=============================================================================
