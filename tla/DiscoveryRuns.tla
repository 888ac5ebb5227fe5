---------------------------- MODULE DiscoveryRuns ----------------------------
(***************************************************************************)
(* One user's discovery passes (the "scout" agent) and run plans.  A pass  *)
(* searches every job board for the whole account, a plan dispatches every *)
(* agent once; two at a time of either are the same work, done and billed  *)
(* twice.                                                                  *)
(*                                                                         *)
(*   - a click on Sync claims the singleton slot, a BackgroundJob row, and *)
(*     queues it;                                                          *)
(*   - a click on Run everything is admitted when no RunPlan row is live;  *)
(*     its job, a thread, claims the slot for its scout step;              *)
(*   - the scheduled sweep dispatches scout with no claim at all.          *)
(*                                                                         *)
(* A claim outlives its holder until a watchdog fails the row: the cron, or*)
(* the next click.  job_timeout cancels the coroutine and not the thread it*)
(* awaits.  Ages count from the timestamp that the watchdogs read and stop *)
(* at ProcWindow.  A plan has one scout step, the rest are one step; its   *)
(* queue job is reduced to its delivery, its bill is CompositeJobs'.  A    *)
(* handler that dies is one that takes no further step.                    *)
(***************************************************************************)
EXTENDS Naturals, FiniteSets

CONSTANTS Clicks, Plans, Sweeps,
          Cron,
          EnqWindow, ProcWindow,   \* _job_stale_thresholds
          JobTimeout,              \* job_timeout_seconds
          MaxTries,                \* ARQ max_tries
          MaxFaults                \* bound: faults in a behaviour

Claimants == Clicks \cup Plans
Watchers  == Clicks \cup {Cron}

ASSUME DiscoveryAssumption ==
    /\ IsFiniteSet(Claimants \cup Sweeps)
    /\ Clicks \cap Plans = {} /\ Claimants \cap Sweeps = {}
    /\ Cron \notin Claimants /\ "nothing" \notin Claimants
    /\ EnqWindow \in Nat \ {0} /\ EnqWindow <= ProcWindow
    /\ ProcWindow \in Nat /\ JobTimeout \in Nat /\ JobTimeout < ProcWindow
    /\ MaxTries \in Nat \ {0} /\ MaxFaults \in Nat

VARIABLES
    req,             \* the handler of a click
    row, rowAge,     \* the row that claims the slot, for a job or a plan's step
    plan, planAge,   \* the RunPlan rows
    task, tries,     \* ARQ's view of the job of a click
    runAge,          \* ticks since its coroutine started
    thread,          \* the thread that executes it
    found,           \* what a watchdog has read: [row, status]
    faults,
    usurped          \* history: the rows failed on a reading older than their start

claimVars == <<row, rowAge>>
planVars  == <<plan, planAge>>
taskVars  == <<task, tries, runAge>>
vars == <<req, claimVars, planVars, taskVars, thread, found, faults, usurped>>

Nothing == [row |-> "nothing", status |-> "none"]

TypeOK ==
    /\ req \in [Claimants -> {"idle", "check", "claim", "push", "done"}]
    /\ row \in [Claimants -> {"absent", "enqueued", "processing", "ended"}]
    /\ rowAge \in [Claimants -> 0..ProcWindow]
    /\ plan \in [Plans -> {"absent", "planned", "running", "ended"}]
    /\ planAge \in [Plans -> 0..ProcWindow]
    /\ task \in [Claimants -> {"none", "queued", "running", "gone"}]
    /\ tries \in [Claimants -> 0..MaxTries]
    /\ runAge \in [Claimants -> 0..JobTimeout]
    /\ thread \in [Claimants \cup Sweeps ->
                     {"off", "step", "claimed", "pass", "rest"}]
    /\ found \in [Watchers -> {Nothing} \cup [row: Claimants,
                                             status: {"enqueued", "processing"}]]
    /\ faults \in 0..MaxFaults
    /\ usurped \subseteq Claimants

Init ==
    /\ req = [x \in Claimants |-> "idle"]
    /\ row = [x \in Claimants |-> "absent"]
    /\ rowAge = [x \in Claimants |-> 0]
    /\ plan = [p \in Plans |-> "absent"]
    /\ planAge = [p \in Plans |-> 0]
    /\ task = [x \in Claimants |-> "none"]
    /\ tries = [x \in Claimants |-> 0]
    /\ runAge = [x \in Claimants |-> 0]
    /\ thread = [x \in Claimants \cup Sweeps |-> "off"]
    /\ found = [w \in Watchers |-> Nothing]
    /\ faults = 0
    /\ usurped = {}

Live(x)  == row[x] \in {"enqueued", "processing"}
Executing(p) == thread[p] \in {"step", "claimed", "pass", "rest"}
Passing(x) == thread[x] = "pass"

-----------------------------------------------------------------------------
(* The slot. *)

\* Mutant: only rows that nobody has started are watched.
StaleUnclaimed(x) == row[x] = "enqueued" /\ rowAge[x] >= EnqWindow

\* A claim past the window of its status.
Stale(x) ==
    \/ row[x] = "enqueued" /\ rowAge[x] >= EnqWindow
    \/ row[x] = "processing" /\ rowAge[x] >= ProcWindow

\* Mutant: the insert does not look for an active row.
InsertClaimUnchecked(x) ==
    /\ row' = [row EXCEPT ![x] = "enqueued"]
    /\ rowAge' = [rowAge EXCEPT ![x] = 0]

\* create_singleton inserts a row, under the lock, if there is none.
InsertClaim(x) ==
    /\ \A y \in Claimants : ~Live(y)
    /\ row' = [row EXCEPT ![x] = "enqueued"]
    /\ rowAge' = [rowAge EXCEPT ![x] = 0]

\* mark_processing stamps startedAt once.
MarkProcessing(x) ==
    /\ row' = [row EXCEPT ![x] = IF @ = "enqueued" THEN "processing" ELSE @]
    /\ rowAge' = [rowAge EXCEPT ![x] = IF row[x] = "enqueued" THEN 0 ELSE @]

\* mark_completed, mark_failed: the first terminal state wins.
EndRow(x) ==
    /\ row' = [row EXCEPT ![x] = IF Live(x) THEN "ended" ELSE @]
    /\ UNCHANGED rowAge

-----------------------------------------------------------------------------
(* The two watchdogs: the cron, and the one of a click on Sync. *)

\* sweep_stale
CronReads(x) ==
    /\ found[Cron] = Nothing
    /\ Stale(x)
    /\ found' = [found EXCEPT ![Cron] = [row |-> x, status |-> row[x]]]
    /\ UNCHANGED <<req, claimVars, planVars, taskVars, thread, faults, usurped>>

Click(c) ==
    /\ req[c] = "idle"
    /\ req' = [req EXCEPT ![c] = "check"]
    /\ UNCHANGED <<claimVars, planVars, taskVars, thread, found, faults, usurped>>

\* find_active: nothing, a live claim whose id answers the click, or a stale one.
FindActive(c) ==
    /\ req[c] = "check" /\ found[c] = Nothing
    /\ \/ /\ \A x \in Claimants : ~Live(x)
          /\ req' = [req EXCEPT ![c] = "claim"]
          /\ UNCHANGED found
       \/ \E x \in Claimants :
            /\ Live(x) /\ ~Stale(x)
            /\ req' = [req EXCEPT ![c] = "done"]
            /\ UNCHANGED found
       \/ \E x \in Claimants :
            /\ Stale(x)
            /\ found' = [found EXCEPT ![c] = [row |-> x, status |-> row[x]]]
            /\ UNCHANGED req
    /\ UNCHANGED <<claimVars, planVars, taskVars, thread, faults, usurped>>

\* The stale row is failed, unless it has ended; its present status is not compared.
FailStale(w) ==
    /\ found[w] # Nothing
    /\ EndRow(found[w].row)
    /\ usurped' = IF row[found[w].row] = "processing" /\ found[w].status = "enqueued"
                  THEN usurped \cup {found[w].row} ELSE usurped
    /\ found' = [found EXCEPT ![w] = Nothing]
    /\ req' = [x \in Claimants |-> IF x = w THEN "claim" ELSE req[x]]
    /\ UNCHANGED <<planVars, taskVars, thread, faults>>

-----------------------------------------------------------------------------
(* _enqueue_single_agent *)

Claim(c) ==
    /\ req[c] = "claim"
    /\ \/ /\ InsertClaim(c)
          /\ req' = [req EXCEPT ![c] = "push"]
       \/ /\ \E x \in Claimants : Live(x)        \* another request was faster
          /\ req' = [req EXCEPT ![c] = "done"]
          /\ UNCHANGED claimVars
    /\ UNCHANGED <<planVars, taskVars, thread, found, faults, usurped>>

Push(x) ==
    /\ req[x] = "push"
    /\ req' = [req EXCEPT ![x] = "done"]
    /\ task' = [task EXCEPT ![x] = "queued"]
    /\ UNCHANGED <<claimVars, planVars, tries, runAge, thread, found, faults, usurped>>

\* The queue is down: the row, or the plan, is failed again.
PushFails(x) ==
    /\ req[x] = "push" /\ faults < MaxFaults
    /\ faults' = faults + 1
    /\ req' = [req EXCEPT ![x] = "done"]
    /\ IF x \in Plans
       THEN /\ plan' = [plan EXCEPT ![x] = "ended"]
            /\ UNCHANGED <<planAge, claimVars>>
       ELSE EndRow(x) /\ UNCHANGED planVars
    /\ UNCHANGED <<taskVars, thread, found, usurped>>

-----------------------------------------------------------------------------
(* run_everything *)

LivePlan(p) == plan[p] \in {"planned", "running"}

\* Mutant: a plan is released as soon as the queue window has passed, also a running one.
StalePlanEarly(p) == LivePlan(p) /\ planAge[p] >= EnqWindow

StalePlan(p) ==
    \/ plan[p] = "planned" /\ planAge[p] >= EnqWindow
    \/ plan[p] = "running" /\ planAge[p] >= ProcWindow

\* create_admitted: one transaction releases the stale plans, looks, and inserts.
Admit(p) ==
    /\ req[p] = "idle"
    /\ LET released == [q \in Plans |-> IF StalePlan(q) THEN "ended" ELSE plan[q]] IN
       IF \E q \in Plans : released[q] \in {"planned", "running"}
       THEN /\ plan' = released                      \* 409
            /\ req' = [req EXCEPT ![p] = "done"]
       ELSE /\ plan' = [released EXCEPT ![p] = "planned"]
            /\ req' = [req EXCEPT ![p] = "push"]
    /\ UNCHANGED <<planAge, claimVars, taskVars, thread, found, faults, usurped>>

-----------------------------------------------------------------------------
(* The worker. *)

\* A queued job starts, or starts again after its process died.
StartTask(x) ==
    /\ task' = [task EXCEPT ![x] = "running"]
    /\ tries' = [tries EXCEPT ![x] = @ + 1]
    /\ runAge' = [runAge EXCEPT ![x] = 0]

StartPass(c) ==
    /\ c \in Clicks /\ task[c] = "queued"
    /\ IF Live(c)
       THEN /\ StartTask(c)
            /\ MarkProcessing(c)
            /\ thread' = [thread EXCEPT ![c] = "pass"]
       ELSE /\ task' = [task EXCEPT ![c] = "gone"]
            /\ UNCHANGED <<tries, runAge, claimVars, thread>>
    /\ UNCHANGED <<req, planVars, found, faults, usurped>>

\* The plan's queue job has waited past its window and was failed: no start.
DropQueued(p) ==
    /\ p \in Plans /\ task[p] = "queued" /\ planAge[p] >= EnqWindow
    /\ task' = [task EXCEPT ![p] = "gone"]
    /\ UNCHANGED <<req, claimVars, planVars, tries, runAge, thread, found, faults, usurped>>

\* The thread is over, and with it the coroutine, if it still waits for it.
ThreadEnds(x) ==
    /\ thread' = [thread EXCEPT ![x] = "off"]
    /\ task' = [task EXCEPT ![x] = IF @ = "running" THEN "gone" ELSE @]
    /\ UNCHANGED <<tries, runAge>>

\* The pass of a click ends, well or badly; a coroutine that waits for it records it.
EndPass(c) ==
    /\ c \in Clicks /\ Passing(c)
    /\ ThreadEnds(c)
    /\ IF task[c] = "running" THEN EndRow(c) ELSE UNCHANGED claimVars
    /\ UNCHANGED <<req, planVars, found, faults, usurped>>

\* Mutant: a plan that is already running is executed again.
StartPlanAgain(p) ==
    /\ p \in Plans /\ task[p] = "queued"
    /\ IF LivePlan(p)
       THEN /\ StartTask(p)
            /\ plan' = [plan EXCEPT ![p] = "running"]
            /\ planAge' = [planAge EXCEPT ![p] = 0]
            /\ thread' = [thread EXCEPT ![p] = "step"]
       ELSE /\ task' = [task EXCEPT ![p] = "gone"]
            /\ UNCHANGED <<tries, runAge, planVars, thread>>
    /\ UNCHANGED <<req, claimVars, found, faults, usurped>>

\* execute_run_plan begins with mark_running: only a planned plan is executed.
StartPlan(p) ==
    /\ p \in Plans /\ task[p] = "queued"
    /\ IF plan[p] = "planned"
       THEN /\ StartTask(p)
            /\ plan' = [plan EXCEPT ![p] = "running"]
            /\ planAge' = [planAge EXCEPT ![p] = 0]
            /\ thread' = [thread EXCEPT ![p] = "step"]
       ELSE /\ task' = [task EXCEPT ![p] = "gone"]
            /\ UNCHANGED <<tries, runAge, planVars, thread>>
    /\ UNCHANGED <<req, claimVars, found, faults, usurped>>

\* The scout step takes the slot or is refused.
ClaimStep(p) ==
    /\ thread[p] = "step"
    /\ \/ /\ InsertClaim(p)
          /\ thread' = [thread EXCEPT ![p] = "claimed"]
       \/ /\ \E x \in Claimants : Live(x)
          /\ thread' = [thread EXCEPT ![p] = "rest"]
          /\ UNCHANGED claimVars
    /\ UNCHANGED <<req, planVars, taskVars, found, faults, usurped>>

DispatchStep(p) ==
    /\ thread[p] = "claimed"
    /\ MarkProcessing(p)
    /\ thread' = [thread EXCEPT ![p] = "pass"]
    /\ UNCHANGED <<req, planVars, taskVars, found, faults, usurped>>

\* The step ends, and the slot is released.
ReleaseStep(p) ==
    /\ p \in Plans /\ Passing(p)
    /\ EndRow(p)
    /\ thread' = [thread EXCEPT ![p] = "rest"]
    /\ UNCHANGED <<req, planVars, taskVars, found, faults, usurped>>

\* The release raises, and is swallowed.
ReleaseFails(p) ==
    /\ p \in Plans /\ Passing(p) /\ faults < MaxFaults
    /\ faults' = faults + 1
    /\ thread' = [thread EXCEPT ![p] = "rest"]
    /\ UNCHANGED <<req, claimVars, planVars, taskVars, found, usurped>>

\* The other steps are done; finish, if nobody has ended the plan.
FinishPlan(p) ==
    /\ thread[p] = "rest"
    /\ ThreadEnds(p)
    /\ plan' = [plan EXCEPT ![p] = "ended"]
    /\ UNCHANGED <<req, claimVars, planAge, found, faults, usurped>>

\* job_timeout: the coroutine is gone, with no write; its thread is not.
Timeout(x) ==
    /\ task[x] = "running" /\ runAge[x] >= JobTimeout
    /\ task' = [task EXCEPT ![x] = "gone"]
    /\ UNCHANGED <<req, claimVars, planVars, tries, runAge, thread, found, faults, usurped>>

\* The worker process dies: the job it was running is delivered again.
ProcessDies(x) ==
    /\ thread[x] # "off" /\ faults < MaxFaults
    /\ faults' = faults + 1
    /\ thread' = [thread EXCEPT ![x] = "off"]
    /\ task' = [task EXCEPT ![x] = IF @ = "running" /\ tries[x] < MaxTries
                                   THEN "queued" ELSE "gone"]
    /\ UNCHANGED <<req, claimVars, planVars, tries, runAge, found, usurped>>

\* _execute_discovery_for_user dispatches scout; nothing is claimed.
SweepStarts(s) ==
    /\ thread[s] = "off"
    /\ thread' = [thread EXCEPT ![s] = "pass"]
    /\ UNCHANGED <<req, claimVars, planVars, taskVars, found, faults, usurped>>

SweepEnds(s) ==
    /\ thread[s] = "pass"
    /\ thread' = [thread EXCEPT ![s] = "off"]
    /\ UNCHANGED <<req, claimVars, planVars, taskVars, found, faults, usurped>>

Older(age, bound) == IF age < bound THEN age + 1 ELSE age

\* Time passes, but a coroutine is cancelled on time, and less than a window
\* passes between the two statements that claim a step.
Tick ==
    /\ \A x \in Claimants : task[x] = "running" => runAge[x] < JobTimeout
    /\ \A p \in Plans : thread[p] # "claimed"
    /\ rowAge' = [x \in Claimants |->
                    IF Live(x) \/ Passing(x) THEN Older(rowAge[x], ProcWindow) ELSE 0]
    /\ planAge' = [p \in Plans |->
                    IF LivePlan(p) \/ Executing(p) THEN Older(planAge[p], ProcWindow) ELSE 0]
    /\ runAge' = [x \in Claimants |-> IF task[x] = "running" THEN runAge[x] + 1 ELSE 0]
    /\ UNCHANGED <<req, row, plan, task, tries, thread, found, faults, usurped>>

Request(x) == \/ x \in Clicks /\ (Click(x) \/ FindActive(x) \/ Claim(x))
              \/ x \in Plans /\ Admit(x)
              \/ Push(x) \/ PushFails(x)

Work(x) == \/ StartPass(x) \/ EndPass(x)
           \/ StartPlan(x) \/ DropQueued(x) \/ ClaimStep(x)
           \/ DispatchStep(x) \/ ReleaseStep(x) \/ ReleaseFails(x) \/ FinishPlan(x)
           \/ Timeout(x) \/ ProcessDies(x)

Next == \/ \E x \in Claimants : Request(x) \/ Work(x) \/ CronReads(x)
        \/ \E w \in Watchers : FailStale(w)
        \/ \E s \in Sweeps : SweepStarts(s) \/ SweepEnds(s)
        \/ Tick

Spec == Init /\ [][Next]_vars

\* The cron runs, time passes, and no statement takes for ever; passes may.
Fairness ==
    /\ WF_vars(Tick)
    /\ WF_vars(\E x \in Claimants : CronReads(x)) /\ WF_vars(FailStale(Cron))
    /\ \A x \in Claimants : WF_vars(Timeout(x)) /\ WF_vars(DispatchStep(x))

FairSpec == Spec /\ Fairness

-----------------------------------------------------------------------------
(* Properties. *)

\* Two claimed passes run at a time only when the older claim has outlived the
\* processing window, or a watchdog had read it while it was still queued.
OnePassWithinWindow ==
    \A x, y \in Claimants :
        (x # y /\ Passing(x) /\ Passing(y)) =>
            \E z \in {x, y} : rowAge[z] >= ProcWindow \/ z \in usurped

\* Two plans execute at a time only when one has outlived the window of its row.
OnePlanWithinWindow ==
    \A p, q \in Plans :
        (p # q /\ Executing(p) /\ Executing(q)) =>
            planAge[p] >= ProcWindow \/ planAge[q] >= ProcWindow

\* Whatever ARQ delivers again, the steps of a plan are dispatched once: a thread
\* only starts on a plan that has never claimed its first step.
StepsAreDispatchedOnce ==
    [][\A p \in Plans : thread[p] = "off" /\ thread'[p] = "step" =>
           plan[p] = "planned" /\ tries[p] = 0]_vars

\* A dead worker, a lost push or a failed release never locks the user out.
SlotIsFreed == []<>(\A x \in Claimants : ~Live(x))

\* routers/agents.py, execute_run_plan: a silo-class step claims the slot, "so a
\* plan cannot race the discovery sweep, another tab, or itself".
PlanExcludesSweep ==
    \A p \in Plans, s \in Sweeps : ~(Passing(p) /\ Passing(s))

\* routers/agents.py, _job_stale_thresholds: that a watchdog fails a run "while
\* the worker is still legitimately executing it" is "structurally impossible".
LiveRunIsNotStale ==
    \A c \in Clicks : (task[c] = "running" /\ Stale(c)) => ~Passing(c)

=============================================================================
