------------------------------- MODULE AgentRuns -------------------------------
(***************************************************************************)
(* The AgentRun rows that the dashboard shows: who writes them, the thread *)
(* that stamps a running row's heartbeat, and the watchdog that fails the  *)
(* rows behind which nothing seems to run.                                 *)
(*                                                                         *)
(* A run is opened either by the request that executes it (_record_run,    *)
(* routers/agents.py) or by the enqueue endpoint, and is then executed by  *)
(* a worker that ARQ may restart on the same row.  Both go through         *)
(* _execute_reserved_run.  The watchdog runs on every start of a process   *)
(* and by cron (services/agent_run_watchdog.py), in any number of copies.  *)
(*                                                                         *)
(* One tick is one heartbeat interval; the ages, which only matter while a *)
(* row is running, saturate at the thresholds.                             *)
(* The quota of a queued run is GenerationJobs' subject: here only a run   *)
(* executed in its request is charged.                                     *)
(***************************************************************************)
EXTENDS Naturals, FiniteSets

CONSTANTS Runs,
          Queued,         \* the runs that wait for a worker
          MaxTries,       \* times ARQ starts a queued run
          Watchdogs,
          StaleAfter,     \* get_heartbeat_stale_seconds, in ticks
          StartupStale,   \* get_startup_stale_seconds, in ticks
          Ceiling,        \* get_max_run_seconds, in ticks
          ListLimit,      \* the LIMIT of list_abandoned
          Faults,         \* which of {"process", "database", "queue"} fail
          MaxFaults,
          Never           \* a heartbeat that was never stamped

ASSUME AgentRunsAssumption ==
    /\ Queued \subseteq Runs
    /\ StartupStale \in Nat \ {0} /\ StaleAfter \in Nat /\ StartupStale <= StaleAfter
    /\ Ceiling \in Nat \ {0} /\ ListLimit \in Nat \ {0}
    /\ MaxTries \in Nat /\ MaxFaults \in Nat /\ Never \notin Nat

VARIABLES row,      \* row[r]: status, age since startedAt, age of heartbeatAt
          exec,     \* exec[r]: where the code that executes r is
          out,      \* out[r]: how the agent ended, on its way to the row
          charge,   \* charge[r]: the run taken from the user's allowance
          beat,     \* beat[r]: the heartbeat thread
          tries,    \* tries[r]: times r was started
          list,     \* list[w]: the rows the watchdog w has listed and not yet failed
          faults,
          push,     \* push[r]: the request that enqueues r, whether ARQ holds its job,
                    \* and (observation) whether ARQ took it though the push raised
          word,     \* observation: the last terminal status an executor wrote
          overdue,  \* observation: runs once executed with no stamp within a threshold
          wronged,  \* observation: runs failed by a watchdog while being executed
          cut       \* observation: charged runs that a fault struck

vars == <<row, exec, out, charge, beat, tries, list, faults, push,
          word, overdue, wronged, cut>>

Terminal == {"completed", "failed"}
Ends     == {"result", "noop", "error"}

RowState  == [status: {"absent", "running"} \cup Terminal,
              age: 0..Ceiling, stamp: 0..StaleAfter \cup {Never}]
PushState == [at: {"none", "sending", "refused", "failing", "done"},
              held: BOOLEAN, lost: BOOLEAN]

TypeOK ==
    /\ row \in [Runs -> RowState]
    /\ exec \in [Runs -> {"new", "reserved", "queued", "started", "working", "tail",
                          "refund", "spend", "settle", "gone"}]
    /\ out \in [Runs -> Ends \cup {"none"}]
    /\ charge \in [Runs -> {"none", "held", "refunded", "spent"}]
    /\ beat \in [Runs -> {"off", "on", "leaving"}]
    /\ tries \in [Runs -> 0..MaxTries]
    /\ list \in [Watchdogs -> SUBSET Runs]
    /\ faults \in 0..MaxFaults
    /\ push \in [Runs -> PushState]
    /\ word \in [Runs -> Terminal \cup {"none"}]
    /\ overdue \subseteq Runs /\ wronged \subseteq Runs /\ cut \subseteq Runs

Init ==
    /\ row = [r \in Runs |-> [status |-> "absent", age |-> 0, stamp |-> Never]]
    /\ exec = [r \in Runs |-> "new"]
    /\ out = [r \in Runs |-> "none"]
    /\ charge = [r \in Runs |-> "none"]
    /\ beat = [r \in Runs |-> "off"]
    /\ tries = [r \in Runs |-> 0]
    /\ list = [w \in Watchdogs |-> {}]
    /\ faults = 0
    /\ push = [r \in Runs |-> [at |-> "none", held |-> FALSE, lost |-> FALSE]]
    /\ word = [r \in Runs |-> "none"]
    /\ overdue = {} /\ wronged = {} /\ cut = {}

Executed(r) == exec[r] \in {"started", "working", "tail"}

\* Mutant: a run that never stamped is left alone.
AbandonedOnlyStamped(r, limit) ==
    /\ row[r].status = "running"
    /\ row[r].stamp # Never
    /\ row[r].stamp >= limit

\* Mutant: every running row is listed.
AbandonedAtAnyAge(r, limit) == row[r].status = "running" /\ limit \in Nat

\* _ABANDONED_PREDICATE
Abandoned(r, limit) ==
    /\ row[r].status = "running"
    /\ \/ row[r].stamp # Never /\ row[r].stamp >= limit
       \/ row[r].stamp = Never /\ row[r].age >= Ceiling

\* Nothing was stamped for as long as the tightest threshold asks.
IsOverdue(r) == \/ row[r].stamp = Never /\ row[r].age >= Ceiling
                \/ row[r].stamp # Never /\ row[r].stamp >= StartupStale

NotesOverdue == overdue' = overdue \cup {r \in Runs : Executed(r)' /\ IsOverdue(r)'}

-----------------------------------------------------------------------------
(* Opening a run. *)

\* _record_run: one run is taken from the allowance, or the request is refused.
Reserve(r) ==
    /\ exec[r] = "new" /\ r \notin Queued
    /\ charge' = [charge EXCEPT ![r] = "held"]
    /\ exec' = [exec EXCEPT ![r] = "reserved"]
    /\ UNCHANGED <<row, out, beat, tries, list, faults, word, overdue, wronged, cut, push>>

\* AgentRunRepository.start: at enqueue for a queued run, else after the reserve.
Start(r) ==
    /\ \/ exec[r] = "reserved" /\ exec' = [exec EXCEPT ![r] = "started"] /\ UNCHANGED push
       \/ /\ exec[r] = "new" /\ r \in Queued
          /\ exec' = [exec EXCEPT ![r] = "queued"]
          /\ push' = [push EXCEPT ![r].at = "sending"]
    /\ row' = [row EXCEPT ![r] = [status |-> "running", age |-> 0, stamp |-> Never]]
    /\ UNCHANGED <<out, charge, beat, tries, list, faults, word, overdue, wronged, cut>>

Fails(f) == f \in Faults /\ faults < MaxFaults /\ faults' = faults + 1

\* _enqueue_to_arq: the job is pushed, or the push raises.  ARQ may hold the job
\* all the same when only its answer was lost.
Push(r) ==
    /\ push[r].at = "sending"
    /\ \/ push' = [push EXCEPT ![r] = [at |-> "done", held |-> TRUE, lost |-> FALSE]]
          /\ UNCHANGED faults
       \/ /\ Fails("queue")
          /\ \E taken \in BOOLEAN :
                push' = [push EXCEPT ![r] = [at |-> "refused", held |-> taken, lost |-> taken]]
    /\ UNCHANGED <<row, exec, out, charge, beat, tries, list, word, overdue, wronged, cut>>

\* The request takes the run back: runs.finish writes over whatever the row says.
Compensate(r) ==
    /\ push[r].at = "refused"
    /\ push' = [push EXCEPT ![r].at = "failing"]
    /\ row' = [row EXCEPT ![r].status = "failed"]
    /\ UNCHANGED <<exec, out, charge, beat, tries, list, faults, word, overdue, wronged, cut>>

\* Then repo.mark_failed closes the job: no worker starts it any more.
CloseJob(r) ==
    /\ push[r].at = "failing"
    /\ push' = [push EXCEPT ![r].at = "done", ![r].held = FALSE]
    /\ UNCHANGED <<row, exec, out, charge, beat, tries, list, faults, word, overdue, wronged, cut>>

\* The request dies, or a statement of it raises, and what follows is not done.
RequestEnds(r) ==
    /\ Fails("process") \/ Fails("database")
    /\ push[r].at \in {"sending", "refused", "failing"}
    /\ push' = [push EXCEPT ![r].at = "done"]
    /\ UNCHANGED <<row, exec, out, charge, beat, tries, list, word, overdue, wronged, cut>>

Enqueue(r) == Push(r) \/ Compensate(r) \/ CloseJob(r) \/ RequestEnds(r)

\* A worker takes a queued run whose job is open (mark_processing); it does not
\* look at the status of the run's row.
Take(r) ==
    /\ exec[r] = "queued" /\ push[r].held /\ tries[r] < MaxTries
    /\ tries' = [tries EXCEPT ![r] = @ + 1]
    /\ exec' = [exec EXCEPT ![r] = "started"]
    /\ UNCHANGED <<row, out, charge, beat, list, faults, word, wronged, cut, push>>
    /\ NotesOverdue

-----------------------------------------------------------------------------
(* _execute_reserved_run and agent_run_heartbeat. *)

\* The agent is paused: the run fails without being executed.
Paused(r) ==
    /\ exec[r] = "started"
    /\ exec' = [exec EXCEPT ![r] = "tail"]
    /\ out' = [out EXCEPT ![r] = "error"]
    /\ UNCHANGED <<row, charge, beat, tries, list, faults, word, overdue, wronged, cut, push>>

\* The heartbeat thread starts, and the agent with it.
Work(r) ==
    /\ exec[r] = "started"
    /\ exec' = [exec EXCEPT ![r] = "working"]
    /\ beat' = [beat EXCEPT ![r] = "on"]
    /\ UNCHANGED <<row, out, charge, tries, list, faults, word, overdue, wronged, cut, push>>

\* AgentRunRepository.heartbeat: stamps a running row; on any other the thread
\* ends.  A thread told to stop may be in the middle of its last stamp.
Stamp(r) ==
    /\ beat[r] # "off"
    /\ \/ /\ row[r].status = "running"
          /\ row' = [row EXCEPT ![r].stamp = 0]
          /\ beat' = [beat EXCEPT ![r] = IF @ = "leaving" THEN "off" ELSE "on"]
       \/ /\ row[r].status # "running"
          /\ beat' = [beat EXCEPT ![r] = "off"]
          /\ UNCHANGED row
    /\ UNCHANGED <<exec, out, charge, tries, list, faults, word, overdue, wronged, cut, push>>

\* The thread sees that it was told to stop.
StampStops(r) ==
    /\ beat[r] = "leaving"
    /\ beat' = [beat EXCEPT ![r] = "off"]
    /\ UNCHANGED <<row, exec, out, charge, tries, list, faults, word, overdue, wronged, cut, push>>

\* The agent returns or raises: a result; nothing delivered (no change was left,
\* the letter was withheld, no model was called); any other exception.
Leave(r) ==
    /\ exec[r] = "working"
    /\ \E o \in Ends : out' = [out EXCEPT ![r] = o]
    /\ exec' = [exec EXCEPT ![r] = "tail"]
    /\ beat' = [beat EXCEPT ![r] = IF @ = "on" THEN "leaving" ELSE @]
    /\ UNCHANGED <<row, charge, tries, list, faults, word, overdue, wronged, cut, push>>

Says(r) == IF out[r] = "error" THEN "failed" ELSE "completed"

\* AgentRunRepository.finish writes whatever the row says.  Only a run executed
\* in its request goes on to refund or to record the spend.
Finish(r) ==
    /\ exec[r] = "tail"
    /\ row' = [row EXCEPT ![r].status = Says(r)]
    /\ word' = [word EXCEPT ![r] = Says(r)]
    /\ exec' = [exec EXCEPT ![r] = CASE r \in Queued -> "settle"
                                     [] out[r] = "result" -> "spend"
                                     [] OTHER -> "refund"]
    /\ UNCHANGED <<out, charge, beat, tries, list, faults, overdue, wronged, cut, push>>

\* Mutant: only an exception hands the run back.
RefundOnlyErrors(r) ==
    /\ exec[r] = "refund"
    /\ charge' = IF out[r] = "error" THEN [charge EXCEPT ![r] = "refunded"] ELSE charge
    /\ exec' = [exec EXCEPT ![r] = "gone"]
    /\ UNCHANGED <<row, out, beat, tries, list, faults, word, overdue, wronged, cut, push>>

\* _refund_once
Refund(r) ==
    /\ exec[r] = "refund"
    /\ charge' = [charge EXCEPT ![r] = "refunded"]
    /\ exec' = [exec EXCEPT ![r] = "gone"]
    /\ UNCHANGED <<row, out, beat, tries, list, faults, word, overdue, wronged, cut, push>>

\* record_spend
Spend(r) ==
    /\ exec[r] = "spend"
    /\ charge' = [charge EXCEPT ![r] = "spent"]
    /\ exec' = [exec EXCEPT ![r] = "gone"]
    /\ UNCHANGED <<row, out, beat, tries, list, faults, word, overdue, wronged, cut, push>>

\* The worker writes the outcome to the job: ARQ will not start it again.
SettleJob(r) ==
    /\ exec[r] = "settle"
    /\ exec' = [exec EXCEPT ![r] = "gone"]
    /\ out' = [out EXCEPT ![r] = "none"]
    /\ UNCHANGED <<row, charge, beat, tries, list, faults, word, overdue, wronged, cut, push>>

Execute(r) == \/ Paused(r) \/ Work(r) \/ Leave(r) \/ Finish(r)
              \/ Refund(r) \/ Spend(r) \/ SettleJob(r)

-----------------------------------------------------------------------------
(* Faults of the executing code. *)

\* The process that executes r dies; ARQ starts a queued run again.
Crash(r) ==
    /\ Fails("process")
    /\ exec[r] \notin {"new", "queued", "gone"}
    /\ exec' = [exec EXCEPT ![r] = IF r \in Queued THEN "queued" ELSE "gone"]
    /\ beat' = [beat EXCEPT ![r] = "off"]
    /\ cut' = cut \cup ({r} \ Queued)
    /\ UNCHANGED <<row, out, charge, tries, list, word, overdue, wronged, push>>

\* The statement of Start, Finish or Refund raises: what follows it is not
\* done.  A queued run's job then fails and is not started again.
Raises(r) ==
    /\ Fails("database")
    /\ exec[r] \in {"reserved", "tail", "refund", "spend", "settle"}
    /\ exec' = [exec EXCEPT ![r] = "gone"]
    /\ cut' = cut \cup ({r} \ Queued)
    /\ UNCHANGED <<row, out, charge, beat, tries, list, word, overdue, wronged, push>>

-----------------------------------------------------------------------------
(* The watchdog. *)

\* list_abandoned: the oldest rows, at most ListLimit of them.
List(w, limit) ==
    LET abandoned == {r \in Runs : Abandoned(r, limit)} IN
    /\ list[w] = {} /\ abandoned # {}
    /\ \E S \in SUBSET abandoned :
          /\ Cardinality(S) <= ListLimit
          /\ S = abandoned \/ Cardinality(S) = ListLimit
          /\ \A r \in S, q \in abandoned \ S : row[r].age >= row[q].age
          /\ list' = [list EXCEPT ![w] = S]
    /\ UNCHANGED <<row, exec, out, charge, beat, tries, faults, word, overdue, wronged, cut, push>>

\* Mutant: the row is failed whatever its status.
FailUnguarded(w, r) ==
    /\ r \in list[w]
    /\ list' = [list EXCEPT ![w] = @ \ {r}]
    /\ row' = [row EXCEPT ![r].status = "failed"]
    /\ wronged' = IF Executed(r) THEN wronged \cup {r} ELSE wronged
    /\ UNCHANGED <<exec, out, charge, beat, tries, faults, word, overdue, cut, push>>

\* fail_abandoned asks again that the row is running, and not that it is stale.
FailAbandoned(w, r) ==
    /\ r \in list[w]
    /\ list' = [list EXCEPT ![w] = @ \ {r}]
    /\ \/ /\ row[r].status = "running"
          /\ row' = [row EXCEPT ![r].status = "failed"]
          /\ wronged' = IF Executed(r) THEN wronged \cup {r} ELSE wronged
       \/ /\ row[r].status # "running"
          /\ UNCHANGED <<row, wronged>>
    /\ UNCHANGED <<exec, out, charge, beat, tries, faults, word, overdue, cut, push>>

\* The watchdog's process dies, or a statement of its pass raises.
PassEnds(w) ==
    /\ Fails("process") \/ Fails("database")
    /\ list[w] # {}
    /\ list' = [list EXCEPT ![w] = {}]
    /\ UNCHANGED <<row, exec, out, charge, beat, tries, word, overdue, wronged, cut, push>>

Cron(w) == List(w, StaleAfter) \/ \E r \in Runs : FailAbandoned(w, r)

\* reconcile_on_startup: any process may start at any time.
OnStartup(w) == List(w, StartupStale)

-----------------------------------------------------------------------------

Older(n, limit) == IF n < limit THEN n + 1 ELSE limit

Tick ==
    /\ row' = [r \in Runs |->
                 IF row[r].status # "running" THEN row[r]
                 ELSE [row[r] EXCEPT !.age   = Older(@, Ceiling),
                                     !.stamp = IF @ = Never THEN @ ELSE Older(@, StaleAfter)]]
    /\ UNCHANGED <<exec, out, charge, beat, tries, list, faults, word, wronged, cut, push>>
    /\ NotesOverdue

RunNext(r) == \/ Reserve(r) \/ Start(r) \/ Enqueue(r) \/ Take(r) \/ Execute(r)
              \/ Stamp(r) \/ StampStops(r) \/ Crash(r) \/ Raises(r)

Next == \/ \E r \in Runs : RunNext(r)
        \/ \E w \in Watchdogs : Cron(w) \/ OnStartup(w) \/ PassEnds(w)
        \/ Tick

Spec == Init /\ [][Next]_vars

\* Time passes, an agent that was started comes to an end (its calls to a model
\* have budgets), its thread is told to stop, and the cron keeps running.  A
\* worker need not ever take a queued run.
Fairness == /\ WF_vars(Tick)
            /\ \A r \in Runs : WF_vars(Execute(r)) /\ WF_vars(StampStops(r))
            /\ \A w \in Watchdogs : WF_vars(Cron(w))

FairSpec == Spec /\ Fairness

-----------------------------------------------------------------------------
(* Properties. *)

\* A run is failed under the code that executes it only after that code, or
\* the queue before it, has let a threshold pass without a stamp: two
\* watchdogs, a restart and a late stamp included.
LiveRunIsNotReaped == wronged \subseteq overdue

\* Once an executor has written how the run ended, no watchdog, whatever it had
\* listed, and no late stamp changes it.  One writer does: the request that
\* enqueued the run, when the queue took the job and only its answer was lost.
ExecutorHasLastWord ==
    \A r \in Runs : word[r] # "none" =>
        \/ row[r].status = word[r]
        \/ push[r].lost /\ row[r].status = "failed"

\* A run executed in its request stays charged exactly when it gave a result,
\* also when a watchdog had failed its row meanwhile, unless a fault struck.
ChargedForResults ==
    \A r \in Runs \ (Queued \cup cut) :
        exec[r] = "gone" =>
            charge[r] = IF out[r] = "result" THEN "spent" ELSE "refunded"

\* Whatever crashes, no row stays running for ever.
EveryRunEnds == \A r \in Runs : row[r].status = "running" ~> row[r].status \in Terminal

\* AgentRunRepository.fail_abandoned: "whoever writes the terminal state first
\* wins and the other observes False".
FirstTerminalWins ==
    [][\A r \in Runs : row[r].status \in Terminal => row'[r].status = row[r].status]_vars

=============================================================================
