# Aether job agent: formal model of the generation back end

TLA+ model of the Python back end under `src/apps/api/app` (FastAPI, Postgres,
Redis with ARQ workers).  TLC checks the modules on small instances; TLAPS
proves the main results for every instance.  Paths below are relative to
`src/apps/api/app`.

## 1. The system

| part | state | operations | how it meets the others |
|---|---|---|---|
| generation requests (`routers/agents.py`: `_enqueue_single_agent`, `_enqueue_pipeline`, `run_everything`) | none of its own; one handler per request, in a thread pool | admission checks, `reserve`, insert a `BackgroundJob`, push to Redis, compensate a failed push | writes `UsageQuota`, `BackgroundJob`, `AgentRun`, `RunPlan`; pushes to ARQ |
| job rows (`repositories/background_jobs.py`) | `BackgroundJob`: status, result, startedAt, reservation and refund stamps, counters | `create`, `create_singleton`, `mark_processing`, `mark_completed`, `mark_failed`, `refund_single_reservation`, `refund_pipeline_outstanding` | shared by requests, workers, cron and pollers; each call is one transaction |
| quota (`repositories/billing.py`) | `UsageQuota`: period, runsUsed, runsAllowed, spend | `get_or_create`, `reserve`, `refund_run`, `record_spend` | one row per user, shared by all of the user's jobs |
| worker (`workers/tasks.py`, `settings.py`, `queue.py`) | ARQ queue, try counters, coroutines, threads | `run_agent_job`, `sweep_stale_jobs`, other crons | at-least-once delivery, `job_timeout`, `max_tries`, `max_jobs` |
| lazy watchdog (`routers/agents.py`: `_apply_stale_watchdog`) | none | fail and refund a stale row on GET | races with the worker, the cron and other pollers |
| composite jobs (`_pipeline_core`, `execute_run_plan`, `services/run_scheduler`) | reserved and refunded counters, `RunPlan` rows, singleton slots | one reservation per metered step, refunds per step and for the whole job | the body is a thread that outlives its coroutine's timeout |
| agent runs (`repositories/agent_run.py`, `services/agent_run_watchdog.py`, `_record_run` and `_execute_reserved_run` in `routers/agents.py`) | `AgentRun` rows, heartbeat threads | start, heartbeat, finish, list and fail abandoned rows | every run of every agent; the watchdog runs at each start of a process and by cron |
| discovery and run plans (`_enqueue_single_agent`, `run_everything`, `execute_run_plan`, `workers/board_sweep.py`) | `BackgroundJob` rows that claim the singleton slot, `RunPlan` rows | claim, admit, dispatch a step, release, fail stale claims | clicks, plans, the scheduled sweep and two watchdogs act on one slot |
| subscriptions (`routers/billing.py`, `routers/admin.py`, `services/entitlements.py`) | `Subscription`, `StripeEvent`, `UserEntitlementOverride`, the quota's limits | webhook handlers, checkout, price switch, revocation, refund, reconciliation, grants | Stripe owns the truth and tells of it late and out of order |
| event streams (`services/agent_run_stream.py`, `services/workspace_event_stream.py`) | the slots of `StreamSlots`, each stream's deadline, row counts and watermarks | admit, look up, iterate, poll, close, reap | reads the rows that all other parts write |
| database pool (`db.py`) | idle connections, `open`, `leased`, the waiters of a condition | acquire, wait, dial, validate, roll back, release, drop | every statement of every part runs on one of its connections |
| language-model client (`services/llm_client.py`) | the chain of a call, rate-limit streaks, `AgentQuotaBlock` rows, the run's fallback reason | walk the chain, back off, cool a model, record a spent subscription, open the circuit | called by every agent; the routers' gate reads its rows |
| approvals (`repositories/approval.py`, `services/approval_service.py`, `routers/approvals.py`) | `ApprovalRequest`: type, payload, status, createdAt, approvedAt, `executedAt`, `executionCompletedAt` | create, approve, reject, `claim_execution`, `complete_execution`, `release_execution`, delete, purge | a card authorises one e-mail or one submission; claimed by the endpoint, the sweep and the autonomous path |
| submissions (`services/application_submission.py`, `services/apply_executor.py`, `workers/apply_sweep.py`, `agents/submission_agent.py`) | `Application`: status, `submissionTruthState`, `manualStepReason`, `siteSubmittedAt`, `transmittedAt` | send by e-mail, click on the employer's site, poll for the receipt, record the outcome | driven by approvals, agents and the sweep; reads the mailbox |
| tracker and board (`routers/applications.py`, `routers/jobs.py`, `services/stage_transitions.py`, `services/submission_truth.py`, `services/interview_ingest.py`) | the same `Application` row | Apply, "I applied", drag to a column, reconfirm, answer questions | writes the status the sends write too |
| mailboxes, sign-in, administration, sales | see `PROJECT.json` | | |

What is hard here is not any single statement (each is one SQL transaction,
usually a compare-and-set) but what happens *between* them: a request, a worker
coroutine, a five-minute cron and any number of pollers all act on the same row
from reads that may be old; each may die between two of its transactions; ARQ
delivers again after a death and not after a timeout; and the user's quota
counter is moved by increments and decrements that must cancel exactly.

What makes each part correct:

* jobs and quota: a reservation is charged or handed back, never both and never
  twice; the counter counts the runs of its period; a terminal row is final; every job
  ends, and every booking settles;
* composite jobs: the same per step, whatever the thread of an abandoned job does;
* discovery and run plans: two passes, or two plans, run at a time only when the older
  one has outlived its window; a plan's steps are dispatched once; the slot is always freed;
* agent runs: a run is failed under its executor only after a silence, the executor has
  the last word but for one lost reply, every row ends;
* subscriptions: who has paid access is billed for it, and the other way round;
* event streams: the limits hold, no slot is lost, a change is missed only when its
  commit is late or leaves no timestamp, every stream closes;
* database pool: no slot and no connection is lost or shared, no waiter sleeps beside a
  free slot, every request is answered;
* language-model client: no model is substituted that the role does not allow, a
  provider is blamed only for what it did, a disclosed reason belongs to the call;
* approvals: one executor per card; one approval sends one message; nothing is sent
  that is pending or rejected;
* submissions: what the row claims (transmitted, completed, recorded only) is what
  happened, and a receipt that is in the mailbox is in the end recorded.

The hazards, each at its line and with the properties that cover it, are listed
in `PROJECT.json`.

## 2. Plan

All modules of the plan are written:

| module | subject | proofs |
|---|---|---|
| `RunLedger` | the abstract promise of run billing | |
| `GenerationJobs` | single-agent jobs end to end; implements `RunLedger` | `GenerationJobsProofs` |
| `StepLedger` | the abstract promise of a composite's bill | |
| `CompositeJobs` | pipeline and run-plan jobs and their bills; implements `StepLedger` | `CompositeJobsProofs` |
| `ApprovalCards` | the abstract promise of an approval | |
| `Submissions` | the cards of one application and everything that executes them; implements `ApprovalCards` | `SubmissionsProofs` |
| `DiscoveryRuns` | the singleton slot, plan admission, redelivery of plans | `DiscoveryRunsProofs` |
| `AgentRuns` | heartbeats, abandonment, the charge of a run | `AgentRunsProofs` |
| `StripeBilling` | the local copy of a subscription | `StripeBillingProofs` |
| `Leases` | the abstract promise of a pool | |
| `DbPool` | the pool under every statement; implements `Leases` | `ServiceProofs` |
| `EventStreams` | slots, deadlines and watermarks of the streams | `EventStreamsProofs` |
| `LlmClient` | the chain of models and the circuit breaker | `ServiceProofs` |

Each has an `MC` module with the values of its instances, and its configurations.
`DiscoveryRuns` and `CompositeJobs` meet at the body of a run plan: the first says which
bodies run, the second what they are billed for.  `AgentRuns` takes over where
`GenerationJobs` leaves the `AgentRun` row out, and the quota row of `StripeBilling` is
the one whose limits `GenerationJobs` reads.

Left for later: the sales agent's outreach log, suppression list and watermarks, and the mailboxes, are
the parts with state that no module touches.  Worth proving next: an abstract stream
for `EventStreams` and an abstract mutual exclusion for `DiscoveryRuns`, each up to the
exceptions its history names.

## 3. Modules and code

### `GenerationJobs`

One action is one committed transaction or one Redis call.  The program counter of
request `j` is `api[j]`, ARQ's view of job `j` is `task[j]`, `tries[j]`; a watchdog
`w` keeps the rows it has read in `todo[w]` and the refund it has still to do in
`owes[w]`.  The rows are `status`, `result`, `quotaRefundedAt`; the quota row is
`period`, `runsUsed`, `spendUsed`, and `month` is the calendar.

| actions | code |
|---|---|
| `Refuse`, `SkipQuota`, `Reserve`, `QuotaExceeded`, `CapRefund`, `CreateRow`, `Push`, `CompensateRefund`, `CompensateFail` | `_enqueue_single_agent`, in the order of its statements |
| `Claim`, `Finish`, `SettleRefund`, `SettleSpend`, `Timeout`, `GiveUp` | `run_agent_job` and ARQ around it |
| `SweepRead`, `PollRead`, `WatchFail`, `WatchRefund` | `sweep_stale_jobs`, `_apply_stale_watchdog` |
| `RollExpiredPeriod`, `NextMonth` | `get_or_create` and the calendar |
| `RequestDies`, `TaskDies`, `DatabaseFails`, `WatcherDies` | a process or a statement that fails between two transactions |
| `Tick` | time, as ages of the timestamps the windows compare |

Abstractions: all jobs belong to one user (the quota row is all that two jobs
share); a run costs one unit of spend; the stored result is an asset, a refusal or
null; the body of the run is one nondeterministic choice among the four ways
`run_agent_job` can end (`Outcomes`); audit rows (`AgentRun`) are left out because
nothing here reads them.  `bookedIn`, `refunds`, `strays`, `torn` and `orphaned` are
history: no guard reads them.  `strays` counts the refunds that came off the current
period's counter for a run of an earlier period, or for the second time.  `torn` marks a job whose enqueue compensation was cut in two
(the request died between its halves, or the push reached Redis and still raised);
`orphaned` marks a refund or an uninserted reservation whose owner died.

### `CompositeJobs`

The pipeline job and the run-plan job (`PlanJobs`) of one user.  Three actors may act
for job `j` at once: the request (`api[j]`), ARQ's coroutine (`task[j]`, `tries[j]`)
and the *thread* that runs the body (`pc[j]`, `step[j]`); `asyncio.to_thread` keeps the
third alive when `job_timeout` cancels the second, so `task[j] = "gone"` with `pc[j]`
inside a step is a reachable and interesting state.

| actions | code |
|---|---|
| `Admit`, `CreateRow`, `Push`, `CompensateFail`, `CompensatePlan` | `_enqueue_pipeline`, `run_everything` |
| `PlanStart`, `LeaveOut`, `BodyEnds`, `RecordPlan` | `_pipeline_core`, `execute_run_plan`, `execute_plan`: starting, a step that books nothing, the end |
| `ReserveStep`, `QuotaExceeded`, `CapRefund`, `CountReserved`, `RunStep`, `RefundStep`, `CountRefunded` | `_record_run` and `_execute_reserved_run`, one metered step |
| `ExemptStep`, `RunExempt` | the same step while the account is unlimited: `_SpendOnlyQuota` reserves and refunds nothing, but a failure still adds one to the job's refunded counter |
| `Claim`, `GiveUp`, `Complete`, `Fail`, `RefundJob`, `FailRunPlan`, `Timeout` | `run_agent_job` and ARQ around it |
| `Elapse`, `SweepRead`, `PollRead`, `WatchFail`, `WatchRefund` | the two watchdogs |
| `ProcessDies`, `CountingFails`, `StepWriteFails`, `StepStateFails`, `JobWriteFails`, `WatcherDies` | deaths and failing statements, where the code swallows them and where it does not |

Abstractions: what a step computes, and which of the plan's steps are metered, is a
choice (`LeaveOut` against `ReserveStep`); the AgentRun rows are left out; the period
does not roll (that is the subject of `GenerationJobs`); a row's age is the one bit
`late`, which `Elapse` sets only where the windows and the worker's ceiling allow it
(`FirstRunIsNeverStale` of `GenerationJobs`, a theorem, is what justifies the guard).  A process
death is modelled for each job it takes down.  `Exempt` names the jobs of an account
that is unlimited at times: a grant may come or go between two steps, so each of their
steps is exempt or not by choice.  `booked`, `given`, `delivered`, `waived` (the failed
exempt steps that were counted as refunds) and `scars` are history: `scars[j]` names how `j`'s accounting was cut, and every safety
property says which cuts it survives.

### `Submissions`

All cards and all executors of *one* application: no statement of this part touches
two.  An executor `p` is a handler of a request or an agent run (`Requests`) or a pass
of the apply sweep (`Sweepers`); `goal[p]` is the handler, `on[p]` the card in hand,
`pc[p]` its next transaction or act.  A card is `kind`, `status`, `age`, `stamp`, where
`stamp` is `executedAt` and `executionCompletedAt` together (`none`, `claimed`,
`completed`).  The application is `stage` (its status; everything after "submitted" is
"later"), `truth` (is `submissionTruthState` the marker), `manual`, `siteSubmittedAt`,
`transmittedAt`.  `mailed`, `clicked` and `receipt` are the outside world.

| actions | code |
|---|---|
| `Raise`, `Create` (`Insert`, `Refresh`) | `ApprovalRepository.create`, `POST /approvals` |
| `ReadToDecide`, `Decide`, `Mark`, `Rearm` | approve, reject, `_resolve`, `_sync_application`, the marker, the end of `reconfirm_submission` |
| `RequestSubmission`, `AgentGrants`, `Reconfirm`, `Digest`, `Apply`, `Queue` | the handlers that raise a card and grant it themselves |
| `Execute`, `SweepSelect`, `Judge`, `Load`, `Claim` | the endpoint, the sweep's selection and checks, `claim_execution` |
| `MailRefused`, `MailSent`, `MailReplyLost`, `DocumentFails`, `RecordMail` | `_execute_email_send`, `transmit_application`, `record_transmission` |
| `ClickRefused`, `Click`, `Classify`, `BrowserLost`, `Poll`, `PollFails`, `RecordSite`, `RecordPending` | `execute_site_application`, `finish_pending_receipt` |
| `RecordManual`, `Release`, `Complete` | `record_manual_step`, `release_execution`, `complete_execution`, in the order each path has them |
| `RecordSubmission`, `ReadToMove`, `Move`, `InterviewInvite`, `Answer`, `Delete`, `Elapse` | the tracker, the board, the mailbox, the user, the clock |
| `WriteFails`, `MarkFails`, `Dies` | a failing statement where each caller catches it or does not; process death |

A step name ends in the order of what is left: `blockHeld` records a manual step and
then releases, `releaseBlock` releases and then records it, because the code has both
orders.  Abstractions: what the employer's page shows is one choice among the ways an
attempt can end; the channel resolver may answer anything in `Channels`; reasons of a
manual step are the classes the code tells apart (to retry, a receipt to wait for,
something for the user, an expired approval); the match threshold and the operator's
switch are the free choice of `Judge` and `Queue`; a card's age is 0, past the 48 hours
of `EXPIRY_HOURS`, or past the sweep's limit in days.  A document card that is not a
submission (`letter`) is picked by the sweep like any other, as `_PENDING_SELECT` does.
`interrupted`, `reopened` and `unmarked` are history: no guard reads them.

### `DiscoveryRuns`

One user.  `req` is the handler of a click, `row` the `BackgroundJob` row by which a
click or a plan's scout step claims the slot, `plan` the `RunPlan` rows, `task` ARQ's
view and `thread` the thread that `asyncio.to_thread` started, which a timeout does not
stop.

| actions | code |
|---|---|
| `Click`, `FindActive`, `Claim`, `Push`, `PushFails` | the silo-class branch of `_enqueue_single_agent`: `find_active`, `create_singleton`, the push |
| `CronReads`, `FailStale` | `sweep_stale_jobs`, `_apply_stale_watchdog`: what is read, and the write that does not compare it |
| `Admit` | `create_admitted`: release stale plans, look, insert, in one transaction |
| `StartPass`, `EndPass`, `StartPlan`, `DropQueued`, `FinishPlan`, `Timeout`, `ProcessDies` | `run_agent_job`, `execute_run_plan` and ARQ around them |
| `ClaimStep`, `DispatchStep`, `ReleaseStep`, `ReleaseFails` | the slot of a silo-class step of a plan |
| `SweepStarts`, `SweepEnds` | the scheduled sweep, which claims nothing |

`usurped` is history: the claims that a watchdog failed although they had been started
since it read them.  A plan has one scout step; its other steps are one step.

### `AgentRuns`

`exec[r]` is where the code is that executes run `r`, `beat[r]` the heartbeat thread,
`row[r]` the row with the ages of `startedAt` and `heartbeatAt`; one tick is one heartbeat
interval.

| actions | code |
|---|---|
| `Reserve`, `Start`, `Take` | `_record_run`, `AgentRunRepository.start`, a worker that takes a queued run |
| `Push`, `Compensate`, `CloseJob`, `RequestEnds` | the push of a queued run's job; when it raises, `runs.finish(..., "failed")` without a look at the row, then `mark_failed` of the job; a request that ends before them |
| `Paused`, `Work`, `Leave`, `Finish`, `Refund`, `Spend`, `SettleJob` | `_execute_reserved_run`, path by path |
| `Stamp`, `StampStops` | the thread of `agent_run_heartbeat`, its last stamp after the run included |
| `List`, `FailAbandoned`, `PassEnds` | `list_abandoned` (oldest first, limited), `fail_abandoned`, at startup and from the cron |
| `Crash`, `Raises` | a process or a statement that fails |

`push[r]` says where the request is with its push, whether ARQ holds the job, and
whether it does although the push raised (`lost`).  `word`, `overdue`, `wronged` and
`cut` are history.  A queued run's charge is the subject
of `GenerationJobs`.

### `StripeBilling`

`stripe` and `events` are Stripe; `row`, `ceiling`, `override`, `seen` are the rows; `task[w]`
is what a handler has asked of Stripe and not yet written.  `Pay`, `Evolves` are what
customers and Stripe do; `Deliver`, `DeliverRefund` and `Revoke` the webhook;
`AdminRefund`, `AdminRevoke`, `Reconcile`, `Grant`, `ClearGrant`, `SetSpendCap` the
administrator's handlers; `OpenSession`, `AskSwitch`, `SwitchPrice`, `Sync` the checkout; `Fail` a handler
that dies or a transaction that is rolled back.  An event is delivered in any order and
again after a failure.  `ceiling` is the quota's two limits, each named by the plan it
was taken from (`None`: a spend cap the administrator typed), and whether a grant wrote
them.  `Reconcile` may clear the row at any time: `retrieve_customer` turns every error
into "no such customer", so that Stripe's answer guards nothing.  `slips` names what no
handler defends against; each property says which slips it survives.  Left out: usage periods and their reset, the
cancel-at-period-end flag, custom prices, the stamp of a trial's end, the deletion of
local records, the creation of customers, and mails.

### `EventStreams`

`pc[s]` is where the handler or generator of a stream is, `held` the tokens of
`StreamSlots`, `age` and `left` what the reaper and the deadline read.  `Acquire` reaps
and admits; `LookUp`, `Iterate`, `Check`, `ReloadRun`, `ReloadWorkspace` are the generator
between two awaits, each of which takes any number of ticks; `LookUpFails`,
`ReloadFails`, `Disconnect` release the slot and `DropUnstarted` does not, because a
generator that was never iterated runs no `finally`.  What a dashboard watches is
one table, that of the approval cards, which has no `updatedAt`: a transaction fixes
`NOW()` in `Begin` and writes its row in `Commit`, where `Writes` has the repository's
updates, those that stamp a watched column (create, resolve, claim), withdraw one
(`release_execution`) or touch none (the refresh of a pending card, `complete_execution`).
The other watched tables have an `updatedAt` or stamps of their own; the cards meet
every kind of write.

### `DbPool`

One action is one section under the pool's lock or one step outside it.  `Notify` may
pick a waiter whose `wait` has already timed out, as `threading.Condition` does.
`TakeIdle`, `Grow`, `Wait`, `WaitTimesOut`, `Refuse`, `HandOut`, `Recycle`, `Dial`,
`DialFails` are `acquire`; `Leave`, `GiveBack`, `Drop`, `Close` are the end of
`get_connection` and `release`.  `sock` is the connection itself; a connection that
its borrower leaves uncommitted is dirty until it is rolled back.

### `LlmClient`

`place[r]` is where run `r` is in its call, `call[r]` the locals of the call: the chain,
the index into it, the draft, the last error.  `Gate` is the routers' look at the block row, `Begin` a call; `Skip`, `AskModel`,
`Blocked`, `Send` precede the request; `Answered`, `Served`, `Unusable`, `Fails`, `Refused`,
`RateLimited`, `SubscriptionSpent` are the provider's answers; `Note` and `Again` the
streak and the one retry; `RecordQuota`, `Trip`, `OpenCircuit` the writes of the block row;
`NoBudget` a budget that is used up.  Time is left out: a cooldown may end at any moment.
Which of the three kinds of model a run has (default, chosen by the user, operator's) is
the constant-like variable `role`.

### `RunLedger`

A run is `free`, `held`, then `spent` or `returned`; the counter goes up with a
booking, down with a return and to zero with a new period.  A return that comes after its
period comes off the current one's counter and is counted as `late`, because the code's
statement does not look at the period.  `GenerationJobs` implements it under `Lot(j)`, read
off `bookedIn`, `refunds` and `result`, with `strays` for `late` and `bookedIn` for `since`.

### `StepLedger`, `ApprovalCards`, `Leases`

Each says in a page what its implementation promises, and each detailed module instantiates it
under a mapping of its own variables:

| abstract module | implemented by | mapping | up to |
|---|---|---|---|
| `StepLedger`: runs are booked one at a time within the allowance, handed back only while they are there, and left alone from the bill on | `CompositeJobs` | `Kept` (booked less given back), `Billed` (a summary is stored), `runsUsed` | `CountsAreTrue`: no job was ended under its running body and no counting statement was lost |
| `ApprovalCards`: a card is decided once, in one hand at a time, sent under once, and not laid back once something was sent under it | `Submissions` | `Hands` (taken by an executor, kept by its stamp, or free), `status`, `mailed` | `reopened = {}`: no lost reply and no failed browser was taken for "nothing was sent" |
| `Leases`: a thing is lent to one borrower at a time, no more than the capacity at once, the last one is given back first | `DbPool` | `mine`; what waits, is dialled, idle or being closed is lent to nobody | nothing |

The hypotheses of the first two are not idle: without `reopened = {}` TLC finds a card laid
back after its message was sent (section 5), and an overlapped thread that hands its
step back a second time takes a run off the counter that its composite does not have.

## 4. What is checked

| run | question | bounds |
|---|---|---|
| `jobs_safety` | refund at most once, delivery charged, failure refunded, the counter against the runs of its period | two metered jobs, an unmetered one apart, a poller and the cron, every push outcome, one death of any kind, two periods, an allowance of one run |
| `jobs_live` | every booking settles; refinement of `RunLedger` | two metered jobs, an allowance of one run, two periods, one worker slot, two deliveries, two deaths of tasks, watchers or statements |
| `composite` | what the job counters say; a failed or refused composite gives everything back; a completed one pays for what it delivered; every composite ends | one composite of either kind, two metered steps, those of the plan exempt or not, two deliveries, cron and poller, two faults of any kind |
| `submissions_mail` | one message per approval; marker and evidence exclude each other; a claimed submission is explained | two cards of three kinds, a handler and a sweep, the e-mail channel, one fault of any kind, at most two messages per card |
| `submissions_site` | one executor per card; transmission has evidence; a receipt is in the end recorded | one site card, a handler and a sweep, a board column, one fault of any kind, two clicks |
| `submissions_apply_twice` | a claim of a comment that the code does not keep | no faults at all |
| `discovery` | two passes or two plans only after a window; steps dispatched once; the slot is freed | a click, two plans, a sweep, the cron, two deliveries, one fault |
| `agent_runs` | a live run is not reaped; the executor has the last word; charged for results; every run ends | a run in its request and a queued one, two deliveries, a push that fails or whose answer is lost, a watchdog that takes one row at a time, one fault |
| `billing` | access against billing, in both directions; refunds end access; the quota follows the plan | two subscriptions, two plans, two handlers, five events, until the second slip |
| `streams` | the limits; no slot is lost; what can go unreported; every stream closes | three run streams and a dashboard of three users, limits of two and one, two rows, two transactions, the run streams apart from the table |
| `pool` | slots are exact; connections are exclusive; nobody sleeps beside a free slot; every request is answered | three threads, two slots, one idle place, one thread that nests |
| `llm` | substitution; blame; the disclosed reason; a quota row outlives the circuit | two runs with two calls and one, three models of two providers, a threshold of two |

The runs check the properties that a violation of several actors could break; type
invariants are not among them.  Those of `GenerationJobs`, `CompositeJobs` and
`Submissions` are theorems, and so are those of all the other modules.

Why the bounds are enough.  Two jobs contend for the last run and for the only worker
slot; the windows keep their order (`JobTimeout < ProcWindow`) at the smallest values; two
deliveries reach redelivery, one death reaches every cut between two transactions.  Two
cards are needed for a newest card to hide an older one; a handler and the sweep are the
least that race for one claim; `MaxSends = 2` lets a second message or click happen, which
is what must not.  In `discovery` a stale plan, the plan that takes over and a click that
finds the slot taken are three actors.  In `agent_runs` the three thresholds are as close
as their order allows, and `ListLimit = 1` makes the oldest-first order matter.  Five
events are a checkout (two), a change (one or two) and a refund or an end, in any order;
two handlers are the least that race.  In `streams` two transactions are the least whose
commits can swap, two streams of one user meet the user's limit of one, and streams of
three users the limit of two.  In `jobs_live` both jobs contend for one run, the refund of
the one may come after the period rolled and the other booked, and the two periods let a
stale row's refund reach the next one.
Three threads on two slots let one wait while another nests.  Two calls of one run show
a stale reason, and two runs share a row.  What takes more faults at once is left to the
proofs, which bound nothing.

In `composite` either kind of job can be the one whose account is unlimited; the run
exempts the plan, and TLC also finished without an error (1.3 million states) on
the instance that exempts both.

Three configurations cut the state space by a `CONSTRAINT`.  `UnmeteredApart` of
`jobs_safety` lets a third job, one that books nothing, run only while the two metered ones
have not begun; those two are explored in every interleaving.  `OneSlip` of `billing` follows a
behaviour until its second slip: `ChargedHasAccess` and `RefundedHasNoAccess` say nothing
of a behaviour with any slip, so only `AccessIsCharged` and `QuotaFollowsPlan` speak of the
states that are cut off, and their theorems cover them.  `TableApart` of `streams` lets
transactions run only while the dashboard's stream is open and no run stream is: no guard and
no fairness condition of a stream reads the table, whose one property is about one dashboard.
All interleavings of all streams are explored before the first transaction, and a stream
closes or keeps its slot whatever the table holds.

`SYMMETRY` is used in `jobs_safety` (jobs) and `billing` (handlers, plans, subscriptions),
whose elements are interchangeable and which check no liveness.

Deadlock.  `CHECK_DEADLOCK FALSE` stands in `billing`, `streams` and `discovery`: the
customer, the events and the connections of an instance are finite and may be used up,
and in `discovery` and `streams` the clock stops with the ages.  Elsewhere TLC looks for
deadlocks: `Terminating`, `Resting` and `Quiet` are stuttering steps of `CompositeJobs`,
`Submissions` and `LlmClient` that only a finished state may take, so that an actor stuck
between two steps would be found.

Fairness.
* `jobs_live`, `composite`: time passes and the cron fires (`systemd` restarts the worker,
  the cron is scheduled every five minutes); a started request and a started sweep run to
  their end unless they die; ARQ enforces `job_timeout`; a coroutine past its terminal
  write goes on to its refund.  Nothing assumes that a worker picks a job up, that a body
  returns, or that anybody polls.
* `submissions_site`: a started handler runs to its end unless it dies, and the sweep's
  cron keeps selecting; nothing assumes that the employer answers, that the user acts, or
  that any handler is ever called.  It has one card, so a newer card that hides the one
  awaiting its receipt (`_PENDING_SELECT` takes only the newest) is outside that run.
* `discovery`: time passes, the cron reads and writes, ARQ cancels on time, and the two
  statements that claim a step follow each other.  Passes may last for ever.
* `agent_runs`: time passes, an agent that was started comes to an end (its calls have
  budgets), its thread is told to stop, the cron keeps running.  A worker need not ever
  take a queued run.
* `streams`: time passes and the event loop serves every stream.
* `pool`: deadlines pass, and a thread that waits for no other gets the lock.  Nothing
  assumes that a borrower ever returns its connection.
* `billing` and `llm` state no fairness: Stripe may be silent for ever, and the liveness of a
  chain is only that its list is finite.

## 5. What the code does not keep

One comment has a run with a counterexample and an entry under `findings`: the
single-shot claim makes a double-send impossible (`routers/approvals.py`), but the claim is
per card, and applying again raises a new one (`submissions_apply_twice`).

The modules state more such claims of comments and docstrings, next to the properties.
TLC refutes each when its name is put as an INVARIANT (I) or PROPERTY (P) into the named
configuration:

| claim | configuration | what happens instead |
|---|---|---|
| `PlanEndsWithJob` (I) | `composite` | `workers/tasks.py:209-211`: a process death leaves a plan running (`repositories/run_plan.py:368` is only reached by the next admission) |
| `FailedPlanIsNotBilled` (I) | `composite` | `workers/tasks.py:20-21`: the lazy watchdog refunds only pipelines (`routers/agents.py:3222`) |
| `SubmitNeverClickedAgain` (I) | `submissions_site` | `services/apply_executor.py:4403`: the decision to click is read before the claim (`workers/apply_sweep.py:583`) |
| `PlanExcludesSweep` (I) | `discovery` | `routers/agents.py:5403`: the scheduled sweep claims no slot (`:3692`) |
| `LiveRunIsNotStale` (I) | `discovery` | `routers/agents.py:3135-3153` "structurally impossible": a redelivered job keeps its first `startedAt` (`repositories/background_jobs.py:549`) |
| `FirstTerminalWins` (P) | `agent_runs` | `repositories/agent_run.py:567`: `finish` has no guard on the status (`:450-478`) |
| `GrantSurvives` (I) | `billing` | `routers/billing.py:568-572, 930-932`: the sync after `subscription.updated` ignores the grant (`:664-672`) |
| `ReconcileClearsStaleRows` (I) | `billing` | `routers/admin.py:1578-1581` "only when Stripe genuinely shows no live subscription": `retrieve_customer` returns `None` on any exception (`services/stripe_gateway.py:377-380`), and then no subscription is looked for (`:1607-1611`) |
| `OneSubscription` (I) | `billing` | `routers/billing.py:193`: two sessions may be open and paid |
| `ChangeIsReported` (P) | `streams` | `services/workspace_event_stream.py:217`: a transaction that commits after a later one is below the watermark, and an approval that is refreshed, completed or released moves no watched timestamp (`repositories/approval.py:142, 259, 283`) |
| `SocketsWithinMax` (I) | `pool` | `db.py:279` "Never > max_size": the slot is freed (`:368`) before the socket is closed (`:372`) |
| `RefusalIsHonest` (P) | `pool` | `db.py:466-468`: a waiter that timed out does not look at the pool again (`:330-333`) |
| `OperatorAdvancesOnExhaustion` (I) | `llm` | `services/llm_client.py:1607, 3290-3297` "EXHAUSTION SIGNALS ONLY": an answer that the validator rejects advances the chain too (`:3375-3384`) |
| `FallbackIsExplained` (P) | `llm` | `services/llm_client.py:805-811, 904-912`: after rejected drafts the reason is missing or an older call's |
| `QuotaIsLeftUntouched` (P) | `llm` | `services/llm_client.py:1895`: the look and the write are two transactions |

The safety properties state what does hold, with exactly the exceptions the code makes:

* `torn`: a push whose reply is lost, or a request that dies between the compensation's
  refund and its `mark_failed`, lets a completed job be refunded, or a failed one twice;
* `orphaned`: a worker or watchdog that dies between the terminal write and the refund
  leaves a charged failure;
* `strays`: a refund after the period rolled, or a second one, comes off the counter of the
  current period, which then allows one run more than the plan;
* the sweep acts on an old read and may fail a job that was claimed since (`usurped` in
  `DiscoveryRuns`);
* `tries[j] = 1`: a redelivered job keeps its first `startedAt`, so only a first run is
  safe from the processing window;
* `"overlap"` in `scars`: the thread of a composite that a watchdog failed and refunded
  hands its step back a second time; `"abandoned"`: a redelivered pipeline that completes
  never looks at what its first attempt left outstanding;
* `waived`: a failed step of an unlimited account counts as a refund although it reserved
  nothing (`routers/agents.py:1198-1207`); if the account's exemption came or went under the
  job, `refund_pipeline_outstanding` leaves that many of its runs charged;
* `push.lost`: the compensation of a push that ARQ took after all writes "failed" over
  whatever the run's executor wrote (`routers/agents.py:3098`);
* `reopened`: Gmail's lost answer is taken for "no email was sent"
  (`routers/approvals.py:676`), and the endpoint releases its claim when recording the
  send fails (`routers/approvals.py:400`), although `repositories/approval.py:276` says a
  successful execute "can never fire twice";
* a browser that fails after the click is recorded as "nothing was submitted" and its
  card is released (`services/apply_executor.py:4078`);
* `unmarked`: the marker's write fails, or a card was dragged from draft to submitted on
  the board (`services/stage_transitions.py:219`), although
  `services/submission_truth.py:216` says every path writes it;
* `cut`: an in-request run that a fault struck keeps its charge;
* `slips` of `StripeBilling`: overtaken events, refused cancellations, handlers that raced,
  reconciliations that could not read Stripe, and two paid sessions, of which a refund cancels the one that the row names, whichever was
  refunded (`routers/billing.py`, `_revoke_to_free`);
* late commits and writes without a watched timestamp in `EventStreams`;
* `wasted` in `DbPool`: a notify that went to a thread that had given up;
* `late` in `LlmClient`: a quota row written between the breaker's look and its write.

Read off the models and not stated as properties: `record_transmission` leaves an old
manual step on a transmitted row, which `record_manual_step` calls mutually exclusive;
an exception while rendering attachments leaves the claim of a sweep or an autonomous
send for ever; an approved letter card is mailed by the sweep; the sweep does not look
at the application's status, so a rejected application with an approved card is sent.

## 6. What is proved

`GenerationJobsProofs`, for every finite set of jobs, any pollers, windows, tries,
slots and bounds that satisfy the named assumptions:

* `TypeCorrect`: the type invariant, with `runsUsed` inside `0..RunsAllowed`;
* `RefundedOnce`, `DeliveryIsCharged`, `FailureRefunded`: consequences of the
  inductive invariant `BillingInv`.  It ties, job by job, the program counter of the
  request, ARQ's state, the watchdogs' debts, the refund stamp and the refund count:
  who may still refund a job, and that there is at most one such actor with the stamp
  unset.  None of the three properties is inductive alone, because a refund is
  enabled by a debt that only the row's past justifies;
* `CounterFollows`: `runsUsed` against the cardinality of the live reservations, in both
  directions, from `Booking` (a booking is in a period not later than the quota's) and the
  count of the strays;
* `TerminalStays`: an action property from the guards alone;
* `FirstRunNotStale`: from `Aging`, which bounds `startedAge` by `runAge` on a first
  run; the only place where `JobTimeout < ProcWindow` is used;
* `JobsImplementLedger`: the refinement, assuming no request dies and no reply is
  lost; under that assumption `torn` stays empty (`NothingTorn`), every refund is of a
  held lot and is the ledger's `Return`, on time or late.  `RunLedger` is also checked by `jobs_live`.

`CompositeJobsProofs`, for every set of jobs, number of steps, deliveries, pollers and
faults: `TypeCorrect`, and `CountersAreRight`, `NoOverRefund`, `FailureNotBilled`,
`DeliveriesBilled` from one inductive invariant, `AccountingInv`.  `refund_pipeline_outstanding`
is correct only if no step is between its two halves when it runs; the invariant
therefore says, besides what the counters hold (`Counters`, `Refunded`, `Bills`; what is
`Outstanding` on the job against what the composite `Owned`, apart by `waived`), that
a refund belongs to a terminal row (`Debts`), that a terminal row has a body at rest
unless a watchdog overlapped it (`AtRest`), and that nothing touches a row before its
request is done (`Fresh`, `Untouched`).  Each action is shown to keep the invariant of
its own job (`BodyKeepsJob` and its siblings) and, by `JobFrame`, everybody else's.
`AccountingInv` was model-checked on the bounds of the passing runs first.

* `CompositesImplementLedger`: as long as `CountsAreTrue`, every step is a booking, a refund
  or a bill of `StepLedger`, or changes nothing that it sees.  A refund is of runs the composite
  still has (`HandBackStep`), `refund_pipeline_outstanding` hands back all of them
  (`RefundOutstandingStep`), and neither comes after the bill.
* `CounterIsExact`: under the same hypothesis the user's counter equals the number of runs
  that the composites keep, over all of them; `GREATEST(runsUsed - n, 0)` never cuts
  anything off.  The sum over the jobs is the cardinality of a set of numbered runs
  (`RunsOf`), so that one job's change is a finite union (`OneCountChanges`) and no induction
  over the jobs is needed.  The counter of this module has the composites' bookings on it
  and one period; single jobs and a new period are `GenerationJobs`, whose counter
  is bounded by `CounterFollows`.

`SubmissionsProofs`, for every number of cards, any executors, sweeps, kinds, channels
and faults: the type invariant, eight safety invariants and the action property.

* `TypeCorrect`: in four parts (cards, application, executors, world), of which an
  action disturbs one or two.
* `ExecutorsExclude`, `AbandonedStaysClaimed` from `ClaimInv`: whoever holds a card finds
  it claimed or deleted (`HoldersClaimed`).  `release_execution` has no guard, so neither
  property is inductive alone: only because the releasing executor is the one holder,
  and no holder's card is abandoned, does a release never free somebody else's claim.
* `SendsAreApproved`, `NeverMailedTwice` from `SentOnce`: a card that was mailed is
  deleted or still stamped, and if it is in a hand, that hand can only record the message
  or complete the card.
* `TransmissionIsEvidenced`, `CompletionIsProof` from `Grounds` (what an executor at a
  given step may rely on: a site attempt is not about a plain e-mail, `recordSite` means
  a receipt is there, `complete` means the act happened) and `Grows` (the record of what
  happened is never taken back, a row keeps its kind).
* `MarkerIsHonest`, `ClaimsAreExplained` from `MarkInv`: nobody leaves a step that owes
  the marker except by writing it or by a failure that the history names.
* `StaleIsLeft` from `YoungInv` (only an approved card grows stale): the property is
  about steps, and each step that sets out decides, selects, judges or executes a card
  whose age its guard, or `YoungInv`, bounds.
* `SubmissionsImplementApproval`: while no card is reopened, every step is one of
  `ApprovalCards`, or a stutter.  From `ClaimInv` a card has one holder, from
  `SentOnce` a hand that has sent can only record or complete, and each step is of one of
  four sorts: it takes a card, sends, lets go, or leaves every hand as it is
  (`TakeStep`, `SendStep`, `LetGo`, `HandsFrame`).

`NumCards`, the sets of executors and the bounds are arbitrary; the assumptions say only
that they have their types.

`ServiceProofs`, for any threads, sizes of the pool and of its idle set, and depths of
nested leases: `TypeCorrect`, `SlotsExact`, `ConnectionsExclusive`, `NobodyStranded`.  The
invariant `PoolInv` says what the place of a thread means (`Shape`: who has a connection
in hand, who is among the condition's waiters), counts leases as a set of numbered
slots (`Counted`; a sum over the threads would need an induction), and places every
connection once (`Placed`).  `NoStrandedWaiter` is inductive only together with them: one
notify is enough because each step frees one slot.  `PoolImplementsLeases` has no
hypothesis: a step that lends finds a numbered slot that nothing lent has
(`SlotForOneMore`), so that what is lent is the image of fewer than `MaxSize` slots.

The second part of `ServiceProofs`, for any runs, models, providers of models, chains, roles
and thresholds: `LlmTypeCorrect`, `SubstitutionAllowed`, `BlameTrue`,
`ReasonOfThisCall`, `QuotaOutlives`, from `LlmInv`: what the place of a call says of
its chain, its failures and what it has staged (`Walks`), what a run was told and what a
breaker that is about to write has missed (`Answers`), and that a row of a provider has a
cause (`RowsAreTrue`).  A chain that a rescue or an operator's list prolongs keeps its
beginning and gains only models of the list (`ExtendedProlongs`): the chain is a recursive
function, and the lemma is proved by a least index at which it would fail, because
the library's induction theorems cannot be instantiated here.  The two components share a
module only to keep the number of proof modules small; no lemma of the one is used in the other.

`AgentRunsProofs`, for any runs, watchdogs, tries, faults and thresholds in their order:
`TypeCorrect`, `SilenceIsReaped`, `LastWordStands`, `ResultsAreCharged`, from an invariant
run by run: what the place of the executor says of the row (`Placed`), what it said of the
end, unless the compensation of a lost push reply wrote over it (`Worded`), what became
of the charge (`Charged`), and that a listed run was silent
when it was listed, unless only its executor has broken the silence since (`Silent`).

`EventStreamsProofs`, for any connections, limits, lifetimes, tables and transactions:
`TypeCorrect`, `LimitsHold`, `SlotsReturn`, `MissesExplained`.  `SlotInv` counts the slots that
the reaper would keep; `ReadInv` relates what a dashboard has read to the rows: a row
that has changed was written at a time that no earlier reading contains, because no two
transactions have the same one; so a change that moves neither the count nor the watermark is
stamped below it, or its last writer left no stamp.

`DiscoveryRunsProofs`, for any clicks, plans, sweeps, windows in their order, tries and
faults: `TypeCorrect`, `PassesExclude`, `PlansExclude`, `DispatchedOnce`.  `RunsInv` says of
each claimant what it has left behind before it begins (`Begun`), why a pass may run
without its row (`Claimed`), what a watchdog's reading still means (`Found`), and that one
row and one plan are live (`OneLive`).

`StripeBillingProofs`, for any subscriptions, plans, handlers and events: `TypeCorrect`,
`AccessCharged`, `ChargedAccess`, `RefundedAccess`, `QuotaFollows`.  `AccessIsCharged` is an argument about the order of the
events: one that bills is followed by a "deleted" one unless its subscription is live
(`Followed`), and a row that is billable although a "deleted" event was processed owes it
to a later one that bills (`Reopened`); so the last "deleted" event is not processed yet.
`ChargedHasAccess` and `RefundedHasNoAccess` need a second invariant, `Answers`, which holds
as long as none of the five exceptions has happened or become inevitable (`Calm`): the last
event that sets a plan is about the live subscription (`Told`), and it is still to come or
the row says what it said and no handler is about to write anything else (`Heard`); once a
subscription's first event is processed the row names it (`Linked`), so that a refund that
is processed in its turn finds the subscription to cancel (`Due`, `Revoking`).

Only model-checked: liveness (fairness is out of the prover's reach) and the refuted claims.
Only proved: the type invariants, the refinements of `StepLedger`, `ApprovalCards` and
`Leases`, `FirstRunNotStale` and `CounterIsExact`.  TLC agreed with each of them on
instances of its module before it was proved, but no configuration names them.

## 7. Not modelled

The components' notes in `PROJECT.json` say what each module leaves out of its part.  The
modules cover the parts where several actors write the same state.  Most of the rest of the code does
not: text generation and its quality gates, page handling in the browser, parsing of job
boards and mails, reports, and administration and sales are sequential code over data, one
statement per operation, or input and output whose outcome is one nondeterministic choice
here.  The modules stand for a small share of the repository's lines for that reason.

* Mailboxes: the Gmail client is I/O; the digest cron's once-per-day stamp is a single statement.
* Sign-in, password reset, rate limits: single-use tokens are consumed by one conditional
  statement each; the limiter's windows are arithmetic over one process's memory.
* Administration: the other routes are reports and single-statement edits; what the
  administrator does to subscriptions is in `StripeBilling`.
* The sales agent (`agents/sales_agent.py`): its outreach log, suppression list, mailbox
  watermarks and the reservation of LinkedIn slots are left to a later extension.  A model
  of it should first ask two things of the code as it stands: whether the walk through
  a mailbox can stand still (`page_full` is measured before the page is clipped to its
  window, so a page filled by the second below the floor leaves the watermark where it is),
  and how two overlapping runs answer one thread (the reply is sent before the row that
  the unique index guards).
* The order in which a run plan dispatches its agents (`services/run_scheduler/planner.py`)
  is a deterministic sort of a static table, covered by property-based tests (`tests/test_uagi_p1a_scheduler.py`).
