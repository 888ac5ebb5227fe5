-------------------------- MODULE DiscoveryRunsProofs --------------------------
(***************************************************************************)
(* Who may run a discovery pass or a plan, for any clicks, plans, sweeps,  *)
(* windows in their order, tries and faults.                               *)
(***************************************************************************)
EXTENDS DiscoveryRuns, TLAPS

(***************************************************************************)
(* The inductive invariant.                                                *)
(***************************************************************************)
\* What a claimant has not begun leaves no trace, a thread belongs to its row.
Begun(x) ==
    /\ req[x] # "done" => task[x] = "none" /\ thread[x] = "off" /\ tries[x] = 0
    /\ x \in Clicks /\ req[x] \in {"idle", "check", "claim"} => row[x] = "absent"
    /\ x \in Plans /\ req[x] = "idle" => plan[x] = "absent"
    /\ x \in Plans /\ plan[x] \in {"absent", "planned"} =>
          tries[x] = 0 /\ thread[x] = "off" /\ row[x] = "absent"
    /\ task[x] = "queued" => tries[x] < MaxTries /\ thread[x] = "off"

\* The slot of a pass is its own until a watchdog has reason to fail it.
Claimed(x) ==
    /\ thread[x] \in {"step", "claimed", "rest"} => x \in Plans
    /\ thread[x] = "step" => row[x] = "absent"
    /\ thread[x] = "claimed" =>
          /\ row[x] = "enqueued" /\ rowAge[x] = 0
          /\ \A w \in Watchers : found[w].row # x
    /\ Passing(x) =>
          \/ row[x] = "processing"
          \/ row[x] = "ended" /\ (rowAge[x] >= ProcWindow \/ x \in usurped)

\* What a watchdog has read of the row.
Found(x) ==
    \A w \in Watchers : found[w].row = x =>
        /\ row[x] # "absent"
        /\ found[w].status = "processing" =>
              \/ row[x] = "ended"
              \/ row[x] = "processing" /\ rowAge[x] >= ProcWindow

\* A plan that executes is running, or was released past its window.
Planned(x) ==
    x \in Plans /\ Executing(x) =>
        \/ plan[x] = "running"
        \/ plan[x] = "ended" /\ planAge[x] >= ProcWindow

Own(x) == Begun(x) /\ Claimed(x) /\ Found(x) /\ Planned(x)

\* One live claim, one live plan, and a click that has read a row is checking.
OneLive ==
    /\ \A x, y \in Claimants : Live(x) /\ Live(y) => x = y
    /\ \A p, q \in Plans : LivePlan(p) /\ LivePlan(q) => p = q
    /\ \A c \in Clicks : found[c] # Nothing => req[c] = "check"

RunsInv == TypeOK /\ (\A x \in Claimants : Own(x)) /\ OneLive

(***************************************************************************)
(* Types.                                                                  *)
(***************************************************************************)
LEMMA TypeStep ==
    ASSUME TypeOK, \A x \in Claimants : Own(x), [Next]_vars
    PROVE  TypeOK'
<1> USE DiscoveryAssumption DEF TypeOK
<1>p. Plans \subseteq Claimants /\ Clicks \subseteq Claimants /\ Clicks \subseteq Watchers
  BY DEF Claimants, Watchers
<1>1. ASSUME NEW x \in Claimants, Request(x) \/ Work(x) \/ CronReads(x) PROVE TypeOK'
  <2>o. /\ task[x] = "queued" => tries[x] \in 0..MaxTries /\ tries[x] < MaxTries
        /\ 0 \in 0..ProcWindow /\ 0 \in 0..JobTimeout
    BY DEF Own, Begun
  <2>1. CASE Click(x)
    BY <1>p, <2>o, <2>1 DEF Click, claimVars, planVars, taskVars
  <2>2. CASE FindActive(x)
    BY <1>p, <2>o, <2>2 DEF FindActive, Stale, claimVars, planVars, taskVars
  <2>3. CASE Claim(x)
    BY <1>p, <2>o, <2>3 DEF Claim, InsertClaim, claimVars, planVars, taskVars
  <2>4. CASE Push(x)
    BY <1>p, <2>o, <2>4 DEF Push, claimVars, planVars, taskVars
  <2>5. CASE PushFails(x)
    BY <1>p, <2>o, <2>5 DEF PushFails, EndRow, claimVars, planVars, taskVars
  <2>6. CASE x \in Plans /\ Admit(x)
    <3>1. [q \in Plans |-> IF StalePlan(q) THEN "ended" ELSE plan[q]]
             \in [Plans -> {"absent", "planned", "running", "ended"}]
      OBVIOUS
    <3> QED
      BY <1>p, <2>6, <3>1 DEF Admit, claimVars, taskVars
  <2>7. CASE StartPass(x)
    BY <1>p, <2>o, <2>7 DEF StartPass, StartTask, MarkProcessing, claimVars, planVars, taskVars
  <2>8. CASE EndPass(x)
    BY <1>p, <2>o, <2>8 DEF EndPass, ThreadEnds, EndRow, Passing, claimVars, planVars, taskVars
  <2>9. CASE StartPlan(x)
    BY <1>p, <2>o, <2>9 DEF StartPlan, StartTask, claimVars, planVars, taskVars
  <2>10. CASE DropQueued(x)
    BY <1>p, <2>o, <2>10 DEF DropQueued, claimVars, planVars, taskVars
  <2>11. CASE ClaimStep(x)
    BY <1>p, <2>o, <2>11 DEF ClaimStep, InsertClaim, claimVars, planVars, taskVars
  <2>12. CASE DispatchStep(x)
    BY <1>p, <2>o, <2>12 DEF DispatchStep, MarkProcessing, claimVars, planVars, taskVars
  <2>13. CASE ReleaseStep(x)
    BY <1>p, <2>o, <2>13 DEF ReleaseStep, EndRow, Passing, claimVars, planVars, taskVars
  <2>14. CASE ReleaseFails(x)
    BY <1>p, <2>o, <2>14 DEF ReleaseFails, Passing, claimVars, planVars, taskVars
  <2>15. CASE FinishPlan(x)
    BY <1>p, <2>o, <2>15 DEF FinishPlan, ThreadEnds, claimVars, planVars, taskVars
  <2>16. CASE Timeout(x)
    BY <1>p, <2>o, <2>16 DEF Timeout, claimVars, planVars, taskVars
  <2>17. CASE ProcessDies(x)
    BY <1>p, <2>o, <2>17 DEF ProcessDies, claimVars, planVars, taskVars
  <2>18. CASE CronReads(x)
    BY <1>p, <2>o, <2>18 DEF CronReads, Stale, claimVars, planVars, taskVars
  <2> QED
    BY <1>1, <2>1, <2>2, <2>3, <2>4, <2>5, <2>6, <2>7, <2>8, <2>9, <2>10, <2>11, <2>12, <2>13, <2>14, <2>15, <2>16, <2>17, <2>18 DEF Request, Work
<1>2. ASSUME NEW w \in Watchers, FailStale(w) PROVE TypeOK'
  BY <1>2 DEF FailStale, EndRow, planVars, taskVars
<1>3. ASSUME NEW s \in Sweeps, SweepStarts(s) \/ SweepEnds(s) PROVE TypeOK'
  BY <1>3 DEF SweepStarts, SweepEnds, claimVars, planVars, taskVars
<1>4. CASE Tick
  <2>1. \A n \in 0..ProcWindow : Older(n, ProcWindow) \in 0..ProcWindow
    BY DEF Older
  <2>2. rowAge' \in [Claimants -> 0..ProcWindow]
    BY <1>4, <2>1 DEF Tick
  <2>3. planAge' \in [Plans -> 0..ProcWindow]
    BY <1>4, <2>1 DEF Tick
  <2>4. runAge' \in [Claimants -> 0..JobTimeout]
    BY <1>4 DEF Tick
  <2> QED
    BY <1>4, <2>2, <2>3, <2>4 DEF Tick
<1>5. CASE UNCHANGED vars
  BY <1>5 DEF vars, claimVars, planVars, taskVars
<1> QED
  BY <1>1, <1>2, <1>3, <1>4, <1>5 DEF Next

(***************************************************************************)
(* The steps of one claimant leave the others.                             *)
(***************************************************************************)
Untouched(q) ==
    /\ req'[q] = req[q] /\ row'[q] = row[q] /\ rowAge'[q] = rowAge[q]
    /\ task'[q] = task[q] /\ tries'[q] = tries[q] /\ thread'[q] = thread[q]
    /\ q \in Plans => plan'[q] = plan[q] /\ planAge'[q] = planAge[q]
    /\ \A w \in Watchers : found'[w].row = q => found'[w] = found[w]
    /\ q \in usurped => q \in usurped'

LEMMA UntouchedKeeps ==
    ASSUME NEW q \in Claimants, Own(q), Untouched(q)
    PROVE  Own(q)'
<1>1. Begun(q)'
  BY DEF Own, Begun, Untouched
<1>2. Claimed(q)'
  BY DEF Own, Claimed, Untouched, Passing
<1>3. Found(q)'
  BY DEF Own, Found, Untouched
<1>4. Planned(q)'
  BY DEF Own, Planned, Untouched, Executing
<1> QED
  BY <1>1, <1>2, <1>3, <1>4 DEF Own

\* The steps that only touch what is x's.
Local(x) ==
    \/ x \in Clicks /\ (Click(x) \/ Claim(x))
    \/ Push(x) \/ PushFails(x) \/ Work(x)

LEMMA OthersUntouched ==
    ASSUME TypeOK, NEW x \in Claimants, Local(x), NEW q \in Claimants, q # x
    PROVE  Untouched(q)
<1> USE DiscoveryAssumption DEF TypeOK, Untouched, claimVars, planVars, taskVars
<1>p. Plans \subseteq Claimants /\ Clicks \subseteq Claimants
  BY DEF Claimants
<1>1. CASE Click(x)
  BY <1>p, <1>1 DEF Click
<1>2. CASE Claim(x)
  BY <1>p, <1>2 DEF Claim, InsertClaim
<1>3. CASE Push(x)
  BY <1>p, <1>3 DEF Push
<1>4. CASE PushFails(x)
  BY <1>p, <1>4 DEF PushFails, EndRow
<1>5. CASE StartPass(x)
  BY <1>p, <1>5 DEF StartPass, StartTask, MarkProcessing
<1>6. CASE EndPass(x)
  BY <1>p, <1>6 DEF EndPass, ThreadEnds, EndRow, Passing
<1>7. CASE StartPlan(x)
  BY <1>p, <1>7 DEF StartPlan, StartTask
<1>8. CASE DropQueued(x)
  BY <1>p, <1>8 DEF DropQueued
<1>9. CASE ClaimStep(x)
  BY <1>p, <1>9 DEF ClaimStep, InsertClaim
<1>10. CASE DispatchStep(x)
  BY <1>p, <1>10 DEF DispatchStep, MarkProcessing
<1>11. CASE ReleaseStep(x)
  BY <1>p, <1>11 DEF ReleaseStep, EndRow, Passing
<1>12. CASE ReleaseFails(x)
  BY <1>p, <1>12 DEF ReleaseFails, Passing
<1>13. CASE FinishPlan(x)
  BY <1>p, <1>13 DEF FinishPlan, ThreadEnds
<1>14. CASE Timeout(x)
  BY <1>p, <1>14 DEF Timeout
<1>15. CASE ProcessDies(x)
  BY <1>p, <1>15 DEF ProcessDies
<1> QED
  BY <1>1, <1>2, <1>3, <1>4, <1>5, <1>6, <1>7, <1>8, <1>9, <1>10, <1>11, <1>12, <1>13, <1>14, <1>15 DEF Local, Work

LEMMA LocalStep ==
    ASSUME TypeOK, NEW x \in Claimants, Own(x), Local(x)
    PROVE  Own(x)'
<1> USE DiscoveryAssumption
<1>t. /\ row \in [Claimants -> {"absent", "enqueued", "processing", "ended"}]
      /\ rowAge \in [Claimants -> 0..ProcWindow] /\ task \in [Claimants -> {"none", "queued", "running", "gone"}]
      /\ plan \in [Plans -> {"absent", "planned", "running", "ended"}]
      /\ planAge \in [Plans -> 0..ProcWindow] /\ tries \in [Claimants -> 0..MaxTries]
      /\ req \in [Claimants -> {"idle", "check", "claim", "push", "done"}]
      /\ thread \in [Claimants \cup Sweeps -> {"off", "step", "claimed", "pass", "rest"}]
      /\ x \in Plans <=> x \notin Clicks
      /\ x \in Claimants \cup Sweeps
  BY DEF TypeOK, Claimants
<1>1. CASE Click(x)
  <2>1. Begun(x)'
    BY <1>t, <1>1 DEF Click, Own, Begun, Live, claimVars, planVars, taskVars
  <2>2. Claimed(x)'
    BY <1>t, <1>1 DEF Click, Own, Claimed, Found, Begun, Passing, Live, claimVars, planVars, taskVars
  <2>3. Found(x)'
    BY <1>t, <1>1 DEF Click, Own, Found, Begun, Claimed, Live, claimVars, planVars, taskVars
  <2>4. Planned(x)'
    BY <1>t, <1>1 DEF Click, Own, Planned, Begun, Claimed, Executing, Live, claimVars, planVars, taskVars
  <2> QED
    BY <2>1, <2>2, <2>3, <2>4 DEF Own
<1>2. CASE x \in Clicks /\ Claim(x)
  <2>1. Begun(x)'
    BY <1>t, <1>2 DEF Claim, InsertClaim, Own, Begun, Live, claimVars, planVars, taskVars
  <2>2. Claimed(x)'
    BY <1>t, <1>2 DEF Claim, InsertClaim, Own, Claimed, Found, Begun, Passing, Live, claimVars, planVars, taskVars
  <2>3. Found(x)'
    BY <1>t, <1>2 DEF Claim, InsertClaim, Own, Found, Begun, Claimed, Live, claimVars, planVars, taskVars
  <2>4. Planned(x)'
    BY <1>t, <1>2 DEF Claim, InsertClaim, Own, Planned, Begun, Claimed, Executing, Live, claimVars, planVars, taskVars
  <2> QED
    BY <2>1, <2>2, <2>3, <2>4 DEF Own
<1>3. CASE Push(x)
  <2>1. Begun(x)'
    BY <1>t, <1>3 DEF Push, Own, Begun, Live, claimVars, planVars, taskVars
  <2>2. Claimed(x)'
    BY <1>t, <1>3 DEF Push, Own, Claimed, Found, Begun, Passing, Live, claimVars, planVars, taskVars
  <2>3. Found(x)'
    BY <1>t, <1>3 DEF Push, Own, Found, Begun, Claimed, Live, claimVars, planVars, taskVars
  <2>4. Planned(x)'
    BY <1>t, <1>3 DEF Push, Own, Planned, Begun, Claimed, Executing, Live, claimVars, planVars, taskVars
  <2> QED
    BY <2>1, <2>2, <2>3, <2>4 DEF Own
<1>4. CASE PushFails(x)
  <2>u. /\ req'[x] = "done" /\ rowAge'[x] = rowAge[x]
        /\ found' = found /\ usurped' = usurped
        /\ task' = task /\ tries' = tries /\ thread' = thread
        /\ task[x] = "none" /\ tries[x] = 0 /\ thread[x] = "off"
    BY <1>t, <1>4 DEF PushFails, EndRow, Own, Begun, planVars, claimVars, taskVars
  <2>r. row'[x] = IF x \in Clicks /\ Live(x) THEN "ended" ELSE row[x]
    <3>1. CASE x \in Plans
      BY <1>t, <1>4, <3>1 DEF PushFails, claimVars
    <3>2. CASE x \notin Plans
      BY <1>t, <1>4, <3>2 DEF PushFails, EndRow
    <3> QED
      BY <3>1, <3>2
  <2>p. x \in Plans => plan'[x] = "ended"
    BY <1>t, <1>4 DEF PushFails
  <2>1. Begun(x)'
    BY <1>t, <2>u, <2>r, <2>p DEF Begun
  <2>2. Claimed(x)'
    BY <2>u DEF Claimed, Passing
  <2>3. Found(x)'
    BY <1>t, <2>u, <2>r DEF Own, Found, Live
  <2>4. Planned(x)'
    BY <2>u DEF Planned, Executing
  <2> QED
    BY <2>1, <2>2, <2>3, <2>4 DEF Own
<1>5. CASE StartPass(x)
  <2>1. Begun(x)'
    BY <1>t, <1>5 DEF StartPass, StartTask, MarkProcessing, Own, Begun, Live, claimVars, planVars, taskVars
  <2>2. Claimed(x)'
    BY <1>t, <1>5 DEF StartPass, StartTask, MarkProcessing, Own, Claimed, Found, Begun, Passing, Live, claimVars, planVars, taskVars
  <2>3. Found(x)'
    BY <1>t, <1>5 DEF StartPass, StartTask, MarkProcessing, Own, Found, Begun, Claimed, Live, claimVars, planVars, taskVars
  <2>4. Planned(x)'
    BY <1>t, <1>5 DEF StartPass, StartTask, MarkProcessing, Own, Planned, Begun, Claimed, Executing, Live, claimVars, planVars, taskVars
  <2> QED
    BY <2>1, <2>2, <2>3, <2>4 DEF Own
<1>6. CASE EndPass(x)
  <2>1. Begun(x)'
    BY <1>t, <1>6 DEF EndPass, ThreadEnds, EndRow, Passing, Own, Begun, Live, claimVars, planVars, taskVars
  <2>2. Claimed(x)'
    BY <1>t, <1>6 DEF EndPass, ThreadEnds, EndRow, Passing, Own, Claimed, Found, Begun, Live, claimVars, planVars, taskVars
  <2>3. Found(x)'
    BY <1>t, <1>6 DEF EndPass, ThreadEnds, EndRow, Passing, Own, Found, Begun, Claimed, Live, claimVars, planVars, taskVars
  <2>4. Planned(x)'
    BY <1>t, <1>6 DEF EndPass, ThreadEnds, EndRow, Passing, Own, Planned, Begun, Claimed, Executing, Live, claimVars, planVars, taskVars
  <2> QED
    BY <2>1, <2>2, <2>3, <2>4 DEF Own
<1>7. CASE StartPlan(x)
  <2>1. Begun(x)'
    BY <1>t, <1>7 DEF StartPlan, StartTask, Own, Begun, Live, claimVars, planVars, taskVars
  <2>2. Claimed(x)'
    BY <1>t, <1>7 DEF StartPlan, StartTask, Own, Claimed, Found, Begun, Passing, Live, claimVars, planVars, taskVars
  <2>3. Found(x)'
    BY <1>t, <1>7 DEF StartPlan, StartTask, Own, Found, Begun, Claimed, Live, claimVars, planVars, taskVars
  <2>4. Planned(x)'
    BY <1>t, <1>7 DEF StartPlan, StartTask, Own, Planned, Begun, Claimed, Executing, Live, claimVars, planVars, taskVars
  <2> QED
    BY <2>1, <2>2, <2>3, <2>4 DEF Own
<1>8. CASE DropQueued(x)
  <2>1. Begun(x)'
    BY <1>t, <1>8 DEF DropQueued, Own, Begun, Live, claimVars, planVars, taskVars
  <2>2. Claimed(x)'
    BY <1>t, <1>8 DEF DropQueued, Own, Claimed, Found, Begun, Passing, Live, claimVars, planVars, taskVars
  <2>3. Found(x)'
    BY <1>t, <1>8 DEF DropQueued, Own, Found, Begun, Claimed, Live, claimVars, planVars, taskVars
  <2>4. Planned(x)'
    BY <1>t, <1>8 DEF DropQueued, Own, Planned, Begun, Claimed, Executing, Live, claimVars, planVars, taskVars
  <2> QED
    BY <2>1, <2>2, <2>3, <2>4 DEF Own
<1>9. CASE ClaimStep(x)
  <2>1. Begun(x)'
    BY <1>t, <1>9 DEF ClaimStep, InsertClaim, Own, Begun, Live, claimVars, planVars, taskVars
  <2>2. Claimed(x)'
    BY <1>t, <1>9 DEF ClaimStep, InsertClaim, Own, Claimed, Found, Begun, Passing, Live, claimVars, planVars, taskVars
  <2>3. Found(x)'
    BY <1>t, <1>9 DEF ClaimStep, InsertClaim, Own, Found, Begun, Claimed, Live, claimVars, planVars, taskVars
  <2>4. Planned(x)'
    BY <1>t, <1>9 DEF ClaimStep, InsertClaim, Own, Planned, Begun, Claimed, Executing, Live, claimVars, planVars, taskVars
  <2> QED
    BY <2>1, <2>2, <2>3, <2>4 DEF Own
<1>10. CASE DispatchStep(x)
  <2>1. Begun(x)'
    BY <1>t, <1>10 DEF DispatchStep, MarkProcessing, Own, Begun, Live, claimVars, planVars, taskVars
  <2>2. Claimed(x)'
    BY <1>t, <1>10 DEF DispatchStep, MarkProcessing, Own, Claimed, Found, Begun, Passing, Live, claimVars, planVars, taskVars
  <2>3. Found(x)'
    BY <1>t, <1>10 DEF DispatchStep, MarkProcessing, Own, Found, Begun, Claimed, Live, claimVars, planVars, taskVars
  <2>4. Planned(x)'
    BY <1>t, <1>10 DEF DispatchStep, MarkProcessing, Own, Planned, Begun, Claimed, Executing, Live, claimVars, planVars, taskVars
  <2> QED
    BY <2>1, <2>2, <2>3, <2>4 DEF Own
<1>11. CASE ReleaseStep(x)
  <2>1. Begun(x)'
    BY <1>t, <1>11 DEF ReleaseStep, EndRow, Passing, Own, Begun, Live, claimVars, planVars, taskVars
  <2>2. Claimed(x)'
    BY <1>t, <1>11 DEF ReleaseStep, EndRow, Passing, Own, Claimed, Found, Begun, Live, claimVars, planVars, taskVars
  <2>3. Found(x)'
    BY <1>t, <1>11 DEF ReleaseStep, EndRow, Passing, Own, Found, Begun, Claimed, Live, claimVars, planVars, taskVars
  <2>4. Planned(x)'
    BY <1>t, <1>11 DEF ReleaseStep, EndRow, Passing, Own, Planned, Begun, Claimed, Executing, Live, claimVars, planVars, taskVars
  <2> QED
    BY <2>1, <2>2, <2>3, <2>4 DEF Own
<1>12. CASE ReleaseFails(x)
  <2>1. Begun(x)'
    BY <1>t, <1>12 DEF ReleaseFails, Passing, Own, Begun, Live, claimVars, planVars, taskVars
  <2>2. Claimed(x)'
    BY <1>t, <1>12 DEF ReleaseFails, Passing, Own, Claimed, Found, Begun, Live, claimVars, planVars, taskVars
  <2>3. Found(x)'
    BY <1>t, <1>12 DEF ReleaseFails, Passing, Own, Found, Begun, Claimed, Live, claimVars, planVars, taskVars
  <2>4. Planned(x)'
    BY <1>t, <1>12 DEF ReleaseFails, Passing, Own, Planned, Begun, Claimed, Executing, Live, claimVars, planVars, taskVars
  <2> QED
    BY <2>1, <2>2, <2>3, <2>4 DEF Own
<1>13. CASE FinishPlan(x)
  <2>1. Begun(x)'
    BY <1>t, <1>13 DEF FinishPlan, ThreadEnds, Own, Begun, Live, claimVars, planVars, taskVars
  <2>2. Claimed(x)'
    BY <1>t, <1>13 DEF FinishPlan, ThreadEnds, Own, Claimed, Found, Begun, Passing, Live, claimVars, planVars, taskVars
  <2>3. Found(x)'
    BY <1>t, <1>13 DEF FinishPlan, ThreadEnds, Own, Found, Begun, Claimed, Live, claimVars, planVars, taskVars
  <2>4. Planned(x)'
    BY <1>t, <1>13 DEF FinishPlan, ThreadEnds, Own, Planned, Begun, Claimed, Executing, Live, claimVars, planVars, taskVars
  <2> QED
    BY <2>1, <2>2, <2>3, <2>4 DEF Own
<1>14. CASE Timeout(x)
  <2>1. Begun(x)'
    BY <1>t, <1>14 DEF Timeout, Own, Begun, Live, claimVars, planVars, taskVars
  <2>2. Claimed(x)'
    BY <1>t, <1>14 DEF Timeout, Own, Claimed, Found, Begun, Passing, Live, claimVars, planVars, taskVars
  <2>3. Found(x)'
    BY <1>t, <1>14 DEF Timeout, Own, Found, Begun, Claimed, Live, claimVars, planVars, taskVars
  <2>4. Planned(x)'
    BY <1>t, <1>14 DEF Timeout, Own, Planned, Begun, Claimed, Executing, Live, claimVars, planVars, taskVars
  <2> QED
    BY <2>1, <2>2, <2>3, <2>4 DEF Own
<1>15. CASE ProcessDies(x)
  <2>1. Begun(x)'
    BY <1>t, <1>15 DEF ProcessDies, Own, Begun, Live, claimVars, planVars, taskVars
  <2>2. Claimed(x)'
    BY <1>t, <1>15 DEF ProcessDies, Own, Claimed, Found, Begun, Passing, Live, claimVars, planVars, taskVars
  <2>3. Found(x)'
    BY <1>t, <1>15 DEF ProcessDies, Own, Found, Begun, Claimed, Live, claimVars, planVars, taskVars
  <2>4. Planned(x)'
    BY <1>t, <1>15 DEF ProcessDies, Own, Planned, Begun, Claimed, Executing, Live, claimVars, planVars, taskVars
  <2> QED
    BY <2>1, <2>2, <2>3, <2>4 DEF Own
<1> QED
  BY <1>1, <1>2, <1>3, <1>4, <1>5, <1>6, <1>7, <1>8, <1>9, <1>10, <1>11, <1>12, <1>13, <1>14, <1>15 DEF Local, Work

(***************************************************************************)
(* The steps of the watchdogs, of the admission, and of time.              *)
(***************************************************************************)
LEMMA ReadStep ==
    ASSUME TypeOK, \A x \in Claimants : Own(x),
           NEW w \in Watchers, NEW y \in Claimants, Stale(y),
           found' = [found EXCEPT ![w] = [row |-> y, status |-> row[y]]],
           UNCHANGED <<req, claimVars, planVars, taskVars, thread, usurped>>,
           NEW q \in Claimants
    PROVE  Own(q)'
<1>f. \A v \in Watchers : found'[v] = IF v = w THEN [row |-> y, status |-> row[y]] ELSE found[v]
  BY DEF TypeOK
<1>u. /\ req' = req /\ row' = row /\ rowAge' = rowAge /\ plan' = plan /\ planAge' = planAge
      /\ task' = task /\ tries' = tries /\ thread' = thread /\ usurped' = usurped
  BY DEF claimVars, planVars, taskVars
<1>0. Own(q)
  OBVIOUS
<1>1. Begun(q)'
  BY <1>0, <1>u DEF Own, Begun
<1>2. Claimed(q)'
  <2>1. thread[q] = "claimed" => q # y
    BY <1>0, DiscoveryAssumption DEF Own, Claimed, Stale
  <2> QED
    BY <1>0, <1>u, <1>f, <2>1 DEF Own, Claimed, Passing
<1>3. Found(q)'
  BY <1>0, <1>u, <1>f DEF Own, Found, Stale
<1>4. Planned(q)'
  BY <1>0, <1>u DEF Own, Planned, Executing
<1> QED
  BY <1>1, <1>2, <1>3, <1>4 DEF Own

LEMMA FindStep ==
    ASSUME TypeOK, \A x \in Claimants : Own(x), NEW c \in Clicks, FindActive(c),
           NEW q \in Claimants
    PROVE  Own(q)'
<1>c. c \in Claimants /\ c \in Watchers /\ c \notin Plans
  BY DiscoveryAssumption DEF Claimants, Watchers
<1>1. CASE \E y \in Claimants :
              /\ Stale(y)
              /\ found' = [found EXCEPT ![c] = [row |-> y, status |-> row[y]]]
              /\ UNCHANGED req
  BY <1>1, <1>c, ReadStep DEF FindActive
<1>2. CASE UNCHANGED found /\ (req' = [req EXCEPT ![c] = "claim"] \/ req' = [req EXCEPT ![c] = "done"])
  <2>u. /\ row' = row /\ rowAge' = rowAge /\ plan' = plan /\ planAge' = planAge
        /\ task' = task /\ tries' = tries /\ thread' = thread /\ usurped' = usurped
        /\ found' = found
    BY <1>2 DEF FindActive, claimVars, planVars, taskVars
  <2>r. req[c] = "check" /\ req' \in [Claimants -> {"idle", "check", "claim", "push", "done"}]
        /\ (q # c => req'[q] = req[q]) /\ req'[c] \in {"claim", "done"}
    BY <1>2, <1>c DEF FindActive, TypeOK
  <2>0. Own(q)
    OBVIOUS
  <2>1. Begun(q)'
    BY <1>c, <2>0, <2>u, <2>r DEF Own, Begun
  <2>2. Claimed(q)' /\ Found(q)' /\ Planned(q)'
    BY <2>0, <2>u DEF Own, Claimed, Found, Planned, Passing, Executing
  <2> QED
    BY <2>1, <2>2 DEF Own
<1> QED
  BY <1>1, <1>2 DEF FindActive

LEMMA AdmitStep ==
    ASSUME TypeOK, \A x \in Claimants : Own(x), NEW p \in Plans, Admit(p),
           NEW q \in Claimants
    PROVE  Own(q)'
<1>p. p \in Claimants /\ p \notin Clicks
  BY DiscoveryAssumption DEF Claimants
<1>u. /\ row' = row /\ rowAge' = rowAge /\ planAge' = planAge
      /\ task' = task /\ tries' = tries /\ thread' = thread /\ usurped' = usurped
      /\ found' = found
  BY DEF Admit, claimVars, taskVars
<1>0. Own(q) /\ Own(p)
  BY <1>p
<1>r. /\ req[p] = "idle" /\ plan[p] = "absent" /\ req'[p] \in {"push", "done"}
      /\ q # p => req'[q] = req[q]
  BY <1>p, <1>0 DEF Admit, Own, Begun, TypeOK
<1>a. /\ plan'[p] \in {"absent", "planned"}
      /\ q \in Plans /\ q # p => plan'[q] = IF StalePlan(q) THEN "ended" ELSE plan[q]
  <2> DEFINE released == [s \in Plans |-> IF StalePlan(s) THEN "ended" ELSE plan[s]]
  <2>1. released[p] = "absent"
    BY <1>r DEF StalePlan
  <2>2. plan' = released \/ plan' = [released EXCEPT ![p] = "planned"]
    BY DEF Admit
  <2> QED
    BY <2>1, <2>2
<1>1. Begun(q)'
  BY <1>p, <1>0, <1>u, <1>r, <1>a DEF Own, Begun, StalePlan
<1>2. Claimed(q)' /\ Found(q)'
  BY <1>0, <1>u DEF Own, Claimed, Found, Passing
<1>3. Planned(q)'
  BY <1>0, <1>u, <1>r, <1>a DEF Own, Begun, Planned, Executing, StalePlan
<1> QED
  BY <1>1, <1>2, <1>3 DEF Own

LEMMA FailStep ==
    ASSUME RunsInv, NEW w \in Watchers, FailStale(w), NEW q \in Claimants
    PROVE  Own(q)'
<1> DEFINE r == found[w].row
<1>t. TypeOK /\ r \in Claimants /\ found[w].status \in {"enqueued", "processing"}
  BY DEF RunsInv, TypeOK, FailStale
<1>u. /\ rowAge' = rowAge /\ plan' = plan /\ planAge' = planAge
      /\ task' = task /\ tries' = tries /\ thread' = thread
      /\ row'[q] = IF q = r /\ Live(q) THEN "ended" ELSE row[q]
      /\ usurped \subseteq usurped'
      /\ r \in usurped' \/ ~(row[r] = "processing" /\ found[w].status = "enqueued")
  BY <1>t DEF FailStale, EndRow, planVars, taskVars, TypeOK
<1>f. \A v \in Watchers : found'[v].row = q => v # w /\ found'[v] = found[v]
  BY DiscoveryAssumption DEF FailStale, Nothing, RunsInv, TypeOK
<1>0. Own(q)
  BY DEF RunsInv
<1>r. \/ req'[q] = req[q]
      \/ q \in Clicks /\ req[q] = "check" /\ req'[q] = "claim"
  BY DiscoveryAssumption DEF FailStale, RunsInv, OneLive, Claimants, Watchers
<1>1. Begun(q)'
  BY <1>0, <1>u, <1>r, DiscoveryAssumption DEF Own, Begun, Live
<1>2. Claimed(q)'
  BY <1>0, <1>t, <1>u, <1>f DEF Own, Claimed, Found, Passing, Live, TypeOK
<1>3. Found(q)'
  BY <1>0, <1>u, <1>f DEF Own, Found
<1>4. Planned(q)'
  BY <1>0, <1>u DEF Own, Planned, Executing
<1> QED
  BY <1>1, <1>2, <1>3, <1>4 DEF Own

LEMMA TickStep ==
    ASSUME TypeOK, \A x \in Claimants : Own(x), Tick, NEW q \in Claimants
    PROVE  Own(q)'
<1>u. /\ req' = req /\ row' = row /\ plan' = plan /\ task' = task /\ tries' = tries
      /\ thread' = thread /\ found' = found /\ usurped' = usurped
  BY DEF Tick
<1>0. Own(q)
  OBVIOUS
<1>c. thread[q] # "claimed"
  BY <1>0 DEF Tick, Own, Claimed
<1>a. /\ rowAge[q] \in Nat /\ ProcWindow \in Nat
      /\ Live(q) \/ Passing(q) => rowAge'[q] = Older(rowAge[q], ProcWindow)
      /\ q \in Plans /\ (LivePlan(q) \/ Executing(q)) =>
             planAge[q] \in Nat /\ planAge'[q] = Older(planAge[q], ProcWindow)
  BY DiscoveryAssumption DEF Tick, TypeOK
<1>1. Begun(q)'
  BY <1>0, <1>u DEF Own, Begun
<1>2. Claimed(q)'
  BY <1>0, <1>u, <1>c, <1>a DEF Own, Claimed, Passing, Older
<1>3. Found(q)'
  BY <1>0, <1>u, <1>a DEF Own, Found, Live, Older
<1>4. Planned(q)'
  BY <1>0, <1>u, <1>a DEF Own, Planned, Executing, LivePlan, Older
<1> QED
  BY <1>1, <1>2, <1>3, <1>4 DEF Own

LEMMA OwnStep ==
    ASSUME RunsInv, [Next]_vars, NEW q \in Claimants
    PROVE  Own(q)'
<1>0. TypeOK /\ (\A x \in Claimants : Own(x))
  BY DEF RunsInv
<1>1. ASSUME NEW x \in Claimants, Local(x) PROVE Own(q)'
  BY <1>0, <1>1, LocalStep, OthersUntouched, UntouchedKeeps
<1>2. ASSUME NEW c \in Clicks, FindActive(c) PROVE Own(q)'
  BY <1>0, <1>2, FindStep
<1>3. ASSUME NEW p \in Plans, Admit(p) PROVE Own(q)'
  BY <1>0, <1>3, AdmitStep
<1>4. ASSUME NEW x \in Claimants, CronReads(x) PROVE Own(q)'
  BY <1>0, <1>4, ReadStep DEF CronReads, Watchers
<1>5. ASSUME NEW w \in Watchers, FailStale(w) PROVE Own(q)'
  BY <1>5, FailStep
<1>6. ASSUME NEW s \in Sweeps, SweepStarts(s) \/ SweepEnds(s) PROVE Own(q)'
  <2>1. Untouched(q)
    BY <1>0, <1>6, DiscoveryAssumption
    DEF SweepStarts, SweepEnds, Untouched, TypeOK, claimVars, planVars, taskVars
  <2> QED
    BY <1>0, <2>1, UntouchedKeeps
<1>7. CASE Tick
  BY <1>0, <1>7, TickStep
<1>8. CASE UNCHANGED vars
  BY <1>0, <1>8, UntouchedKeeps DEF vars, Untouched, claimVars, planVars, taskVars
<1> QED
  BY <1>1, <1>2, <1>3, <1>4, <1>5, <1>6, <1>7, <1>8 DEF Next, Request, Local

(***************************************************************************)
(* One live claim and one live plan.                                       *)
(***************************************************************************)
\* A step that brings nothing to life.
Quiet ==
    /\ \A y \in Claimants : Live(y)' => Live(y)
    /\ \A p \in Plans : LivePlan(p)' => LivePlan(p)
    /\ \A c \in Clicks : found'[c] # Nothing => found[c] # Nothing /\ req'[c] = req[c]

LEMMA QuietKeeps ==
    ASSUME OneLive, Quiet PROVE OneLive'
BY DEF OneLive, Quiet

LEMMA OneLiveStep ==
    ASSUME RunsInv, [Next]_vars
    PROVE  OneLive'
<1> USE DEF RunsInv, TypeOK, claimVars, planVars, taskVars
<1>p. /\ Plans \subseteq Claimants /\ Clicks \subseteq Claimants /\ Clicks \subseteq Watchers
      /\ Clicks \cap Plans = {}
  BY DiscoveryAssumption DEF Claimants, Watchers
<1>o. \A c \in Clicks : found[c] # Nothing => req[c] = "check"
  BY DEF OneLive
<1>1. ASSUME NEW c \in Clicks, Click(c) PROVE Quiet
  BY <1>p, <1>o, <1>1 DEF Click, Quiet, Live, LivePlan
<1>2. ASSUME NEW x \in Claimants, Push(x) PROVE Quiet
  BY <1>p, <1>o, <1>2 DEF Push, Quiet, Live, LivePlan
<1>3. ASSUME NEW x \in Claimants, PushFails(x) PROVE Quiet
  <2>1. CASE x \in Plans
    BY <1>p, <1>o, <1>3, <2>1 DEF PushFails, Quiet, Live, LivePlan
  <2>2. CASE x \notin Plans
    BY <1>p, <1>o, <1>3, <2>2 DEF PushFails, EndRow, Quiet, Live, LivePlan
  <2> QED
    BY <2>1, <2>2
<1>4. ASSUME NEW x \in Claimants, StartPass(x) PROVE Quiet
  BY <1>p, <1>4 DEF StartPass, StartTask, MarkProcessing, Quiet, Live, LivePlan
<1>5. ASSUME NEW x \in Claimants, EndPass(x) \/ ReleaseStep(x) PROVE Quiet
  BY <1>p, <1>5 DEF EndPass, ReleaseStep, ThreadEnds, EndRow, Quiet, Live, LivePlan
<1>6. ASSUME NEW x \in Claimants, StartPlan(x) PROVE Quiet
  BY <1>p, <1>6 DEF StartPlan, StartTask, Quiet, Live, LivePlan
<1>7. ASSUME NEW x \in Claimants, DispatchStep(x) PROVE Quiet
  BY <1>p, <1>7 DEF DispatchStep, MarkProcessing, Quiet, Live, LivePlan
<1>8. ASSUME NEW x \in Claimants,
             \/ DropQueued(x) \/ ReleaseFails(x) \/ Timeout(x) \/ ProcessDies(x) \/ FinishPlan(x)
      PROVE  Quiet
  BY <1>p, <1>8 DEF DropQueued, ReleaseFails, Timeout, ProcessDies, FinishPlan, ThreadEnds,
                    Quiet, Live, LivePlan
<1>9. ASSUME NEW w \in Watchers, FailStale(w) PROVE Quiet
  BY <1>p, <1>9 DEF FailStale, EndRow, Quiet, Live, LivePlan
<1>10. ASSUME NEW x \in Claimants, CronReads(x) PROVE Quiet
  BY <1>p, <1>10, DiscoveryAssumption DEF CronReads, Quiet, Live, LivePlan
<1>11. CASE Tick \/ UNCHANGED vars \/ (\E s \in Sweeps : SweepStarts(s) \/ SweepEnds(s))
  <2>1. Quiet
    BY <1>11 DEF Tick, vars, SweepStarts, SweepEnds, Quiet, Live, LivePlan
  <2> QED
    BY <2>1, QuietKeeps
<1>12. ASSUME NEW x \in Claimants, InsertClaim(x),
              UNCHANGED <<plan, found>>,
              req' = req \/ (req[x] = "claim" /\ req' = [req EXCEPT ![x] = "push"])
       PROVE  OneLive'
  <2>1. \A y \in Claimants : Live(y)' => y = x
    BY <1>12 DEF InsertClaim, Live
  <2>2. \A c \in Clicks : found'[c] # Nothing => req'[c] = "check"
    BY <1>p, <1>o, <1>12
  <2> QED
    BY <1>12, <2>1, <2>2 DEF OneLive, LivePlan
<1>13. ASSUME NEW c \in Clicks, Claim(c) PROVE OneLive'
  <2>1. CASE InsertClaim(c) /\ req' = [req EXCEPT ![c] = "push"]
    BY <1>p, <1>13, <1>12, <2>1 DEF Claim
  <2>2. CASE UNCHANGED claimVars /\ req' = [req EXCEPT ![c] = "done"]
    <3>1. Quiet
      BY <1>p, <1>o, <1>13, <2>2 DEF Claim, Quiet, Live, LivePlan
    <3> QED
      BY <3>1, QuietKeeps
  <2> QED
    BY <1>13, <2>1, <2>2 DEF Claim
<1>14. ASSUME NEW x \in Claimants, ClaimStep(x) PROVE OneLive'
  <2>1. CASE InsertClaim(x)
    BY <1>14, <1>12, <2>1 DEF ClaimStep
  <2>2. CASE UNCHANGED claimVars
    <3>1. Quiet
      BY <1>14, <2>2 DEF ClaimStep, Quiet, Live, LivePlan
    <3> QED
      BY <3>1, QuietKeeps
  <2> QED
    BY <1>14, <2>1, <2>2 DEF ClaimStep
<1>15. ASSUME NEW c \in Clicks, FindActive(c) PROVE OneLive'
  <2>1. \A d \in Clicks : found'[d] # Nothing => req'[d] = "check"
    BY <1>p, <1>o, <1>15 DEF FindActive
  <2> QED
    BY <1>15, <2>1 DEF FindActive, OneLive, Live, LivePlan
<1>16. ASSUME NEW p \in Plans, Admit(p) PROVE OneLive'
  <2> DEFINE released == [q \in Plans |-> IF StalePlan(q) THEN "ended" ELSE plan[q]]
  <2>1. \A q \in Plans : released[q] \in {"planned", "running"} => LivePlan(q)
    BY DEF LivePlan
  <2>2. \A c \in Clicks : found'[c] # Nothing => req'[c] = "check"
    BY <1>p, <1>o, <1>16 DEF Admit
  <2>3. \A q, s \in Plans : LivePlan(q)' /\ LivePlan(s)' => q = s
    <3>1. CASE \E q \in Plans : released[q] \in {"planned", "running"}
      <4>1. plan' = released
        BY <1>16, <3>1 DEF Admit
      <4>2. \A q \in Plans : LivePlan(q)' => LivePlan(q)
        BY <2>1, <4>1 DEF LivePlan
      <4> QED
        BY <4>2 DEF OneLive
    <3>2. CASE ~ \E q \in Plans : released[q] \in {"planned", "running"}
      <4>1. plan' = [released EXCEPT ![p] = "planned"]
        BY <1>16, <3>2 DEF Admit
      <4>2. \A q \in Plans : LivePlan(q)' => q = p
        BY <3>2, <4>1 DEF LivePlan
      <4> QED
        BY <4>2
    <3> QED
      BY <3>1, <3>2
  <2> QED
    BY <1>16, <2>2, <2>3 DEF Admit, OneLive, Live
<1> QED
  BY <1>1, <1>2, <1>3, <1>4, <1>5, <1>6, <1>7, <1>8, <1>9, <1>10, <1>11, <1>13, <1>14,
     <1>15, <1>16, QuietKeeps DEF Next, Request, Work

(***************************************************************************)
(* The theorems.                                                           *)
(***************************************************************************)
LEMMA RunsInit == Init => RunsInv
<1> SUFFICES ASSUME Init PROVE RunsInv
  OBVIOUS
<1> USE DiscoveryAssumption DEF Init
<1>1. TypeOK
  BY DEF TypeOK
<1>2. \A w \in Watchers : found[w].row \notin Claimants
  BY DEF Nothing
<1>3. ASSUME NEW x \in Claimants PROVE Own(x)
  BY <1>2 DEF Own, Begun, Claimed, Found, Planned, Passing, Executing
<1>4. OneLive
  BY DEF OneLive, Live, LivePlan, Watchers
<1> QED
  BY <1>1, <1>3, <1>4 DEF RunsInv

\* The invariant that the rest is read off: what a claim, a watchdog's reading
\* and a plan's thread mean for each other.
THEOREM RunsInvariant == Spec => []RunsInv
<1>1. RunsInv /\ [Next]_vars => RunsInv'
  BY TypeStep, OwnStep, OneLiveStep DEF RunsInv
<1> QED
  BY <1>1, RunsInit, PTL DEF Spec

\* Every variable keeps its type: ages stay inside their windows, and ARQ never
\* delivers a job more often than max_tries.
THEOREM TypeCorrect == Spec => []TypeOK
<1>1. RunsInv => TypeOK
  BY DEF RunsInv
<1> QED
  BY <1>1, RunsInvariant, PTL

\* create_singleton and the watchdogs: two passes run at a time only when one has
\* outlived the window of its claim, or was failed on a reading older than its start.
THEOREM PassesExclude == Spec => []OnePassWithinWindow
<1>1. RunsInv => OnePassWithinWindow
  <2> SUFFICES ASSUME RunsInv, NEW x \in Claimants, NEW y \in Claimants,
                      x # y, Passing(x), Passing(y)
               PROVE  \E z \in {x, y} : rowAge[z] >= ProcWindow \/ z \in usurped
    BY DEF OnePassWithinWindow
  <2>1. ~Live(x) \/ ~Live(y)
    BY DEF RunsInv, OneLive
  <2>2. Claimed(x) /\ Claimed(y)
    BY DEF RunsInv, Own
  <2> QED
    BY <2>1, <2>2 DEF Claimed, Live
<1> QED
  BY <1>1, RunsInvariant, PTL

\* create_admitted and mark_running: two plans execute at a time only when one has
\* outlived the window of its row.
THEOREM PlansExclude == Spec => []OnePlanWithinWindow
<1>1. RunsInv => OnePlanWithinWindow
  <2> SUFFICES ASSUME RunsInv, NEW p \in Plans, NEW q \in Plans,
                      p # q, Executing(p), Executing(q)
               PROVE  planAge[p] >= ProcWindow \/ planAge[q] >= ProcWindow
    BY DEF OnePlanWithinWindow
  <2>1. ~LivePlan(p) \/ ~LivePlan(q)
    BY DEF RunsInv, OneLive
  <2>2. Planned(p) /\ Planned(q)
    BY DEF RunsInv, Own, Claimants
  <2> QED
    BY <2>1, <2>2 DEF Planned, LivePlan
<1> QED
  BY <1>1, RunsInvariant, PTL

\* mark_running: whatever the queue delivers again, a plan's steps are dispatched once.
THEOREM DispatchedOnce == Spec => StepsAreDispatchedOnce
<1>1. RunsInv /\ [Next]_vars =>
        [\A p \in Plans : thread[p] = "off" /\ thread'[p] = "step" =>
             plan[p] = "planned" /\ tries[p] = 0]_vars
  <2> SUFFICES ASSUME RunsInv, Next, NEW p \in Plans,
                      thread[p] = "off", thread'[p] = "step"
               PROVE  plan[p] = "planned" /\ tries[p] = 0
    OBVIOUS
  <2> USE DEF claimVars, planVars, taskVars
  <2>t. p \in Claimants /\ Begun(p) /\ thread \in [Claimants \cup Sweeps ->
                                   {"off", "step", "claimed", "pass", "rest"}]
    BY DEF RunsInv, TypeOK, Own, Claimants
  <2>1. ASSUME NEW x \in Claimants, Request(x) \/ CronReads(x) PROVE FALSE
    BY <2>1 DEF Request, Click, FindActive, Claim, Admit, Push, PushFails, CronReads
  <2>2. ASSUME NEW x \in Claimants, StartPlan(x)
        PROVE  plan[p] = "planned" /\ tries[p] = 0
    BY <2>t, <2>2 DEF StartPlan, Begun
  <2>3. ASSUME NEW x \in Claimants, StartPass(x) \/ EndPass(x) \/ FinishPlan(x) PROVE FALSE
    BY <2>t, <2>3 DEF StartPass, EndPass, FinishPlan, ThreadEnds
  <2>4. ASSUME NEW x \in Claimants,
               \/ DropQueued(x) \/ ClaimStep(x) \/ DispatchStep(x) \/ ReleaseStep(x)
               \/ ReleaseFails(x) \/ Timeout(x) \/ ProcessDies(x)
        PROVE  FALSE
    BY <2>t, <2>4 DEF DropQueued, ClaimStep, DispatchStep, ReleaseStep, ReleaseFails,
                      Timeout, ProcessDies
  <2>5. ASSUME NEW s \in Sweeps, SweepStarts(s) \/ SweepEnds(s) PROVE FALSE
    BY <2>t, <2>5 DEF SweepStarts, SweepEnds
  <2>6. ASSUME NEW w \in Watchers, FailStale(w) PROVE FALSE
    BY <2>6 DEF FailStale
  <2> QED
    BY <2>1, <2>2, <2>3, <2>4, <2>5, <2>6 DEF Next, Work, Tick
<1> QED
  BY <1>1, RunsInvariant, PTL DEF Spec, StepsAreDispatchedOnce

=============================================================================
