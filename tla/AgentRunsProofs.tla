--------------------------- MODULE AgentRunsProofs ---------------------------
(***************************************************************************)
(* What holds of the AgentRun rows for any runs, any number of watchdogs,  *)
(* tries and faults, and any thresholds in their order.                    *)
(***************************************************************************)
EXTENDS AgentRuns, TLAPS

(***************************************************************************)
(* The inductive invariant, run by run.                                    *)
(***************************************************************************)
Unopened == {"new", "reserved"}
Settling == {"refund", "spend", "settle"}

\* What the place of the executing code says of the row, of the thread that
\* stamps it and of the way the agent ended.
Placed(r) ==
    /\ exec[r] \in Unopened => row[r].status = "absent" /\ word[r] = "none"
    /\ exec[r] \in Unopened \cup {"queued"} => beat[r] = "off"
    /\ exec[r] \in Settling => row[r].status \in Terminal
    /\ exec[r] = "settle" => r \in Queued
    /\ exec[r] = "refund" => out[r] # "result"
    /\ exec[r] = "spend" => out[r] = "result"

\* A job that the queue does not hold, and that the request that enqueues the
\* run has not let go of, was never started.
Pushed(r) ==
    /\ exec[r] \in Unopened => push[r].at = "none"
    /\ push[r].at \in {"none", "sending"} => ~push[r].held /\ ~push[r].lost
    /\ push[r].at = "refused" /\ ~push[r].lost => ~push[r].held
    /\ push[r].at # "none" => r \in Queued
    /\ r \in Queued /\ ~push[r].held /\ push[r].at \in {"none", "sending", "refused"} =>
          exec[r] \in {"new", "queued"} /\ word[r] = "none"

Worded(r) ==
    word[r] # "none" =>
        \/ row[r].status = word[r]
        \/ push[r].lost /\ row[r].status = "failed"

Charged(r) ==
    r \notin Queued \cup cut /\ exec[r] = "gone" =>
        charge[r] = IF out[r] = "result" THEN "spent" ELSE "refunded"

\* A silence is noted while the run is executed.  A listed row was silent when
\* it was listed; only its executor can have broken the silence since.
Silent(r) ==
    /\ Executed(r) /\ IsOverdue(r) => r \in overdue
    /\ r \in wronged => r \in overdue
    /\ \A w \in Watchdogs : r \in list[w] =>
          /\ exec[r] \notin Unopened
          /\ \/ row[r].status # "running" \/ exec[r] = "gone"
             \/ IsOverdue(r) \/ r \in overdue

RunInv(r) == Placed(r) /\ Pushed(r) /\ Worded(r) /\ Charged(r) /\ Silent(r)

RunsInv == TypeOK /\ \A r \in Runs : RunInv(r)

(***************************************************************************)
(* Types.                                                                  *)
(***************************************************************************)
LEMMA TypeStep ==
    ASSUME TypeOK, [Next]_vars
    PROVE  TypeOK'
<1> USE AgentRunsAssumption DEF TypeOK, Terminal, Ends
<1>a. ASSUME NEW r \in Runs
      PROVE  /\ [row EXCEPT ![r].status = "completed"] \in [Runs -> RowState]
             /\ [row EXCEPT ![r].status = "failed"] \in [Runs -> RowState]
             /\ [row EXCEPT ![r].stamp = 0] \in [Runs -> RowState]
             /\ [row EXCEPT ![r] = [status |-> "running", age |-> 0, stamp |-> Never]]
                     \in [Runs -> RowState]
  <2>1. row[r] \in RowState
    OBVIOUS
  <2>2. /\ [row[r] EXCEPT !.status = "completed"] \in RowState
        /\ [row[r] EXCEPT !.status = "failed"] \in RowState
        /\ [row[r] EXCEPT !.stamp = 0] \in RowState
        /\ [status |-> "running", age |-> 0, stamp |-> Never] \in RowState
    BY <2>1 DEF RowState
  <2> QED
    BY <2>1, <2>2
<1>b. ASSUME NEW r \in Runs
      PROVE  /\ [push EXCEPT ![r].at = "sending"] \in [Runs -> PushState]
             /\ [push EXCEPT ![r].at = "failing"] \in [Runs -> PushState]
             /\ [push EXCEPT ![r].at = "done"] \in [Runs -> PushState]
             /\ [push EXCEPT ![r].at = "done", ![r].held = FALSE] \in [Runs -> PushState]
             /\ \A held \in BOOLEAN, lost \in BOOLEAN : \A at \in {"refused", "done"} :
                   [push EXCEPT ![r] = [at |-> at, held |-> held, lost |-> lost]]
                       \in [Runs -> PushState]
  <2>1. push[r] \in PushState
    OBVIOUS
  <2>2. /\ [push[r] EXCEPT !.at = "sending"] \in PushState
        /\ [push[r] EXCEPT !.at = "failing"] \in PushState
        /\ [push[r] EXCEPT !.at = "done"] \in PushState
        /\ [push[r] EXCEPT !.at = "done", !.held = FALSE] \in PushState
        /\ \A held \in BOOLEAN, lost \in BOOLEAN : \A at \in {"refused", "done"} :
              [at |-> at, held |-> held, lost |-> lost] \in PushState
    BY <2>1 DEF PushState
  <2> QED
    BY <2>1, <2>2
<1>1. ASSUME NEW r \in Runs, RunNext(r) PROVE TypeOK'
  <2>1. CASE Reserve(r)
    BY <2>1 DEF Reserve
  <2>2. CASE Start(r)
    <3>1. exec' = [exec EXCEPT ![r] = "started"] \/ exec' = [exec EXCEPT ![r] = "queued"]
      BY <2>2 DEF Start
    <3>2. push' = push \/ push' = [push EXCEPT ![r].at = "sending"]
      BY <2>2 DEF Start
    <3>5. row' = [row EXCEPT ![r] = [status |-> "running", age |-> 0, stamp |-> Never]]
      BY <2>2 DEF Start
    <3>6. row' \in [Runs -> RowState]
      BY <1>a, <3>5, Zenon
    <3>3. push' \in [Runs -> PushState]
      <4>1. CASE push' = push
        BY <4>1
      <4>2. CASE push' = [push EXCEPT ![r].at = "sending"]
        BY <1>b, <4>2, Zenon
      <4> QED
        BY <3>2, <4>1, <4>2
    <3>4. UNCHANGED <<out, charge, beat, tries, list, faults, word, overdue, wronged, cut>>
      BY <2>2 DEF Start
    <3> QED
      BY <3>1, <3>3, <3>4, <3>6
  <2>3. CASE Take(r)
    BY <2>3 DEF Take, Executed, NotesOverdue
  <2>4. CASE Paused(r)
    BY <2>4 DEF Paused
  <2>5. CASE Work(r)
    BY <2>5 DEF Work
  <2>6. CASE Stamp(r)
    <3>1. row' \in [Runs -> RowState]
      <4>1. row' = row \/ row' = [row EXCEPT ![r].stamp = 0]
        BY <2>6 DEF Stamp
      <4> QED
        BY <1>a, <4>1
    <3> QED
      BY <2>6, <3>1 DEF Stamp
  <2>7. CASE StampStops(r)
    BY <2>7 DEF StampStops
  <2>8. CASE Leave(r)
    BY <2>8 DEF Leave
  <2>9. CASE Finish(r)
    <3> DEFINE next == CASE r \in Queued -> "settle"
                         [] out[r] = "result" -> "spend"
                         [] OTHER -> "refund"
    <3>1. row' \in [Runs -> RowState]
      BY <1>a, <2>9 DEF Finish, Says
    <3>2. Says(r) \in Terminal
      BY DEF Says
    <3>3. word' = [word EXCEPT ![r] = Says(r)] /\ exec' = [exec EXCEPT ![r] = next]
      BY <2>9, Zenon DEF Finish
    <3>4. word' \in [Runs -> Terminal \cup {"none"}]
      BY <3>2, <3>3
    <3>5. next \in {"settle", "spend", "refund"}
      OBVIOUS
    <3> HIDE DEF next
    <3>6. exec' \in [Runs -> {"new", "reserved", "queued", "started", "working", "tail",
                              "refund", "spend", "settle", "gone"}]
      BY <3>3, <3>5
    <3> QED
      BY <2>9, <3>1, <3>4, <3>6 DEF Finish
  <2>10. CASE Refund(r)
    BY <2>10 DEF Refund
  <2>11. CASE Spend(r)
    BY <2>11 DEF Spend
  <2>12. CASE SettleJob(r)
    BY <2>12 DEF SettleJob
  <2>13. CASE Crash(r)
    BY <2>13 DEF Crash, Fails
  <2>14. CASE Raises(r)
    BY <2>14 DEF Raises, Fails
  <2>15. CASE Push(r)
    <3>1. push' \in [Runs -> PushState]
      <4>1. \E held \in BOOLEAN, lost \in BOOLEAN : \E at \in {"refused", "done"} :
              push' = [push EXCEPT ![r] = [at |-> at, held |-> held, lost |-> lost]]
        BY <2>15 DEF Push
      <4>2. PICK held \in BOOLEAN, lost \in BOOLEAN : \E at \in {"refused", "done"} :
              push' = [push EXCEPT ![r] = [at |-> at, held |-> held, lost |-> lost]]
        BY <4>1
      <4>3. PICK at \in {"refused", "done"} :
              push' = [push EXCEPT ![r] = [at |-> at, held |-> held, lost |-> lost]]
        BY <4>2
      <4> QED
        BY <1>b, <4>3, Zenon
    <3> QED
      BY <2>15, <3>1 DEF Push, Fails
  <2>16. CASE Compensate(r)
    BY <1>a, <1>b, <2>16 DEF Compensate
  <2>17. CASE CloseJob(r)
    BY <1>b, <2>17 DEF CloseJob
  <2>18. CASE RequestEnds(r)
    <3>1. push' = [push EXCEPT ![r].at = "done"] /\ faults' \in 0..MaxFaults
      BY <2>18 DEF RequestEnds, Fails
    <3>2. push' \in [Runs -> PushState]
      BY <1>b, <3>1
    <3> QED
      BY <2>18, <3>1, <3>2 DEF RequestEnds
  <2> QED
    BY <1>1, <2>1, <2>2, <2>3, <2>4, <2>5, <2>6, <2>7, <2>8, <2>9, <2>10, <2>11, <2>12, <2>13,
       <2>14, <2>15, <2>16, <2>17, <2>18 DEF RunNext, Execute, Enqueue
<1>2. ASSUME NEW w \in Watchdogs, Cron(w) \/ OnStartup(w) \/ PassEnds(w) PROVE TypeOK'
  <2>1. ASSUME NEW limit, List(w, limit) PROVE TypeOK'
    BY <2>1 DEF List
  <2>2. ASSUME NEW r \in Runs, FailAbandoned(w, r) PROVE TypeOK'
    <3>1. row' \in [Runs -> RowState]
      BY <1>a, <2>2 DEF FailAbandoned
    <3> QED
      BY <2>2, <3>1 DEF FailAbandoned
  <2>3. CASE PassEnds(w)
    BY <2>3 DEF PassEnds, Fails
  <2> QED
    BY <1>2, <2>1, <2>2, <2>3 DEF Cron, OnStartup
<1>3. CASE Tick
  <2>1. \A n \in 0..Ceiling : Older(n, Ceiling) \in 0..Ceiling
    BY DEF Older
  <2>2. \A n \in 0..StaleAfter : Older(n, StaleAfter) \in 0..StaleAfter
    BY DEF Older
  <2>3. row' \in [Runs -> RowState]
    <3> DEFINE aged(r) == [row[r] EXCEPT !.age   = Older(@, Ceiling),
                                         !.stamp = IF @ = Never THEN @ ELSE Older(@, StaleAfter)]
    <3>1. ASSUME NEW r \in Runs PROVE aged(r) \in RowState
      <4>1. row[r] \in RowState
        OBVIOUS
      <4>2. /\ Older(row[r].age, Ceiling) \in 0..Ceiling
            /\ row[r].stamp # Never => Older(row[r].stamp, StaleAfter) \in 0..StaleAfter
        BY <2>1, <2>2, <4>1 DEF RowState
      <4> QED
        BY <4>1, <4>2 DEF RowState
    <3>2. row' = [r \in Runs |-> IF row[r].status # "running" THEN row[r] ELSE aged(r)]
      BY <1>3 DEF Tick
    <3> QED
      BY <3>1, <3>2
  <2> QED
    BY <1>3, <2>3 DEF Tick, NotesOverdue
<1>4. CASE UNCHANGED vars
  BY <1>4 DEF vars
<1> QED
  BY <1>1, <1>2, <1>3, <1>4 DEF Next

(***************************************************************************)
(* A step of run r, or of a watchdog, leaves what it does not name.        *)
(***************************************************************************)
\* Nothing of the run q changes, and what is observed of it is kept.
Untouched(q) ==
    /\ row'[q] = row[q] /\ exec'[q] = exec[q] /\ out'[q] = out[q]
    /\ charge'[q] = charge[q] /\ beat'[q] = beat[q] /\ word'[q] = word[q]
    /\ push'[q] = push[q]
    /\ \A w \in Watchdogs : q \in list'[w] => q \in list[w]
    /\ q \in wronged' => q \in wronged
    /\ q \in overdue => q \in overdue'
    /\ q \in cut => q \in cut'

LEMMA UntouchedKeeps ==
    ASSUME NEW q \in Runs, RunInv(q), Untouched(q)
    PROVE  RunInv(q)'
<1>1. (Executed(q)' <=> Executed(q)) /\ (IsOverdue(q)' <=> IsOverdue(q))
  BY DEF Untouched, Executed, IsOverdue
<1>2. Placed(q)' /\ Pushed(q)' /\ Worded(q)' /\ Charged(q)'
  BY DEF RunInv, Placed, Pushed, Worded, Charged, Untouched
<1>3. Silent(q)'
  BY <1>1 DEF RunInv, Silent, Untouched
<1> QED
  BY <1>2, <1>3 DEF RunInv

LEMMA OthersUntouched ==
    ASSUME TypeOK, NEW r \in Runs, RunNext(r), NEW q \in Runs, q # r
    PROVE  Untouched(q)
<1> USE DEF TypeOK, RowState, PushState, Untouched
<1>1. CASE Reserve(r)
  BY <1>1 DEF Reserve
<1>2. CASE Start(r)
  BY <1>2 DEF Start
<1>3. CASE Take(r)
  BY <1>3 DEF Take, NotesOverdue
<1>4. CASE Paused(r)
  BY <1>4 DEF Paused
<1>5. CASE Work(r)
  BY <1>5 DEF Work
<1>6. CASE Stamp(r)
  BY <1>6 DEF Stamp
<1>7. CASE StampStops(r)
  BY <1>7 DEF StampStops
<1>8. CASE Leave(r)
  BY <1>8 DEF Leave
<1>9. CASE Finish(r)
  BY <1>9 DEF Finish
<1>10. CASE Refund(r)
  BY <1>10 DEF Refund
<1>11. CASE Spend(r)
  BY <1>11 DEF Spend
<1>12. CASE SettleJob(r)
  BY <1>12 DEF SettleJob
<1>13. CASE Crash(r)
  BY <1>13 DEF Crash
<1>14. CASE Raises(r)
  BY <1>14 DEF Raises
<1>15. CASE Enqueue(r)
  BY <1>15 DEF Enqueue, Push, Compensate, CloseJob, RequestEnds
<1> QED
  BY <1>1, <1>2, <1>3, <1>4, <1>5, <1>6, <1>7, <1>8, <1>9, <1>10, <1>11, <1>12, <1>13, <1>14, <1>15 DEF RunNext, Execute

(***************************************************************************)
(* The step of a run keeps the invariant of that run.                      *)
(***************************************************************************)
LEMMA RunStep ==
    ASSUME TypeOK, NEW r \in Runs, RunNext(r), RunInv(r)
    PROVE  RunInv(r)'
<1> USE AgentRunsAssumption DEF TypeOK, RowState, PushState, RunInv, Placed, Pushed, Worded,
                                Charged, Unopened, Settling, Terminal, Ends
<1>1. CASE Reserve(r)
  <2>1. Placed(r)' /\ Pushed(r)' /\ Worded(r)' /\ Charged(r)'
    BY <1>1 DEF Reserve
  <2>2. Silent(r)'
    BY <1>1 DEF Reserve, Silent, Executed, IsOverdue
  <2> QED
    BY <2>1, <2>2
<1>2. CASE Start(r)
  <2>1. Placed(r)' /\ Worded(r)' /\ Charged(r)'
    <3>1. CASE exec[r] = "reserved"
      BY <1>2, <3>1 DEF Start
    <3>2. CASE exec[r] = "new"
      BY <1>2, <3>2 DEF Start
    <3> QED
      BY <1>2, <3>1, <3>2 DEF Start
  <2>3. Pushed(r)'
    <3>1. CASE exec[r] = "reserved"
      BY <1>2, <3>1 DEF Start, Pushed
    <3>2. CASE exec[r] = "new"
      <4>1. /\ push' = [push EXCEPT ![r].at = "sending"] /\ exec' = [exec EXCEPT ![r] = "queued"]
            /\ word' = word /\ r \in Queued
        BY <1>2, <3>2 DEF Start
      <4>2. /\ push'[r].at = "sending" /\ push'[r].held = push[r].held
            /\ push'[r].lost = push[r].lost
        BY <4>1
      <4> QED
        BY <3>2, <4>1, <4>2 DEF Pushed
    <3> QED
      BY <1>2, <3>1, <3>2 DEF Start
  <2>2. Silent(r)'
    BY <1>2 DEF Start, Silent, Executed, IsOverdue
  <2> QED
    BY <2>1, <2>2, <2>3
<1>3. CASE Take(r)
  <2>1. Placed(r)' /\ Pushed(r)' /\ Worded(r)' /\ Charged(r)'
    BY <1>3 DEF Take, NotesOverdue
  <2>2. Silent(r)'
    BY <1>3 DEF Take, NotesOverdue, Silent, Executed, IsOverdue
  <2> QED
    BY <2>1, <2>2
<1>4. CASE Paused(r)
  <2>1. Placed(r)' /\ Pushed(r)' /\ Worded(r)' /\ Charged(r)'
    BY <1>4 DEF Paused
  <2>2. Silent(r)'
    BY <1>4 DEF Paused, Silent, Executed, IsOverdue
  <2> QED
    BY <2>1, <2>2
<1>5. CASE Work(r)
  <2>1. Placed(r)' /\ Pushed(r)' /\ Worded(r)' /\ Charged(r)'
    BY <1>5 DEF Work
  <2>2. Silent(r)'
    BY <1>5 DEF Work, Silent, Executed, IsOverdue
  <2> QED
    BY <2>1, <2>2
<1>6. CASE Stamp(r)
  <2>1. Placed(r)' /\ Pushed(r)' /\ Worded(r)' /\ Charged(r)'
    BY <1>6 DEF Stamp
  <2>2. Silent(r)'
    BY <1>6 DEF Stamp, Silent, Executed, IsOverdue
  <2> QED
    BY <2>1, <2>2
<1>7. CASE StampStops(r)
  <2>1. Placed(r)' /\ Pushed(r)' /\ Worded(r)' /\ Charged(r)'
    BY <1>7 DEF StampStops
  <2>2. Silent(r)'
    BY <1>7 DEF StampStops, Silent, Executed, IsOverdue
  <2> QED
    BY <2>1, <2>2
<1>8. CASE Leave(r)
  <2>1. Placed(r)' /\ Pushed(r)' /\ Worded(r)' /\ Charged(r)'
    BY <1>8 DEF Leave
  <2>2. Silent(r)'
    BY <1>8 DEF Leave, Silent, Executed, IsOverdue
  <2> QED
    BY <2>1, <2>2
<1>9. CASE Finish(r)
  <2>1. Placed(r)' /\ Pushed(r)' /\ Worded(r)' /\ Charged(r)'
    BY <1>9 DEF Finish, Says
  <2>2. Silent(r)'
    BY <1>9 DEF Finish, Says, Silent, Executed, IsOverdue
  <2> QED
    BY <2>1, <2>2
<1>10. CASE Refund(r)
  <2>1. Placed(r)' /\ Pushed(r)' /\ Worded(r)' /\ Charged(r)'
    BY <1>10 DEF Refund
  <2>2. Silent(r)'
    BY <1>10 DEF Refund, Silent, Executed, IsOverdue
  <2> QED
    BY <2>1, <2>2
<1>11. CASE Spend(r)
  <2>1. Placed(r)' /\ Pushed(r)' /\ Worded(r)' /\ Charged(r)'
    BY <1>11 DEF Spend
  <2>2. Silent(r)'
    BY <1>11 DEF Spend, Silent, Executed, IsOverdue
  <2> QED
    BY <2>1, <2>2
<1>12. CASE SettleJob(r)
  <2>1. Placed(r)' /\ Pushed(r)' /\ Worded(r)' /\ Charged(r)'
    BY <1>12 DEF SettleJob
  <2>2. Silent(r)'
    BY <1>12 DEF SettleJob, Silent, Executed, IsOverdue
  <2> QED
    BY <2>1, <2>2
<1>13. CASE Crash(r)
  <2>1. Placed(r)' /\ Pushed(r)' /\ Worded(r)' /\ Charged(r)'
    BY <1>13 DEF Crash, Fails
  <2>2. Silent(r)'
    BY <1>13 DEF Crash, Fails, Silent, Executed, IsOverdue
  <2> QED
    BY <2>1, <2>2
<1>14. CASE Raises(r)
  <2>1. Placed(r)' /\ Pushed(r)' /\ Worded(r)' /\ Charged(r)'
    BY <1>14 DEF Raises, Fails
  <2>2. Silent(r)'
    BY <1>14 DEF Raises, Fails, Silent, Executed, IsOverdue
  <2> QED
    BY <2>1, <2>2
<1>15. CASE Push(r)
  <2>1. Placed(r)' /\ Pushed(r)' /\ Worded(r)' /\ Charged(r)'
    BY <1>15 DEF Push
  <2>2. Silent(r)'
    BY <1>15 DEF Push, Silent, Executed, IsOverdue
  <2> QED
    BY <2>1, <2>2
<1>16. CASE Compensate(r)
  <2>1. Placed(r)' /\ Pushed(r)' /\ Worded(r)' /\ Charged(r)'
    BY <1>16 DEF Compensate
  <2>2. Silent(r)'
    BY <1>16 DEF Compensate, Silent, Executed, IsOverdue
  <2> QED
    BY <2>1, <2>2
<1>17. CASE CloseJob(r)
  <2>1. Placed(r)' /\ Pushed(r)' /\ Worded(r)' /\ Charged(r)'
    BY <1>17 DEF CloseJob
  <2>2. Silent(r)'
    BY <1>17 DEF CloseJob, Silent, Executed, IsOverdue
  <2> QED
    BY <2>1, <2>2
<1>18. CASE RequestEnds(r)
  <2>1. Placed(r)' /\ Pushed(r)' /\ Worded(r)' /\ Charged(r)'
    BY <1>18 DEF RequestEnds
  <2>2. Silent(r)'
    BY <1>18 DEF RequestEnds, Silent, Executed, IsOverdue
  <2> QED
    BY <2>1, <2>2
<1> QED
  BY <1>1, <1>2, <1>3, <1>4, <1>5, <1>6, <1>7, <1>8, <1>9, <1>10, <1>11, <1>12, <1>13, <1>14,
     <1>15, <1>16, <1>17, <1>18 DEF Enqueue, RunNext, Execute

(***************************************************************************)
(* Watchdogs and time.                                                     *)
(***************************************************************************)
LEMMA ListStep ==
    ASSUME TypeOK, NEW w \in Watchdogs, NEW limit \in {StaleAfter, StartupStale}, List(w, limit),
           NEW q \in Runs, RunInv(q)
    PROVE  RunInv(q)'
<1> USE AgentRunsAssumption
<1>1. Placed(q)' /\ Pushed(q)' /\ Worded(q)' /\ Charged(q)'
  BY DEF List, RunInv, Placed, Pushed, Worded, Charged
<1>2. Abandoned(q, limit) => IsOverdue(q) /\ row[q].status = "running"
  BY DEF Abandoned, IsOverdue, TypeOK, RowState
<1>3. /\ \A v \in Watchdogs : q \in list'[v] => q \in list[v] \/ Abandoned(q, limit)
      /\ UNCHANGED <<row, exec, overdue, wronged>>
  BY DEF List, TypeOK
<1>4. Abandoned(q, limit) => exec[q] \notin Unopened
  BY <1>2 DEF RunInv, Placed
<1>5. Silent(q)'
  BY <1>2, <1>3, <1>4 DEF RunInv, Silent, Executed, IsOverdue
<1> QED
  BY <1>1, <1>5 DEF RunInv

LEMMA FailStep ==
    ASSUME TypeOK, NEW w \in Watchdogs, NEW r \in Runs, FailAbandoned(w, r),
           NEW q \in Runs, RunInv(q)
    PROVE  RunInv(q)'
<1> USE DEF TypeOK, RowState, PushState
<1>1. CASE q # r
  BY <1>1, UntouchedKeeps DEF FailAbandoned, Untouched
<1>2. CASE q = r
  <2>1. Placed(r)' /\ Pushed(r)' /\ Worded(r)' /\ Charged(r)'
    BY <1>2 DEF FailAbandoned, RunInv, Placed, Pushed, Worded, Charged, Terminal, Unopened, Settling, Silent
  <2>2. r \in list[w] /\ \A v \in Watchdogs : r \in list'[v] => r \in list[v]
    BY DEF FailAbandoned
  <2>3. Executed(r) /\ row[r].status = "running" => r \in overdue
    BY <1>2, <2>2 DEF RunInv, Silent, Executed
  <2>4. Silent(r)'
    BY <1>2, <2>2, <2>3 DEF FailAbandoned, RunInv, Silent, Executed, IsOverdue
  <2> QED
    BY <1>2, <2>1, <2>4 DEF RunInv
<1> QED
  BY <1>1, <1>2

LEMMA TickStep ==
    ASSUME TypeOK, Tick, NEW q \in Runs, RunInv(q)
    PROVE  RunInv(q)'
<1> USE AgentRunsAssumption
<1>1. /\ row'[q].status = row[q].status
      /\ row[q].status # "running" => row'[q] = row[q]
      /\ row'[q].stamp = Never <=> row[q].stamp = Never
      /\ row'[q].age >= row[q].age
      /\ row[q].stamp # Never => row'[q].stamp >= row[q].stamp
      /\ row[q].age \in Nat /\ row'[q].age \in Nat
      /\ row[q].stamp # Never => row[q].stamp \in Nat /\ row'[q].stamp \in Nat
  <2>1. row[q] \in [status: {"absent", "running"} \cup Terminal,
                    age: 0..Ceiling, stamp: 0..StaleAfter \cup {Never}]
    BY DEF TypeOK, RowState
  <2>2. \A n \in Nat, limit \in Nat : n <= limit => Older(n, limit) \in Nat /\ Older(n, limit) >= n
    BY DEF Older
  <2>3. CASE row[q].status # "running"
    <3>1. row'[q] = row[q]
      BY <2>3 DEF Tick
    <3> QED
      BY <2>1, <3>1
  <2>4. CASE row[q].status = "running"
    <3>1. /\ row'[q].status = row[q].status
          /\ row'[q].age = Older(row[q].age, Ceiling)
          /\ row'[q].stamp = IF row[q].stamp = Never THEN Never ELSE Older(row[q].stamp, StaleAfter)
      BY <2>1, <2>4 DEF Tick
    <3>2. row[q].age \in Nat /\ row[q].age <= Ceiling
      BY <2>1
    <3>3. row[q].stamp # Never => row[q].stamp \in Nat /\ row[q].stamp <= StaleAfter
      BY <2>1
    <3> QED
      BY <2>2, <2>4, <3>1, <3>2, <3>3
  <2> QED
    BY <2>3, <2>4
<1>2. Placed(q)' /\ Pushed(q)' /\ Worded(q)' /\ Charged(q)'
  BY <1>1 DEF Tick, RunInv, Placed, Pushed, Worded, Charged
<1>3. IsOverdue(q) => IsOverdue(q)'
  BY <1>1 DEF IsOverdue
<1>4. Executed(q)' /\ IsOverdue(q)' => q \in overdue'
  BY DEF Tick, NotesOverdue
<1>5. overdue \subseteq overdue' /\ UNCHANGED <<exec, wronged, list>>
  BY DEF Tick, NotesOverdue
<1>6. Silent(q)'
  BY <1>1, <1>3, <1>4, <1>5 DEF RunInv, Silent
<1> QED
  BY <1>2, <1>6 DEF RunInv

(***************************************************************************)
(* The invariant holds.                                                    *)
(***************************************************************************)
LEMMA InitInv == Init => RunsInv
<1> USE AgentRunsAssumption
<1> SUFFICES ASSUME Init PROVE RunsInv
  OBVIOUS
<1>1. TypeOK
  BY DEF Init, TypeOK, RowState, PushState
<1>2. ASSUME NEW r \in Runs PROVE RunInv(r)
  BY DEF Init, RunInv, Placed, Pushed, Worded, Charged, Silent, Executed, Unopened, Settling
<1> QED
  BY <1>1, <1>2 DEF RunsInv

LEMMA StepInv == RunsInv /\ [Next]_vars => RunsInv'
<1> SUFFICES ASSUME RunsInv, [Next]_vars PROVE RunsInv'
  OBVIOUS
<1>1. TypeOK /\ TypeOK' /\ \A q \in Runs : RunInv(q)
  BY TypeStep DEF RunsInv
<1>2. ASSUME NEW q \in Runs PROVE RunInv(q)'
  <2>1. ASSUME NEW r \in Runs, RunNext(r) PROVE RunInv(q)'
    BY <1>1, <2>1, RunStep, OthersUntouched, UntouchedKeeps
  <2>2. ASSUME NEW w \in Watchdogs, Cron(w) \/ OnStartup(w) PROVE RunInv(q)'
    BY <1>1, <2>2, ListStep, FailStep DEF Cron, OnStartup
  <2>3. ASSUME NEW w \in Watchdogs, PassEnds(w) PROVE RunInv(q)'
    <3>1. Untouched(q)
      BY <1>1, <2>3 DEF PassEnds, Untouched, TypeOK
    <3> QED
      BY <1>1, <3>1, UntouchedKeeps
  <2>4. CASE Tick
    BY <1>1, <2>4, TickStep
  <2>5. CASE UNCHANGED vars
    <3>1. Untouched(q)
      BY <2>5 DEF vars, Untouched
    <3> QED
      BY <1>1, <3>1, UntouchedKeeps
  <2> QED
    BY <2>1, <2>2, <2>3, <2>4, <2>5 DEF Next
<1> QED
  BY <1>1, <1>2 DEF RunsInv

\* The inductive invariant of the AgentRun rows, from which the theorems below
\* follow.
THEOREM RunsInvariant == Spec => []RunsInv
  BY InitInv, StepInv, PTL DEF Spec

\* The rows, the executing code, the charge and the heartbeat have the types that
\* TypeOK names.
THEOREM TypeCorrect == Spec => []TypeOK
<1>1. RunsInv => TypeOK
  BY DEF RunsInv
<1> QED
  BY <1>1, RunsInvariant, PTL

\* No watchdog, at startup or from the cron, fails a run under the code that
\* executes it unless that run was silent for a threshold.
THEOREM SilenceIsReaped == Spec => []LiveRunIsNotReaped
<1>1. RunsInv => LiveRunIsNotReaped
  BY DEF RunsInv, RunInv, Silent, LiveRunIsNotReaped, TypeOK
<1> QED
  BY <1>1, RunsInvariant, PTL

\* The row says what its executor wrote last, whatever a watchdog had listed; only
\* an enqueue request whose push was taken though it raised writes over it.
THEOREM LastWordStands == Spec => []ExecutorHasLastWord
<1>1. RunsInv => ExecutorHasLastWord
  BY DEF RunsInv, RunInv, Worded, ExecutorHasLastWord
<1> QED
  BY <1>1, RunsInvariant, PTL

\* A run executed in its request is charged exactly for a result, whoever wrote
\* its row.
THEOREM ResultsAreCharged == Spec => []ChargedForResults
<1>1. RunsInv => ChargedForResults
  BY DEF RunsInv, RunInv, Charged, ChargedForResults
<1> QED
  BY <1>1, RunsInvariant, PTL

=============================================================================
