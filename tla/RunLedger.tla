----------------------------- MODULE RunLedger -----------------------------
(***************************************************************************)
(* What the billing of background runs promises, without jobs, queues or   *)
(* watchdogs: a run is booked once, within the allowance of its quota      *)
(* period, then either spent for good or handed back once.  The user's     *)
(* counter moves only with a booking, a return or the start of a period.   *)
(* A return that comes after its period has ended is taken off the counter *)
(* of the current one, and counted as late: each leaves room for one run   *)
(* more than the period allows.                                            *)
(***************************************************************************)
EXTENDS Naturals

CONSTANTS Runs, Allowed

VARIABLES cycle,   \* the quota period
          used,    \* the counter of the period
          late,    \* the returns it has taken for runs of earlier periods
          since,   \* since[r]: the period run r was booked in, or 0
          lot      \* lot[r]: "free", "held", "spent" or "returned"

Init ==
    /\ cycle = 1 /\ used = 0 /\ late = 0
    /\ since = [r \in Runs |-> 0]
    /\ lot = [r \in Runs |-> "free"]

\* A run is booked while the counter allows it, or opens a new period.
Book(r) ==
    /\ lot[r] = "free"
    /\ lot' = [lot EXCEPT ![r] = "held"]
    /\ since' = [since EXCEPT ![r] = cycle']
    /\ \/ cycle' = cycle /\ used < Allowed /\ used' = used + 1 /\ late' = late
       \/ cycle' > cycle /\ used' = 1 /\ late' = 0

Spend(r) ==
    /\ lot[r] = "held"
    /\ lot' = [lot EXCEPT ![r] = "spent"]
    /\ UNCHANGED <<cycle, used, late, since>>

Return(r) ==
    /\ lot[r] = "held"
    /\ lot' = [lot EXCEPT ![r] = "returned"]
    /\ used' = IF used > 0 THEN used - 1 ELSE 0
    /\ late' = IF since[r] = cycle THEN late ELSE late + 1
    /\ UNCHANGED <<cycle, since>>

NewCycle ==
    /\ cycle' > cycle /\ used' = 0 /\ late' = 0
    /\ UNCHANGED <<since, lot>>

Next == NewCycle \/ \E r \in Runs : Book(r) \/ Spend(r) \/ Return(r)

Spec == Init /\ [][Next]_<<cycle, used, late, since, lot>>
=============================================================================
