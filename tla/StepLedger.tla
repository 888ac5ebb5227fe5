----------------------------- MODULE StepLedger -----------------------------
(***************************************************************************)
(* What the billing of composite runs promises, without bodies, counters,  *)
(* queues or watchdogs: a composite books runs one at a time within the    *)
(* allowance, hands back only what it still has, and from the moment it is *)
(* billed what it has is neither added to nor handed back.                 *)
(***************************************************************************)
EXTENDS Integers

CONSTANTS Jobs, Allowed

VARIABLES used, kept, billed        \* kept[j]: runs booked and not handed back

Init ==
    /\ used = 0
    /\ kept = [j \in Jobs |-> 0]
    /\ billed = {}

Book(j) ==
    /\ j \notin billed /\ used < Allowed
    /\ used' = used + 1
    /\ kept' = [kept EXCEPT ![j] = @ + 1]
    /\ UNCHANGED billed

HandBack(j, n) ==
    /\ j \notin billed /\ n \in 1..kept[j]
    /\ used' = IF used > n THEN used - n ELSE 0
    /\ kept' = [kept EXCEPT ![j] = @ - n]
    /\ UNCHANGED billed

Bill(j) ==
    /\ billed' = billed \cup {j}
    /\ UNCHANGED <<used, kept>>

Next == \E j \in Jobs : Book(j) \/ Bill(j) \/ \E n \in 1..kept[j] : HandBack(j, n)

Spec == Init /\ [][Next]_<<used, kept, billed>>
=============================================================================
