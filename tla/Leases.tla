------------------------------- MODULE Leases -------------------------------
(***************************************************************************)
(* What a pool promises its borrowers, without locks, waiters or sockets:  *)
(* each thing is lent to one borrower at a time, no more than Capacity are *)
(* lent at once, and a borrower gives back the thing it took last.         *)
(***************************************************************************)
EXTENDS Naturals, Sequences, FiniteSets, SequencesExt

CONSTANTS Borrowers, Things, Capacity

VARIABLE held           \* held[b]: what b has borrowed, the latest last

Lent == UNION {ToSet(held[b]) : b \in Borrowers}

Init == held = [b \in Borrowers |-> <<>>]

Lend(b, thing) ==
    /\ thing \notin Lent
    /\ Cardinality(Lent) < Capacity
    /\ held' = [held EXCEPT ![b] = Append(@, thing)]

TakeBack(b) ==
    /\ held[b] # <<>>
    /\ held' = [held EXCEPT ![b] = Front(@)]

Next == \E b \in Borrowers : TakeBack(b) \/ \E thing \in Things : Lend(b, thing)

Spec == Init /\ [][Next]_held
=============================================================================
