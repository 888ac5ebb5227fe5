------------------------------ MODULE MCDbPool ------------------------------
(* Instances of DbPool for TLC. *)
EXTENDS DbPool

CONSTANTS t1, t2, t3

ThreeThreads == {t1, t2, t3}
FirstNests == [t \in ThreeThreads |-> IF t = t1 THEN 2 ELSE 1]
=============================================================================
