--------------------------- MODULE MCStripeBilling ---------------------------
(* Instances of StripeBilling for TLC. *)
EXTENDS StripeBilling, TLC
Symmetry == Permutations(Workers) \cup Permutations(Plans) \cup Permutations(Subs)

\* A behaviour is followed until its second slip.
OneSlip == Cardinality(slips) <= 1
=============================================================================
