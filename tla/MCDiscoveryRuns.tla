--------------------------- MODULE MCDiscoveryRuns ---------------------------
(* Instances of DiscoveryRuns for TLC. *)
EXTENDS DiscoveryRuns

CONSTANTS c1, p1, p2, s1

OneClick == {c1}
TwoPlans == {p1, p2}
OneSweep == {s1}
=============================================================================
