-------------------------- MODULE MCCompositeJobs --------------------------
(* Instances of CompositeJobs for TLC. *)
EXTENDS CompositeJobs

CONSTANTS pipe, plan, p1

BothKinds == {pipe, plan}
OnePlan == {plan}
OnePoller == {p1}
NoPoller == {}
AllPushes == {"accepted", "refused"}
CleanPushes == {"accepted"}
AllFaults == {"process", "database", "watcher"}
NoFaults == {}
=============================================================================
