------------------------- MODULE MCGenerationJobs -------------------------
(* Instances of GenerationJobs for TLC. *)
EXTENDS GenerationJobs, TLC

CONSTANTS j1, j2, j3, p1

TwoJobs == {j1, j2}
WithUnmetered == TwoJobs \cup {j3}
NoPoller == {}
OnePoller == {p1}
JobSymmetry == Permutations(TwoJobs)
AllPushes == {"accepted", "refused", "replyLost"}
CleanPushes == {"accepted", "refused"}
AllFaults == {"request", "task", "watcher", "database"}
NoRequestFaults == {"task", "watcher", "database"}

\* The unmetered job books nothing: it runs before the two that contend begin.
UnmeteredApart == api[j3] = "idle" \/ \A j \in TwoJobs : api[j] = "idle"
=============================================================================
