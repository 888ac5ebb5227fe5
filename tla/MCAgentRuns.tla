---------------------------- MODULE MCAgentRuns ----------------------------
(* Instances of AgentRuns for TLC. *)
EXTENDS AgentRuns

CONSTANTS sync, queued, w1, w2

BothRuns == {sync, queued}
OneQueued == {queued}
OneWatchdog == {w1}
AllFaults == {"process", "database", "queue"}
=============================================================================
