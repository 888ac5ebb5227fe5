---------------------------- MODULE MCLlmClient ----------------------------
(* Instances of LlmClient for TLC. *)
EXTENDS LlmClient

CONSTANTS r1, r2, claude, deepseek, free

TwoRuns == {r1, r2}
OneRun == {r1}
UserAndOperator == {[r \in Runs |-> IF r = r1 THEN user ELSE "operator"] : user \in {"default", "chosen"}}
TwoThenOne == [r \in Runs |-> IF r = r1 THEN 2 ELSE 1]

ThreeModels == {claude, deepseek, free}
Billing == [m \in ThreeModels |-> IF m = claude THEN "anthropic" ELSE "openrouter"]
Mixed == [r \in Runs |-> IF r = r1 THEN deepseek ELSE claude]
OneFree == <<free>>
OneNext == <<deepseek>>
=============================================================================
