----------------------------- MODULE LlmClient -----------------------------
(***************************************************************************)
(* The language-model client, services/llm_client.py: the agent runs of    *)
(* one user make calls, and each call walks a chain of models until one    *)
(* serves it.  The runs share the rate-limit streaks of their process and  *)
(* the AgentQuotaBlock rows of their user, one per provider, which hold    *)
(* either the cooldown of a spent subscription or that of the circuit      *)
(* breaker.                                                                *)
(*                                                                         *)
(* Time is left out: a cooldown may end, and the wall-clock budget of a    *)
(* call may be used up, at any moment.  So are prompts, the choice of the  *)
(* credential, and the re-sending of a request in another shape, all of    *)
(* which happen between asking a provider and its answer.                  *)
(***************************************************************************)
EXTENDS Naturals, Sequences, FiniteSets, SequencesExt

CONSTANTS Runs,
          Roles,             \* functions of Runs to "default", "chosen" (the model, by
                             \* the user) and "operator": one of them is the case
          Admins,            \* the runs whose user is the administrator
          Models, Provider,  \* Provider[m]: resolve_provider
          Primary,           \* Primary[r]: the model that its agent is set to
          Fallback,
          OperatorModels,    \* operator_fallback_chain
          FreeModels,        \* get_admin_free_fallback_models
          Threshold,         \* consecutive 429s until a model cools
          MaxCalls,          \* bound: MaxCalls[r], the calls that r makes
          None

Providers == {"anthropic", "openrouter"}

ASSUME LlmAssumption ==
    /\ Roles \subseteq [Runs -> {"default", "chosen", "operator"}] /\ Admins \subseteq Runs
    /\ Provider \in [Models -> Providers]
    /\ Primary \in [Runs -> Models] /\ Fallback \in Models
    /\ OperatorModels \in Seq(Models) /\ FreeModels \in Seq(Models)
    /\ Threshold \in Nat \ {0} /\ MaxCalls \in [Runs -> Nat]
    /\ None \notin Models /\ None \notin Providers

VARIABLES role,              \* which of Roles is the case
          block,             \* block[p]: the user's row for p while it is active
          count, cooling,    \* _RATE_LIMIT_STREAKS
          place, call,       \* a run's place, and the locals of its call, with two
                             \* histories: left, the models that it gave up after
                             \* an error, and drained, those that were exhausted
          calls,             \* calls[r]: the calls it has begun
          staged, reason,    \* the two fallback reasons of its capture: a model
          told,              \* what its last call came to
          refusals, spent,   \* history: the providers that ever refused, or were spent
          late               \* history: the breaker's check missed a newer quota row

shared  == <<role, block, count, cooling>>
capture == <<staged, reason>>
history == <<refusals, spent, late>>
llmVars == <<shared, place, call, calls, capture, told, history>>

Walking == {"ask", "look", "sent", "clear", "note", "again", "record", "trip", "open"}
Outcomes == {"nothing", "served", "unavailable"} \cup Providers

Call == [chain: Seq(Models), idx: Nat \ {0}, draft: {1, 2}, retried: BOOLEAN,
         err: {"none", "transient", "credits", "auth"}, errAt: Models \cup {None},
         left: SUBSET Models, drained: SUBSET Models]

LlmTypeOK ==
    /\ role \in Roles
    /\ block \in [Providers -> {"none", "quota", "circuit"}]
    /\ count \in [Models -> 0..Threshold] /\ cooling \subseteq Models
    /\ place \in [Runs -> Walking \cup {"gate", "idle"}]
    /\ call \in [Runs -> Call] /\ \A r \in Runs : call[r].idx <= Len(call[r].chain)
    /\ calls \in [Runs -> Nat]
    /\ staged \in [Runs -> Models \cup {None}] /\ reason \in [Runs -> Models \cup {None}]
    /\ told \in [Runs -> Outcomes]
    /\ refusals \subseteq Providers /\ spent \subseteq Providers
    /\ late \subseteq Runs

\* The chain, and after it those of models that it does not hold: once only, or
\* as often as models names them.
Extended(chain, models, once) ==
    LET grown[i \in 0..Len(models)] ==
            IF i = 0 THEN chain
            ELSE IF models[i] \in ToSet(IF once THEN grown[i - 1] ELSE chain) THEN grown[i - 1]
            ELSE Append(grown[i - 1], models[i])
    IN  grown[Len(models)]

\* _model_chain: a model that the user chose is never replaced.
ModelChain(r) ==
    CASE role[r] = "chosen"   -> <<Primary[r]>>
      [] role[r] = "operator" -> Extended(<<Primary[r]>>, OperatorModels, TRUE)
      [] OTHER -> IF Primary[r] = Fallback THEN <<Primary[r]>> ELSE <<Primary[r], Fallback>>

NewCall(r) == [chain |-> ModelChain(r), idx |-> 1, draft |-> 1, retried |-> FALSE,
               err |-> "none", errAt |-> None, left |-> {}, drained |-> {}]

LlmInit ==
    /\ role \in Roles
    /\ block = [p \in Providers |-> "none"]
    /\ count = [m \in Models |-> 0] /\ cooling = {}
    /\ place = [r \in Runs |-> "gate"]
    /\ call = [r \in Runs |-> NewCall(r)]
    /\ calls = [r \in Runs |-> 0]
    /\ staged = [r \in Runs |-> None] /\ reason = [r \in Runs |-> None]
    /\ told = [r \in Runs |-> "nothing"]
    /\ refusals = {} /\ spent = {} /\ late = {}

Model(r) == call[r].chain[call[r].idx]
At(r)    == Provider[Model(r)]
IsLast(r) == call[r].idx = Len(call[r].chain)

MoveTo(r, label) == place' = [place EXCEPT ![r] = label]

\* The call goes on at label, with locals c.
GoOn(r, label, c) ==
    /\ MoveTo(r, label) /\ call' = [call EXCEPT ![r] = c]
    /\ UNCHANGED told

\* The call is over, and its run is told what came of it.
Tell(r, what) ==
    /\ MoveTo(r, "idle") /\ told' = [told EXCEPT ![r] = what]
    /\ call' = [call EXCEPT ![r] = NewCall(r)]

\* The chain is exhausted: a refusal is recorded before it is reported.
Exhaust(r, c) ==
    IF c.err \in {"credits", "auth"} THEN GoOn(r, "trip", c) ELSE Tell(r, "unavailable")

Advance(r, c) ==
    IF c.idx < Len(c.chain)
    THEN GoOn(r, "ask", [c EXCEPT !.idx = @ + 1, !.draft = 1])
    ELSE Exhaust(r, c)

\* "continue": another draft of the same model, while there is one.
Redraft(r, c) == IF c.draft = 1 THEN GoOn(r, "ask", [c EXCEPT !.draft = 2]) ELSE Advance(r, c)

-----------------------------------------------------------------------------
(* A run begins: the routers' gate looks at the row of its provider. *)

\* Mutant: whatever the row says.
RowSaysBlind(p) == IF block[p] = "none" THEN "nothing" ELSE p

\* is_circuit_block: whose cooldown it is.
RowSays(p) == CASE block[p] = "none"    -> "nothing"
                [] block[p] = "quota"   -> p
                [] block[p] = "circuit" -> "unavailable"

\* A look-up that fails lets the run through.
Gate(r) ==
    /\ place[r] = "gate"
    /\ MoveTo(r, "idle")
    /\ \E says \in {RowSays(Provider[Primary[r]]), "nothing"} :
         /\ told' = [told EXCEPT ![r] = says]
         /\ calls' = [calls EXCEPT ![r] = IF says = "nothing" THEN @ ELSE MaxCalls[r]]
    /\ UNCHANGED <<shared, call, capture, history>>

\* An agent goes on with the next call after a call that was served, and often
\* after one that was not; the next call may have a budget of its own.
Begin(r) ==
    /\ place[r] = "idle" /\ calls[r] < MaxCalls[r] /\ told[r] \notin Providers
    /\ MoveTo(r, "ask")
    /\ calls' = [calls EXCEPT ![r] = @ + 1]
    /\ told' = [told EXCEPT ![r] = "nothing"]
    /\ UNCHANGED <<shared, call, capture, history>>

-----------------------------------------------------------------------------
(* One attempt. *)

\* The budget has no room for another attempt: whatever an earlier one met, the
\* provider did not have the last word.
NoBudget(r) ==
    /\ place[r] = "ask"
    /\ Tell(r, "unavailable")
    /\ UNCHANGED <<shared, calls, capture, history>>

Stage(r) == staged' = [staged EXCEPT ![r] = Model(r)]

\* _extend_chain_with_admin_free_models
Rescued(r, chain) == IF r \in Admins THEN Extended(chain, FreeModels, FALSE) ELSE chain

\* The locals after an error of the model at hand.
Failed(r, kind) ==
    [call[r] EXCEPT !.err = kind, !.errAt = Model(r), !.left = @ \cup {Model(r)},
                    !.drained = IF kind = "credits" THEN @ \cup {Model(r)} ELSE @]

\* Mutant: an operator's chain goes on after any error.
GiveUpModelAlways(r, kind) == Stage(r) /\ Advance(r, Failed(r, kind))

\* Mutant: the reason is staged by the first error only.
GiveUpModelOnce(r, kind) ==
    /\ IF staged[r] = None THEN Stage(r) ELSE UNCHANGED staged
    /\ IF role[r] = "operator" /\ kind # "credits"
       THEN Exhaust(r, Failed(r, kind))
       ELSE Advance(r, [Failed(r, kind) EXCEPT !.chain = IF kind = "credits" THEN Rescued(r, @) ELSE @])

\* The turn of this model is over: an operator's chain is cut here, unless its
\* credits are exhausted; any other goes on to the next model.
GiveUpModel(r, kind) ==
    LET c == Failed(r, kind) IN
    \/ /\ role[r] = "operator" /\ kind # "credits"
       /\ Exhaust(r, [c EXCEPT !.chain = SubSeq(@, 1, c.idx)])
       /\ UNCHANGED staged
    \/ /\ role[r] # "operator" \/ kind = "credits"
       /\ Stage(r)
       /\ Advance(r, IF kind = "credits" THEN [c EXCEPT !.chain = Rescued(r, @)] ELSE c)

\* A model that is cooling answers 429 without being asked.
Skip(r) ==
    /\ place[r] = "ask" /\ Model(r) \in cooling
    /\ GiveUpModel(r, "transient")
    /\ UNCHANGED <<shared, calls, reason, history>>

AskModel(r) ==
    /\ place[r] = "ask" /\ Model(r) \notin cooling
    /\ GoOn(r, "look", call[r])
    /\ UNCHANGED <<shared, calls, capture, history>>

\* QuotaExhaustedError: the end of a call, but for an operator with a next model.
OnQuota(r) ==
    IF role[r] = "operator" /\ ~IsLast(r)
    THEN /\ Stage(r)
         /\ Advance(r, [Failed(r, "transient") EXCEPT !.drained = @ \cup {Model(r)}])
    ELSE Tell(r, At(r)) /\ UNCHANGED staged

\* The row of the provider is read before each request.
Blocked(r) ==
    /\ place[r] = "look"
    /\ \/ block[At(r)] = "circuit" /\ Tell(r, "unavailable") /\ UNCHANGED staged
       \/ block[At(r)] = "quota" /\ OnQuota(r)
    /\ UNCHANGED <<shared, calls, reason, history>>

\* There is none, or the look-up failed.
Send(r) ==
    /\ place[r] = "look"
    /\ GoOn(r, "sent", call[r])
    /\ UNCHANGED <<shared, calls, capture, history>>

-----------------------------------------------------------------------------
(* The provider's answer. *)

Answered(r) ==
    /\ place[r] = "sent"
    /\ GoOn(r, "clear", call[r])
    /\ UNCHANGED <<shared, calls, capture, history>>

\* The success ends the streak of the model and may publish the fallback's reason.
Served(r) ==
    /\ place[r] = "clear"
    /\ count' = [count EXCEPT ![Model(r)] = 0] /\ cooling' = cooling \ {Model(r)}
    /\ reason' = [reason EXCEPT ![r] = IF call[r].idx > 1 /\ staged[r] # None THEN staged[r] ELSE @]
    /\ Tell(r, "served")
    /\ UNCHANGED <<role, block, calls, staged, history>>

\* An answer that its caller's validator rejects.
Unusable(r) ==
    /\ place[r] = "sent"
    /\ Redraft(r, [call[r] EXCEPT !.err = "transient", !.errAt = Model(r)])
    /\ UNCHANGED <<shared, calls, capture, history>>

\* 404, 5xx, a timeout, no credential.
Fails(r) ==
    /\ place[r] = "sent"
    /\ GiveUpModel(r, "transient")
    /\ UNCHANGED <<shared, calls, reason, history>>

\* 402 of OpenRouter, and 401 or 403 of either.
Refused(r, kind) ==
    /\ place[r] = "sent" /\ (kind = "credits" => At(r) = "openrouter")
    /\ refusals' = refusals \cup {At(r)}
    /\ GiveUpModel(r, kind)
    /\ UNCHANGED <<shared, calls, reason, spent, late>>

RateLimited(r) ==
    /\ place[r] = "sent"
    /\ GoOn(r, "note", call[r])
    /\ UNCHANGED <<shared, calls, capture, history>>

\* _note_model_429; the primary may be given one more try before it is given up.
Note(r) ==
    /\ place[r] = "note"
    /\ LET n == IF count[Model(r)] < Threshold THEN count[Model(r)] + 1 ELSE Threshold IN
       /\ count' = [count EXCEPT ![Model(r)] = n]
       /\ cooling' = IF n = Threshold THEN cooling \cup {Model(r)} ELSE cooling
    /\ IF call[r].idx = 1 /\ ~call[r].retried /\ role[r] # "operator"
       THEN Stage(r) /\ GoOn(r, "again", call[r])
       ELSE GiveUpModel(r, "transient")
    /\ UNCHANGED <<role, block, calls, reason, history>>

\* After the backoff: once more, if the model does not cool and the budget allows
\* it; the try is one of the model's two drafts.
Again(r) ==
    /\ place[r] = "again"
    /\ \/ /\ Model(r) \notin cooling /\ call[r].draft = 1
          /\ Redraft(r, [call[r] EXCEPT !.err = "transient", !.errAt = Model(r), !.retried = TRUE])
       \/ Advance(r, Failed(r, "transient"))
    /\ UNCHANGED <<shared, calls, capture, history>>

\* A 429 of Anthropic that says the subscription is spent.
SubscriptionSpent(r) ==
    /\ place[r] = "sent" /\ At(r) = "anthropic"
    /\ spent' = spent \cup {At(r)}
    /\ GoOn(r, "record", call[r])
    /\ UNCHANGED <<shared, calls, capture, refusals, late>>

\* set_block, or a write that fails.
RecordQuota(r) ==
    /\ place[r] = "record"
    /\ \/ /\ block' = [block EXCEPT ![At(r)] = "quota"]
          /\ late' = late \cup {s \in Runs : place[s] = "open" /\ Provider[call[s].errAt] = At(r)}
       \/ UNCHANGED <<block, late>>
    /\ OnQuota(r)
    /\ UNCHANGED <<role, count, cooling, calls, reason, refusals, spent>>

-----------------------------------------------------------------------------
(* _record_llm_circuit_open *)

\* The provider whose refusal ended the chain.
Refuser(r) == Provider[call[r].errAt]

\* Mutant: the breaker does not look.
TripBlind(r) ==
    /\ place[r] = "trip"
    /\ GoOn(r, "open", call[r])
    /\ UNCHANGED <<shared, calls, capture, history>>

\* A row that says the subscription is spent is left alone.
Trip(r) ==
    /\ place[r] = "trip"
    /\ IF block[Refuser(r)] = "quota" THEN Tell(r, "unavailable") ELSE GoOn(r, "open", call[r])
    /\ UNCHANGED <<shared, calls, capture, history>>

OpenCircuit(r) ==
    /\ place[r] = "open"
    /\ \/ block' = [block EXCEPT ![Refuser(r)] = "circuit"]
       \/ UNCHANGED block
    /\ late' = late \ {r}
    /\ Tell(r, "unavailable")
    /\ UNCHANGED <<role, count, cooling, calls, capture, refusals, spent>>

-----------------------------------------------------------------------------
(* Time passes. *)

BlockEnds(p) ==
    /\ block[p] # "none"
    /\ block' = [block EXCEPT ![p] = "none"]
    /\ UNCHANGED <<role, count, cooling, place, call, calls, capture, told, history>>

\* The count stays: the next 429 makes the model cool again.
CoolingEnds(m) ==
    /\ m \in cooling
    /\ cooling' = cooling \ {m}
    /\ UNCHANGED <<role, block, count, place, call, calls, capture, told, history>>

-----------------------------------------------------------------------------
Walk(r) == \/ NoBudget(r) \/ Skip(r) \/ AskModel(r) \/ Blocked(r) \/ Send(r)
           \/ Answered(r) \/ Served(r) \/ Unusable(r) \/ Fails(r)
           \/ Refused(r, "credits") \/ Refused(r, "auth")
           \/ RateLimited(r) \/ Note(r) \/ Again(r)
           \/ SubscriptionSpent(r) \/ RecordQuota(r) \/ Trip(r) \/ OpenCircuit(r)

\* A run may be over with its last call.
Quiet == /\ \A r \in Runs : place[r] = "idle" /\ (calls[r] = MaxCalls[r] \/ told[r] \in Providers)
         /\ UNCHANGED llmVars

LlmNext == \/ \E r \in Runs : Gate(r) \/ Begin(r) \/ Walk(r)
           \/ \E p \in Providers : BlockEnds(p)
           \/ \E m \in Models : CoolingEnds(m)
           \/ Quiet

LlmSpec == LlmInit /\ [][LlmNext]_llmVars

-----------------------------------------------------------------------------
(* Properties. *)

\* A call that is served by another model than its first: the user's choice gives
\* way only to the administrator's free models after a 402, and an operator's
\* model only when no error but exhaustion made the chain go on.
SubstitutionIsAllowed ==
    \A r \in Runs : place[r] = "clear" /\ Model(r) # Primary[r] =>
        /\ role[r] = "chosen" => /\ r \in Admins /\ Model(r) \in ToSet(FreeModels)
                                 /\ Primary[r] \in call[r].drained
        /\ role[r] = "operator" => call[r].left \subseteq call[r].drained

\* Whenever an error made a call fall back, the reason that its run discloses is
\* a model that failed in this call, not in an earlier one.
ReasonIsOfThisCall ==
    [][\A r \in Runs : Served(r) /\ call[r].idx > 1 /\ call[r].left # {} => reason'[r] \in call[r].left]_llmVars

\* Only a user whose subscription was spent is told so, on the first attempt and
\* on those that find the row; and a row says of a provider only what it did.
BlameIsTrue ==
    /\ \A r \in Runs : told[r] \in Providers => told[r] \in spent
    /\ \A p \in Providers : /\ block[p] = "quota" => p \in spent
                            /\ block[p] = "circuit" => p \in refusals

\* A circuit never takes the place of a quota row that its run could have seen.
QuotaOutlivesCircuit ==
    [][\A r \in Runs : OpenCircuit(r) /\ block[Refuser(r)] = "quota" /\ block' # block
                       => r \in late]_llmVars

\* "the OPERATOR chain advances on EXHAUSTION SIGNALS ONLY"
OperatorAdvancesOnExhaustion ==
    \A r \in Runs : role[r] = "operator" =>
        \A i \in 1..(call[r].idx - 1) : call[r].chain[i] \in call[r].drained

\* A fallback is "never silent": it has a reason, and one of this call.
FallbackIsExplained ==
    [][\A r \in Runs : Served(r) /\ call[r].idx > 1 => reason'[r] \in call[r].left]_llmVars

\* "An ACTIVE subscription-quota block is left untouched"
QuotaIsLeftUntouched == [][\A p \in Providers : block[p] = "quota" => block'[p] # "circuit"]_llmVars

=============================================================================
