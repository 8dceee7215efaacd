---------------------------- MODULE CampaignPlanner ----------------------------
(***************************************************************************)
(* campaign/planner.py: GatewayCampaignPlanner, the budget of paid planner *)
(* calls, as run() of campaign/end_to_end.py drives it across restarts: a  *)
(* planner step whose checkpoint is complete is replayed through           *)
(* restore_checkpoint, a new one goes through __call__.                    *)
(*                                                                         *)
(* Tokens stand for input tokens, output tokens and cost, which the code   *)
(* counts and bounds in the same way.  A gateway names the source of a     *)
(* usage: "api_reported", or one of its variants ("api_reported_with_cache"*)
(* anthropic_gateway.py:163, "api_reported_derived_total"                  *)
(* openai_compatible_gateway.py:920), or "unavailable" with no tokens.     *)
(***************************************************************************)
EXTENDS Integers, Sequences

CONSTANTS
  ActivationTokens,   \* tokens the activation's probe used
  UsageOfCall,        \* tokens one call may use
  CallReserve,        \* per_call_*_token_reserve
  MaxCallAttempts,    \* budget.max_attempts; the activation took the first
  MaxCallTokens,      \* budget.max_*_tokens
  MaxLives            \* bound: processes one after another

ASSUME PlannerAssumption ==
  /\ UsageOfCall \subseteq Nat /\ ActivationTokens \in Nat
  /\ CallReserve \in Nat /\ MaxCallTokens \in Nat
  /\ MaxCallAttempts \in Nat \ {0}

VARIABLES
  attemptsUsed, tokensUsed,   \* the living planner's account
  accounted,                  \* _accounted_sequences, as how many were
  recordedCalls,                    \* completed planner checkpoints: tokens recorded
  callPhase,                      \* "idle", "calling", "returned", "ended", "ambiguous"
  returned,                   \* tokens the response carries
  lives,
  calls, spent,               \* history: calls paid for, and tokens they used
  unreported                  \* history: tokens of recorded calls with a variant source

plannerVars == <<attemptsUsed, tokensUsed, accounted, recordedCalls, callPhase, returned, lives, calls,
                 spent, unreported>>

PlannerInit ==
  /\ attemptsUsed = 1 /\ tokensUsed = ActivationTokens /\ accounted = 0
  /\ recordedCalls = <<>> /\ callPhase = "idle" /\ returned = 0 /\ lives = 1
  /\ calls = 1 /\ spent = ActivationTokens /\ unreported = 0

\* _reserve: nothing is asked of the provider beyond the bounds.
Reserved == attemptsUsed < MaxCallAttempts /\ tokensUsed + CallReserve <= MaxCallTokens

\* What a response, and so its checkpoint, carries of the tokens a call used.
Carried(tokens, source) == IF source = "api_reported" THEN tokens ELSE 0

\* The intent is on disk and the provider is asked; a death from here until the
\* checkpoint is complete leaves an effect of unknown outcome.
PlannerCalls ==
  /\ callPhase = "idle" /\ accounted = Len(recordedCalls) /\ Reserved
  /\ callPhase' = "calling"
  /\ UNCHANGED <<attemptsUsed, tokensUsed, accounted, recordedCalls, returned, lives, calls, spent,
                 unreported>>

\* __call__ counts what the result says, and carries what the provider reported.
PlannerReturns ==
  /\ callPhase = "calling"
  /\ \E tokens \in UsageOfCall, source \in {"api_reported", "api_reported_with_cache"} :
       /\ attemptsUsed' = attemptsUsed + 1
       /\ tokensUsed' = tokensUsed + tokens
       /\ returned' = Carried(tokens, source)
       /\ calls' = calls + 1
       /\ spent' = spent + tokens
       /\ unreported' = unreported + tokens - returned'
  /\ accounted' = accounted + 1
  /\ callPhase' = "returned"
  /\ UNCHANGED <<recordedCalls, lives>>

\* The checkpoint is completed; an overspent or failed call ends the campaign.
PlannerRecorded ==
  /\ callPhase = "returned"
  /\ recordedCalls' = Append(recordedCalls, returned)
  /\ \/ tokensUsed <= MaxCallTokens /\ callPhase' = "idle"
     \/ callPhase' = "ended"
  /\ UNCHANGED <<attemptsUsed, tokensUsed, accounted, returned, lives, calls, spent, unreported>>

PlannerBoundsRefuse ==
  /\ callPhase = "idle" /\ accounted = Len(recordedCalls) /\ ~Reserved
  /\ callPhase' = "ended"
  /\ UNCHANGED <<attemptsUsed, tokensUsed, accounted, recordedCalls, returned, lives, calls, spent,
                 unreported>>

\* A new process starts from the activation's account; an intent without a completed
\* checkpoint is an ambiguous effect and nothing is paid any more.
PlannerDies ==
  /\ callPhase \in {"idle", "calling", "returned"} /\ lives < MaxLives
  /\ lives' = lives + 1
  /\ callPhase' = IF callPhase = "idle" THEN "idle" ELSE "ambiguous"
  /\ attemptsUsed' = 1 /\ tokensUsed' = ActivationTokens /\ accounted' = 0
  /\ UNCHANGED <<recordedCalls, returned, calls, spent, unreported>>

\* Slip: the transcript is restored and the call not counted.
RestoreFree(record) ==
  /\ tokensUsed' = tokensUsed + record
  /\ UNCHANGED attemptsUsed

\* restore_checkpoint, for the next sequence that this process has not accounted for.
RestoreCheckpoint(record) ==
  /\ tokensUsed' = tokensUsed + record
  /\ attemptsUsed' = attemptsUsed + 1

PlannerReplays ==
  /\ callPhase = "idle" /\ accounted < Len(recordedCalls)
  /\ RestoreCheckpoint(recordedCalls[accounted + 1])
  /\ accounted' = accounted + 1
  /\ UNCHANGED <<recordedCalls, callPhase, returned, lives, calls, spent, unreported>>

PlannerNext ==
  \/ PlannerCalls \/ PlannerReturns \/ PlannerRecorded \/ PlannerBoundsRefuse
  \/ PlannerDies \/ PlannerReplays

PlannerSpec == PlannerInit /\ [][PlannerNext]_plannerVars
-----------------------------------------------------------------------------
Replayed == callPhase \in {"idle", "returned"} /\ accounted = Len(recordedCalls) + (IF callPhase = "idle" THEN 0 ELSE 1)

PlannerTypeOK ==
  /\ attemptsUsed \in 1..MaxCallAttempts /\ calls \in 1..MaxCallAttempts
  /\ accounted \in 0..Len(recordedCalls) + 1 /\ tokensUsed <= spent

\* Across every restart the provider is called no more often than the budget allows, and
\* once a planner was called the token bound is exceeded at most by what a single call
\* used beyond its reserve and by what was not reported (planner.py:245): the
\* replayed account and the refusal of ambiguous effects together keep the bounds.
CallsWithinBudget ==
  /\ calls <= MaxCallAttempts
  /\ \A most \in UsageOfCall : calls > 1 /\ (\A u \in UsageOfCall : u <= most) =>
       spent <= MaxCallTokens - CallReserve + most + unreported

\* planner.py:207: restore_checkpoint is to "Restore paid-call accounting and transcript
\* from a v2 checkpoint": a planner that has replayed all checkpoints counts all tokens.
AccountRestored == Replayed => attemptsUsed = calls /\ tokensUsed = spent
=============================================================================
