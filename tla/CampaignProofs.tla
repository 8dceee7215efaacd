---------------------------- MODULE CampaignProofs ---------------------------
(***************************************************************************)
(* Theorems about the campaign's parts, each under its own specification:  *)
(* the planner's account, the ledger of a version 1 campaign, the runner   *)
(* of a fixed list, the commands over a campaign root, the budget ledger.  *)
(***************************************************************************)
EXTENDS CampaignParts, FiniteSetTheorems, SumTheorems, TLAPS
(***************************************************************************)
(* The planner's account keeps its bounds over any number of calls, deaths *)
(* and replays.  What a replay has counted is a partial sum of what the    *)
(* checkpoints recorded, so the invariant carries the partial sums.        *)
(***************************************************************************)

Recorded == Len(recordedCalls)

\* The account after the activation and after each recorded call.
Sums(s) ==
  /\ s \in [0..Recorded -> Nat]
  /\ s[0] = ActivationTokens
  /\ \A i \in 1..Recorded : s[i] = s[i - 1] + recordedCalls[i]
  /\ \A i \in 0..Recorded : s[i] <= s[Recorded]

Shape ==
  /\ recordedCalls \in Seq(Nat)
  /\ accounted \in Nat /\ attemptsUsed \in Nat /\ tokensUsed \in Nat
  /\ calls \in Nat /\ spent \in Nat /\ unreported \in Nat /\ returned \in Nat

\* Between two calls: the living planner counted the calls it replayed, all calls were
\* recorded, and what was spent is what was recorded and what was not reported.
Between(s) ==
  /\ accounted \in 0..Recorded /\ attemptsUsed = 1 + accounted /\ calls = 1 + Recorded
  /\ tokensUsed >= s[accounted] /\ tokensUsed <= s[accounted] + unreported
  /\ spent - unreported = s[Recorded]

During(s) == Between(s) /\ accounted = Recorded /\ Reserved

\* A response that is not recorded yet.
After(s) ==
  /\ accounted = Recorded + 1 /\ attemptsUsed = calls /\ calls = 2 + Recorded
  /\ spent - unreported = s[Recorded] + returned /\ tokensUsed >= s[Recorded] + returned
  /\ tokensUsed <= s[Recorded] + returned + unreported

Phase(s) ==
  /\ callPhase = "idle" => Between(s)
  /\ callPhase = "calling" => During(s)
  /\ callPhase = "returned" => After(s)

PInv == Shape /\ CallsWithinBudget /\ \E s : Sums(s) /\ Phase(s)
-----------------------------------------------------------------------------
LEMMA PlannerInitInv == PlannerInit => PInv
<1> SUFFICES ASSUME PlannerInit PROVE PInv
  OBVIOUS
<1> USE PlannerAssumption DEF PlannerInit
<1>1. Shape /\ CallsWithinBudget
  BY DEF Shape, CallsWithinBudget
<1>2. Recorded = 0
  BY DEF Recorded
<1>3. Sums([i \in 0..0 |-> ActivationTokens]) /\ Phase([i \in 0..0 |-> ActivationTokens])
  BY <1>2 DEF Sums, Phase, Between
<1> QED
  BY <1>1, <1>3 DEF PInv

\* One more recorded call extends the partial sums.
LEMMA SumsExtend ==
  ASSUME NEW s, NEW n \in Nat, NEW r \in Nat, Sums(s), Shape, n = Recorded, r = returned,
         recordedCalls' = Append(recordedCalls, returned)
  PROVE  Recorded' = n + 1 /\ \E t : Sums(t)' /\ t[n + 1] = s[n] + r
<1> DEFINE t == [i \in 0..n + 1 |-> IF i <= n THEN s[i] ELSE s[n] + r]
<1>1. Recorded' = n + 1 /\ s \in [0..n -> Nat]
  BY DEF Recorded, Shape, Sums
<1>2. t \in [0..n + 1 -> Nat] /\ t[0] = ActivationTokens /\ t[n + 1] = s[n] + r
  BY <1>1 DEF Sums
<1>3. ASSUME NEW i \in 1..n + 1 PROVE t[i] = t[i - 1] + recordedCalls'[i]
  <2>0. i <= n \/ i = n + 1
    OBVIOUS
  <2>1. CASE i <= n
    <3>1. t[i] = s[i] /\ t[i - 1] = s[i - 1] /\ i \in 1..n
      BY <2>1
    <3>2. recordedCalls'[i] = recordedCalls[i]
      BY <3>1 DEF Shape, Recorded
    <3>3. s[i] = s[i - 1] + recordedCalls[i]
      BY <3>1 DEF Sums
    <3> HIDE DEF t
    <3> QED
      BY <3>1, <3>2, <3>3
  <2>2. CASE i = n + 1
    <3>1. t[i] = s[n] + r /\ t[i - 1] = s[n]
      BY <2>2
    <3>2. recordedCalls'[i] = returned
      BY <2>2 DEF Shape, Recorded
    <3> QED
      BY <3>1, <3>2
  <2> HIDE DEF t
  <2> QED
    BY <2>0, <2>1, <2>2
<1>4. \A i \in 0..n + 1 : t[i] <= t[n + 1]
  <2> SUFFICES ASSUME NEW i \in 0..n + 1 PROVE t[i] <= t[n + 1]
    OBVIOUS
  <2>1. CASE i <= n
    <3>1. s[i] <= s[n] /\ s[i] \in Nat /\ s[n] \in Nat /\ t[i] = s[i]
      BY <1>1, <2>1 DEF Sums
    <3> HIDE DEF t
    <3> QED
      BY <1>2, <3>1
  <2>2. CASE i = n + 1
    BY <1>2, <2>2
  <2> QED
    BY <2>1, <2>2
<1>5. Sums(t)'
  <2> HIDE DEF t
  <2> QED
    BY <1>1, <1>2, <1>3, <1>4 DEF Sums
<1> QED
  BY <1>1, <1>2, <1>5

LEMMA PlannerStepInv == PInv /\ [PlannerNext]_plannerVars => PInv'
<1> SUFFICES ASSUME PInv, [PlannerNext]_plannerVars PROVE PInv'
  OBVIOUS
<1> USE PlannerAssumption
<1> PICK s : Sums(s) /\ Phase(s)
  BY DEF PInv
<1>a. Shape /\ CallsWithinBudget /\ Recorded \in Nat
  BY DEF PInv, Shape, Recorded
<1>s. ASSUME UNCHANGED recordedCalls PROVE Sums(s)' /\ Recorded' = Recorded
  BY <1>s DEF Sums, Recorded
<1>1. CASE PlannerCalls
  <2> USE <1>1 DEF PlannerCalls
  <2>1. Sums(s)' /\ Phase(s)'
    BY <1>a, <1>s DEF Phase, Between, During, Reserved, Shape, Recorded
  <2> QED
    BY <1>a, <2>1 DEF PInv, Shape, CallsWithinBudget
<1>2. CASE PlannerReturns
  <2> USE <1>2 DEF PlannerReturns
  <2>0. During(s)
    BY DEF Phase
  <2> PICK tokens \in UsageOfCall, source \in {"api_reported", "api_reported_with_cache"} :
        /\ attemptsUsed' = attemptsUsed + 1 /\ tokensUsed' = tokensUsed + tokens
        /\ returned' = Carried(tokens, source) /\ calls' = calls + 1
        /\ spent' = spent + tokens /\ unreported' = unreported + tokens - returned'
    OBVIOUS
  <2>1. returned' \in Nat /\ tokens \in Nat /\ returned' <= tokens
    BY DEF Carried
  <2>2. s[Recorded] \in Nat
    BY <1>a DEF Sums
  <2>3. Shape'
    BY <1>a, <2>1 DEF Shape
  <2>4. Sums(s)' /\ Phase(s)'
    <3>1. Sums(s)' /\ Recorded' = Recorded
      BY <1>s
    <3>2. callPhase' = "returned" /\ accounted' = accounted + 1
      OBVIOUS
    <3>3. attemptsUsed = calls /\ tokensUsed >= s[Recorded] /\ accounted = Recorded
          /\ tokensUsed <= s[Recorded] + unreported
      BY <2>0 DEF During, Between
    <3>4. /\ spent \in Nat /\ unreported \in Nat /\ tokensUsed \in Nat
          /\ attemptsUsed \in Nat /\ calls \in Nat
      BY <1>a DEF Shape
    <3>5. spent' - unreported' = s[Recorded] + returned'
      BY <2>0, <2>1, <2>2, <3>4 DEF During, Between
    <3>6. tokensUsed' >= s[Recorded] + returned'
          /\ tokensUsed' <= s[Recorded] + returned' + unreported'
      BY <2>1, <2>2, <3>3, <3>4
    <3>7. attemptsUsed' = calls' /\ calls' = 2 + Recorded
      BY <1>a, <2>0, <3>3, <3>4 DEF During, Between
    <3> HIDE DEF PlannerReturns
    <3>8. After(s)'
      BY <3>1, <3>2, <3>3, <3>5, <3>6, <3>7 DEF After
    <3> QED
      BY <3>1, <3>2, <3>8 DEF Phase
  <2>5. calls' <= MaxCallAttempts
    BY <1>a, <2>0 DEF During, Between, Reserved, Shape
  <2>6. spent' <= MaxCallTokens - CallReserve + tokens + unreported
    BY <1>a, <2>0, <2>1, <2>2 DEF During, Between, Reserved, Shape
  <2>7. unreported <= unreported' /\ unreported' \in Nat
    BY <1>a, <2>1 DEF Shape
  <2>8. ASSUME NEW most \in UsageOfCall, \A u \in UsageOfCall : u <= most
        PROVE  spent' <= MaxCallTokens - CallReserve + most + unreported'
    BY <2>3, <2>6, <2>7, <2>8, <2>1, <1>a DEF Shape
  <2> QED
    BY <2>3, <2>4, <2>5, <2>8 DEF PInv, CallsWithinBudget
<1>3. CASE PlannerRecorded
  <2> USE <1>3 DEF PlannerRecorded
  <2>0. After(s)
    BY DEF Phase
  <2>1. PICK n \in Nat, r \in Nat : n = Recorded /\ r = returned
    BY <1>a DEF Shape
  <2>2. Recorded' = n + 1 /\ \E t : Sums(t)' /\ t[n + 1] = s[n] + r
    BY <1>a, <2>1, SumsExtend
  <2> PICK t : Sums(t)' /\ t[n + 1] = s[n] + r
    BY <2>2
  <2>3. Phase(t)'
    BY <1>a, <2>0, <2>1, <2>2 DEF Phase, After, Between, Shape
  <2>4. Shape' /\ CallsWithinBudget'
    BY <1>a DEF Shape, CallsWithinBudget
  <2> QED
    BY <2>3, <2>4 DEF PInv
<1>4. CASE PlannerBoundsRefuse
  BY <1>4, <1>a, <1>s DEF PlannerBoundsRefuse, PInv, Shape, CallsWithinBudget, Phase
<1>5. CASE PlannerDies
  <2> USE <1>5 DEF PlannerDies
  <2>1. Sums(s)' /\ Phase(s)'
    BY <1>a, <1>s DEF Phase, Between, Sums, Shape
  <2> QED
    BY <1>a, <2>1 DEF PInv, Shape, CallsWithinBudget
<1>6. CASE PlannerReplays
  <2> USE <1>6 DEF PlannerReplays, RestoreCheckpoint
  <2>1. Between(s) /\ accounted + 1 \in 1..Recorded
    BY <1>a DEF Phase, Between, Recorded
  <2>2. /\ recordedCalls[accounted + 1] \in Nat
        /\ s[accounted + 1] = s[accounted] + recordedCalls[accounted + 1]
        /\ s[accounted] \in Nat
    <3>1. PICK k \in 1..Recorded : k = accounted + 1 /\ accounted = k - 1
      BY <1>a, <2>1 DEF Shape
    <3>2. recordedCalls[k] \in Nat /\ k - 1 \in 0..Recorded
      BY <1>a, <3>1 DEF Shape, Recorded
    <3>3. s[k] = s[k - 1] + recordedCalls[k] /\ s[k - 1] \in Nat
      BY <3>2 DEF Sums
    <3> QED
      BY <3>1, <3>2, <3>3
  <2>3. Sums(s)' /\ Phase(s)'
    BY <1>a, <1>s, <2>1, <2>2 DEF Phase, Between, Shape
  <2> QED
    BY <1>a, <2>2, <2>3 DEF PInv, Shape, CallsWithinBudget
<1>7. CASE UNCHANGED plannerVars
  BY <1>7, <1>a, <1>s DEF plannerVars, PInv, Shape, CallsWithinBudget, Phase, Between, During,
     After, Reserved
<1> QED
  BY <1>1, <1>2, <1>3, <1>4, <1>5, <1>6, <1>7 DEF PlannerNext

\* For every budget, reserve and usage, and over any number of deaths and replays, the
\* provider is called no more often than the budget allows, and the token bound is
\* exceeded at most by one call and by what was not reported (planner.py:206, 245).
THEOREM PlannerWithinBudget == PlannerSpec => []CallsWithinBudget
<1>1. PInv => CallsWithinBudget
  BY DEF PInv
<1> QED
  BY PlannerInitInv, PlannerStepInv, <1>1, PTL DEF PlannerSpec

\* A planner never accounts for more than was spent: what it has replayed is a part of
\* what was recorded, and what it counted beyond that was spent and not reported.
LEMMA PlannerTypeStep ==
  PInv /\ PlannerTypeOK /\ [PlannerNext]_plannerVars => PlannerTypeOK'
<1> SUFFICES ASSUME PInv, PlannerTypeOK, [PlannerNext]_plannerVars PROVE PlannerTypeOK'
  OBVIOUS
<1> USE PlannerAssumption DEF PlannerTypeOK
<1> PICK s : Sums(s) /\ Phase(s)
  BY DEF PInv
<1>a. Shape /\ CallsWithinBudget /\ Recorded \in Nat /\ Recorded = Len(recordedCalls)
  BY DEF PInv, Shape, Recorded
<1>s. /\ s[Recorded] \in Nat /\ ActivationTokens <= s[Recorded] /\ ActivationTokens \in Nat
      /\ \A i \in 0..Recorded : s[i] \in Nat /\ s[i] <= s[Recorded]
  BY <1>a DEF Sums
<1>1. CASE PlannerCalls \/ PlannerBoundsRefuse \/ UNCHANGED plannerVars
  BY <1>1 DEF PlannerCalls, PlannerBoundsRefuse, plannerVars
<1>2. CASE PlannerReturns
  <2>1. PICK tokens \in UsageOfCall : attemptsUsed' = attemptsUsed + 1
          /\ tokensUsed' = tokensUsed + tokens /\ calls' = calls + 1 /\ spent' = spent + tokens
    BY <1>2 DEF PlannerReturns
  <2>2. During(s) /\ accounted' = accounted + 1 /\ UNCHANGED recordedCalls
    BY <1>2 DEF PlannerReturns, Phase
  <2>3. attemptsUsed = calls /\ attemptsUsed < MaxCallAttempts
    BY <1>a, <2>2 DEF During, Between, Reserved, Shape
  <2> QED
    BY <1>a, <2>1, <2>2, <2>3 DEF Shape, During
<1>3. CASE PlannerRecorded
  <2>1. Len(recordedCalls') = Recorded + 1
        /\ UNCHANGED <<attemptsUsed, tokensUsed, accounted, calls, spent>>
    BY <1>3, <1>a DEF PlannerRecorded, Shape
  <2> QED
    BY <1>a, <2>1
<1>4. CASE PlannerDies
  <2>1. attemptsUsed' = 1 /\ tokensUsed' = ActivationTokens /\ accounted' = 0
        /\ UNCHANGED <<recordedCalls, calls, spent>>
    BY <1>4 DEF PlannerDies
  <2>2. s[Recorded] <= spent
    BY <1>4, <1>a, <1>s DEF PlannerDies, Phase, Between, During, After, Shape
  <2> QED
    BY <1>a, <1>s, <2>1, <2>2 DEF Shape
<1>5. CASE PlannerReplays
  <2>1. PICK k \in 1..Recorded : k = accounted + 1 /\ accounted = k - 1
    BY <1>5, <1>a DEF PlannerReplays, Shape
  <2>2. /\ attemptsUsed' = attemptsUsed + 1 /\ tokensUsed' = tokensUsed + recordedCalls[k]
        /\ accounted' = k /\ Between(s) /\ UNCHANGED <<recordedCalls, calls, spent>>
    BY <1>5, <2>1 DEF PlannerReplays, RestoreCheckpoint, Phase
  <2>3. s[k] = s[k - 1] + recordedCalls[k] /\ recordedCalls[k] \in Nat
    BY <1>a, <2>1 DEF Sums, Shape
  <2>4. s[k] <= s[Recorded] /\ s[k] \in Nat /\ s[k - 1] \in Nat
    <3>1. k \in 0..Recorded /\ k - 1 \in 0..Recorded
      BY <1>a, <2>1
    <3> QED
      BY <1>s, <3>1
  <2>5. tokensUsed <= s[k - 1] + unreported /\ spent - unreported = s[Recorded]
        /\ attemptsUsed = k /\ calls = 1 + Recorded
    BY <2>1, <2>2, <1>a DEF Between, Shape
  <2>6. tokensUsed' <= spent'
    <3>1. tokensUsed \in Nat /\ unreported \in Nat /\ spent \in Nat
      BY <1>a DEF Shape
    <3>2. tokensUsed' = tokensUsed + recordedCalls[k] /\ spent' = spent
      BY <2>2
    <3> HIDE PlannerAssumption DEF PlannerTypeOK
    <3>3. tokensUsed' <= s[k] + unreported
      <4>1. \A t, u, r, x, y \in Nat : t <= x + u /\ y = x + r => t + r <= y + u
        OBVIOUS
      <4>2. tokensUsed <= s[k - 1] + unreported /\ s[k] = s[k - 1] + recordedCalls[k]
        BY <2>3, <2>5
      <4>3. tokensUsed + recordedCalls[k] <= s[k] + unreported
        BY <2>3, <2>4, <3>1, <4>1, <4>2
      <4> QED
        BY <3>2, <4>3
    <3>4. s[k] + unreported <= spent /\ s[k] + unreported \in Nat
      BY <1>s, <2>4, <2>5, <3>1
    <3>5. tokensUsed' \in Nat
      BY <2>3, <3>1, <3>2
    <3> QED
      BY <3>1, <3>2, <3>3, <3>4, <3>5
  <2>7. attemptsUsed' \in 1..MaxCallAttempts
    BY <1>a, <2>1, <2>2, <2>5 DEF Shape
  <2> QED
    BY <1>a, <2>1, <2>2, <2>6, <2>7
<1> QED
  BY <1>1, <1>2, <1>3, <1>4, <1>5 DEF PlannerNext

LEMMA PlannerTyped == PlannerSpec => []PlannerTypeOK
<1>1. PlannerInit => PlannerTypeOK
  BY PlannerAssumption DEF PlannerInit, PlannerTypeOK
<1> QED
  BY <1>1, PlannerInitInv, PlannerStepInv, PlannerTypeStep, PTL DEF PlannerSpec
-----------------------------------------------------------------------------
(***************************************************************************)
(* The ledger of a version 1 campaign closes and its verifier results stay *)
(* private, for any branches, texts, outputs and limits: whatever is       *)
(* readable or selected is recorded, and what is recorded is stored.       *)
(***************************************************************************)

Results == {Bytes(o) : o \in Outputs}

\* The store holds what the ledger names.
Kept == ending # "raised" => stored = recorded \ Seeds

\* What an action may name as its inputs is recorded.
Named ==
  /\ Seeds \subseteq recorded
  /\ available \cup programs \cup candidates \cup experiments \subseteq recorded
  /\ experiments \subseteq available
  /\ selected.candidate \cup selected.tools \subseteq recorded
  /\ last.outputs \subseteq recorded
  /\ last.inputs \subseteq last.before

CInv == Kept /\ Named /\ private \subseteq Results
-----------------------------------------------------------------------------
\* Seeds, the actions' own artifacts and the bytes of texts and outputs are apart.
LEMMA Apart ==
  /\ \A n : <<"action", n>> \notin Seeds
  /\ \A x : Bytes(x) \notin Seeds
  /\ \A n, x : <<"action", n>> # Bytes(x)
<1>1. "action" # "seed" /\ "bytes" # "seed" /\ "action" # "bytes"
  OBVIOUS
<1> QED
  BY <1>1 DEF Seeds, Target, Configuration, Bytes

LEMMA CStart == CampaignInit => CInv
  BY Apart DEF CampaignInit, CInv, Kept, Named, NoAction, Seeds, Target, Configuration

\* An action of recorded inputs keeps the ledger closed.
LEMMA AdmittedCloses ==
  ASSUME CInv, Going, NEW source, source \notin Seeds, NEW inputs, inputs \subseteq recorded,
         NEW outputs, outputs \cap Seeds = {}, NEW reason, Admitted(source, inputs, outputs, reason)
  PROVE  /\ Kept' /\ Seeds \subseteq recorded' /\ last'.outputs \subseteq recorded'
         /\ last'.inputs \subseteq last'.before
         /\ recorded' = recorded \cup {source} \cup outputs
  BY DEF CInv, Kept, Named, Going, Admitted, Ledger

LEMMA AloneCloses ==
  ASSUME CInv, Going, NEW source, source \notin Seeds, NEW inputs, inputs \subseteq recorded,
         NEW reason, Admitted(source, inputs, {}, reason)
  PROVE  /\ Kept' /\ Seeds \subseteq recorded' /\ last'.outputs \subseteq recorded'
         /\ last'.inputs \subseteq last'.before
         /\ recorded' = recorded \cup {source}
  BY DEF CInv, Kept, Named, Going, Admitted, Ledger

LEMMA RejectCloses ==
  ASSUME CInv, Going, NEW source, source \notin Seeds, Reject(source)
  PROVE  /\ Kept' /\ Seeds \subseteq recorded' /\ last'.outputs \subseteq recorded'
         /\ last'.inputs \subseteq last'.before
         /\ recorded' = recorded \cup {source}
<1>1. PriorOutputs \subseteq recorded
  BY DEF CInv, Named, PriorOutputs
<1> QED
  BY <1>1 DEF CInv, Kept, Named, Going, Reject, Ledger

\* What a step makes readable: artifacts it records, none of them private.
Opens == (available' \ available) \cap private' \subseteq experiments'

Good == CInv' /\ Opens
-----------------------------------------------------------------------------
LEMMA PriorInputsRecorded == CInv => PriorInputs \subseteq recorded
  BY DEF CInv, Named, PriorInputs

LEMMA ToolKeeps ==
  ASSUME CInv, Going, NEW inputs, inputs \subseteq recorded, NEW verified \in BOOLEAN,
         PerformTool(inputs, verified), UNCHANGED <<programs, candidates, suspended, selected>>
  PROVE  Good
<1>1. Raw \notin Seeds /\ Raw \notin Results
  BY Apart DEF Raw, Results
<1>2. CASE \E outputs \in SUBSET {Bytes(o) : o \in Outputs} \ {{}} :
             Admitted(Raw, inputs, outputs, "none") /\ Published(outputs, verified)
  <2>1. PICK outputs \in SUBSET Results :
          Admitted(Raw, inputs, outputs, "none") /\ Published(outputs, verified)
    BY <1>2 DEF Results
  <2>2. outputs \cap Seeds = {}
    BY <2>1, Apart DEF Results
  <2>3. /\ Kept' /\ Seeds \subseteq recorded' /\ last'.outputs \subseteq recorded'
        /\ last'.inputs \subseteq last'.before
        /\ recorded' = recorded \cup {Raw} \cup outputs
    BY <1>1, <2>1, <2>2, AdmittedCloses
  <2>4. CASE verified
    <3>1. /\ private' = private \cup outputs
          /\ available' = available \cup {a \in {Raw} \cup outputs : a \notin private'}
          /\ UNCHANGED experiments
      BY <2>1, <2>4 DEF Published, Open
    <3> QED
      BY <2>1, <2>3, <3>1 DEF CInv, Named, Good, Opens
  <2>5. CASE ~verified
    <3>1. /\ experiments' = experiments \cup outputs
          /\ available' = available \cup outputs \cup {Raw}
          /\ UNCHANGED private
      BY <2>1, <2>5 DEF Published
    <3> QED
      BY <1>1, <2>1, <2>3, <3>1 DEF CInv, Named, Good, Opens
  <2> QED
    BY <2>4, <2>5
<1>3. CASE Reject(Raw) /\ UNCHANGED <<available, experiments, private>>
  BY <1>1, <1>3, RejectCloses DEF CInv, Named, Good, Opens
<1>4. CASE ending' = "raised" /\ UNCHANGED <<last, recorded, available, experiments, private>>
  BY <1>4 DEF CInv, Kept, Named, Good, Opens
<1> QED
  BY <1>2, <1>3, <1>4 DEF PerformTool

LEMMA RefusedKeeps ==
  ASSUME CInv, Going, Refused, UNCHANGED <<programs, candidates, suspended, selected>>
  PROVE  Good
<1>1. Raw \notin Seeds
  BY Apart DEF Raw
<1> QED
  BY <1>1, RejectCloses DEF Refused, CInv, Named, Good, Opens

LEMMA WriteKeeps ==
  ASSUME CInv, NEW branch \in Branches, Write(branch)
  PROVE  Good
<1>1. PICK kind, t :
        LET source == Bytes(t) IN
        /\ Admitted(source, PriorInputs, {}, CASE kind = "report" -> "reported"
                                          [] kind = "ask" -> "awaiting_user"
                                          [] OTHER -> "none")
        /\ programs' = IF kind = "program" THEN programs \cup {source} ELSE programs
        /\ candidates' = IF kind = "candidate" THEN candidates \cup {source} ELSE candidates
        /\ UNCHANGED private
        /\ Open({source})
  BY DEF Write
<1>2. PICK reason : Admitted(Bytes(t), PriorInputs, {}, reason)
  BY <1>1
<1>3. Going /\ UNCHANGED <<experiments, selected>>
  BY DEF Write, Actable
<1>4. /\ Kept' /\ Seeds \subseteq recorded' /\ last'.outputs \subseteq recorded'
      /\ last'.inputs \subseteq last'.before
      /\ recorded' = recorded \cup {Bytes(t)}
  <2>1. Bytes(t) \notin Seeds /\ PriorInputs \subseteq recorded
    BY Apart, PriorInputsRecorded
  <2> QED
    BY <1>2, <1>3, <2>1, AloneCloses
<1> QED
  BY <1>1, <1>3, <1>4 DEF Open, CInv, Named, Good, Opens

LEMMA RunKeeps ==
  ASSUME CInv, NEW branch \in Branches, RunProgram(branch)
  PROVE  Good
<1>1. Going /\ UNCHANGED <<programs, candidates, suspended, selected>>
  BY DEF RunProgram, Actable
<1>2. CASE Refused
  BY <1>1, <1>2, RefusedKeeps
<1>3. ASSUME NEW inputs, inputs \subseteq available, PerformTool(inputs, FALSE)
      PROVE  Good
  <2>1. inputs \subseteq recorded
    BY <1>3 DEF CInv, Named
  <2> QED
    BY <1>1, <1>3, <2>1, ToolKeeps
<1>4. \/ Refused
      \/ \E program \in Offered, inputs \in ArtifactLists :
           {program} \cup inputs \subseteq available /\ PerformTool({program} \cup inputs, FALSE)
  BY DEF RunProgram
<1> QED
  BY <1>2, <1>3, <1>4

LEMMA VerifyKeeps ==
  ASSUME CInv, NEW branch \in Branches, Verify(branch)
  PROVE  Good
<1>1. Going /\ UNCHANGED <<programs, candidates, suspended, selected>>
  BY DEF Verify, Actable
<1>2. CASE Refused
  BY <1>1, <1>2, RefusedKeeps
<1>3. CASE PerformTool(selected.candidate \cup selected.tools, TRUE)
  <2>1. selected.candidate \cup selected.tools \subseteq recorded
    BY DEF CInv, Named
  <2> QED
    BY <1>1, <1>3, <2>1, ToolKeeps
<1> QED
  BY <1>2, <1>3 DEF Verify

LEMMA InspectKeeps ==
  ASSUME CInv, NEW branch \in Branches, Inspect(branch)
  PROVE  Good
<1>1. Going /\ UNCHANGED <<programs, experiments>>
  BY DEF Inspect, Actable
<1>2. PICK fresh \in BOOLEAN, tools \in ArtifactLists :
        \E chosen \in IF fresh THEN {Bytes(t) : t \in Texts} ELSE Offered :
          LET source == IF fresh THEN chosen ELSE Raw
              inputs == tools \cup (IF fresh THEN {} ELSE {chosen})
          IN IF /\ inputs \subseteq available \cup {source}
                /\ tools \subseteq experiments
                /\ fresh \/ chosen \in candidates
             THEN /\ Admitted(source, inputs, {}, "none")
                  /\ candidates' = candidates \cup {chosen}
                  /\ selected' = [candidate |-> {chosen}, tools |-> tools]
                  /\ UNCHANGED private
                  /\ Open({source})
             ELSE Reject(source) /\ UNCHANGED <<candidates, selected, private, available>>
  BY DEF Inspect
<1>3. PICK chosen \in IF fresh THEN {Bytes(t) : t \in Texts} ELSE Offered :
        LET source == IF fresh THEN chosen ELSE Raw
            inputs == tools \cup (IF fresh THEN {} ELSE {chosen})
        IN IF /\ inputs \subseteq available \cup {source}
              /\ tools \subseteq experiments
              /\ fresh \/ chosen \in candidates
           THEN /\ Admitted(source, inputs, {}, "none")
                /\ candidates' = candidates \cup {chosen}
                /\ selected' = [candidate |-> {chosen}, tools |-> tools]
                /\ UNCHANGED private
                /\ Open({source})
           ELSE Reject(source) /\ UNCHANGED <<candidates, selected, private, available>>
  BY <1>2
<1>4. PICK source : source = IF fresh THEN chosen ELSE Raw
  OBVIOUS
<1>5. PICK inputs : inputs = tools \cup (IF fresh THEN {} ELSE {chosen})
  OBVIOUS
<1>6. source \notin Seeds
  BY <1>3, <1>4, Apart DEF Raw
<1>7. CASE Reject(source) /\ UNCHANGED <<candidates, selected, private, available>>
  BY <1>1, <1>6, <1>7, RejectCloses DEF CInv, Named, Good, Opens
<1>8. CASE /\ tools \subseteq experiments /\ (fresh \/ chosen \in candidates)
           /\ Admitted(source, inputs, {}, "none")
           /\ candidates' = candidates \cup {chosen}
           /\ selected' = [candidate |-> {chosen}, tools |-> tools]
           /\ UNCHANGED private
           /\ Open({source})
  <2>1. inputs \subseteq recorded
    BY <1>5, <1>8 DEF CInv, Named
  <2>2. /\ Kept' /\ Seeds \subseteq recorded' /\ last'.outputs \subseteq recorded'
        /\ last'.inputs \subseteq last'.before
        /\ recorded' = recorded \cup {source}
    BY <1>1, <1>6, <1>8, <2>1, AloneCloses
  <2>3. chosen \in recorded'
    BY <1>4, <1>8, <2>2 DEF CInv, Named
  <2>4. tools \subseteq recorded'
    BY <1>8, <2>2 DEF CInv, Named
  <2>5. available' = available \cup {a \in {source} : a \notin private'}
    BY <1>8 DEF Open
  <2> QED
    BY <1>1, <1>8, <2>2, <2>3, <2>4, <2>5 DEF CInv, Named, Good, Opens
<1> QED
  BY <1>3, <1>4, <1>5, <1>7, <1>8

LEMMA ReadKeeps ==
  ASSUME CInv, NEW branch \in Branches, ReadArtifact(branch)
  PROVE  Good
<1>1. Going /\ UNCHANGED <<programs, candidates, experiments, selected>>
  BY DEF ReadArtifact, Actable
<1>2. Raw \notin Seeds
  BY Apart DEF Raw
<1>3. PICK requested \in Offered :
        IF requested \in available \cup {Frozen}
        THEN Admitted(Raw, ReadInputs(requested), {}, "none") /\ UNCHANGED private /\ Open({Raw})
        ELSE Reject(Raw) /\ UNCHANGED <<private, available>>
  BY DEF ReadArtifact
<1>4. CASE Reject(Raw) /\ UNCHANGED <<private, available>>
  BY <1>1, <1>2, <1>4, RejectCloses DEF CInv, Named, Good, Opens
<1>5. CASE Admitted(Raw, ReadInputs(requested), {}, "none") /\ UNCHANGED private /\ Open({Raw})
  <2>1. ReadInputs(requested) \subseteq recorded
    BY DEF ReadInputs, CInv, Named, Seeds
  <2>2. /\ Kept' /\ Seeds \subseteq recorded' /\ last'.outputs \subseteq recorded'
        /\ last'.inputs \subseteq last'.before
        /\ recorded' = recorded \cup {Raw}
    BY <1>1, <1>2, <1>5, <2>1, AloneCloses
  <2>3. available' = available \cup {a \in {Raw} : a \notin private'}
    BY <1>5 DEF Open
  <2> QED
    BY <1>1, <1>5, <2>2, <2>3 DEF CInv, Named, Good, Opens
<1> QED
  BY <1>3, <1>4, <1>5

\* Refusals, a response without an action, and what the schema refuses.
LEMMA OthersKeep ==
  ASSUME CInv, PlannerRefuses \/ PlannerFails \/ Malformed \/ TurnsExhausted
  PROVE  Good
<1>1. Raw \notin Seeds
  BY Apart DEF Raw
<1>2. PriorOutputs \subseteq recorded
  BY DEF CInv, Named, PriorOutputs
<1>3. CASE PlannerRefuses
  BY <1>2, <1>3 DEF PlannerRefuses, Going, Ledger, CInv, Kept, Named, Good, Opens
<1>4. CASE PlannerFails
  BY <1>1, <1>2, <1>4 DEF PlannerFails, Going, Ledger, CInv, Kept, Named, Good, Opens
<1>5. CASE Malformed
  <2>1. Going /\ UNCHANGED <<available, programs, candidates, experiments, private, selected>>
    BY <1>5 DEF Malformed
  <2>2. CASE Reject(Raw)
    BY <1>1, <2>1, <2>2, RejectCloses DEF CInv, Named, Good, Opens
  <2>3. CASE ending' = "raised" /\ UNCHANGED <<last, recorded>>
    BY <2>1, <2>3 DEF CInv, Kept, Named, Good, Opens
  <2> QED
    BY <1>5, <2>2, <2>3 DEF Malformed
<1>6. CASE TurnsExhausted
  BY <1>6 DEF TurnsExhausted, CInv, Kept, Named, Good, Opens
<1> QED
  BY <1>3, <1>4, <1>5, <1>6

LEMMA CStep == CInv /\ [CampaignNext]_campaignVars => CInv' /\ (campaignVars' = campaignVars \/ Opens)
<1> SUFFICES ASSUME CInv, [CampaignNext]_campaignVars
             PROVE  CInv' /\ (campaignVars' = campaignVars \/ Opens)
  OBVIOUS
<1>1. CASE CampaignNext
  <2>1. ASSUME NEW branch \in Branches,
               \/ Write(branch) \/ RunProgram(branch) \/ Inspect(branch)
               \/ Verify(branch) \/ ReadArtifact(branch)
        PROVE  Good
    BY <2>1, WriteKeeps, RunKeeps, InspectKeeps, VerifyKeeps, ReadKeeps
  <2> QED
    BY <1>1, <2>1, OthersKeep DEF CampaignNext, Good
<1>2. CASE UNCHANGED campaignVars
  BY <1>2 DEF campaignVars, CInv, Kept, Named
<1> QED
  BY <1>1, <1>2

LEMMA CAlways == CampaignSpec => []CInv
  BY CStart, CStep, PTL DEF CampaignSpec
-----------------------------------------------------------------------------
(***************************************************************************)
(* The export of a campaign closes: every action's inputs were recorded    *)
(* before it, and ledger and store name the same artifacts, whatever the   *)
(* planner asks for, after rejections and oversize results too.            *)
(***************************************************************************)
THEOREM CampaignExportCloses == CampaignSpec => []ExportCloses
  BY CAlways, PTL DEF CInv, Kept, Named, ExportCloses

(***************************************************************************)
(* What a verifier returned is never made readable by recording it or by   *)
(* writing it anew: only an experiment that returns the same bytes opens   *)
(* it.                                                                     *)
(***************************************************************************)
THEOREM VerifierResultsPrivate == CampaignSpec => PrivateUnlessRun
<1>1. CInv /\ [CampaignNext]_campaignVars
        => [(available' \ available) \cap private' \subseteq experiments']_campaignVars
  BY CStep DEF Opens
<1> QED
  BY <1>1, CAlways, PTL DEF CampaignSpec, PrivateUnlessRun
-----------------------------------------------------------------------------
(***************************************************************************)
(* The runner of a fixed list: what its summary says, the records bear out *)
(* for ever.                                                               *)
(***************************************************************************)
Running == position \in {"enter", "effect", "consume"}

\* While a run goes on its sequence is one of the list's; what it will write has its form.
ListShape ==
  /\ ListTypeOK
  /\ position # "off" => Accepts(actions) /\ seq <= Len(actions)
  /\ position = "off" => seq = 1
  /\ Running => draft = [status |-> None, done |-> 0, time |-> draft.time] /\ draft.time \in Times
  /\ position \in {"compare", "replace"} => draft \in Summaries

LEMMA ListFacts ==
  ASSUME ListShape
  PROVE  /\ MaxActions \in Nat \ {0} /\ MaxRunDeaths \in Nat
         /\ Len(actions) \in Nat /\ DOMAIN actions = 1..Len(actions)
         /\ Accepts(actions) => Len(actions) \in 1..MaxActions
<1>1. Len(actions) \in Nat /\ DOMAIN actions = 1..Len(actions)
  BY EndToEndAssumption DEF ListShape, ListTypeOK
<1>2. Accepts(actions) => DOMAIN actions # {}
  BY DEF Accepts, Kinds
<1> QED
  BY <1>1, <1>2, EndToEndAssumption DEF Accepts

\* The draft of a run that concludes.
LEMMA Concluded ==
  ASSUME ListShape, Running, NEW status \in {"completed", "unresolved"},
         NEW done \in 0..MaxActions, Conclude(status, done),
         UNCHANGED <<actions, listFiles, former, seq, runDeaths>>
  PROVE  ListShape'
<1>1. draft = [status |-> None, done |-> 0, time |-> draft.time] /\ draft.time \in Times
  BY DEF ListShape
<1>2. draft' = [status |-> status, done |-> done, time |-> draft.time] /\ position' = "compare"
  BY <1>1 DEF Conclude
<1>3. draft' \in Summaries
  BY <1>1, <1>2 DEF Summaries
<1> QED
  BY <1>2, <1>3 DEF ListShape, ListTypeOK, Running, listFiles

LEMMA ListShapeStep == ListShape /\ [ListNext]_listVars => ListShape'
<1> SUFFICES ASSUME ListShape, [ListNext]_listVars PROVE ListShape'
  OBVIOUS
<1>0. /\ MaxActions \in Nat \ {0} /\ MaxRunDeaths \in Nat
      /\ Len(actions) \in Nat /\ DOMAIN actions = 1..Len(actions)
      /\ Accepts(actions) => Len(actions) \in 1..MaxActions
  BY ListFacts
<1>1. ASSUME NEW time \in Times, Run(time) PROVE ListShape'
  <2>1. Accepts(actions) /\ seq' = seq /\ draft' = [status |-> None, done |-> 0, time |-> time]
        /\ position' = "enter" /\ UNCHANGED <<actions, listFiles, former, runDeaths>>
    BY <1>1 DEF Run
  <2>2. position = "off"
    BY <1>1 DEF Run
  <2>3. draft' = [status |-> None, done |-> 0, time |-> draft'.time] /\ draft'.time \in Times
    BY <2>1
  <2>4. ListTypeOK' /\ seq' <= Len(actions')
    BY <1>0, <2>1 DEF ListShape, ListTypeOK, listFiles
  <2>5. Accepts(actions)'
    BY <2>1 DEF Accepts, First, Kinds
  <2> QED
    BY <2>1, <2>3, <2>4, <2>5 DEF ListShape, Running
<1>2. CASE Raise \/ RunDies
  BY <1>0, <1>2 DEF Raise, RunDies, Off, ListShape, ListTypeOK, Running, listFiles
<1>3. CASE Announce
  BY <1>0, <1>3 DEF Announce, ListShape, ListTypeOK, Running, listFiles
<1>4. CASE Retry \/ Replay
  BY <1>0, <1>4 DEF Retry, Replay, Meets, ListShape, ListTypeOK, Running, listFiles
<1>5. ASSUME NEW status \in {"completed", "failed"}, Settle(status) PROVE ListShape'
  BY <1>0, <1>5 DEF Settle, ListShape, ListTypeOK, Running, listFiles
<1>6. CASE StopAmbiguous \/ StopFailed
  <2>1. Running /\ UNCHANGED <<actions, listFiles, former, seq, runDeaths>>
        /\ \E done \in {seq - 1, seq} : Conclude("unresolved", done)
    BY <1>6 DEF StopAmbiguous, StopFailed, Meets, Running
  <2>2. seq - 1 \in 0..MaxActions /\ seq \in 0..MaxActions
    BY <1>0 DEF ListShape, ListTypeOK
  <2> QED
    BY <2>1, <2>2, Concluded
<1>7. CASE GoOn
  <2>1. Running /\ UNCHANGED <<actions, listFiles, former, runDeaths>> /\ position = "consume"
    BY <1>7 DEF GoOn, Running
  <2>2. CASE seq < Len(actions)
    BY <1>0, <1>7, <2>1, <2>2 DEF GoOn, ListShape, ListTypeOK, Running, listFiles
  <2>3. CASE ~(seq < Len(actions))
    <3>1. Conclude("completed", seq) /\ UNCHANGED seq
      BY <1>7, <2>3 DEF GoOn
    <3>2. seq \in 0..MaxActions
      BY <1>0 DEF ListShape, ListTypeOK
    <3> QED
      BY <2>1, <3>1, <3>2, Concluded
  <2> QED
    BY <2>2, <2>3
<1>8. CASE RefuseIntent
  BY <1>0, <1>8 DEF RefuseIntent, Off, ListShape, ListTypeOK, Running, listFiles
<1>9. CASE Preserve
  <2>1. history' \subseteq history \cup ({summary} \ {None})
    BY <1>9 DEF Preserve
  <2> QED
    BY <1>0, <1>9, <2>1 DEF Preserve, ListShape, ListTypeOK, Running
<1>10. CASE Replace
  BY <1>0, <1>10 DEF Replace, Off, ListShape, ListTypeOK, Running
<1>11. CASE UNCHANGED listVars
  BY <1>11 DEF listVars, listFiles, ListShape, ListTypeOK, Running
<1> QED
  BY <1>1, <1>2, <1>3, <1>4, <1>5, <1>6, <1>7, <1>8, <1>9, <1>10, <1>11 DEF ListNext

LEMMA ListBegins == ListInit => ListShape
  BY EndToEndAssumption DEF ListInit, ListShape, ListTypeOK, Running

LEMMA ListTyped == ListSpec => []ListTypeOK
<1>1. ListShape => ListTypeOK
  BY DEF ListShape
<1> QED
  BY <1>1, ListBegins, ListShapeStep, PTL DEF ListSpec
-----------------------------------------------------------------------------
\* Past the first intent a run has the time of the records; what it passed was passed; it is
\* at an effect only as long as no summary was written; and what it is about to write is
\* what the records say.
SummaryInv ==
  /\ position # "off" => \A r \in 1..seq - 1 : Passed(r)
  /\ position # "off" /\ (position = "enter" => seq > 1) => draft.time = stamps[1]
  /\ position = "effect" => steps[seq] = "intent" /\ former = {}
  /\ position = "consume" => steps[seq] \in {"completed", "failed"}
  /\ position \in {"compare", "replace"} => Says(draft)
  /\ summary \in former \cup {None}
  /\ SummaryStands

\* The records say one thing.
LEMMA SaysOne ==
  ASSUME ListShape, NEW g \in Summaries, NEW h \in Summaries, Says(g), Says(h)
  PROVE  g = h
<1>0. /\ Len(actions) \in Nat /\ DOMAIN actions = 1..Len(actions)
  BY ListFacts
<1> DEFINE Stop(s) == /\ \A r \in 1..s - 1 : Passed(r)
                      /\ ~Passed(s)
<1>1. ASSUME NEW s \in DOMAIN actions, NEW t \in DOMAIN actions, Stop(s), Stop(t)
      PROVE  s = t
  <2>1. ~(s < t) /\ ~(t < s)
    BY <1>0, <1>1
  <2> QED
    BY <1>0, <2>1
<1>2. CASE \A s \in DOMAIN actions : Passed(s)
  <2>1. g.status = "completed" /\ g.done = Len(actions) /\ h.status = "completed"
        /\ h.done = Len(actions) /\ g.time = h.time
    BY <1>2 DEF Says
  <2> QED
    BY <2>1 DEF Summaries
<1>3. CASE ~ \A s \in DOMAIN actions : Passed(s)
  <2>1. PICK s \in DOMAIN actions :
          /\ Stop(s)
          /\ \/ steps[s] = "failed" /\ g.done = s
             \/ steps[s] = "intent" /\ actions[s].paid /\ g.done = s - 1
    BY <1>3 DEF Says
  <2>2. PICK t \in DOMAIN actions :
          /\ Stop(t)
          /\ \/ steps[t] = "failed" /\ h.done = t
             \/ steps[t] = "intent" /\ actions[t].paid /\ h.done = t - 1
    BY <1>3 DEF Says
  <2>3. s = t
    BY <1>1, <2>1, <2>2
  <2>4. g.done = h.done
    BY <2>1, <2>2, <2>3
  <2>5. g.status = "unresolved" /\ h.status = "unresolved" /\ g.time = h.time
    BY <1>3 DEF Says
  <2> QED
    BY <2>4, <2>5 DEF Summaries
<1> QED
  BY <1>2, <1>3

\* Once they say anything, no sequence a run gets to waits for an effect.
LEMMA NothingLeft ==
  ASSUME ListShape, NEW h, Says(h), seq \in DOMAIN actions, \A r \in 1..seq - 1 : Passed(r)
  PROVE  steps[seq] # "none" /\ (steps[seq] = "intent" => actions[seq].paid)
<1>0. /\ Len(actions) \in Nat /\ DOMAIN actions = 1..Len(actions)
  BY ListFacts
<1>1. CASE Passed(seq)
  BY <1>1 DEF Passed
<1>2. CASE ~Passed(seq)
  <2>1. PICK s \in DOMAIN actions :
          /\ \A r \in 1..s - 1 : Passed(r)
          /\ ~Passed(s)
          /\ \/ steps[s] = "failed"
             \/ steps[s] = "intent" /\ actions[s].paid
    BY <1>2 DEF Says
  <2>2. ~(s < seq) /\ ~(seq < s)
    BY <1>0, <1>2, <2>1
  <2>3. s = seq
    BY <1>0, <2>2
  <2> QED
    BY <2>1, <2>3
<1> QED
  BY <1>1, <1>2

\* Where the records stay, so does what they say.
LEMMA RecordsRest ==
  ASSUME UNCHANGED <<actions, steps, stamps>>
  PROVE  /\ \A s : Passed(s)' <=> Passed(s)
         /\ \A h : Says(h)' <=> Says(h)
<1>1. \A s : Passed(s)' <=> Passed(s)
  BY DEF Passed
<1> QED
  BY <1>1 DEF Says

\* A step that writes neither a record nor a summary.
LEMMA SummaryRests ==
  ASSUME SummaryInv, UNCHANGED <<actions, listFiles, former>>,
         position' # "off" => \A r \in 1..seq' - 1 : Passed(r),
         position' # "off" /\ (position' = "enter" => seq' > 1) => draft'.time = stamps[1],
         position' = "effect" => steps[seq'] = "intent" /\ former = {},
         position' = "consume" => steps[seq'] \in {"completed", "failed"},
         position' \in {"compare", "replace"} => Says(draft')
  PROVE  SummaryInv'
<1>1. UNCHANGED <<actions, steps, stamps, summary, history, former>>
  BY DEF listFiles
<1>2. position' \in {"compare", "replace"} => Says(draft)'
  BY <1>1, RecordsRest DEF Says, Passed
<1>3. SummaryStands'
  BY <1>1, RecordsRest DEF SummaryStands, SummaryInv
<1>4. position' # "off" => \A r \in 1..seq' - 1 : Passed(r)'
  BY <1>1 DEF Passed
<1> QED
  BY <1>1, <1>2, <1>3, <1>4 DEF SummaryInv

LEMMA SummaryBegins == ListInit => SummaryInv
  BY DEF ListInit, SummaryInv, SummaryStands

LEMMA SummaryStep == ListShape /\ SummaryInv /\ [ListNext]_listVars => SummaryInv'
<1> SUFFICES ASSUME ListShape, SummaryInv, [ListNext]_listVars PROVE SummaryInv'
  OBVIOUS
<1>0. /\ Len(actions) \in Nat /\ DOMAIN actions = 1..Len(actions)
      /\ seq \in Nat /\ seq >= 1 /\ (position # "off" => seq \in DOMAIN actions)
  BY ListFacts DEF ListShape, ListTypeOK
<1>n. ASSUME position = "enter", steps[seq] = "none" \/ (steps[seq] = "intent" /\ ~Action.paid)
      PROVE  former = {}
  BY <1>0, <1>n, NothingLeft DEF SummaryInv, SummaryStands, Action
<1>t. ASSUME NEW status, Meets(status) PROVE draft.time = stamps[1]
  BY <1>0, <1>t DEF Meets, SummaryInv
<1>1. ASSUME NEW time \in Times, Run(time) PROVE SummaryInv'
  <2>1. position' = "enter" /\ seq' = 1 /\ UNCHANGED <<actions, listFiles, former>>
    BY <1>1 DEF Run, ListShape
  <2> QED
    BY <2>1, SummaryRests
<1>2. CASE Raise \/ RefuseIntent \/ RunDies
  <2>1. position' = "off" /\ UNCHANGED <<actions, listFiles, former>>
    BY <1>2 DEF Raise, RefuseIntent, RunDies, Off
  <2> QED
    BY <2>1, SummaryRests
<1>3. CASE Announce
  <2>1. /\ position = "enter" /\ position' = "effect" /\ steps[seq] = "none"
        /\ steps' = [steps EXCEPT ![seq] = "intent"]
        /\ stamps' = [stamps EXCEPT ![seq] = draft.time]
        /\ UNCHANGED <<actions, summary, history, former, seq, draft>>
    BY <1>3 DEF Announce
  <2>2. former = {} /\ history = {} /\ summary = None
    BY <1>n, <2>1 DEF SummaryInv, SummaryStands
  <2>3. steps'[seq] = "intent" /\ \A r \in 1..seq - 1 : steps'[r] = steps[r]
    BY <1>0, <2>1 DEF ListShape, ListTypeOK
  <2>4. \A r \in 1..seq - 1 : Passed(r)'
    BY <2>1, <2>3 DEF SummaryInv, Passed
  <2>5. draft.time = stamps'[1]
    BY <1>0, <2>1 DEF SummaryInv, ListShape, ListTypeOK
  <2> QED
    BY <2>1, <2>2, <2>3, <2>4, <2>5 DEF SummaryInv, SummaryStands
<1>4. CASE Retry
  <2>1. /\ position = "enter" /\ position' = "effect" /\ steps[seq] = "intent" /\ ~Action.paid
        /\ UNCHANGED <<actions, listFiles, former, seq, draft>>
    BY <1>4 DEF Retry, Meets
  <2>2. former = {} /\ draft.time = stamps[1]
    BY <1>4, <1>n, <1>t, <2>1 DEF Retry
  <2> QED
    BY <2>1, <2>2, SummaryRests DEF SummaryInv
<1>5. CASE Replay
  <2>1. /\ position = "enter" /\ position' = "consume" /\ steps[seq] \in {"completed", "failed"}
        /\ UNCHANGED <<actions, listFiles, former, seq, draft>>
    BY <1>5 DEF Replay, Meets
  <2>2. draft.time = stamps[1]
    BY <1>5, <1>t DEF Replay
  <2> QED
    BY <2>1, <2>2, SummaryRests DEF SummaryInv
<1>6. ASSUME NEW status \in {"completed", "failed"}, Settle(status) PROVE SummaryInv'
  <2>1. /\ position = "effect" /\ position' = "consume"
        /\ steps' = [steps EXCEPT ![seq] = status]
        /\ UNCHANGED <<actions, stamps, summary, history, former, seq, draft>>
    BY <1>6 DEF Settle
  <2>2. former = {} /\ history = {} /\ summary = None /\ draft.time = stamps[1]
    BY <2>1 DEF SummaryInv, SummaryStands
  <2>3. steps'[seq] = status /\ \A r \in 1..seq - 1 : steps'[r] = steps[r]
    BY <1>0, <2>1 DEF ListShape, ListTypeOK
  <2>4. \A r \in 1..seq - 1 : Passed(r)'
    BY <2>1, <2>3 DEF SummaryInv, Passed
  <2> QED
    BY <2>1, <2>2, <2>3, <2>4 DEF SummaryInv, SummaryStands
<1>c. ASSUME NEW status, NEW done, Running, Conclude(status, done),
             UNCHANGED <<actions, listFiles, former, seq>>
      PROVE  position' = "compare" /\ draft'.status = status /\ draft'.done = done
             /\ draft'.time = draft.time
  BY <1>c DEF Conclude, ListShape
<1>7. CASE StopAmbiguous
  <2>1. /\ position = "enter" /\ steps[seq] = "intent" /\ actions[seq].paid
        /\ Conclude("unresolved", seq - 1) /\ UNCHANGED <<actions, listFiles, former, seq>>
    BY <1>7 DEF StopAmbiguous, Meets, Action
  <2>2. draft.time = stamps[1]
    BY <1>7, <1>t DEF StopAmbiguous
  <2>3. position' = "compare" /\ draft'.status = "unresolved" /\ draft'.done = seq - 1
        /\ draft'.time = stamps[1]
    BY <1>c, <2>1, <2>2 DEF Running
  <2>4. ~Passed(seq) /\ \A r \in 1..seq - 1 : Passed(r)
    BY <2>1 DEF Passed, SummaryInv
  <2>5. Says(draft')
    BY <1>0, <2>1, <2>3, <2>4 DEF Says
  <2> QED
    BY <2>1, <2>3, <2>4, <2>5, SummaryRests
<1>8. CASE StopFailed
  <2>1. /\ position = "consume" /\ ~Passed(seq)
        /\ Conclude("unresolved", seq) /\ UNCHANGED <<actions, listFiles, former, seq>>
    BY <1>8 DEF StopFailed
  <2>2. position' = "compare" /\ draft'.status = "unresolved" /\ draft'.done = seq
        /\ draft'.time = stamps[1]
    BY <1>c, <2>1 DEF Running, SummaryInv
  <2>3. steps[seq] = "failed" /\ \A r \in 1..seq - 1 : Passed(r)
    BY <2>1 DEF Passed, SummaryInv
  <2>4. Says(draft')
    BY <1>0, <2>1, <2>2, <2>3 DEF Says
  <2> QED
    BY <2>1, <2>2, <2>3, <2>4, SummaryRests
<1>9. CASE GoOn
  <2>1. position = "consume" /\ Passed(seq) /\ UNCHANGED <<actions, listFiles, former>>
        /\ draft.time = stamps[1]
    BY <1>9 DEF GoOn, SummaryInv
  <2>2. \A r \in 1..seq : Passed(r)
    BY <1>0, <2>1 DEF SummaryInv
  <2>3. CASE seq < Len(actions)
    <3>1. seq' = seq + 1 /\ position' = "enter" /\ draft' = draft
      BY <1>9, <2>3 DEF GoOn
    <3> QED
      BY <1>0, <2>1, <2>2, <3>1, SummaryRests
  <2>4. CASE ~(seq < Len(actions))
    <3>1. Conclude("completed", seq) /\ UNCHANGED seq /\ seq = Len(actions)
      BY <1>0, <1>9, <2>1, <2>4 DEF GoOn
    <3>2. position' = "compare" /\ draft'.status = "completed" /\ draft'.done = Len(actions)
          /\ draft'.time = stamps[1]
      BY <1>c, <2>1, <3>1 DEF Running
    <3>3. Says(draft')
      BY <1>0, <2>2, <3>1, <3>2 DEF Says
    <3>4. \A r \in 1..seq' - 1 : Passed(r)
      BY <1>0, <2>2, <3>1
    <3> QED
      BY <2>1, <3>2, <3>3, <3>4, SummaryRests
  <2> QED
    BY <2>3, <2>4
<1>10. CASE Preserve
  <2>1. /\ position = "compare" /\ position' = "replace"
        /\ history' = history \cup ({summary} \ {None, draft})
        /\ UNCHANGED <<actions, steps, stamps, summary, former, seq, draft>>
    BY <1>10 DEF Preserve
  <2>2. draft \in Summaries /\ Says(draft) /\ former \subseteq Summaries
    BY <2>1 DEF ListShape, ListTypeOK, SummaryInv
  <2>3. summary \in {None, draft}
    BY <2>2, SaysOne DEF SummaryInv, SummaryStands
  <2>4. history' = history
    BY <2>1, <2>3
  <2> QED
    BY <2>1, <2>2, <2>4, SummaryRests DEF listFiles, SummaryInv
<1>11. CASE Replace
  <2>1. /\ position = "replace" /\ position' = "off" /\ summary' = draft
        /\ former' = former \cup {draft} /\ UNCHANGED <<actions, steps, stamps, history>>
    BY <1>11 DEF Replace, Off
  <2>2. \A h \in former' : Says(h)
    BY <2>1 DEF SummaryInv, SummaryStands
  <2>3. SummaryStands'
    BY <2>1, <2>2, RecordsRest DEF SummaryInv, SummaryStands
  <2> QED
    BY <2>1, <2>3 DEF SummaryInv
<1>12. CASE UNCHANGED listVars
  <2>1. UNCHANGED <<actions, listFiles, former, position, seq, draft>>
    BY <1>12 DEF listVars
  <2>2. UNCHANGED steps
    BY <2>1 DEF listFiles
  <2> QED
    BY <2>1, <2>2, SummaryRests DEF SummaryInv
<1> QED
  BY <1>1, <1>2, <1>3, <1>4, <1>5, <1>6, <1>7, <1>8, <1>9, <1>10, <1>11, <1>12 DEF ListNext

\* end_to_end.py:213-303: for any lists, failures, times and deaths, what a summary told
\* stays what the records say, and no run ever finds another summary to preserve.
THEOREM SummariesStand == ListSpec => []SummaryStands
<1>1. SummaryInv => SummaryStands
  BY DEF SummaryInv
<1> QED
  BY <1>1, ListBegins, ListShapeStep, SummaryBegins, SummaryStep, PTL DEF ListSpec
-----------------------------------------------------------------------------
(***************************************************************************)
(* The commands over a campaign root: the one command past the guard has   *)
(* written what its queue no longer holds, and whoever paid is past the    *)
(* guard, left a byte or died before it could.                             *)
(***************************************************************************)
\* Commands past the guard.
Past == {c \in Commands : where[c] \notin Ended \cup {"new"}}

Bare == \A f \in Closing : root[f] = Absent
Unwritten(f) == root[f] = Absent

\* What a command that is past the guard alone has left so far.
Course(c) ==
  /\ where[c] \in {"probing", "running", "looking", "putting"}
  /\ where[c] = "probing" => Bare /\ c \notin paid
  /\ where[c] = "running" => \A f \in {"facts", "inputs", "campaign"} : Unwritten(f)
  /\ where[c] \in {"looking", "putting"} =>
       \/ /\ queue[c] = <<"activation", "planner">> /\ Bare
       \/ /\ queue[c] = <<"planner">> /\ where[c] = "looking"
          /\ \A f \in {"facts", "inputs", "campaign"} : Unwritten(f)
       \/ /\ queue[c] = <<"facts", "inputs", "campaign">>
          /\ \A f \in {"facts", "inputs", "campaign"} : Unwritten(f)
       \/ /\ queue[c] = <<"inputs", "campaign">>
          /\ root["facts"] = content[c] /\ Unwritten("inputs") /\ Unwritten("campaign")
       \/ /\ queue[c] = <<"campaign">>
          /\ root["facts"] = content[c] /\ root["inputs"] = content[c] /\ Unwritten("campaign")
       \/ /\ queue[c] = <<>> /\ where[c] = "looking"
          /\ root["facts"] = content[c] /\ root["inputs"] = content[c] /\ root["campaign"] = content[c]

\* Every command that paid is past the guard, or left a byte behind, or died before it could.
Accounted ==
  unrecorded \/ /\ \A c, d \in paid : c = d
                /\ \A c \in Past : paid \subseteq {c}
                /\ Past = {} => paid = {} \/ ~Bare

Alone ==
  /\ \A c, d \in Past : c = d
  /\ \A c \in Past : Course(c)
  /\ \A c \in Commands : where[c] = "new" => c \notin paid
  /\ root["campaign"] \in Contents => Loads
  /\ Accounted

RootShape ==
  /\ DOMAIN root = Files /\ DOMAIN where = Commands \cup Resumes /\ DOMAIN queue = Commands
  /\ content \in [Commands -> Contents]
  /\ paid \subseteq Commands

RootInv == RootShape /\ (overlapped \/ Alone)
-----------------------------------------------------------------------------
LEMMA RootBegins == RootInit => RootInv
<1> SUFFICES ASSUME RootInit PROVE RootInv
  OBVIOUS
<1> USE DEF RootInit
<1>1. RootShape
  BY DEF RootShape
<1>2. Past = {} /\ root["campaign"] = Absent
  BY DEF Past, Files
<1> QED
  BY <1>1, <1>2, RootAssumption DEF RootInv, Alone, Accounted

LEMMA RootShapeStep == RootShape /\ [RootNext]_rootVars => RootShape'
<1> SUFFICES ASSUME RootShape, [RootNext]_rootVars PROVE RootShape'
  OBVIOUS
<1> USE DEF RootShape
<1>1. ASSUME NEW c \in Commands,
             Guard(c) \/ Probe(c) \/ Activated(c) \/ Research(c) \/ Look(c)
      PROVE  RootShape'
  BY <1>1 DEF Guard, Probe, Activated, Research, Look, Goto
<1>2. ASSUME NEW c \in Commands, Put(c) \/ FinishRoot(c) \/ CommandDies(c) PROVE RootShape'
  BY <1>2 DEF Put, FinishRoot, CommandDies, Goto
<1>3. ASSUME NEW r \in Resumes, ResumeRoot(r) PROVE RootShape'
  BY <1>3 DEF ResumeRoot, Goto
<1>4. CASE UNCHANGED rootVars
  BY <1>4 DEF rootVars
<1> QED
  BY <1>1, <1>2, <1>3, <1>4 DEF RootNext

\* What the one command past the guard has to leave behind at each of its steps.
LEMMA OneStep ==
  ASSUME RootShape, RootShape', Alone, NEW c \in Past, where'[c] # "new",
         \A d \in Commands \ {c} : where'[d] = where[d],
         paid' \subseteq paid \cup {c}, unrecorded => unrecorded',
         where'[c] \notin Ended => Course(c)',
         root'["campaign"] \in Contents => Loads',
         where'[c] \in Ended => unrecorded' \/ paid' = {} \/ ~Bare'
  PROVE  Alone'
<1>1. Past = {c} /\ c \in Commands
  BY DEF Alone, Past
<1>2. Past' = IF where'[c] \in Ended THEN {} ELSE {c}
  BY <1>1 DEF Past
<1>3. \A d \in Commands : where'[d] = "new" => d \notin paid'
  BY DEF Alone
<1>4. Accounted'
  <2>1. unrecorded \/ paid' \subseteq {c}
    BY <1>1 DEF Alone, Accounted
  <2> QED
    BY <1>2, <2>1 DEF Accounted
<1> QED
  BY <1>2, <1>3, <1>4 DEF Alone

\* A step that leaves the records as they are.
LEMMA SameRecords ==
  ASSUME Alone, \A f \in {"facts", "inputs", "campaign"} : root'[f] = root[f]
  PROVE  root'["campaign"] \in Contents => Loads'
BY DEF Alone, Loads

LEMMA GuardAlone ==
  ASSUME RootShape, Alone, NEW c \in Commands, Guard(c), ~overlapped'
  PROVE  Alone'
<1>1. where[c] = "new" /\ UNCHANGED <<root, content, queue, paid, unrecorded>>
      /\ \A d \in Commands \ {c} : where'[d] = where[d]
  BY DEF Guard, Goto, RootShape
<1>2. CASE \E f \in Closing : root[f] # Absent
  <2>1. where'[c] = "refused"
    BY <1>2 DEF Guard, Goto, RootShape
  <2>2. Past' = Past
    BY <1>1, <2>1 DEF Past, Ended
  <2>3. \A d \in Past : where'[d] = where[d]
    BY <1>1 DEF Past
  <2>4. \A d \in Past : Course(d)'
    BY <1>1, <2>3 DEF Alone, Course, Bare, Unwritten
  <2> QED
    BY <1>1, <2>1, <2>2, <2>4 DEF Alone, Accounted, Bare, Loads
<1>3. CASE Bare
  <2>1. where'[c] \in {"probing", "running"}
    BY <1>3 DEF Guard, Goto, RootShape, Bare
  <2>2. Past = {}
    BY <1>1, <1>3 DEF Guard, Past, Bare
  <2>3. Past' = {c}
    BY <1>1, <2>1, <2>2 DEF Past, Ended
  <2>4. unrecorded \/ paid = {}
    BY <1>3, <2>2 DEF Alone, Accounted
  <2>5. c \notin paid /\ \A f \in {"facts", "inputs", "campaign"} : Unwritten(f)
    BY <1>1, <1>3 DEF Alone, Bare, Closing, Files, Unwritten
  <2>6. Course(c)'
    BY <1>1, <1>3, <2>1, <2>5 DEF Course, Bare, Unwritten
  <2> QED
    BY <1>1, <2>1, <2>3, <2>4, <2>6 DEF Alone, Accounted, Loads
<1> QED
  BY <1>2, <1>3 DEF Bare

\* The steps of a command past the guard.
LEMMA PastAlone ==
  ASSUME RootShape, RootShape', Alone, NEW c \in Commands,
         \/ Probe(c) \/ Activated(c) \/ Research(c) \/ Look(c) \/ Put(c) \/ FinishRoot(c)
         \/ CommandDies(c)
  PROVE  Alone'
<1>1. c \in Past /\ UNCHANGED content
  BY DEF Past, Ended, Probe, Activated, Research, Look, Put, FinishRoot, CommandDies
<1>2. /\ \A d \in Commands \ {c} : where'[d] = where[d]
      /\ paid' \subseteq paid \cup {c} /\ (unrecorded => unrecorded')
  <2>1. \A d \in Commands \ {c} : where'[d] = where[d]
    BY DEF RootShape, Goto, Probe, Activated, Research, Look, Put, FinishRoot, CommandDies
  <2>2. paid' \subseteq paid \cup {c}
    BY DEF Probe, Activated, Research, Look, Put, FinishRoot, CommandDies
  <2>3. unrecorded => unrecorded'
    BY DEF Probe, Activated, Research, Look, Put, FinishRoot, CommandDies
  <2> QED
    BY <2>1, <2>2, <2>3
<1>3. Course(c) /\ content[c] \in Contents
  BY <1>1 DEF Alone, RootShape
<1>4. Absent \notin Contents /\ "torn" \notin Contents
  BY RootAssumption
<1>5. CASE Probe(c)
  <2>1. where[c] = "probing" /\ Bare /\ c \notin paid /\ UNCHANGED root
    BY <1>3, <1>5 DEF Probe, Course
  <2>2. root'["campaign"] \in Contents => Loads'
    BY <2>1, SameRecords
  <2>3. CASE where' = [where EXCEPT ![c] = "refused"] /\ UNCHANGED <<queue, paid>>
    <3>1. where'[c] = "refused"
      BY <2>3 DEF RootShape
    <3>2. unrecorded \/ paid' = {}
      BY <1>1, <2>1, <2>3 DEF Alone, Accounted
    <3> QED
      BY <1>1, <1>2, <2>2, <3>1, <3>2, OneStep DEF Ended
  <2>4. CASE /\ where' = [where EXCEPT ![c] = "looking"]
             /\ queue' = [queue EXCEPT ![c] = <<"activation", "planner">>]
    <3>1. where'[c] = "looking" /\ queue'[c] = <<"activation", "planner">> /\ Bare'
      BY <2>1, <2>4 DEF RootShape, Bare
    <3>2. Course(c)'
      BY <3>1 DEF Course
    <3> QED
      BY <1>1, <1>2, <2>2, <3>1, <3>2, OneStep DEF Ended
  <2> QED
    BY <1>5, <2>3, <2>4 DEF Probe, Goto
<1>6. CASE Activated(c)
  <2>1. /\ where[c] = "looking" /\ queue[c] = <<"planner">> /\ UNCHANGED root
        /\ \A f \in {"facts", "inputs", "campaign"} : Unwritten(f)
    BY <1>3, <1>6 DEF Activated, Course
  <2>2. root'["campaign"] \in Contents => Loads'
    BY <2>1, SameRecords
  <2>3. \/ where'[c] = "running"
        \/ where'[c] = "looking" /\ queue'[c] = <<"facts", "inputs", "campaign">>
    BY <1>6, <2>1 DEF Activated, Goto, RootShape, LedgerLast
  <2>4. Course(c)'
    BY <2>1, <2>3 DEF Course, Unwritten
  <2> QED
    BY <1>1, <1>2, <2>2, <2>3, <2>4, OneStep DEF Ended
<1>7. CASE Research(c)
  <2>1. where[c] = "running" /\ \A f \in {"facts", "inputs", "campaign"} : Unwritten(f)
    BY <1>3, <1>7 DEF Research, Course
  <2>2. \A f \in {"facts", "inputs", "campaign"} : root'[f] = root[f]
    BY <1>7 DEF Research, RootShape, Files
  <2>3. root'["campaign"] \in Contents => Loads'
    BY <2>2, SameRecords
  <2>4. root'["checkpoints"] # Absent
    BY <1>3, <1>4, <1>7 DEF Research, RootShape, Files
  <2>5. ~Bare'
    BY <2>4 DEF Bare, Closing, Files
  <2>6. \/ where'[c] \in {"dead", "refused"}
        \/ where'[c] = "looking" /\ queue'[c] = <<"facts", "inputs", "campaign">>
    BY <1>7 DEF Research, Goto, RootShape, LedgerLast
  <2>7. where'[c] = "looking" => Course(c)'
    BY <2>1, <2>2, <2>6 DEF Course, Unwritten
  <2> QED
    BY <1>1, <1>2, <2>3, <2>5, <2>6, <2>7, OneStep DEF Ended
<1>8. CASE Look(c)
  <2>1. where[c] = "looking" /\ queue[c] \notin {<<>>, <<"planner">>} /\ UNCHANGED <<root, paid>>
    BY <1>8 DEF Look
  <2>2. Head(queue[c]) \in Closing /\ root[Head(queue[c])] = Absent
    <3>1. CASE queue[c] = <<"activation", "planner">> /\ Bare
      BY <3>1 DEF Bare, Closing, Files
    <3>2. ASSUME NEW f \in {"facts", "inputs", "campaign"}, Head(queue[c]) = f, Unwritten(f)
          PROVE  Head(queue[c]) \in Closing /\ root[Head(queue[c])] = Absent
      BY <3>2 DEF Unwritten, Closing, Files
    <3>3. CASE /\ queue[c] = <<"facts", "inputs", "campaign">>
               /\ \A f \in {"facts", "inputs", "campaign"} : Unwritten(f)
      <4>1. Head(queue[c]) = "facts" /\ Unwritten("facts")
        BY <3>3
      <4> QED
        BY <3>2, <4>1
    <3>4. CASE queue[c] = <<"inputs", "campaign">> /\ Unwritten("inputs")
      <4>1. Head(queue[c]) = "inputs" /\ Unwritten("inputs")
        BY <3>4
      <4> QED
        BY <3>2, <4>1
    <3>5. CASE queue[c] = <<"campaign">> /\ Unwritten("campaign")
      <4>1. Head(queue[c]) = "campaign" /\ Unwritten("campaign")
        BY <3>5
      <4> QED
        BY <3>2, <4>1
    <3> QED
      BY <1>3, <2>1, <3>1, <3>3, <3>4, <3>5 DEF Course
  <2>3. where'[c] = "putting" /\ queue'[c] = queue[c]
    BY <1>3, <1>4, <1>8, <2>2 DEF Look, Goto, RootShape
  <2>4. Course(c)'
    BY <1>1, <1>3, <2>1, <2>3 DEF Course, Bare, Unwritten
  <2>5. root'["campaign"] \in Contents => Loads'
    BY <2>1, SameRecords
  <2> QED
    BY <1>1, <1>2, <2>3, <2>4, <2>5, OneStep DEF Ended
<1>9. CASE Put(c)
  <2>1. /\ where[c] = "putting" /\ where'[c] = "looking" /\ queue'[c] = Tail(queue[c])
        /\ root' = [root EXCEPT ![Head(queue[c])] = content[c]]
    BY <1>9 DEF Put, Goto, RootShape
  <2>2. Course(c)' /\ (root'["campaign"] \in Contents => Loads')
    <3>1. CASE queue[c] = <<"activation", "planner">> /\ Bare
      <4>1. queue'[c] = <<"planner">> /\ root' = [root EXCEPT !["activation"] = content[c]]
        BY <2>1, <3>1
      <4>2. \A f \in {"facts", "inputs", "campaign"} : root'[f] = root[f] /\ root[f] = Absent
        BY <3>1, <4>1 DEF RootShape, Bare, Closing, Files
      <4> QED
        BY <2>1, <4>1, <4>2, SameRecords DEF Course, Unwritten
    <3>2. CASE /\ queue[c] = <<"facts", "inputs", "campaign">>
               /\ \A f \in {"facts", "inputs", "campaign"} : Unwritten(f)
      <4>1. queue'[c] = <<"inputs", "campaign">> /\ root' = [root EXCEPT !["facts"] = content[c]]
        BY <2>1, <3>2
      <4>2. root'["facts"] = content[c] /\ root'["inputs"] = Absent /\ root'["campaign"] = Absent
        BY <3>2, <4>1 DEF RootShape, Files, Unwritten
      <4> QED
        BY <1>1, <1>4, <2>1, <4>1, <4>2 DEF Course, Unwritten
    <3>3. CASE /\ queue[c] = <<"inputs", "campaign">>
               /\ root["facts"] = content[c] /\ Unwritten("inputs") /\ Unwritten("campaign")
      <4>1. queue'[c] = <<"campaign">> /\ root' = [root EXCEPT !["inputs"] = content[c]]
        BY <2>1, <3>3
      <4>2. root'["facts"] = content[c] /\ root'["inputs"] = content[c] /\ root'["campaign"] = Absent
        BY <3>3, <4>1 DEF RootShape, Files, Unwritten
      <4> QED
        BY <1>1, <1>4, <2>1, <4>1, <4>2 DEF Course, Unwritten
    <3>4. CASE /\ queue[c] = <<"campaign">>
               /\ root["facts"] = content[c] /\ root["inputs"] = content[c] /\ Unwritten("campaign")
      <4>1. queue'[c] = <<>> /\ root' = [root EXCEPT !["campaign"] = content[c]]
        BY <2>1, <3>4
      <4>2. root'["facts"] = content[c] /\ root'["inputs"] = content[c] /\ root'["campaign"] = content[c]
        BY <3>4, <4>1 DEF RootShape, Files
      <4> QED
        BY <1>1, <2>1, <4>1, <4>2 DEF Course, Loads
    <3> QED
      BY <1>3, <2>1, <3>1, <3>2, <3>3, <3>4 DEF Course
  <2> QED
    BY <1>1, <1>2, <2>1, <2>2, OneStep DEF Ended
<1>10. CASE FinishRoot(c)
  <2>1. where[c] = "looking" /\ queue[c] = <<>> /\ where'[c] = "done"
    BY <1>10 DEF FinishRoot, Goto, RootShape
  <2>2. \A f \in {"facts", "inputs", "campaign"} : root'[f] = root[f]
    BY <1>10 DEF FinishRoot, RootShape, Files
  <2>3. root["campaign"] = content[c]
    BY <1>3, <2>1 DEF Course
  <2>4. ~Bare'
    BY <1>3, <1>4, <2>2, <2>3 DEF Bare, Closing, Files
  <2> QED
    BY <1>1, <1>2, <2>1, <2>2, <2>4, SameRecords, OneStep DEF Ended
<1>11. CASE CommandDies(c)
  <2>1. where'[c] = "dead" /\ UNCHANGED paid
    BY <1>11 DEF CommandDies, Goto, RootShape
  <2>2. unrecorded' \/ c \notin paid \/ ~Bare'
    BY <1>11 DEF CommandDies, Bare
  <2>3. unrecorded' \/ paid' = {} \/ ~Bare'
    BY <1>1, <1>2, <2>1, <2>2 DEF Alone, Accounted
  <2>4. root'["campaign"] \in Contents => Loads'
    <3>1. CASE UNCHANGED root
      BY <3>1, SameRecords
    <3>2. CASE where[c] = "putting" /\ root' = [root EXCEPT ![Head(queue[c])] = "torn"]
      <4>1. root'["campaign"] \notin Contents
        <5>1. root["campaign"] = Absent
          BY <1>3, <3>2 DEF Course, Bare, Unwritten, Closing, Files
        <5> QED
          BY <1>4, <3>2, <5>1
      <4> QED
        BY <4>1
    <3> QED
      BY <1>11, <3>1, <3>2 DEF CommandDies
  <2> QED
    BY <1>1, <1>2, <2>1, <2>3, <2>4, OneStep DEF Ended
<1> QED
  BY <1>5, <1>6, <1>7, <1>8, <1>9, <1>10, <1>11

LEMMA ResumeAlone ==
  ASSUME RootShape, Alone, NEW r \in Resumes, ResumeRoot(r)
  PROVE  Alone'
<1>1. UNCHANGED <<content, queue, paid, unrecorded>> /\ \A c \in Commands : where'[c] = where[c]
  BY RootAssumption DEF ResumeRoot, Goto, RootShape
<1>2. \A f \in Closing : root'[f] = root[f]
  BY DEF ResumeRoot, RootShape, Closing, Files
<1>3. Past' = Past /\ Bare' = Bare
  BY <1>1, <1>2 DEF Past, Bare
<1>4. \A f \in {"facts", "inputs", "campaign"} : root'[f] = root[f]
  BY <1>2 DEF Closing, Files
<1>5. \A c \in Past : Course(c)'
  BY <1>1, <1>3, <1>4 DEF Past, Alone, Course, Unwritten
<1> QED
  BY <1>1, <1>3, <1>4, <1>5, SameRecords DEF Alone, Accounted

LEMMA RootStep == RootInv /\ [RootNext]_rootVars => RootInv'
<1> SUFFICES ASSUME RootInv, [RootNext]_rootVars PROVE RootInv'
  OBVIOUS
<1>1. RootShape /\ RootShape'
  BY RootShapeStep DEF RootInv
<1>2. overlapped => overlapped'
  BY DEF RootNext, rootVars, Guard, Probe, Activated, Research, Look, Put, FinishRoot, CommandDies,
         ResumeRoot
<1> SUFFICES ASSUME Alone, ~overlapped' PROVE Alone'
  BY <1>1, <1>2 DEF RootInv
<1>3. CASE UNCHANGED rootVars
  BY <1>3 DEF rootVars, Alone, Past, Course, Bare, Unwritten, Accounted, Loads
<1> QED
  BY <1>1, <1>3, GuardAlone, PastAlone, ResumeAlone DEF RootNext

\* _write_durable and the guard: unless two commands were past the guard at once, a whole
\* ledger stands beside whole files of the same campaign, and a root is paid for twice
\* only if the first command died before its first durable byte.
THEOREM LedgersAreReadable == RootSpec => []LedgerReadable
<1>1. RootInv => LedgerReadable
  <2> SUFFICES ASSUME Alone, RootShape PROVE LedgerReadable
    BY DEF RootInv, LedgerReadable
  <2>1. ASSUME \A c, d \in paid : c = d PROVE ~(Cardinality(paid) > 1)
    <3>1. CASE paid = {}
      BY <3>1, FS_EmptySet
    <3>2. CASE paid # {}
      <4> PICK c \in paid : TRUE
        BY <3>2
      <4>1. paid = {c}
        BY <2>1
      <4> QED
        BY <4>1, FS_Singleton
    <3> QED
      BY <3>1, <3>2
  <2> QED
    BY <2>1 DEF Alone, Accounted, LedgerReadable
<1> QED
  BY <1>1, RootBegins, RootStep, PTL DEF RootSpec
-----------------------------------------------------------------------------
(***************************************************************************)
(* The budget ledger: a bound binds across restarts.                       *)
(***************************************************************************)
Entry == [request : {r \in Requests : Bucket(r) # Nil}, used : Uses]

\* The totals and breaches are those of the events.
Exact ==
  /\ \A b \in Buckets, f \in Fields : totals[b][f] = Spent(events, b, f)
  /\ TotalCost = SpentCost(events)
  /\ exceeded = UNION {Breaches(b, totals) : b \in Buckets}

\* What a run of events may have used before one more was admitted.
Within(es) ==
  /\ \A b \in Buckets, f \in Fields : Spent(es, b, f) <= Limits[b][f]
  /\ SpentCost(es) <= MaxTotalCost

LedgerShape ==
  /\ totals \in [Buckets -> [Fields -> Nat]]
  /\ events \in Seq(Entry) /\ charges \in Seq(Entry)
  /\ attempts \in Nat /\ restarts \in Nat
  /\ phase \in {"off", "loading", "ready", "admitted", "performed", "charged", "closing"}
  /\ phase = "admitted" =>
       \E r \in Requests : Bucket(r) # Nil /\ demand = [request |-> r, used |-> NoAmount]
  /\ phase \in {"performed", "charged"} => demand \in Entry

\* The files are the events of the process, but for those it has not loaded and the one
\* it has not written.
Filed ==
  /\ phase = "loading" => Len(events) <= Len(charges) /\ events = SubSeq(charges, 1, Len(events))
  /\ phase \in {"ready", "admitted", "performed", "closing"} => events = charges
  /\ phase = "charged" => events = Append(charges, demand)

BudgetInv ==
  /\ LedgerShape
  /\ Filed
  /\ phase # "off" => Exact
  /\ phase \in {"admitted", "performed", "charged"} => Within(charges)
  /\ OnlyLastBreaches
  /\ attempts <= Len(charges) + restarts
                   + (IF phase \in {"performed", "charged"} THEN 1 ELSE 0)
-----------------------------------------------------------------------------
\* A request that is not refused has a bucket.
LEMMA EntryFacts ==
  ASSUME NEW e \in Entry
  PROVE  /\ Bucket(e.request) \in Buckets /\ e.request \in Requests
         /\ e.used \in [Fields -> Nat] /\ e.used["cost"] \in Nat
<1>1. e.request \in Requests /\ Bucket(e.request) # Nil /\ e.used \in Uses
  BY DEF Entry
<1>2. e.used \in [Fields -> Nat] /\ e.used["cost"] \in Nat
  BY <1>1, BudgetAssumption
<1>3. Bucket(e.request) \in Buckets
  BY <1>1, BudgetAssumption DEF Bucket
<1> QED
  BY <1>1, <1>2, <1>3

\* What n terms add up to is a tally of length n.
LEMMA LengthOf ==
  ASSUME NEW s, NEW n \in Nat, DOMAIN s = 1..n, s = [i \in 1..n |-> s[i]]
  PROVE  Len(s) = n
OBVIOUS

LEMMA SpentType ==
  ASSUME NEW es \in Seq(Entry), NEW b, NEW f \in Fields
  PROVE  Spent(es, b, f) \in Nat /\ SpentCost(es) \in Nat
<1> DEFINE s == [i \in 1..Len(es) |-> IF Bucket(es[i].request) = b THEN es[i].used[f] ELSE 0]
           t == [i \in 1..Len(es) |-> es[i].used["cost"]]
<1>1. Len(es) \in Nat /\ \A i \in 1..Len(es) : es[i] \in Entry
  OBVIOUS
<1>2. \A i \in 1..Len(es) : s[i] \in Nat /\ t[i] \in Nat
  BY <1>1, EntryFacts
<1>3. Len(s) = Len(es) /\ Len(t) = Len(es)
  BY <1>1, LengthOf
<1> HIDE DEF s, t
<1>4. Tally(s) \in Nat /\ Tally(t) \in Nat
  BY <1>1, <1>2, <1>3, TallyType
<1> QED
  BY <1>4 DEF s, t, Spent, SpentCost

LEMMA SpentNothing ==
  \A b, f : Spent(<<>>, b, f) = 0 /\ SpentCost(<<>>) = 0
<1> SUFFICES ASSUME NEW b, NEW f PROVE Spent(<<>>, b, f) = 0 /\ SpentCost(<<>>) = 0
  OBVIOUS
<1> DEFINE s == [i \in 1..Len(<<>>) |-> IF Bucket(<<>>[i].request) = b THEN <<>>[i].used[f] ELSE 0]
           t == [i \in 1..Len(<<>>) |-> <<>>[i].used["cost"]]
<1>1. Len(s) = 0 /\ Len(t) = 0
  BY LengthOf
<1> HIDE DEF s, t
<1>2. Tally(s) = 0 /\ Tally(t) = 0
  BY <1>1, TallyOfNone
<1> QED
  BY <1>2 DEF s, t, Spent, SpentCost

\* One more event.
LEMMA SpentGrows ==
  ASSUME NEW es \in Seq(Entry), NEW e \in Entry, NEW b, NEW f \in Fields
  PROVE  /\ Spent(Append(es, e), b, f) =
              Spent(es, b, f) + (IF Bucket(e.request) = b THEN e.used[f] ELSE 0)
         /\ SpentCost(Append(es, e)) = SpentCost(es) + e.used["cost"]
<1> DEFINE fs == Append(es, e)
           n == Len(es)
           term(x) == IF Bucket(x.request) = b THEN x.used[f] ELSE 0
           s == [i \in 1..n |-> term(es[i])]
           t == [i \in 1..Len(fs) |-> term(fs[i])]
           c == [i \in 1..n |-> es[i].used["cost"]]
           d == [i \in 1..Len(fs) |-> fs[i].used["cost"]]
<1>1. n \in Nat /\ Len(fs) = n + 1 /\ fs[n + 1] = e /\ \A i \in 1..n : fs[i] = es[i]
  OBVIOUS
<1>2. Len(s) = n /\ Len(t) = n + 1 /\ Len(c) = n /\ Len(d) = n + 1
  BY <1>1, LengthOf
<1> HIDE DEF fs
<1>3. t[n + 1] = term(e) /\ d[n + 1] = e.used["cost"]
  BY <1>1
<1>4. \A i \in 1..n : t[i] = s[i] /\ d[i] = c[i]
  BY <1>1
<1>5. Tally(t) = Tally(s) + t[Len(t)] /\ Tally(d) = Tally(c) + d[Len(d)]
  <2> HIDE DEF s, t, c, d, n
  <2> QED
    BY <1>1, <1>2, <1>4, TallyGrows
<1> QED
  BY <1>1, <1>2, <1>3, <1>5 DEF fs, Spent, SpentCost

\* The cost of all buckets grows by the cost of the event.
LEMMA CostGrows ==
  ASSUME totals \in [Buckets -> [Fields -> Nat]], NEW b \in Buckets, NEW used \in [Fields -> Nat]
  PROVE  /\ Added(b, used) \in [Buckets -> [Fields -> Nat]]
         /\ CostOf(Added(b, used)) = TotalCost + used["cost"]
<1> DEFINE t == Added(b, used)
           old == [x \in Buckets |-> totals[x]["cost"]]
           new == [x \in Buckets |-> t[x]["cost"]]
<1>1. "cost" \in Fields /\ IsFiniteSet(Buckets)
  BY BudgetAssumption
<1>2. t \in [Buckets -> [Fields -> Nat]]
  BY DEF Added
<1>3. t[b]["cost"] = totals[b]["cost"] + used["cost"] /\ \A x \in Buckets \ {b} : t[x] = totals[x]
  BY <1>1 DEF Added
<1> HIDE DEF t
<1>4. old \in [Buckets -> Int] /\ new \in [Buckets -> Int] /\ used["cost"] \in Int
  BY <1>1, <1>2
<1>5. new[b] = old[b] + used["cost"] /\ \A x \in Buckets : x # b => new[x] = old[x]
  BY <1>3
<1>6. SumOver(new) = SumOver(old) + used["cost"]
  <2> HIDE DEF old, new
  <2> QED
    BY <1>1, <1>4, <1>5, SumOverAdds
<1> QED
  BY <1>2, <1>6 DEF t, CostOf, TotalCost

\* Totals of nothing breach nothing.
LEMMA NoTotals ==
  ASSUME NEW t \in [Buckets -> [Fields -> Nat]], \A b \in Buckets, f \in Fields : t[b][f] = 0
  PROVE  CostOf(t) = 0 /\ \A b \in Buckets : Breaches(b, t) = {}
<1>0. "cost" \in Fields /\ IsFiniteSet(Buckets) /\ MaxTotalCost \in Nat
      /\ Limits \in [Buckets -> [Fields -> Nat]]
  BY BudgetAssumption
<1> DEFINE cost == [b \in Buckets |-> t[b]["cost"]]
<1>1. SumOver(cost) = 0
  <2>1. cost \in [Buckets -> Int] /\ \A b \in Buckets : cost[b] = 0
    BY <1>0
  <2> HIDE DEF cost
  <2> QED
    BY <1>0, <2>1, SumOverZeros
<1>2. CostOf(t) = 0
  BY <1>1 DEF CostOf
<1>3. \A b \in Buckets : Breaches(b, t) = {}
  BY <1>0, <1>2 DEF Breaches
<1> QED
  BY <1>2, <1>3

\* A fresh ledger is exact about no events.
LEMMA FreshFacts ==
  ASSUME NEW t, t = [b \in Buckets |-> NoAmount]
  PROVE  /\ t \in [Buckets -> [Fields -> Nat]]
         /\ \A b \in Buckets, f \in Fields : t[b][f] = Spent(<<>>, b, f)
         /\ CostOf(t) = SpentCost(<<>>)
         /\ {} = UNION {Breaches(b, t) : b \in Buckets}
<1>1. t \in [Buckets -> [Fields -> Nat]] /\ \A b \in Buckets, f \in Fields : t[b][f] = 0
  BY DEF NoAmount
<1>2. CostOf(t) = 0 /\ \A b \in Buckets : Breaches(b, t) = {}
  BY <1>1, NoTotals
<1> QED
  BY <1>1, <1>2, SpentNothing

\* An event that enters keeps the ledger exact: a bound that was exceeded stays so.
LEMMA EnterExact ==
  ASSUME totals \in [Buckets -> [Fields -> Nat]], events \in Seq(Entry), Exact,
         NEW e \in Entry, Enter(e)
  PROVE  /\ totals' \in [Buckets -> [Fields -> Nat]] /\ events' = Append(events, e)
         /\ events' \in Seq(Entry)
         /\ Exact'
<1> DEFINE a == Bucket(e.request)
<1>0. /\ a \in Buckets /\ e.used \in [Fields -> Nat] /\ e.used["cost"] \in Nat
      /\ "cost" \in Fields /\ Limits \in [Buckets -> [Fields -> Nat]] /\ MaxTotalCost \in Nat
  BY EntryFacts, BudgetAssumption
<1>1. events' = Append(events, e) /\ totals' = Added(a, e.used)
      /\ exceeded' = exceeded \cup Breaches(a, totals')
  BY DEF Enter
<1>2. totals' \in [Buckets -> [Fields -> Nat]] /\ CostOf(totals') = TotalCost + e.used["cost"]
  BY <1>0, <1>1, CostGrows
<1>3. \A b \in Buckets, f \in Fields :
        totals'[b][f] = totals[b][f] + (IF a = b THEN e.used[f] ELSE 0)
  BY <1>0, <1>1 DEF Added
<1>4. \A b \in Buckets, f \in Fields : totals'[b][f] = Spent(events', b, f)
  <2> SUFFICES ASSUME NEW b \in Buckets, NEW f \in Fields PROVE totals'[b][f] = Spent(Append(events, e), b, f)
    BY <1>1
  <2>1. Spent(Append(events, e), b, f) = Spent(events, b, f) + (IF a = b THEN e.used[f] ELSE 0)
    BY SpentGrows
  <2> QED
    BY <1>3, <2>1 DEF Exact
<1>5. CostOf(totals') = SpentCost(events')
  <2>1. SpentCost(Append(events, e)) = SpentCost(events) + e.used["cost"]
    BY <1>0, SpentGrows
  <2> QED
    BY <1>1, <1>2, <2>1 DEF Exact
<1>6. TotalCost \in Nat
  BY <1>0, SpentType DEF Exact
<1>7. \A b \in Buckets : Breaches(b, totals) \subseteq Breaches(b, totals')
  <2> SUFFICES ASSUME NEW b \in Buckets, NEW c \in Breaches(b, totals) PROVE c \in Breaches(b, totals')
    OBVIOUS
  <2>1. CASE c = Total /\ CostOf(totals) > MaxTotalCost
    <3>1. CostOf(totals') > MaxTotalCost
      BY <1>0, <1>2, <1>6, <2>1 DEF TotalCost
    <3> QED
      BY <2>1, <3>1 DEF Breaches
  <2>2. ASSUME NEW f \in Fields, totals[b][f] > Limits[b][f], c = <<b, f>> PROVE c \in Breaches(b, totals')
    <3>1. totals[b][f] \in Nat /\ Limits[b][f] \in Nat /\ e.used[f] \in Nat
      BY <1>0
    <3>2. totals'[b][f] = totals[b][f] + (IF a = b THEN e.used[f] ELSE 0)
      BY <1>3
    <3>3. totals'[b][f] > Limits[b][f]
      BY <2>2, <3>1, <3>2
    <3> QED
      BY <2>2, <3>3 DEF Breaches
  <2> QED
    BY <2>1, <2>2 DEF Breaches
<1>8. \A b \in Buckets : Breaches(b, totals') \subseteq Breaches(b, totals) \cup Breaches(a, totals')
  <2> SUFFICES ASSUME NEW b \in Buckets, b # a
               PROVE  Breaches(b, totals') \subseteq Breaches(b, totals) \cup Breaches(a, totals')
    OBVIOUS
  <2>1. \A f \in Fields : totals'[b][f] = totals[b][f]
    BY <1>3
  <2> QED
    BY <2>1 DEF Breaches
<1>9. exceeded' = UNION {Breaches(b, totals') : b \in Buckets}
  <2>1. exceeded = UNION {Breaches(b, totals) : b \in Buckets}
    BY DEF Exact
  <2> DEFINE old(b) == Breaches(b, totals)
             new(b) == Breaches(b, totals')
  <2>2. exceeded = UNION {old(b) : b \in Buckets} /\ exceeded' = exceeded \cup new(a)
        /\ (\A b \in Buckets : old(b) \subseteq new(b) /\ new(b) \subseteq old(b) \cup new(a))
    BY <1>1, <1>7, <1>8, <2>1
  <2> HIDE DEF old, new
  <2>3. exceeded' = UNION {new(b) : b \in Buckets}
    BY <1>0, <2>2
  <2> QED
    BY <2>3 DEF new
<1>10. events' \in Seq(Entry)
  BY <1>1
<1> QED
  BY <1>1, <1>2, <1>4, <1>5, <1>9, <1>10 DEF Exact, TotalCost

\* No bound is exceeded: the events are within theirs.
LEMMA NothingExceeded ==
  ASSUME totals \in [Buckets -> [Fields -> Nat]], events \in Seq(Entry), Exact, exceeded = {}
  PROVE  Within(events)
<1>1. "model" \in Buckets /\ Limits \in [Buckets -> [Fields -> Nat]] /\ MaxTotalCost \in Nat
      /\ "cost" \in Fields
  BY BudgetAssumption
<1>2. ASSUME NEW b \in Buckets, NEW c, c \in Breaches(b, totals) PROVE FALSE
  <2> DEFINE B(x) == Breaches(x, totals)
  <2>1. UNION {B(x) : x \in Buckets} = {} /\ c \in B(b)
    BY <1>2 DEF Exact
  <2> HIDE DEF B
  <2> QED
    BY <2>1
<1>3. ASSUME NEW b \in Buckets, NEW f \in Fields PROVE totals[b][f] <= Limits[b][f]
  <2>1. <<b, f>> \notin Breaches(b, totals)
    BY <1>2
  <2>2. ~ (totals[b][f] > Limits[b][f])
    BY <2>1 DEF Breaches
  <2>3. totals[b][f] \in Nat /\ Limits[b][f] \in Nat
    BY <1>1
  <2> QED
    BY <2>2, <2>3
<1>4. TotalCost \in Nat
  BY <1>1, SpentType DEF Exact
<1>5. TotalCost <= MaxTotalCost
  <2>1. Total \notin Breaches("model", totals)
    BY <1>1, <1>2
  <2> QED
    BY <1>1, <1>4, <2>1 DEF Breaches, TotalCost
<1> QED
  BY <1>3, <1>5 DEF Exact, Within

\* The last charge is the only one that may breach.
LEMMA FrontOf ==
  ASSUME NEW S, NEW s \in Seq(S), NEW e \in S
  PROVE  Front(Append(s, e)) = s /\ Append(s, e) # <<>>
BY DEF Front

LEMMA BudgetBegins == BudgetInit => BudgetInv
<1> SUFFICES ASSUME BudgetInit PROVE BudgetInv
  OBVIOUS
<1>1. totals \in [Buckets -> [Fields -> Nat]] /\ events = <<>> /\ Exact
  BY FreshFacts DEF BudgetInit, FreshLedger, Exact, TotalCost
<1>2. charges = <<>> /\ phase = "loading" /\ attempts = 0 /\ restarts = 0
  BY DEF BudgetInit
<1>3. LedgerShape
  BY <1>1, <1>2 DEF LedgerShape
<1>4. Filed
  BY <1>1, <1>2 DEF Filed
<1> QED
  BY <1>1, <1>2, <1>3, <1>4 DEF BudgetInv, OnlyLastBreaches

\* What the ledger holds in memory is kept by a step that leaves it alone.
LEMMA MemoryStays ==
  ASSUME UNCHANGED memory
  PROVE  (Exact => Exact') /\ UNCHANGED <<events, totals, exceeded>>
BY DEF memory, Exact, TotalCost

LEMMA FilesStay ==
  ASSUME UNCHANGED charges
  PROVE  (OnlyLastBreaches => OnlyLastBreaches') /\ (Within(charges) => Within(charges)')
BY DEF OnlyLastBreaches, Within

LEMMA BudgetStep == BudgetInv /\ [BudgetNext]_budgetVars => BudgetInv'
<1> SUFFICES ASSUME BudgetInv, [BudgetNext]_budgetVars PROVE BudgetInv'
  OBVIOUS
<1>0. LedgerShape /\ Filed
  BY DEF BudgetInv
<1>n. Len(charges) \in Nat /\ Len(events) \in Nat /\ attempts \in Nat /\ restarts \in Nat
  BY <1>0 DEF LedgerShape
<1>1. CASE Load
  <2> DEFINE n == Len(events)
             e == charges[n + 1]
  <2>1. /\ phase = "loading" /\ n < Len(charges) /\ Enter(e)
        /\ UNCHANGED <<closed, charges, closeout, phase, demand, attempts, restarts>>
    BY <1>1 DEF Load
  <2>2. e \in Entry /\ totals \in [Buckets -> [Fields -> Nat]] /\ events \in Seq(Entry) /\ Exact
    BY <1>0, <1>n, <2>1 DEF LedgerShape, BudgetInv
  <2>3. /\ totals' \in [Buckets -> [Fields -> Nat]] /\ events' = Append(events, e)
        /\ events' \in Seq(Entry) /\ Exact'
    BY <2>1, <2>2, EnterExact
  <2>4. Filed'
    <3>1. events = SubSeq(charges, 1, n) /\ charges \in Seq(Entry)
      BY <1>0, <2>1 DEF Filed, LedgerShape
    <3>2. Append(events, e) = SubSeq(charges, 1, n + 1)
      BY <1>n, <2>1, <3>1
    <3>3. Len(events') = n + 1
      BY <2>2, <2>3
    <3> QED
      BY <1>n, <2>1, <2>3, <3>2, <3>3 DEF Filed
  <2>5. LedgerShape'
    BY <1>0, <2>1, <2>3 DEF LedgerShape
  <2> QED
    BY <2>1, <2>3, <2>4, <2>5, FilesStay DEF BudgetInv
<1>2. CASE Loaded
  <2>1. /\ phase = "loading" /\ phase' = "ready" /\ Len(events) = Len(charges)
        /\ UNCHANGED <<memory, charges, closeout, demand, attempts, restarts>>
    BY <1>2 DEF Loaded
  <2>2. UNCHANGED <<events, totals, exceeded>> /\ Exact'
    BY <2>1, MemoryStays DEF BudgetInv
  <2>3. events = charges
    BY <1>0, <1>n, <2>1 DEF Filed, LedgerShape
  <2>4. LedgerShape' /\ Filed'
    BY <1>0, <2>1, <2>2, <2>3 DEF LedgerShape, Filed
  <2> QED
    BY <2>1, <2>2, <2>4, FilesStay DEF BudgetInv
<1>3. ASSUME NEW r \in Requests, NEW reserve \in Reserves, AdmitRequest(r, reserve) PROVE BudgetInv'
  <2>1. /\ phase = "ready" /\ phase' = "admitted" /\ exceeded = {} /\ Bucket(r) # Nil
        /\ demand' = [request |-> r, used |-> NoAmount]
        /\ UNCHANGED <<memory, charges, closeout, attempts, restarts>>
    BY <1>3 DEF AdmitRequest
  <2>2. UNCHANGED <<events, totals, exceeded>> /\ Exact /\ Exact'
    BY <2>1, MemoryStays DEF BudgetInv
  <2>3. events = charges
    BY <1>0, <2>1 DEF Filed
  <2>4. Within(charges)
    BY <1>0, <2>1, <2>2, <2>3, NothingExceeded DEF LedgerShape
  <2>5. LedgerShape' /\ Filed'
    BY <1>0, <2>1, <2>2, <2>3 DEF LedgerShape, Filed
  <2> QED
    BY <2>1, <2>2, <2>4, <2>5, FilesStay DEF BudgetInv
<1>4. ASSUME NEW used \in Uses, PerformRequest(used) PROVE BudgetInv'
  <2>1. /\ phase = "admitted" /\ phase' = "performed" /\ attempts' = attempts + 1
        /\ demand' = [demand EXCEPT !.used = used]
        /\ UNCHANGED <<memory, charges, closeout, restarts>>
    BY <1>4 DEF PerformRequest
  <2>2. UNCHANGED <<events, totals, exceeded>> /\ Exact'
    BY <2>1, MemoryStays DEF BudgetInv
  <2>3. demand' \in Entry
    <3>1. PICK r \in Requests : Bucket(r) # Nil /\ demand = [request |-> r, used |-> NoAmount]
      BY <1>0, <2>1 DEF LedgerShape
    <3>2. demand' = [request |-> r, used |-> used]
      BY <2>1, <3>1
    <3> QED
      BY <3>1, <3>2 DEF Entry
  <2>4. LedgerShape' /\ Filed'
    BY <1>0, <2>1, <2>2, <2>3 DEF LedgerShape, Filed
  <2> QED
    BY <1>n, <2>1, <2>2, <2>4, FilesStay DEF BudgetInv
<1>5. CASE Charge
  <2>1. /\ phase = "performed" /\ phase' = "charged" /\ Enter(demand)
        /\ UNCHANGED <<closed, charges, closeout, demand, attempts, restarts>>
    BY <1>5 DEF Charge
  <2>2. demand \in Entry /\ totals \in [Buckets -> [Fields -> Nat]] /\ events \in Seq(Entry) /\ Exact
    BY <1>0, <2>1 DEF LedgerShape, BudgetInv
  <2>3. /\ totals' \in [Buckets -> [Fields -> Nat]] /\ events' = Append(events, demand)
        /\ events' \in Seq(Entry) /\ Exact'
    BY <2>1, <2>2, EnterExact
  <2>4. LedgerShape' /\ Filed'
    BY <1>0, <2>1, <2>2, <2>3 DEF LedgerShape, Filed
  <2> QED
    BY <2>1, <2>3, <2>4, FilesStay DEF BudgetInv
<1>6. CASE Sink
  <2>1. /\ phase = "charged" /\ phase' = "ready" /\ charges' = Append(charges, demand)
        /\ UNCHANGED <<memory, closeout, attempts, restarts>>
    BY <1>6 DEF Sink
  <2>2. UNCHANGED <<events, totals, exceeded>> /\ Exact' /\ Within(charges)
    BY <2>1, MemoryStays DEF BudgetInv
  <2>3. demand \in Entry /\ charges \in Seq(Entry)
    BY <1>0, <2>1 DEF LedgerShape
  <2>4. charges' \in Seq(Entry) /\ Len(charges') = Len(charges) + 1
    BY <2>1, <2>3
  <2>5. OnlyLastBreaches'
    <3>1. Front(charges') = charges
      BY <2>1, <2>3, FrontOf
    <3> QED
      BY <2>2, <3>1 DEF OnlyLastBreaches, Within
  <2>6. LedgerShape' /\ Filed'
    BY <1>0, <2>1, <2>2, <2>4 DEF LedgerShape, Filed
  <2> QED
    BY <1>n, <2>1, <2>2, <2>4, <2>5, <2>6 DEF BudgetInv
<1>7. CASE CloseLedger
  <2>1. /\ phase = "ready" /\ phase' = "closing"
        /\ UNCHANGED <<events, totals, exceeded, charges, demand, attempts, restarts>>
    BY <1>7 DEF CloseLedger
  <2>2. Exact'
    BY <2>1 DEF BudgetInv, Exact, TotalCost
  <2>3. LedgerShape' /\ Filed'
    BY <1>0, <2>1 DEF LedgerShape, Filed
  <2> QED
    BY <2>1, <2>2, <2>3, FilesStay DEF BudgetInv
<1>8. CASE WriteCloseout \/ RefuseCloseout
  <2>1. /\ phase = "closing" /\ phase' \in {"ready", "off"}
        /\ UNCHANGED <<memory, charges, demand, attempts, restarts>>
    BY <1>8 DEF WriteCloseout, RefuseCloseout
  <2>2. UNCHANGED <<events, totals, exceeded>> /\ Exact'
    BY <2>1, MemoryStays DEF BudgetInv
  <2>3. LedgerShape' /\ Filed'
    BY <1>0, <2>1, <2>2 DEF LedgerShape, Filed
  <2> QED
    BY <2>1, <2>2, <2>3, FilesStay DEF BudgetInv
<1>9. CASE LedgerDies
  <2>1. /\ phase' = "off" /\ restarts' = restarts + 1 /\ UNCHANGED <<memory, charges, attempts>>
    BY <1>9 DEF LedgerDies
  <2>2. LedgerShape' /\ Filed'
    BY <1>0, <2>1 DEF LedgerShape, Filed, memory
  <2> QED
    BY <1>n, <2>1, <2>2, FilesStay DEF BudgetInv
<1>10. CASE LedgerResumes
  <2>1. /\ phase = "off" /\ phase' = "loading" /\ UNCHANGED <<charges, attempts, restarts>>
    BY <1>10 DEF LedgerResumes
  <2>2. events' = <<>> /\ totals' = [b \in Buckets |-> NoAmount] /\ exceeded' = {}
    BY <1>10 DEF LedgerResumes
  <2>3. totals' \in [Buckets -> [Fields -> Nat]] /\ events' = <<>> /\ Exact'
    BY <2>2, FreshFacts DEF Exact, TotalCost
  <2>4. LedgerShape' /\ Filed'
    BY <1>0, <1>n, <2>1, <2>3 DEF LedgerShape, Filed
  <2> QED
    BY <2>1, <2>3, <2>4, FilesStay DEF BudgetInv
<1>11. CASE UNCHANGED budgetVars
  <2>1. UNCHANGED <<memory, charges, phase, demand, attempts, restarts>>
    BY <1>11 DEF budgetVars, memory
  <2>2. UNCHANGED <<events, totals, exceeded>> /\ (Exact => Exact')
    BY <2>1, MemoryStays
  <2>3. LedgerShape' /\ Filed'
    BY <1>0, <2>1, <2>2 DEF LedgerShape, Filed
  <2> QED
    BY <2>1, <2>2, <2>3, FilesStay DEF BudgetInv
<1> QED
  BY <1>1, <1>2, <1>3, <1>4, <1>5, <1>6, <1>7, <1>8, <1>9, <1>10, <1>11 DEF BudgetNext

\* budget.py:324-327 and 364-383: over all processes of a campaign no bound was exceeded
\* before the last charge, and a ledger that comes back from its files has the totals and
\* the breaches of its events; an attempt is missing only where a process died under it.
THEOREM BoundsBind == BudgetSpec => []BudgetBinds
<1>1. BudgetInv => BudgetBinds
  BY DEF BudgetInv, BudgetBinds, LedgerExact, Exact
<1> QED
  BY <1>1, BudgetBegins, BudgetStep, PTL DEF BudgetSpec

\* budget.py:367: while a process runs, its ledger is the charge files and at most one
\* charge more, so the next sequence number is free.
THEOREM FilesAreFollowed == BudgetSpec => []FilesFollow
<1>1. BudgetInv => FilesFollow
  <2> SUFFICES ASSUME BudgetInv PROVE FilesFollow
    OBVIOUS
  <2>1. phase = "charged" => Front(events) = charges
    BY FrontOf DEF BudgetInv, LedgerShape, Filed
  <2> QED
    BY <2>1 DEF BudgetInv, Filed, FilesFollow
<1> QED
  BY <1>1, BudgetBegins, BudgetStep, PTL DEF BudgetSpec
-----------------------------------------------------------------------------
(***************************************************************************)
(* The shapes of the other parts.  A rejection ends version 1 before its   *)
(* bound on repairs is passed, only a planned file can be torn, and an     *)
(* attempt was admitted below its bound.                                   *)
(***************************************************************************)
\* The counters of version 1 are within their bounds and its artifacts are those that
\* its actions, its texts and its tools can make.
TurnShape ==
  /\ turn \in 1..(MaxTurns + 1) /\ repairs \in 0..MaxRepairs
  /\ ending = "none" => repairs < MaxRepairs
  /\ toolRuns \in 0..MaxToolRuns /\ performed \in Nat /\ oversized \in Nat
  /\ performed >= toolRuns + oversized
  /\ recorded \cup stored \cup available \subseteq Artifacts

Moved ==
  /\ turn' \in 1..(MaxTurns + 1) /\ repairs' \in 0..MaxRepairs
  /\ ending' = "none" => repairs' < MaxRepairs
  /\ recorded' \cup stored' \subseteq Artifacts

LEMMA TurnNext ==
  ASSUME TurnShape, Going
  PROVE  turn' = turn + 1 => turn' \in 1..(MaxTurns + 1)
BY SequentialAssumption DEF TurnShape, Going

LEMMA Known ==
  /\ \A x \in Texts \cup Outputs : Bytes(x) \in Artifacts
  /\ Results \subseteq Artifacts
  /\ TurnShape /\ Going => Raw \in Artifacts
<1>1. \A x \in Texts \cup Outputs : Bytes(x) \in Artifacts
  BY DEF Artifacts
<1>2. TurnShape /\ Going => Raw \in Artifacts
  <2> SUFFICES ASSUME TurnShape, Going PROVE Raw \in Artifacts
    OBVIOUS
  <2>1. turn \in 1..MaxTurns
    BY SequentialAssumption DEF TurnShape, Going
  <2> QED
    BY <2>1 DEF Artifacts, Raw
<1> QED
  BY <1>1, <1>2 DEF Results

LEMMA RejectMoves ==
  ASSUME TurnShape, Going, NEW source \in Artifacts, Reject(source)
  PROVE  Moved
<1>1. turn' = turn + 1 /\ recorded' = recorded \cup {source} /\ stored' = stored \cup {source}
  BY DEF Reject, Ledger
<1>2. repairs' = repairs + 1 /\ repairs \in Nat /\ repairs < MaxRepairs /\ MaxRepairs \in Nat
  BY SequentialAssumption DEF Reject, TurnShape, Going
<1>3. ending' = "none" => ~(repairs + 1 >= MaxRepairs)
  BY DEF Reject
<1> QED
  BY <1>1, <1>2, <1>3, TurnNext DEF Moved, TurnShape

LEMMA AdmittedMoves ==
  ASSUME TurnShape, Going, NEW source \in Artifacts, NEW inputs, NEW outputs, NEW reason,
         outputs \subseteq Artifacts, Admitted(source, inputs, outputs, reason)
  PROVE  Moved
<1>1. turn' = turn + 1 /\ recorded' = recorded \cup {source} \cup outputs
      /\ stored' = stored \cup {source} \cup outputs /\ repairs' = 0
  BY DEF Admitted, Ledger
<1> QED
  BY <1>1, TurnNext, SequentialAssumption DEF Moved, TurnShape

\* What a step opens it has recorded.
LEMMA ShapeFrom ==
  ASSUME TurnShape, Moved, CInv', UNCHANGED <<toolRuns, performed, oversized>>
  PROVE  TurnShape'
BY DEF TurnShape, Moved, CInv, Named

LEMMA ToolShape ==
  ASSUME TurnShape, Going, CInv', NEW inputs, NEW verified \in BOOLEAN, toolRuns < MaxToolRuns,
         PerformTool(inputs, verified)
  PROVE  TurnShape'
<1>0. /\ performed' = performed + 1 /\ toolRuns \in Nat /\ performed \in Nat /\ oversized \in Nat
      /\ performed >= toolRuns + oversized /\ MaxToolRuns \in Nat
  BY SequentialAssumption DEF PerformTool, TurnShape
<1>1. CASE \E outputs \in SUBSET Results :
             Admitted(Raw, inputs, outputs, "none") /\ toolRuns' = toolRuns + 1 /\ UNCHANGED oversized
  <2>1. Moved
    BY <1>1, Known, AdmittedMoves
  <2> QED
    BY <1>0, <1>1, <2>1 DEF TurnShape, Moved, CInv, Named
<1>2. CASE Reject(Raw) /\ oversized' = oversized + 1 /\ UNCHANGED toolRuns
  <2>1. Moved
    BY <1>2, Known, RejectMoves
  <2> QED
    BY <1>0, <1>2, <2>1 DEF TurnShape, Moved, CInv, Named
<1>3. CASE /\ ending' = "raised" /\ stored' = stored \cup {Raw}
           /\ UNCHANGED <<turn, last, recorded, repairs, toolRuns, oversized, available>>
  BY <1>0, <1>3, Known DEF TurnShape
<1> QED
  BY <1>1, <1>2, <1>3 DEF PerformTool, Results

LEMMA RefusedShape ==
  ASSUME TurnShape, Going, CInv', Refused
  PROVE  TurnShape'
<1>1. Moved /\ UNCHANGED <<toolRuns, performed, oversized>>
  BY Known, RejectMoves DEF Refused
<1> QED
  BY <1>1, ShapeFrom

LEMMA TurnStep == CInv /\ TurnShape /\ [CampaignNext]_campaignVars => TurnShape'
<1> SUFFICES ASSUME CInv, TurnShape, [CampaignNext]_campaignVars PROVE TurnShape'
  OBVIOUS
<1>c. CInv'
  BY CStep
<1>1. CASE PlannerRefuses
  <2>1. Going /\ turn' = turn + 1 /\ recorded' = recorded /\ ending' # "none"
        /\ UNCHANGED <<stored, available, repairs, toolRuns, performed, oversized>>
    BY <1>1 DEF PlannerRefuses, Ledger
  <2> QED
    BY <2>1, TurnNext DEF TurnShape
<1>2. CASE PlannerFails
  <2>1. Going /\ turn' = turn + 1 /\ recorded' = recorded \cup {Raw} /\ ending' # "none"
        /\ stored' = stored \cup {Raw}
        /\ UNCHANGED <<available, repairs, toolRuns, performed, oversized>>
    BY <1>2 DEF PlannerFails, Ledger
  <2> QED
    BY <2>1, TurnNext, Known DEF TurnShape
<1>3. CASE Malformed
  <2>1. Going /\ UNCHANGED <<available, toolRuns, performed, oversized>>
    BY <1>3 DEF Malformed
  <2>2. CASE Reject(Raw)
    BY <1>c, <2>1, <2>2, Known, RejectMoves, ShapeFrom
  <2>3. CASE ending' = "raised" /\ UNCHANGED <<turn, recorded, stored, repairs>>
    BY <2>1, <2>3 DEF TurnShape
  <2> QED
    BY <1>3, <2>2, <2>3 DEF Malformed
<1>4. CASE TurnsExhausted
  BY <1>4 DEF TurnsExhausted, TurnShape
<1>5. ASSUME NEW branch \in Branches, Write(branch) PROVE TurnShape'
  <2>1. Going /\ UNCHANGED <<toolRuns, performed, oversized>>
    BY <1>5 DEF Write, Actable
  <2>2. \E t \in Texts : \E reason : Admitted(Bytes(t), PriorInputs, {}, reason)
    BY <1>5 DEF Write
  <2>3. Moved
    BY <2>1, <2>2, Known, AdmittedMoves
  <2> QED
    BY <1>c, <2>1, <2>3, ShapeFrom
<1>6. ASSUME NEW branch \in Branches, RunProgram(branch) PROVE TurnShape'
  <2>1. Going
    BY <1>6 DEF RunProgram, Actable
  <2>2. \/ Refused
        \/ toolRuns < MaxToolRuns /\ \E inputs : PerformTool(inputs, FALSE)
    BY <1>6 DEF RunProgram
  <2> QED
    BY <1>c, <2>1, <2>2, ToolShape, RefusedShape
<1>7. ASSUME NEW branch \in Branches, Verify(branch) PROVE TurnShape'
  <2>1. Going
    BY <1>7 DEF Verify, Actable
  <2>2. \/ Refused
        \/ toolRuns < MaxToolRuns /\ \E inputs : PerformTool(inputs, TRUE)
    BY <1>7 DEF Verify
  <2> QED
    BY <1>c, <2>1, <2>2, ToolShape, RefusedShape
<1>8. ASSUME NEW branch \in Branches, Inspect(branch) PROVE TurnShape'
  <2>1. Going /\ UNCHANGED <<toolRuns, performed, oversized>>
    BY <1>8 DEF Inspect, Actable
  <2>2. \E source \in {Raw} \cup {Bytes(t) : t \in Texts} :
          Reject(source) \/ \E inputs : Admitted(source, inputs, {}, "none")
    BY <1>8 DEF Inspect
  <2>3. Moved
    BY <2>1, <2>2, Known, AdmittedMoves, RejectMoves
  <2> QED
    BY <1>c, <2>1, <2>3, ShapeFrom
<1>9. ASSUME NEW branch \in Branches, ReadArtifact(branch) PROVE TurnShape'
  <2>1. Going /\ UNCHANGED <<toolRuns, performed, oversized>>
    BY <1>9 DEF ReadArtifact, Actable
  <2>2. Reject(Raw) \/ \E inputs : Admitted(Raw, inputs, {}, "none")
    BY <1>9 DEF ReadArtifact
  <2>3. Moved
    BY <2>1, <2>2, Known, AdmittedMoves, RejectMoves
  <2> QED
    BY <1>c, <2>1, <2>3, ShapeFrom
<1>10. CASE UNCHANGED campaignVars
  BY <1>10 DEF campaignVars, TurnShape
<1> QED
  BY <1>1, <1>2, <1>3, <1>4, <1>5, <1>6, <1>7, <1>8, <1>9, <1>10 DEF CampaignNext

LEMMA CampaignTyped == CampaignSpec => []CampaignTypeOK
<1>1. CampaignInit => TurnShape
  <2> SUFFICES ASSUME CampaignInit PROVE TurnShape
    OBVIOUS
  <2>1. <<"action", 1>> \in Artifacts
    BY SequentialAssumption DEF Artifacts
  <2>2. recorded \cup stored \cup available \subseteq Artifacts
    BY <2>1 DEF CampaignInit, Artifacts
  <2> QED
    BY <2>2, SequentialAssumption DEF CampaignInit, TurnShape
<1>2. CInv /\ TurnShape => CampaignTypeOK
  BY DEF CInv, Named, TurnShape, CampaignTypeOK
<1> QED
  BY <1>1, <1>2, CStart, CStep, TurnStep, PTL DEF CampaignSpec
-----------------------------------------------------------------------------
\* An attempt was admitted below the bound on attempts, and what is exceeded is a bound.
BudgetShape ==
  /\ exceeded \subseteq (Buckets \X Fields) \cup {Total}
  /\ closed \in BOOLEAN
  /\ attempts \in 0..MaxAttempts /\ restarts \in 0..MaxRestarts
  /\ phase = "admitted" => attempts < MaxAttempts

LEMMA EnterBounds ==
  ASSUME exceeded \subseteq (Buckets \X Fields) \cup {Total}, NEW e \in Entry, Enter(e)
  PROVE  exceeded' \subseteq (Buckets \X Fields) \cup {Total}
<1> DEFINE b == Bucket(e.request)
           t == Added(b, e.used)
<1>1. exceeded' = exceeded \cup Breaches(b, t) /\ b \in Buckets
  BY EntryFacts DEF Enter
<1> HIDE DEF b, t
<1>2. Breaches(b, t) \subseteq (Buckets \X Fields) \cup {Total}
  BY <1>1 DEF Breaches
<1> QED
  BY <1>1, <1>2

LEMMA BudgetShapeStep == BudgetInv /\ BudgetShape /\ [BudgetNext]_budgetVars => BudgetShape'
<1> SUFFICES ASSUME BudgetInv, BudgetShape, [BudgetNext]_budgetVars PROVE BudgetShape'
  OBVIOUS
<1>0. MaxAttempts \in Nat /\ MaxRestarts \in Nat
  BY BudgetAssumption
<1>1. CASE Load
  <2>1. phase = "loading" /\ Len(events) < Len(charges) /\ Enter(charges[Len(events) + 1])
        /\ UNCHANGED <<closed, attempts, restarts, phase>>
    BY <1>1 DEF Load
  <2>2. charges[Len(events) + 1] \in Entry
    BY <2>1 DEF BudgetInv, LedgerShape
  <2>3. exceeded' \subseteq (Buckets \X Fields) \cup {Total}
    BY <2>1, <2>2, EnterBounds DEF BudgetShape
  <2> QED
    BY <2>1, <2>3 DEF BudgetShape
<1>2. CASE Charge
  <2>1. demand \in Entry /\ Enter(demand) /\ phase' = "charged"
        /\ UNCHANGED <<closed, attempts, restarts>>
    BY <1>2 DEF Charge, BudgetInv, LedgerShape
  <2>2. exceeded' \subseteq (Buckets \X Fields) \cup {Total}
    BY <2>1, EnterBounds DEF BudgetShape
  <2> QED
    BY <2>1, <2>2 DEF BudgetShape
<1>3. CASE Loaded \/ Sink \/ WriteCloseout \/ RefuseCloseout
  BY <1>3 DEF Loaded, Sink, WriteCloseout, RefuseCloseout, memory, BudgetShape
<1>4. ASSUME NEW r \in Requests, NEW reserve \in Reserves, AdmitRequest(r, reserve)
      PROVE  BudgetShape'
  <2>1. attempts < MaxAttempts /\ UNCHANGED <<exceeded, closed, attempts, restarts>>
    BY <1>4 DEF AdmitRequest, memory
  <2> QED
    BY <2>1 DEF BudgetShape
<1>5. ASSUME NEW used \in Uses, PerformRequest(used) PROVE BudgetShape'
  BY <1>0, <1>5 DEF PerformRequest, memory, BudgetShape
<1>6. CASE CloseLedger
  BY <1>6 DEF CloseLedger, BudgetShape
<1>7. CASE LedgerDies
  BY <1>0, <1>7 DEF LedgerDies, memory, BudgetShape
<1>8. CASE LedgerResumes
  BY <1>8 DEF LedgerResumes, BudgetShape
<1>9. CASE UNCHANGED budgetVars
  BY <1>9 DEF budgetVars, BudgetShape
<1> QED
  BY <1>1, <1>2, <1>3, <1>4, <1>5, <1>6, <1>7, <1>8, <1>9 DEF BudgetNext

LEMMA BudgetTyped == BudgetSpec => []BudgetTypeOK
<1>1. BudgetInit => BudgetShape
  <2> SUFFICES ASSUME BudgetInit PROVE BudgetShape
    OBVIOUS
  <2>1. MaxAttempts \in Nat /\ MaxRestarts \in Nat
    BY BudgetAssumption
  <2>2. exceeded = {} /\ closed = FALSE /\ attempts = 0 /\ restarts = 0 /\ phase = "loading"
    BY DEF BudgetInit, FreshLedger
  <2>3. exceeded \subseteq (Buckets \X Fields) \cup {Total}
    BY <2>2
  <2>4. attempts \in 0..MaxAttempts /\ restarts \in 0..MaxRestarts
    BY <2>1, <2>2
  <2>5. closed \in BOOLEAN
    BY <2>2
  <2>6. phase # "admitted"
    BY <2>2
  <2> QED
    BY <2>3, <2>4, <2>5, <2>6 DEF BudgetShape
<1>2. BudgetInv /\ BudgetShape => BudgetTypeOK
  <2> SUFFICES ASSUME BudgetInv, BudgetShape PROVE BudgetTypeOK
    OBVIOUS
  <2>1. \A i \in DOMAIN charges : charges[i].request \in Requests /\ charges[i].used \in Uses
    <3>1. \A i \in DOMAIN charges : charges[i] \in Entry
      BY DEF BudgetInv, LedgerShape
    <3> QED
      BY <3>1 DEF Entry
  <2> QED
    BY <2>1 DEF BudgetInv, LedgerShape, BudgetShape, BudgetTypeOK, Total
<1> QED
  BY <1>1, <1>2, BudgetBegins, BudgetStep, BudgetShapeStep, PTL DEF BudgetSpec
-----------------------------------------------------------------------------
\* Only the files of a queue are written in place, and the report is in none.
Queues ==
  {<<>>, <<"planner">>, <<"activation", "planner">>, <<"facts", "inputs", "campaign">>,
   <<"inputs", "campaign">>, <<"campaign">>}

RootTyped ==
  /\ root \in [Files -> Contents \cup {Absent, "torn"}] /\ root["report"] # "torn"
  /\ content \in [Commands -> Contents] /\ paid \subseteq paying
  /\ where \in [Commands \cup Resumes ->
                 {"new", "probing", "running", "looking", "putting", "refused", "dead", "done"}]
  /\ queue \in [Commands -> Queues]
  /\ \A c \in Commands :
       /\ where[c] = "probing" => c \in paying
       /\ where[c] = "putting" => queue[c] \notin {<<>>, <<"planner">>}

LEMMA QueueHeads ==
  ASSUME NEW q \in Queues
  PROVE  /\ Len(q) \in 0..3
         /\ q \notin {<<>>, <<"planner">>} =>
              Head(q) \in Files /\ Head(q) # "report" /\ Tail(q) \in Queues
<1>1. CASE q \in {<<>>, <<"planner">>}
  BY <1>1
<1>2. CASE q = <<"activation", "planner">>
  BY <1>2 DEF Files, Queues
<1>3. CASE q = <<"facts", "inputs", "campaign">>
  BY <1>3 DEF Files, Queues
<1>4. CASE q = <<"inputs", "campaign">>
  BY <1>4 DEF Files, Queues
<1>5. CASE q = <<"campaign">>
  BY <1>5 DEF Files, Queues
<1> QED
  BY <1>1, <1>2, <1>3, <1>4, <1>5 DEF Queues

LEMMA RootTypeStep == RootTyped /\ [RootNext]_rootVars => RootTyped'
<1> SUFFICES ASSUME RootTyped, [RootNext]_rootVars PROVE RootTyped'
  OBVIOUS
<1> USE DEF RootTyped
<1>q. <<>> \in Queues /\ <<"activation", "planner">> \in Queues /\ LedgerLast \in Queues
  BY DEF Queues, LedgerLast
<1>f. "checkpoints" \in Files /\ "report" \in Files /\ "campaign" \in Files
  BY DEF Files
<1>t. \A x \in Contents : x # "torn"
  BY RootAssumption
<1>1. ASSUME NEW c \in Commands, Guard(c) PROVE RootTyped'
  BY <1>1 DEF Guard, Goto
<1>2. ASSUME NEW c \in Commands, Probe(c) PROVE RootTyped'
  BY <1>q, <1>2 DEF Probe, Goto
<1>3. ASSUME NEW c \in Commands, Activated(c) PROVE RootTyped'
  BY <1>q, <1>3 DEF Activated, Goto
<1>4. ASSUME NEW c \in Commands, Research(c) PROVE RootTyped'
  <2>1. /\ UNCHANGED <<content, paying>> /\ paid' \subseteq paying
        /\ queue' \in {queue, [queue EXCEPT ![c] = LedgerLast]}
        /\ root' \in {root, [root EXCEPT !["checkpoints"] = content[c]]}
        /\ \E place \in {"dead", "looking", "refused"} : Goto(c, place)
    BY <1>4 DEF Research
  <2> QED
    BY <1>q, <1>f, <2>1 DEF Goto
<1>5. ASSUME NEW c \in Commands, Look(c) PROVE RootTyped'
  <2>1. queue[c] \in Queues /\ queue[c] \notin {<<>>, <<"planner">>}
    BY <1>5 DEF Look
  <2>2. Tail(queue[c]) \in Queues
    BY <2>1, QueueHeads
  <2>3. /\ UNCHANGED <<root, content, paying, paid>>
        /\ \/ Goto(c, "putting") /\ UNCHANGED queue
           \/ queue' = [queue EXCEPT ![c] = Tail(queue[c])] /\ UNCHANGED where /\ where[c] = "looking"
           \/ Goto(c, "refused") /\ UNCHANGED queue
    BY <1>5 DEF Look
  <2> QED
    BY <2>1, <2>2, <2>3 DEF Goto
<1>6. ASSUME NEW c \in Commands, Put(c) PROVE RootTyped'
  <2>1. queue[c] \in Queues /\ queue[c] \notin {<<>>, <<"planner">>}
    BY <1>6 DEF Put
  <2>2. Tail(queue[c]) \in Queues /\ Head(queue[c]) \in Files /\ Head(queue[c]) # "report"
    BY <2>1, QueueHeads
  <2>3. /\ UNCHANGED <<content, paying, paid>> /\ Goto(c, "looking")
        /\ root' = [root EXCEPT ![Head(queue[c])] = content[c]]
        /\ queue' = [queue EXCEPT ![c] = Tail(queue[c])]
    BY <1>6 DEF Put
  <2> QED
    BY <1>f, <2>2, <2>3 DEF Goto
<1>7. ASSUME NEW c \in Commands, FinishRoot(c) PROVE RootTyped'
  <2>1. /\ UNCHANGED <<content, paying, paid, queue>> /\ Goto(c, "done")
        /\ root' \in {root, [root EXCEPT !["report"] = content[c]],
                     [root EXCEPT !["report"] = root["report"]]}
    BY <1>7 DEF FinishRoot
  <2> QED
    BY <1>f, <1>t, <2>1 DEF Goto
<1>8. ASSUME NEW c \in Commands, CommandDies(c) PROVE RootTyped'
  <2>1. /\ UNCHANGED <<content, paying, paid, queue>> /\ Goto(c, "dead")
        /\ \/ UNCHANGED root
           \/ where[c] = "putting" /\ root' = [root EXCEPT ![Head(queue[c])] = "torn"]
    BY <1>8 DEF CommandDies
  <2>2. where[c] = "putting" => Head(queue[c]) \in Files /\ Head(queue[c]) # "report"
    BY QueueHeads
  <2> QED
    BY <1>f, <2>1, <2>2 DEF Goto
<1>9. ASSUME NEW r \in Resumes, ResumeRoot(r) PROVE RootTyped'
  <2>1. /\ UNCHANGED <<content, paying, paid, queue>>
        /\ \E place \in {"done", "refused"} : Goto(r, place)
        /\ root' \in {root, [root EXCEPT !["report"] = root["campaign"]],
                     [root EXCEPT !["report"] = root["report"]]}
        /\ root' # root => root["campaign"] \in Contents
    BY <1>9 DEF ResumeRoot, Loads
  <2> QED
    BY <1>f, <1>t, <2>1 DEF Goto
<1>10. CASE UNCHANGED rootVars
  BY <1>10 DEF rootVars
<1> QED
  BY <1>1, <1>2, <1>3, <1>4, <1>5, <1>6, <1>7, <1>8, <1>9, <1>10 DEF RootNext

LEMMA RootIsTyped == RootSpec => []RootTypeOK
<1>1. RootInit => RootTyped
  BY RootAssumption DEF RootInit, RootTyped, Queues, Files, Absent
<1>2. RootTyped => RootTypeOK
  BY QueueHeads DEF RootTyped, RootTypeOK
<1> QED
  BY <1>1, <1>2, RootTypeStep, PTL DEF RootSpec
-----------------------------------------------------------------------------
\* The five parts, each under its own specification, keep their shapes and bounds for
\* all lists, limits, texts, commands and numbers of deaths: no sequence leaves the list,
\* no counter passes its bound, no planner accounts for more than was spent, only planned
\* files of a root are torn (end_to_end.py:177-303, budget.py, runner.py, planner.py and
\* campaign_cli.py).
THEOREM CampaignsTyped ==
  ListSpec /\ BudgetSpec /\ CampaignSpec /\ PlannerSpec /\ RootSpec => []CampaignsTypeOK
<1>1. ListTypeOK /\ BudgetTypeOK /\ CampaignTypeOK /\ PlannerTypeOK /\ RootTypeOK
        => CampaignsTypeOK
  BY DEF CampaignsTypeOK
<1> QED
  BY <1>1, ListTyped, BudgetTyped, CampaignTyped, PlannerTyped, RootIsTyped, PTL
=============================================================================
