--------------------------- MODULE SequentialCampaign ---------------------------
(***************************************************************************)
(* campaign/runner.py: the version 1 campaign, one planner action after    *)
(* another, with its ledger and its artifact store; and the closure that   *)
(* campaign/replay.py and campaign_cli.py demand of both afterwards.       *)
(*                                                                         *)
(* One step is one turn of run(): nothing runs beside it and nothing       *)
(* resumes it.  An artifact is named by its bytes, so the same bytes of    *)
(* two sources are one artifact: texts a model writes may repeat, and the  *)
(* output of a tool may be empty.  Of the actions recorded so far the      *)
(* model keeps the last one and all artifacts they name.                   *)
(***************************************************************************)
EXTENDS Integers, FiniteSets

CONSTANTS
  Branches,       \* branch ids a planner may choose
  Texts,          \* bytes of candidates, programs, notes and reports
  Outputs,        \* bytes a tool may return; a tool may echo a text
  MaxTurns, MaxToolRuns, MaxRepairs   \* CampaignRunnerPolicy

\* CampaignRunnerPolicy refuses a bound that is not positive.
ASSUME SequentialAssumption ==
  /\ MaxTurns \in Nat \ {0} /\ MaxToolRuns \in Nat \ {0} /\ MaxRepairs \in Nat \ {0}

VARIABLES
  turn,         \* sequence of the next action
  last,         \* the last action: [inputs, outputs, before], before: recorded until then
  recorded,     \* artifacts the ledger names as outputs, and the seeds
  stored,       \* FileArtifactStore
  available, programs, candidates, experiments, private, suspended,
  selected,     \* [candidate, tools] of the last inspection
  repairs,      \* consecutive_rejections
  toolRuns,     \* length of the table of tool runs
  performed,    \* tools and verifiers that were run
  oversized,    \* results that were too large to be recorded
  ending        \* terminal_reason, "none" while run() goes on

campaignVars == <<turn, last, recorded, stored, available, programs, candidates, experiments,
                  private, suspended, selected, repairs, toolRuns, performed, oversized, ending>>

Target == <<"seed", "target">>
Configuration == <<"seed", "configuration">>
Frozen == <<"frozen", "statement">>     \* a preimage of the target, not in the store
Foreign == <<"foreign", "bytes">>       \* an artifact of another campaign
Seeds == {Target, Configuration}
Bytes(x) == <<"bytes", x>>
Raw == <<"action", turn>>               \* the action's own JSON
NoAction == [inputs |-> {}, outputs |-> {}, before |-> Seeds]

\* With a live provider the activation is the first action of the ledger.
CampaignInit ==
  /\ turn \in {1, 2}
  /\ LET activation == IF turn = 2 THEN {<<"action", 1>>} ELSE {} IN
     /\ last = IF turn = 2 THEN [NoAction EXCEPT !.inputs = Seeds, !.outputs = activation] ELSE NoAction
     /\ recorded = Seeds \cup activation
     /\ stored = activation
     /\ available = Seeds \cup activation
  /\ programs = {} /\ candidates = {} /\ experiments = {} /\ private = {} /\ suspended = {}
  /\ selected = [candidate |-> {}, tools |-> {}]
  /\ repairs = 0 /\ toolRuns = 0 /\ performed = 0 /\ oversized = 0
  /\ ending = "none"
-----------------------------------------------------------------------------
Going == ending = "none" /\ turn <= MaxTurns

\* What a planner may name: anything it has seen, and what it may not see.
Offered == recorded \cup {Frozen, Foreign}

\* Bound: beside a program or a candidate an action names at most one artifact.
ArtifactLists == {{}} \cup {{a} : a \in Offered}

Ledger(inputs, outputs) ==
  /\ last' = [inputs |-> inputs, outputs |-> outputs, before |-> recorded]
  /\ recorded' = recorded \cup outputs
  /\ turn' = turn + 1

PriorOutputs == IF turn > 1 THEN last.outputs ELSE Seeds

\* _inputs, for the actions that name no artifact.
PriorInputs == IF turn > 1 THEN last.outputs \cap available ELSE Seeds

\* A CampaignRunnerError of this turn: the source is stored and named by a failed
\* action, and the planner may repair it a few times in a row.
Reject(source) ==
  /\ stored' = stored \cup {source}
  /\ Ledger(PriorOutputs, {source})
  /\ repairs' = repairs + 1
  /\ ending' = IF repairs + 1 >= MaxRepairs THEN "action_rejected" ELSE ending

\* An action that is recorded with the status its effect had.
Admitted(source, inputs, outputs, reason) ==
  /\ stored' = stored \cup {source} \cup outputs
  /\ Ledger(inputs, {source} \cup outputs)
  /\ repairs' = 0
  /\ ending' = reason

\* Slip: every recorded output becomes readable.
OpenAll(outputs) == available' = available \cup outputs

\* What a step makes known: never what only a verifier has returned.
Open(outputs) == available' = available \cup {a \in outputs : a \notin private'}

\* The planner's own bounds, or its port's refusal: no call was made.
PlannerRefuses ==
  /\ Going
  /\ Ledger(PriorOutputs, {})
  /\ ending' \in {"planner_bounds_exhausted", "context_bound_exhausted", "planner_rejected"}
  /\ UNCHANGED <<stored, available, programs, candidates, experiments, private, suspended,
                 selected, repairs, toolRuns, performed, oversized>>

\* A response without an action ends the campaign.
PlannerFails ==
  /\ Going
  /\ stored' = stored \cup {Raw}
  /\ Ledger(PriorOutputs, {Raw})
  /\ ending' \in {"planner_failed", "planner_incomplete"}
  /\ UNCHANGED <<available, programs, candidates, experiments, private, suspended, selected,
                 repairs, toolRuns, performed, oversized>>

\* An action the schema, a suspended branch or the byte bound refuses; if it is too
\* large even to be stored, run() raises and there is no ledger.
Malformed ==
  /\ Going
  /\ \/ Reject(Raw)
     \/ ending' = "raised" /\ UNCHANGED <<turn, last, recorded, stored, repairs>>
  /\ UNCHANGED <<available, programs, candidates, experiments, private, suspended, selected,
                 toolRuns, performed, oversized>>

Actable(branch) == Going /\ branch \notin suspended

\* derive, falsify, write_program, note, suspend_branch, ask_user and report.
Write(branch) ==
  /\ Actable(branch)
  /\ \E kind \in {"candidate", "program", "note", "suspend", "ask", "report"}, t \in Texts :
       LET source == Bytes(t) IN
       /\ Admitted(source, PriorInputs, {}, CASE kind = "report" -> "reported"
                                         [] kind = "ask" -> "awaiting_user"
                                         [] OTHER -> "none")
       /\ programs' = IF kind = "program" THEN programs \cup {source} ELSE programs
       /\ candidates' = IF kind = "candidate" THEN candidates \cup {source} ELSE candidates
       /\ suspended' = IF kind = "suspend" THEN suspended \cup {branch} ELSE suspended
       /\ UNCHANGED private
       /\ Open({source})
  /\ UNCHANGED <<experiments, selected, toolRuns, performed, oversized>>

\* The output of an experiment is readable, also when a verifier has returned it before.
Published(outputs, verified) ==
  IF verified
  THEN /\ private' = private \cup outputs
       /\ Open({Raw} \cup outputs)
       /\ UNCHANGED experiments
  ELSE /\ experiments' = experiments \cup outputs
       /\ available' = available \cup outputs \cup {Raw}
       /\ UNCHANGED private

\* A tool that was run, and what became of its result: it is recorded, it is too
\* large and rejects the action after the fact, or the tool raises and run() with it.
\* The configuration keeps a sandbox's results small enough (campaign_cli.py:633); what
\* the verifier returns has no bound of its own.
PerformTool(inputs, verified) ==
  /\ performed' = performed + 1
  /\ \/ \E outputs \in SUBSET {Bytes(o) : o \in Outputs} \ {{}} :
          /\ Admitted(Raw, inputs, outputs, "none")
          /\ toolRuns' = toolRuns + 1
          /\ UNCHANGED oversized
          /\ Published(outputs, verified)
     \/ /\ verified
        /\ Reject(Raw)
        /\ oversized' = oversized + 1
        /\ UNCHANGED <<toolRuns, available, experiments, private>>
     \/ /\ ending' = "raised"
        /\ stored' = stored \cup {Raw}
        /\ UNCHANGED <<turn, last, recorded, repairs, toolRuns, oversized, available, experiments,
                       private>>

Refused ==
  /\ Reject(Raw)
  /\ UNCHANGED <<toolRuns, performed, oversized, available, experiments, private>>

RunProgram(branch) ==
  /\ Actable(branch)
  /\ \E program \in Offered, inputs \in ArtifactLists :
       IF /\ program \in programs /\ {program} \cup inputs \subseteq available
          /\ toolRuns < MaxToolRuns
       THEN PerformTool({program} \cup inputs, FALSE)
       ELSE Refused
  /\ UNCHANGED <<programs, candidates, suspended, selected>>

\* A candidate is written here or chosen, with results of experiments beside it.
Inspect(branch) ==
  /\ Actable(branch)
  /\ \E fresh \in BOOLEAN, tools \in ArtifactLists :
     \E chosen \in IF fresh THEN {Bytes(t) : t \in Texts} ELSE Offered :
       LET source == IF fresh THEN chosen ELSE Raw
           inputs == tools \cup (IF fresh THEN {} ELSE {chosen})
       IN IF /\ inputs \subseteq available \cup {source}
             /\ tools \subseteq experiments
             /\ fresh \/ chosen \in candidates
          THEN /\ Admitted(source, inputs, {}, "none")
               /\ candidates' = candidates \cup {chosen}
               /\ selected' = [candidate |-> {chosen}, tools |-> tools]
               /\ UNCHANGED private
               /\ Open({source})
          ELSE Reject(source) /\ UNCHANGED <<candidates, selected, private, available>>
  /\ UNCHANGED <<programs, experiments, suspended, toolRuns, performed, oversized>>

\* The verifier sees what was inspected last, and what it returns is kept private.
Verify(branch) ==
  /\ Actable(branch)
  /\ \E candidate \in Offered, tools \in ArtifactLists :
       LET inputs == selected.candidate \cup selected.tools IN
       IF /\ inputs \subseteq available
          /\ toolRuns < MaxToolRuns
          /\ selected = [candidate |-> {candidate}, tools |-> tools]
       THEN PerformTool(inputs, TRUE)
       ELSE Refused
  /\ UNCHANGED <<programs, candidates, suspended, selected>>

\* Slip: a frozen preimage that was read is named as the action's input.
ReadFrozen(requested) == {requested}

\* A frozen preimage is not in the ledger: reading it names the target.
ReadInputs(requested) == IF requested \in available THEN {requested} ELSE {Target}

ReadArtifact(branch) ==
  /\ Actable(branch)
  /\ \E requested \in Offered :
       IF requested \in available \cup {Frozen}
       THEN Admitted(Raw, ReadInputs(requested), {}, "none") /\ UNCHANGED private /\ Open({Raw})
       ELSE Reject(Raw) /\ UNCHANGED <<private, available>>
  /\ UNCHANGED <<programs, candidates, experiments, suspended, selected, toolRuns, performed,
                 oversized>>

TurnsExhausted ==
  /\ ending = "none" /\ turn > MaxTurns
  /\ ending' = "bounds_exhausted"
  /\ UNCHANGED <<turn, last, recorded, stored, available, programs, candidates, experiments,
                 private, suspended, selected, repairs, toolRuns, performed, oversized>>

CampaignNext ==
  \/ PlannerRefuses \/ PlannerFails \/ Malformed \/ TurnsExhausted
  \/ \E branch \in Branches : Write(branch) \/ RunProgram(branch) \/ Inspect(branch)
                                \/ Verify(branch) \/ ReadArtifact(branch)

CampaignSpec == CampaignInit /\ [][CampaignNext]_campaignVars
-----------------------------------------------------------------------------
Artifacts == Seeds \cup {Frozen, Foreign} \cup {<<"action", n>> : n \in 1..MaxTurns}
               \cup {Bytes(x) : x \in Texts \cup Outputs}

CampaignTypeOK ==
  /\ turn \in 1..(MaxTurns + 1) /\ repairs \in 0..MaxRepairs
  /\ toolRuns \in 0..MaxToolRuns /\ performed >= toolRuns + oversized
  /\ recorded \cup stored \cup available \subseteq Artifacts
  /\ experiments \subseteq available /\ programs \cup candidates \subseteq recorded

\* What the export is checked for later: every action's inputs are outputs of earlier
\* actions or the seeds (_validate_closure, replay.py:284), also after a rejection, a
\* read of a frozen preimage and a private result; and the ledger and the store name the
\* same artifacts in both directions (_reconcile_artifact_store, campaign_cli.py:1408).
ExportCloses ==
  ending # "raised" => last.inputs \subseteq last.before /\ stored = recorded \ Seeds

\* What a verifier returned becomes readable only if an experiment returns the same
\* bytes, not by being recorded as an output of the verify action or being written anew.
PrivateUnlessRun ==
  [][(available' \ available) \cap private' \subseteq experiments']_campaignVars

\* docs/adrs/0065-campaign-operator-entrypoint.md:82-92: max_tool_runs is a "bound the
\* runner policy enforces" and "no campaign can perform more" tool runs than its ceiling.
ToolRunsBounded == performed <= MaxToolRuns
=============================================================================
