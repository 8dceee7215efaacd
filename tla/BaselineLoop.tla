------------------------------ MODULE BaselineLoop ------------------------------
(***************************************************************************)
(* phase2/baseline_loop.py over phase2/sqlite_workspace.py: the bounded    *)
(* proposer/verifier rounds of one run.                                    *)
(*                                                                         *)
(* Every `with self.transaction()` of the workspace is one step; the loop  *)
(* is what happens between them, in any number of processes (the command   *)
(* line's `advance`, `pause`, `resume`), all under one worker id.  A       *)
(* process may die between two transactions; recover_jobs gives its job    *)
(* back once the lease has lapsed, and a lease may lapse under a process   *)
(* that is still waiting for its model.  One measured quantity, tokens,    *)
(* stands for the input tokens, output tokens and cost of the budget;      *)
(* elapsed time is the one deadline all jobs of a run share.               *)
(***************************************************************************)
EXTENDS Integers, FiniteSets, FiniteSetsExt, Functions, TLC

CONSTANTS
  Processes,    \* processes that advance the run
  Candidates,   \* artifacts a proposer may return
  Outcomes,     \* classes a verifier's finding may have (classify_finding)
  Usage,        \* tokens a call may use
  Estimate,     \* tokens reserve_call asks for
  MaxTokens, MaxCalls, MaxRounds,   \* BudgetLimits
  MaxAttempts,  \* max_attempts of a job
  MaxFaults,    \* bound on deaths and lapsed leases
  MaxCommands   \* bound on the operator's commands

\* records.py:87-110: a budget has at least one round, and what is counted is no
\* negative number.
ASSUME LoopAssumption ==
  MaxRounds \in Nat \ {0} /\ MaxCalls \in Nat /\ MaxAttempts \in Nat /\ Usage \subseteq Nat

VARIABLES
  run,        \* runs.status
  jobs,       \* <<kind, round>> -> [status, attempts, payload, result]
  proposals,  \* <<kind, round>> -> artifact: the table proposals
  imported,   \* <<kind, round>> -> <<row, artifact>>: the proposal_imported events
  manifests,  \* round -> what the verifier of the round may not see
  calls,      \* <<kind, round, attempt>> -> tokens: the table model_calls
  rounds,     \* round -> [candidate, finding]: the table refinement_rounds
  stopped,    \* the table run_stop_records: at most one record
  budget,     \* [calls, tokens, rounds] used
  statusLog,  \* idempotency key -> status it was set from: the run_* events
  work,       \* process -> where it is and what it holds
  late,       \* the jobs' deadline has passed
  faults, commands

database == <<run, jobs, proposals, imported, manifests, calls, rounds, stopped, budget,
              statusLog>>
loopVars == <<database, work, late, faults, commands>>

Runnable == {"queued", "retryable"}
Live == Runnable \cup {"running"}
Terminal == {"awaiting_review", "unresolved", "refinement_exhausted"}
Warrants == {"refuting", "defective"}

Idle == [pc |-> "idle", job |-> <<"proposer", 1>>, try |-> 0, answer |-> <<"none", "none">>,
         tokens |-> 0, draft |-> {}]
\* INSERT OR IGNORE, or an insert after a look that found no row of the key.
Insert(table, key, row) ==
  [k \in DOMAIN table \cup {key} |-> IF k \in DOMAIN table THEN table[k] ELSE row]

Job(payload) == [status |-> "queued", attempts |-> 0, payload |-> payload, result |-> <<"none", "none">>]

\* start(): the run is created, its first job enqueued, and it is running.
LoopInit ==
  /\ run = "running"
  /\ jobs = [j \in {<<"proposer", 1>>} |-> Job(<<"none", "dossier">>)]
  /\ proposals = <<>> /\ imported = <<>> /\ manifests = <<>> /\ calls = <<>>
  /\ rounds = <<>> /\ stopped = {}
  /\ budget = [calls |-> 0, tokens |-> 0, rounds |-> 1]
  /\ statusLog = <<>>
  /\ work = [p \in Processes |-> Idle]
  /\ late = FALSE /\ faults = 0 /\ commands = 0
-----------------------------------------------------------------------------
Kind(p) == work[p].job[1]
Round(p) == work[p].job[2]
Held(p) == jobs[work[p].job]

Step(p, pc) == work' = [work EXCEPT ![p].pc = pc]
\* A LateCommitRejected the loop swallows, or an exception that leaves it.
Leave(p) == work' = [work EXCEPT ![p] = Idle]

\* set_run_status: what it accepts, and what it then writes.
Allowed(from, to) ==
  \/ from = "running" /\ to \in Terminal \cup {"paused", "cancelled"}
  \/ from = "paused" /\ to \in {"running", "cancelled"}
  \/ from \in Terminal /\ to = "cancelled"

MaySet(to, key) ==
  \/ run = to
  \/ Allowed(run, to) /\ (key \in DOMAIN statusLog => statusLog[key] = run)

Cancelled(table) ==
  [j \in DOMAIN table |->
     IF table[j].status \in Live THEN [table[j] EXCEPT !.status = "cancelled"] ELSE table[j]]

SetStatus(to, key) ==
  /\ run' = to
  /\ statusLog' = Insert(statusLog, key, run)
  /\ jobs' = IF to = "cancelled" THEN Cancelled(jobs) ELSE jobs

\* _budget().exhausted_dimensions.
Exhausted ==
  {d \in {"tokens", "calls"} :
     \/ d = "tokens" /\ budget.tokens >= MaxTokens
     \/ d = "calls" /\ budget.calls >= MaxCalls}

\* enqueue_job: a job of the same key must have the same payload.
MayEnqueue(j, payload) == j \in DOMAIN jobs => jobs[j].payload = payload
Enqueue(j, payload) == jobs' = Insert(jobs, j, Job(payload))

\* advance() and claim_job: the lowest round first, its proposer before its verifier.
Claim(p) ==
  /\ work[p].pc = "idle" /\ run = "running" /\ ~late
  /\ \E j \in DOMAIN jobs :
       /\ jobs[j].status \in Runnable /\ jobs[j].attempts < MaxAttempts
       /\ \A k \in DOMAIN jobs : jobs[k].status \in Runnable =>
            \/ k[2] > j[2]
            \/ k[2] = j[2] /\ (k[1] = j[1] \/ j[1] = "proposer")
       /\ jobs' = [jobs EXCEPT ![j].status = "running", ![j].attempts = @ + 1]
       /\ work' = [work EXCEPT ![p] = [Idle EXCEPT !.job = j,
                     !.pc = IF j[1] = "verifier" THEN "manifest" ELSE "reserve"]]
  /\ UNCHANGED <<run, proposals, imported, manifests, calls, rounds, stopped, budget,
                 statusLog, late, faults, commands>>

\* claim_job after the deadline: what is live has timed out, and nothing is claimed.
ClaimLate(p) ==
  /\ work[p].pc = "idle" /\ run = "running" /\ late
  /\ \E j \in DOMAIN jobs : jobs[j].status \in Runnable
  /\ jobs' = [j \in DOMAIN jobs |->
       IF jobs[j].status \in Live THEN [jobs[j] EXCEPT !.status = "timed_out"] ELSE jobs[j]]
  /\ UNCHANGED <<run, proposals, imported, manifests, calls, rounds, stopped, budget,
                 statusLog, work, late, faults, commands>>

\* save_manifest: every other proposal of the run is withheld from the verifier.
Withheld(p) ==
  {i \in DOMAIN proposals : ~(i[1] = "proposer" /\ proposals[i] = Held(p).payload)}

Manifest(p) ==
  /\ work[p].pc = "manifest"
  /\ IF Round(p) \in DOMAIN manifests /\ manifests[Round(p)] # Withheld(p)
     THEN Leave(p) /\ UNCHANGED manifests
     ELSE /\ manifests' = Insert(manifests, Round(p), Withheld(p))
          /\ Step(p, "reserve")
  /\ UNCHANGED <<run, jobs, proposals, imported, calls, rounds, stopped, budget, statusLog,
                 late, faults, commands>>

\* _call: reserve_call; a refusal is a failed result without a recorded call.
Reserve(p) ==
  /\ work[p].pc = "reserve"
  /\ IF Exhausted # {} \/ budget.tokens + Estimate > MaxTokens
     THEN /\ work' = [work EXCEPT ![p].pc = "fail", ![p].answer = <<"none", "failed">>]
          /\ UNCHANGED budget
     ELSE /\ budget' = [budget EXCEPT !.calls = @ + 1]
          /\ work' = [work EXCEPT ![p].pc = "answer", ![p].try = Held(p).attempts]
  /\ UNCHANGED <<run, jobs, proposals, imported, manifests, calls, rounds, stopped, statusLog,
                 late, faults, commands>>

\* gateway.complete: a candidate, a finding about the candidate shown, or neither.
Failures == {<<"none", "failed">>, <<"none", "timed_out">>}
Answers(p) ==
  IF Kind(p) = "proposer" THEN Candidates \X {"proposed"} ELSE {Held(p).payload[1]} \X Outcomes

Answer(p) ==
  /\ work[p].pc = "answer"
  /\ \E a \in Answers(p) \cup Failures, u \in Usage :
       work' = [work EXCEPT ![p].pc = "usage", ![p].answer = a, ![p].tokens = u]
  /\ UNCHANGED <<database, late, faults, commands>>

RecordUsage(p) ==
  /\ work[p].pc = "usage"
  /\ budget' = [budget EXCEPT !.tokens = @ + work[p].tokens]
  /\ Step(p, "call")
  /\ UNCHANGED <<run, jobs, proposals, imported, manifests, calls, rounds, stopped, statusLog,
                 late, faults, commands>>

\* INSERT OR IGNORE on the call's id.
RecordCall(p) ==
  /\ work[p].pc = "call"
  /\ calls' = Insert(calls, <<Kind(p), Round(p), work[p].try>>, work[p].tokens)
  /\ Step(p, IF work[p].answer \in Failures THEN "fail" ELSE "commit")
  /\ UNCHANGED <<run, jobs, proposals, imported, manifests, rounds, stopped, budget, statusLog,
                 late, faults, commands>>

\* Slip: only the deadline is looked at.
InactiveWhenLate(p) == late

\* commit_proposal and finish_job refuse a job that is no longer theirs to finish.
Inactive(p) == late \/ run = "cancelled" \/ Held(p).status # "running"

\* The row commit_proposal finds after INSERT OR IGNORE, if any.
Rows(p) ==
  LET same == {i \in DOMAIN proposals : i[1] = Kind(p) /\ proposals[i] = work[p].answer}
  IN  IF same = {} /\ work[p].job \notin DOMAIN proposals THEN {work[p].job} ELSE same

\* The event of a proposal is never written with another content.
Imports(p, event) ==
  /\ ~Inactive(p)
  /\ work[p].job \in DOMAIN imported => imported[work[p].job] = event

\* Slip: INSERT OR REPLACE.
CommitOver(p) ==
  /\ work[p].pc = "commit"
  /\ IF ~Inactive(p)
     THEN /\ proposals' = work[p].job :> work[p].answer @@ proposals
          /\ imported' = work[p].job :> [row |-> work[p].job, artifact |-> work[p].answer]
                           @@ imported
          /\ Step(p, "finish")
     ELSE Leave(p) /\ UNCHANGED <<proposals, imported>>
  /\ UNCHANGED <<run, jobs, manifests, calls, rounds, stopped, budget, statusLog, late, faults,
                 commands>>

Commit(p) ==
  LET row == CHOOSE i \in Rows(p) : TRUE
      event == [row |-> row, artifact |-> work[p].answer]
  IN
  /\ work[p].pc = "commit"
  /\ IF Rows(p) # {} /\ Imports(p, event)
     THEN /\ proposals' = Insert(proposals, row, work[p].answer)
          /\ imported' = Insert(imported, work[p].job, event)
          /\ Step(p, "finish")
     ELSE Leave(p) /\ UNCHANGED <<proposals, imported>>
  /\ UNCHANGED <<run, jobs, manifests, calls, rounds, stopped, budget, statusLog, late, faults,
                 commands>>

\* finish_job with success, then the verifier's job or the end of the round.
Finish(p) ==
  LET done == Held(p).status = "succeeded" /\ Held(p).result = work[p].answer
      next == IF Kind(p) = "proposer" THEN "review" ELSE "round"
  IN
  /\ work[p].pc = "finish"
  /\ \/ done /\ Step(p, next) /\ UNCHANGED jobs
     \/ ~done /\ Inactive(p) /\ Leave(p) /\ UNCHANGED jobs
     \/ /\ ~done /\ ~Inactive(p)
        /\ jobs' = [jobs EXCEPT ![work[p].job].status = "succeeded",
                                ![work[p].job].result = work[p].answer]
        /\ Step(p, next)
  /\ UNCHANGED <<run, proposals, imported, manifests, calls, rounds, stopped, budget, statusLog,
                 late, faults, commands>>

EnqueueVerifier(p) ==
  LET j == <<"verifier", Round(p)>> IN
  /\ work[p].pc = "review"
  /\ IF MayEnqueue(j, work[p].answer) THEN Enqueue(j, work[p].answer) ELSE UNCHANGED jobs
  /\ Leave(p)
  /\ UNCHANGED <<run, proposals, imported, manifests, calls, rounds, stopped, budget, statusLog,
                 late, faults, commands>>
-----------------------------------------------------------------------------
\* _conclude_round: the record of the round, which is never rewritten.
RecordRound(p) ==
  LET record == [candidate |-> Held(p).payload, finding |-> work[p].answer] IN
  /\ work[p].pc = "round"
  /\ IF Round(p) \in DOMAIN rounds /\ rounds[Round(p)] # record
     THEN Leave(p) /\ UNCHANGED rounds
     ELSE rounds' = Insert(rounds, Round(p), record) /\ Step(p, "judge")
  /\ UNCHANGED <<run, jobs, proposals, imported, manifests, calls, stopped, budget, statusLog,
                 late, faults, commands>>

StopRecord(status, reason, binding, r) ==
  {[status |-> status, reason |-> reason, binding |-> binding, round |-> r]}

\* _binding_bounds: what refuses a round that costs what this one did.
RoundCalls(r) == {c \in DOMAIN calls : c[2] = r}
Binding(p) ==
  LET spent == MapThenSumSet(LAMBDA c : calls[c], RoundCalls(Round(p)))
      asked == Max({2, Cardinality(RoundCalls(Round(p)))})
  IN  Exhausted
        \cup (IF budget.tokens + spent > MaxTokens THEN {"tokens"} ELSE {})
        \cup (IF budget.calls + asked > MaxCalls THEN {"calls"} ELSE {})

Judge(p) ==
  /\ work[p].pc = "judge"
  /\ \/ /\ work[p].answer[2] \notin Warrants
        /\ work' = [work EXCEPT ![p].pc = "stop", ![p].draft =
             StopRecord("awaiting_review", "no_refinement_warranted", {}, Round(p))]
     \/ /\ work[p].answer[2] \in Warrants /\ Binding(p) # {}
        /\ work' = [work EXCEPT ![p].pc = "stop", ![p].draft =
             StopRecord("refinement_exhausted", "budget_bound", Binding(p), Round(p))]
     \/ /\ work[p].answer[2] \in Warrants /\ Binding(p) = {}
        /\ Step(p, "grant")
  /\ UNCHANGED <<database, late, faults, commands>>

\* Slip: a refused round is not followed by a stop.
GrantOrLeave(p) ==
  /\ work[p].pc = "grant"
  /\ IF Round(p) + 1 > MaxRounds
     THEN Leave(p) /\ UNCHANGED budget
     ELSE /\ budget' = [budget EXCEPT !.rounds = Max({@, Round(p) + 1})]
          /\ Step(p, "revise")
  /\ UNCHANGED <<run, jobs, proposals, imported, manifests, calls, rounds, stopped, statusLog,
                 late, faults, commands>>

\* reserve_refinement_round.
Grant(p) ==
  /\ work[p].pc = "grant"
  /\ IF Round(p) + 1 > MaxRounds
     THEN /\ work' = [work EXCEPT ![p].pc = "stop", ![p].draft =
               StopRecord("refinement_exhausted", "refinement_round_cap", {"rounds"}, Round(p))]
          /\ UNCHANGED budget
     ELSE /\ budget' = [budget EXCEPT !.rounds = Max({@, Round(p) + 1})]
          /\ Step(p, "revise")
  /\ UNCHANGED <<run, jobs, proposals, imported, manifests, calls, rounds, stopped, statusLog,
                 late, faults, commands>>

EnqueueRevision(p) ==
  LET j == <<"proposer", Round(p) + 1>> IN
  /\ work[p].pc = "revise"
  /\ IF MayEnqueue(j, work[p].answer) THEN Enqueue(j, work[p].answer) ELSE UNCHANGED jobs
  /\ Leave(p)
  /\ UNCHANGED <<run, proposals, imported, manifests, calls, rounds, stopped, budget, statusLog,
                 late, faults, commands>>

\* _non_success: the job ends without success, and so does the run.
Fail(p) ==
  LET how == work[p].answer[2]
      done == Held(p).status = how /\ Held(p).result = work[p].answer
  IN
  /\ work[p].pc = "fail"
  /\ IF done \/ Held(p).status = "running"
     THEN /\ jobs' = IF done THEN jobs
                     ELSE [jobs EXCEPT ![work[p].job].status = how, ![work[p].job].result = work[p].answer]
          /\ work' = [work EXCEPT ![p].pc = "stop", ![p].draft =
               StopRecord("unresolved", "non_success", Exhausted, Round(p))]
     ELSE Leave(p) /\ UNCHANGED jobs
  /\ UNCHANGED <<run, proposals, imported, manifests, calls, rounds, stopped, budget, statusLog,
                 late, faults, commands>>

\* record_run_stop: one per run, never rewritten.
RecordStop(p) ==
  /\ work[p].pc = "stop"
  /\ IF stopped \subseteq work[p].draft
     THEN stopped' = work[p].draft /\ Step(p, "status")
     ELSE Leave(p) /\ UNCHANGED stopped
  /\ UNCHANGED <<run, jobs, proposals, imported, manifests, calls, rounds, budget, statusLog,
                 late, faults, commands>>

\* The run's terminal status; a run that was paused or cancelled refuses it.
EndRun(p) ==
  LET to == (CHOOSE d \in work[p].draft : TRUE).status IN
  /\ work[p].pc = "status"
  /\ IF MaySet(to, to) THEN SetStatus(to, to) ELSE UNCHANGED <<run, jobs, statusLog>>
  /\ Leave(p)
  /\ UNCHANGED <<proposals, imported, manifests, calls, rounds, stopped, budget, late, faults,
                 commands>>
-----------------------------------------------------------------------------
Command(to, key) ==
  /\ commands < MaxCommands
  /\ MaySet(to, key)
  /\ SetStatus(to, key)
  /\ commands' = commands + 1
  /\ UNCHANGED <<proposals, imported, manifests, calls, rounds, stopped, budget, work, late,
                 faults>>

Pause == Command("paused", "paused")
Resume == Command("running", "resumed")
Cancel == Command("cancelled", "cancelled")

Deadline ==
  /\ ~late /\ faults < MaxFaults
  /\ late' = TRUE /\ faults' = faults + 1
  /\ UNCHANGED <<database, work, commands>>

Die(p) ==
  /\ work[p].pc # "idle" /\ faults < MaxFaults
  /\ faults' = faults + 1
  /\ Leave(p)
  /\ UNCHANGED <<database, late, commands>>

\* recover_jobs, once the lease of what is running has lapsed.
RecoverJobs ==
  /\ faults < MaxFaults
  /\ \E j \in DOMAIN jobs : jobs[j].status = "running"
  /\ jobs' = [j \in DOMAIN jobs |->
       LET s == jobs[j].status
           to == IF run = "cancelled" THEN "cancelled"
                 ELSE IF late THEN "timed_out"
                 ELSE IF s # "running" THEN s
                 ELSE IF jobs[j].attempts >= MaxAttempts THEN "failed" ELSE "retryable"
       IN IF s \in Live THEN [jobs[j] EXCEPT !.status = to] ELSE jobs[j]]
  /\ faults' = faults + 1
  /\ UNCHANGED <<run, proposals, imported, manifests, calls, rounds, stopped, budget, statusLog,
                 work, late, commands>>

LoopNext ==
  \/ \E p \in Processes :
       \/ Claim(p) \/ ClaimLate(p) \/ Manifest(p) \/ Reserve(p) \/ Answer(p)
       \/ RecordUsage(p) \/ RecordCall(p) \/ Commit(p) \/ Finish(p) \/ EnqueueVerifier(p)
       \/ RecordRound(p) \/ Judge(p) \/ Grant(p) \/ EnqueueRevision(p)
       \/ Fail(p) \/ RecordStop(p) \/ EndRun(p) \/ Die(p)
  \/ Pause \/ Resume \/ Cancel \/ Deadline \/ RecoverJobs

LoopSpec == LoopInit /\ [][LoopNext]_loopVars
-----------------------------------------------------------------------------
LoopTypeOK ==
  /\ run \in Terminal \cup {"running", "paused", "cancelled"}
  /\ DOMAIN jobs \subseteq {"proposer", "verifier"} \X (1..MaxRounds)
  /\ \A j \in DOMAIN jobs : jobs[j].attempts \in 0..MaxAttempts
  /\ budget \in [calls : 0..MaxCalls, tokens : Nat, rounds : 1..MaxRounds]

(***************************************************************************)
(* The chain of a refinement: the record of a round names the candidate    *)
(* its verifier was given and that was committed, its finding is about     *)
(* that candidate, a later round was warranted by the one before it and    *)
(* granted by the budget; whoever raced, died or was resumed in between.   *)
(***************************************************************************)
RoundsLinked ==
  /\ \A r \in DOMAIN rounds :
       /\ {<<"proposer", r>>, <<"verifier", r>>} \subseteq DOMAIN imported
       /\ imported[<<"proposer", r>>].artifact = rounds[r].candidate
       /\ imported[<<"verifier", r>>].artifact = rounds[r].finding
       /\ rounds[r].finding[1] = rounds[r].candidate[1]
  /\ \A j \in DOMAIN jobs :
       j[2] > 1 => /\ j[2] <= budget.rounds
                   /\ j[2] - 1 \in DOMAIN rounds
                   /\ rounds[j[2] - 1].finding[2] \in Warrants

(***************************************************************************)
(* A cancelled run takes no more results: a process that was inside a      *)
(* model call when the operator cancelled commits nothing and finishes no  *)
(* job, and the run never leaves the status.                               *)
(***************************************************************************)
CancelIsFinal ==
  [][run = "cancelled" =>
       /\ run' = "cancelled" /\ proposals' = proposals
       /\ \A j \in DOMAIN jobs : jobs[j].status = "cancelled" => jobs'[j] = jobs[j]]_loopVars

\* What the operator reads of a run, whoever works on it: the abstract run.
Chain == INSTANCE BaselineRun WITH
  status <- run, committed <- [j \in DOMAIN imported |-> imported[j].artifact],
  granted <- budget.rounds
ChainSpec == Chain!Spec

(***************************************************************************)
(* A run keeps what it promises, step by step: whatever its processes do   *)
(* between two transactions, die, lose their lease or race, the tables an  *)
(* operator reads are those of the abstract run, cancellation included.    *)
(***************************************************************************)
RunKept == CancelIsFinal /\ ChainSpec

(***************************************************************************)
(* A run that says it is running while no job of it can be claimed and no  *)
(* process is at work is stuck: nothing re-enqueues.  That takes a death,  *)
(* a lapsed lease, the deadline or a pause that overtook the end of a      *)
(* round; the loop alone always leaves a job or a terminal status behind.  *)
(***************************************************************************)
StrandedOnlyByFault ==
  (/\ run = "running"
   /\ \A p \in Processes : work[p].pc = "idle"
   /\ \A j \in DOMAIN jobs : jobs[j].status \notin Runnable)
  => faults > 0 \/ "paused" \in DOMAIN statusLog
=============================================================================
