--------------------------- MODULE BaselineLoopProofs ---------------------------
(***************************************************************************)
(* Theorems about BaselineLoop, for any number of processes, any budget    *)
(* and any number of deaths, lapsed leases and operator's commands.        *)
(***************************************************************************)
EXTENDS BaselineLoop, TLAPS

\* A table keeps the rows it has when one is added.
LEMMA TableGrows ==
  ASSUME NEW table, NEW key, NEW row
  PROVE  /\ DOMAIN Insert(table, key, row) = DOMAIN table \cup {key}
         /\ \A k \in DOMAIN table : Insert(table, key, row)[k] = table[k]
         /\ key \notin DOMAIN table => Insert(table, key, row)[key] = row
  BY DEF Insert

LEMMA LaterRound ==
  ASSUME NEW a \in Int, NEW b \in Int
  PROVE  Max({a, b}) \in Int /\ Max({a, b}) >= a /\ Max({a, b}) >= b
<1>1. \E x \in {a, b} : \A y \in {a, b} : x >= y
  OBVIOUS
<1> QED
  BY <1>1 DEF Max
-----------------------------------------------------------------------------
\* What a cancelled run leaves in place.
Final ==
  run = "cancelled" =>
    /\ run' = "cancelled" /\ proposals' = proposals
    /\ \A j \in DOMAIN jobs : jobs[j].status = "cancelled" => jobs'[j] = jobs[j]

LEMMA StatusFinal ==
  ASSUME NEW to, NEW key, MaySet(to, key), SetStatus(to, key), UNCHANGED proposals
  PROVE  Final
  BY DEF Final, MaySet, Allowed, Terminal, SetStatus, Cancelled, Live, Runnable

LEMMA FinalStep ==
  ASSUME [LoopNext]_loopVars
  PROVE  Final
<1>1. ASSUME NEW p \in Processes,
             \/ Claim(p) \/ ClaimLate(p) \/ Manifest(p) \/ Reserve(p) \/ Answer(p)
             \/ RecordUsage(p) \/ RecordCall(p) \/ RecordRound(p) \/ Judge(p) \/ Grant(p)
             \/ RecordStop(p) \/ Die(p)
      PROVE  Final
  BY <1>1 DEF Claim, ClaimLate, Manifest, Reserve, Answer, RecordUsage, RecordCall, RecordRound,
     Judge, Grant, RecordStop, Die, Final, database
<1>2. ASSUME NEW p \in Processes, Commit(p) PROVE Final
  BY <1>2 DEF Commit, Imports, Inactive, Final
<1>3. ASSUME NEW p \in Processes, Finish(p) PROVE Final
  <2>1. UNCHANGED <<run, proposals>>
    BY <1>3 DEF Finish
  <2>2. run = "cancelled" => UNCHANGED jobs
    BY <1>3 DEF Finish, Inactive
  <2> QED
    BY <2>1, <2>2 DEF Final
<1>4. ASSUME NEW p \in Processes, EnqueueVerifier(p) \/ EnqueueRevision(p) PROVE Final
  <2>1. UNCHANGED <<run, proposals>>
    BY <1>4 DEF EnqueueVerifier, EnqueueRevision
  <2>2. UNCHANGED jobs \/ \E j, row : jobs' = Insert(jobs, j, row)
    BY <1>4 DEF EnqueueVerifier, EnqueueRevision, Enqueue
  <2>3. \A k \in DOMAIN jobs : jobs'[k] = jobs[k]
    BY <2>2 DEF Insert
  <2> QED
    BY <2>1, <2>3 DEF Final
<1>5. ASSUME NEW p \in Processes, Fail(p) PROVE Final
  <2>1. UNCHANGED <<run, proposals>>
    BY <1>5 DEF Fail
  <2>2. UNCHANGED jobs
        \/ (Held(p).status = "running" /\ \A j \in DOMAIN jobs : j # work[p].job => jobs'[j] = jobs[j])
    BY <1>5 DEF Fail
  <2> QED
    BY <2>1, <2>2 DEF Final, Held
<1>6. ASSUME NEW p \in Processes, EndRun(p) PROVE Final
  <2>1. PICK to : to = (CHOOSE d \in work[p].draft : TRUE).status
    OBVIOUS
  <2>2. UNCHANGED proposals
        /\ IF MaySet(to, to) THEN SetStatus(to, to) ELSE UNCHANGED <<run, jobs, statusLog>>
    BY <1>6, <2>1 DEF EndRun
  <2> QED
    BY <2>2, StatusFinal DEF Final
<1>7. ASSUME Pause \/ Resume \/ Cancel PROVE Final
  BY <1>7, StatusFinal DEF Pause, Resume, Cancel, Command
<1>8. ASSUME Deadline PROVE Final
  BY <1>8 DEF Deadline, Final, database
<1>9. ASSUME RecoverJobs PROVE Final
  BY <1>9 DEF RecoverJobs, Final, Live, Runnable
<1>10. ASSUME UNCHANGED loopVars PROVE Final
  BY <1>10 DEF loopVars, database, Final
<1> QED
  BY <1>1, <1>2, <1>3, <1>4, <1>5, <1>6, <1>7, <1>8, <1>9, <1>10 DEF LoopNext

(***************************************************************************)
(* A cancelled run stays cancelled and takes no more results, whatever its *)
(* processes were doing when the operator cancelled it, recovered jobs and *)
(* late answers included (sqlite_workspace.py, set_run_status,             *)
(* commit_proposal and finish_job).                                        *)
(***************************************************************************)
THEOREM CancellingIsFinal == LoopSpec => CancelIsFinal
<1>1. [LoopNext]_loopVars => [Final]_loopVars
  BY FinalStep
<1> QED
  BY <1>1, PTL DEF LoopSpec, CancelIsFinal, Final
-----------------------------------------------------------------------------
(***************************************************************************)
(* The chain of the rounds.  RoundsLinked speaks of the tables; between    *)
(* two transactions the link is held by the process that is about to write *)
(* the next row, so the invariant says what a process at each place knows. *)
(***************************************************************************)
Kinds == {"proposer", "verifier"}

LoopShapes ==
  /\ DOMAIN work = Processes
  /\ \A p \in Processes : DOMAIN work[p] = DOMAIN Idle
  /\ DOMAIN jobs \subseteq Kinds \X (Nat \ {0})
  /\ \A j \in DOMAIN jobs : DOMAIN jobs[j] = {"status", "attempts", "payload", "result"}
  /\ DOMAIN budget = {"calls", "tokens", "rounds"} /\ budget.rounds \in Int

\* What p answered is on record for its job.
Committed(p) ==
  /\ work[p].job \in DOMAIN imported
  /\ imported[work[p].job].artifact = work[p].answer

\* A verifier's finding is about the candidate it was shown.
AboutShown(p) == work[p].answer[1] = Held(p).payload[1]

Concluded(p) ==
  /\ Round(p) \in DOMAIN rounds
  /\ rounds[Round(p)].finding = work[p].answer

Working(p) ==
  /\ work[p].pc # "idle" => work[p].job \in DOMAIN jobs
  /\ work[p].pc \in {"finish", "review", "round", "judge", "grant", "revise"} => Committed(p)
  /\ work[p].pc \in {"manifest", "round", "judge", "grant", "revise"} => Kind(p) = "verifier"
  /\ work[p].pc = "review" => Kind(p) = "proposer"
  /\ Kind(p) = "verifier" =>
       /\ work[p].pc \in {"usage", "call"} => AboutShown(p) \/ work[p].answer \in Failures
       /\ work[p].pc \in {"commit", "finish", "round"} => AboutShown(p)
  /\ work[p].pc \in {"judge", "grant", "revise"} => Concluded(p)
  /\ work[p].pc \in {"grant", "revise"} => work[p].answer[2] \in Warrants
  /\ work[p].pc = "revise" => Round(p) + 1 <= budget.rounds

\* A verifier's job carries the candidate its proposer committed.
Shown ==
  \A j \in DOMAIN jobs : j[1] = "verifier" =>
    /\ <<"proposer", j[2]>> \in DOMAIN imported
    /\ imported[<<"proposer", j[2]>>].artifact = jobs[j].payload

RInv == LoopShapes /\ (\A p \in Processes : Working(p)) /\ Shown /\ RoundsLinked

\* Rows are only added, and a job keeps what it was given.
Kept ==
  /\ \A j \in DOMAIN jobs :
       /\ j \in DOMAIN jobs' /\ jobs'[j].payload = jobs[j].payload
       /\ DOMAIN jobs'[j] = DOMAIN jobs[j]
  /\ \A k \in DOMAIN imported : k \in DOMAIN imported' /\ imported'[k] = imported[k]
  /\ \A r \in DOMAIN rounds : r \in DOMAIN rounds' /\ rounds'[r] = rounds[r]
  /\ DOMAIN budget' = DOMAIN budget /\ budget'.rounds \in Int /\ budget'.rounds >= budget.rounds

LEMMA OthersWork ==
  ASSUME LoopShapes, Kept, NEW q \in Processes, Working(q), work'[q] = work[q]
  PROVE  Working(q)'
<1>1. /\ Kind(q)' = Kind(q) /\ Round(q)' = Round(q)
      /\ (work[q].pc # "idle" => Held(q)'.payload = Held(q).payload)
  BY DEF Kept, Kind, Round, Held, Working
<1>2. /\ Committed(q) => Committed(q)'
      /\ Concluded(q) => Concluded(q)'
      /\ AboutShown(q) /\ work[q].pc # "idle" => AboutShown(q)'
  BY <1>1 DEF Committed, Concluded, AboutShown, Kept, Round
<1>3. work[q].pc = "revise" => Round(q) + 1 <= budget'.rounds
  <2>1. work[q].pc = "revise" => Round(q) \in Nat
    BY DEF Working, LoopShapes, Round
  <2> QED
    BY <2>1 DEF Working, Kept, LoopShapes
<1> QED
  BY <1>1, <1>2, <1>3 DEF Working, Kept, Failures

LEMMA TablesStill ==
  ASSUME LoopShapes, Shown, RoundsLinked, Kept, DOMAIN jobs' = DOMAIN jobs, rounds' = rounds
  PROVE  Shown' /\ RoundsLinked'
<1>1. Shown'
  BY DEF Shown, Kept
<1>2. \A r \in DOMAIN rounds' :
       /\ {<<"proposer", r>>, <<"verifier", r>>} \subseteq DOMAIN imported'
       /\ imported'[<<"proposer", r>>].artifact = rounds'[r].candidate
       /\ rounds'[r].finding[1] = rounds'[r].candidate[1]
  BY DEF RoundsLinked, Kept
<1>3. ASSUME NEW r \in DOMAIN rounds'
      PROVE  imported'[<<"verifier", r>>].artifact = rounds'[r].finding
  BY <1>3 DEF RoundsLinked, Kept
<1> QED
  BY <1>1, <1>2, <1>3 DEF RoundsLinked, Kept, LoopShapes

\* A process that only moves on by itself, or leaves.
LEMMA Moves ==
  ASSUME RInv, Kept, DOMAIN jobs' = DOMAIN jobs, rounds' = rounds, NEW p \in Processes, NEW w,
         work' = [work EXCEPT ![p] = w], DOMAIN w = DOMAIN Idle,
         work'[p] = w => Working(p)'
  PROVE  RInv'
<1>1. work'[p] = w /\ DOMAIN work' = Processes /\ \A q \in Processes : q # p => work'[q] = work[q]
  BY DEF RInv, LoopShapes
<1>2. LoopShapes'
  BY <1>1 DEF RInv, LoopShapes, Kept
<1>3. \A q \in Processes : Working(q)'
  BY <1>1, OthersWork DEF RInv
<1>4. Shown' /\ RoundsLinked'
  BY TablesStill DEF RInv
<1> QED
  BY <1>2, <1>3, <1>4 DEF RInv

LEMMA Leaves ==
  ASSUME RInv, Kept, DOMAIN jobs' = DOMAIN jobs, rounds' = rounds, NEW p \in Processes, Leave(p)
  PROVE  RInv'
<1>1. work'[p] = Idle => Working(p)'
  BY DEF Working, Idle
<1> QED
  BY <1>1, Moves DEF Leave

\* Tables that do not matter to the chain, or do not change.
LEMMA SameKept ==
  ASSUME RInv, UNCHANGED <<jobs, imported, rounds, budget>>
  PROVE  Kept /\ DOMAIN jobs' = DOMAIN jobs
  BY DEF RInv, LoopShapes, Kept
-----------------------------------------------------------------------------
LEMMA ClaimLinks == ASSUME RInv, NEW p \in Processes, Claim(p) PROVE RInv'
<1>1. PICK j \in DOMAIN jobs :
        /\ jobs' = [jobs EXCEPT ![j].status = "running", ![j].attempts = @ + 1]
        /\ work' = [work EXCEPT ![p] = [Idle EXCEPT !.job = j,
                      !.pc = IF j[1] = "verifier" THEN "manifest" ELSE "reserve"]]
  BY DEF Claim
<1>2. UNCHANGED <<imported, rounds, budget>>
  BY DEF Claim
<1>3. Kept /\ DOMAIN jobs' = DOMAIN jobs
  BY <1>1, <1>2 DEF RInv, LoopShapes, Kept
<1> DEFINE w == [Idle EXCEPT !.job = j, !.pc = IF j[1] = "verifier" THEN "manifest" ELSE "reserve"]
<1>4. DOMAIN w = DOMAIN Idle /\ w.job = j
      /\ w.pc = IF j[1] = "verifier" THEN "manifest" ELSE "reserve"
  BY DEF Idle
<1> HIDE DEF w
<1>5. work'[p] = w => Working(p)'
  BY <1>3, <1>4 DEF Working, Kind
<1> QED
  BY <1>1, <1>2, <1>3, <1>4, <1>5, Moves DEF w

\* The process goes on with what it holds.
LEMMA Steps ==
  ASSUME RInv, Kept, DOMAIN jobs' = DOMAIN jobs, rounds' = rounds, NEW p \in Processes, NEW pc,
         Step(p, pc), work[p].pc # "idle",
         LET w == work'[p] IN
           /\ w.pc = pc /\ w.job = work[p].job /\ w.answer = work[p].answer
           => Working(p)'
  PROVE  RInv'
<1> DEFINE w == [work[p] EXCEPT !.pc = pc]
<1>1. /\ DOMAIN w = DOMAIN Idle /\ w.pc = pc /\ w.job = work[p].job /\ w.answer = work[p].answer
  BY DEF RInv, LoopShapes, Idle
<1>2. work' = [work EXCEPT ![p] = w]
  BY DEF Step
<1> HIDE DEF w
<1>3. work'[p] = w => Working(p)'
  BY <1>1
<1> QED
  BY <1>1, <1>2, <1>3, Moves

\* What a process knows stays true while the tables grow and it keeps its job and answer.
LEMMA StillKnows ==
  ASSUME RInv, Kept, NEW p \in Processes, work[p].pc # "idle",
         work'[p].job = work[p].job
  PROVE  /\ work'[p].job \in DOMAIN jobs' /\ Kind(p)' = Kind(p) /\ Round(p)' = Round(p)
         /\ Held(p)'.payload = Held(p).payload
         /\ (work'[p].answer = work[p].answer =>
               /\ Committed(p) => Committed(p)'
               /\ AboutShown(p) => AboutShown(p)'
               /\ Concluded(p) => Concluded(p)')
<1>1. work[p].job \in DOMAIN jobs
  BY DEF RInv, Working
<1>2. /\ work'[p].job \in DOMAIN jobs' /\ Kind(p)' = Kind(p) /\ Round(p)' = Round(p)
      /\ Held(p)'.payload = Held(p).payload
  BY <1>1 DEF Kept, Kind, Round, Held
<1> QED
  BY <1>1, <1>2 DEF Committed, AboutShown, Concluded, Kept, Round

\* A process with a stop record in hand knows nothing of the chain.
LEMMA Stops ==
  ASSUME RInv, Kept, DOMAIN jobs' = DOMAIN jobs, rounds' = rounds, NEW p \in Processes,
         work[p].pc # "idle", NEW draft,
         work' = [work EXCEPT ![p].pc = "stop", ![p].draft = draft]
  PROVE  RInv'
<1> DEFINE w == [work[p] EXCEPT !.pc = "stop", !.draft = draft]
<1>1. /\ DOMAIN w = DOMAIN Idle /\ w.pc = "stop" /\ w.job = work[p].job
      /\ work' = [work EXCEPT ![p] = w]
  BY DEF RInv, LoopShapes, Idle
<1> HIDE DEF w
<1>2. work'[p] = w => Working(p)'
  BY <1>1, StillKnows DEF Working
<1> QED
  BY <1>1, <1>2, Moves

LEMMA ManifestLinks == ASSUME RInv, NEW p \in Processes, Manifest(p) PROVE RInv'
<1>1. UNCHANGED <<jobs, imported, rounds, budget>> /\ work[p].pc = "manifest"
  BY DEF Manifest
<1>2. Kept /\ DOMAIN jobs' = DOMAIN jobs
  BY <1>1, SameKept
<1>3. CASE Leave(p)
  BY <1>1, <1>2, <1>3, Leaves
<1>4. CASE Step(p, "reserve")
  <2>1. work'[p].pc = "reserve" /\ work'[p].job = work[p].job => Working(p)'
    BY <1>1, <1>2, StillKnows DEF Working
  <2> QED
    BY <1>1, <1>2, <1>4, <2>1, Steps
<1> QED
  BY <1>3, <1>4 DEF Manifest

LEMMA ReserveLinks == ASSUME RInv, NEW p \in Processes, Reserve(p) PROVE RInv'
<1>1. UNCHANGED <<jobs, imported, rounds>> /\ work[p].pc = "reserve"
  BY DEF Reserve
<1>2. budget' = budget \/ budget' = [budget EXCEPT !.calls = @ + 1]
  BY DEF Reserve
<1>3. Kept /\ DOMAIN jobs' = DOMAIN jobs
  BY <1>1, <1>2 DEF RInv, LoopShapes, Kept
<1>4. CASE work' = [work EXCEPT ![p].pc = "fail", ![p].answer = <<"none", "failed">>]
  <2> DEFINE w == [work[p] EXCEPT !.pc = "fail", !.answer = <<"none", "failed">>]
  <2>1. /\ DOMAIN w = DOMAIN Idle /\ w.pc = "fail" /\ w.job = work[p].job
        /\ work' = [work EXCEPT ![p] = w]
    BY <1>4 DEF RInv, LoopShapes, Idle
  <2> HIDE DEF w
  <2>2. work'[p] = w => Working(p)'
    BY <1>1, <1>3, <2>1, StillKnows DEF Working
  <2> QED
    BY <1>1, <1>3, <2>1, <2>2, Moves
<1>5. CASE work' = [work EXCEPT ![p].pc = "answer", ![p].try = Held(p).attempts]
  <2> DEFINE w == [work[p] EXCEPT !.pc = "answer", !.try = Held(p).attempts]
  <2>1. /\ DOMAIN w = DOMAIN Idle /\ w.pc = "answer" /\ w.job = work[p].job
        /\ work' = [work EXCEPT ![p] = w]
    BY <1>5 DEF RInv, LoopShapes, Idle
  <2> HIDE DEF w
  <2>2. work'[p] = w => Working(p)'
    BY <1>1, <1>3, <2>1, StillKnows DEF Working
  <2> QED
    BY <1>1, <1>3, <2>1, <2>2, Moves
<1> QED
  BY <1>4, <1>5 DEF Reserve

LEMMA AnswerLinks == ASSUME RInv, NEW p \in Processes, Answer(p) PROVE RInv'
<1>1. UNCHANGED <<jobs, imported, rounds, budget>> /\ work[p].pc = "answer"
  BY DEF Answer, database
<1>2. Kept /\ DOMAIN jobs' = DOMAIN jobs
  BY <1>1, SameKept
<1>3. PICK a \in Answers(p) \cup Failures, u \in Usage :
        work' = [work EXCEPT ![p].pc = "usage", ![p].answer = a, ![p].tokens = u]
  BY DEF Answer
<1> DEFINE w == [work[p] EXCEPT !.pc = "usage", !.answer = a, !.tokens = u]
<1>4. /\ DOMAIN w = DOMAIN Idle /\ w.pc = "usage" /\ w.job = work[p].job /\ w.answer = a
      /\ work' = [work EXCEPT ![p] = w]
  BY <1>3 DEF RInv, LoopShapes, Idle
<1>5. Kind(p) = "verifier" => a \in Failures \/ a[1] = Held(p).payload[1]
  BY DEF Answers
<1> HIDE DEF w
<1>6. work'[p] = w => Working(p)'
  BY <1>1, <1>2, <1>4, <1>5, StillKnows DEF Working, AboutShown, Failures
<1> QED
  BY <1>1, <1>2, <1>4, <1>6, Moves

LEMMA RecordUsageLinks == ASSUME RInv, NEW p \in Processes, RecordUsage(p) PROVE RInv'
<1>1. UNCHANGED <<jobs, imported, rounds>> /\ work[p].pc = "usage" /\ Step(p, "call")
      /\ budget' = [budget EXCEPT !.tokens = @ + work[p].tokens]
  BY DEF RecordUsage
<1>2. Kept /\ DOMAIN jobs' = DOMAIN jobs
  BY <1>1 DEF RInv, LoopShapes, Kept
<1>3. work'[p].pc = "call" /\ work'[p].job = work[p].job /\ work'[p].answer = work[p].answer
      => Working(p)'
  BY <1>1, <1>2, StillKnows DEF RInv, Working, Failures
<1> QED
  BY <1>1, <1>2, <1>3, Steps

LEMMA RecordCallLinks == ASSUME RInv, NEW p \in Processes, RecordCall(p) PROVE RInv'
<1>1. UNCHANGED <<jobs, imported, rounds, budget>> /\ work[p].pc = "call"
  BY DEF RecordCall
<1>2. Kept /\ DOMAIN jobs' = DOMAIN jobs
  BY <1>1, SameKept
<1>3. PICK pc : /\ pc = IF work[p].answer \in Failures THEN "fail" ELSE "commit"
                /\ Step(p, pc)
  BY DEF RecordCall
<1>4. work'[p].pc = pc /\ work'[p].job = work[p].job /\ work'[p].answer = work[p].answer
      => Working(p)'
  BY <1>1, <1>2, <1>3, StillKnows DEF RInv, Working
<1> QED
  BY <1>1, <1>2, <1>3, <1>4, Steps

LEMMA CommitLinks == ASSUME RInv, NEW p \in Processes, Commit(p) PROVE RInv'
<1>1. UNCHANGED <<jobs, rounds, budget>> /\ work[p].pc = "commit"
  BY DEF Commit
<1>2. CASE Leave(p) /\ UNCHANGED imported
  BY <1>1, <1>2, SameKept, Leaves
<1>3. CASE ~(Leave(p) /\ UNCHANGED imported)
  <2>1. PICK event : /\ event.artifact = work[p].answer
                     /\ Imports(p, event)
                     /\ imported' = Insert(imported, work[p].job, event)
                     /\ Step(p, "finish")
    BY <1>3 DEF Commit
  <2>2. /\ work[p].job \in DOMAIN imported' /\ imported'[work[p].job] = event
        /\ \A k \in DOMAIN imported : k \in DOMAIN imported' /\ imported'[k] = imported[k]
    BY <2>1 DEF Imports, Insert
  <2>3. Kept /\ DOMAIN jobs' = DOMAIN jobs
    BY <1>1, <2>2 DEF RInv, LoopShapes, Kept
  <2>4. ASSUME work'[p].pc = "finish", work'[p].job = work[p].job, work'[p].answer = work[p].answer
        PROVE  Working(p)'
    <3>1. Committed(p)'
      BY <2>1, <2>2, <2>4 DEF Committed
    <3>2. Kind(p) = "verifier" => AboutShown(p)
      BY <1>1 DEF RInv, Working
    <3> QED
      BY <1>1, <2>3, <2>4, <3>1, <3>2, StillKnows DEF Working
  <2> QED
    BY <1>1, <2>1, <2>3, <2>4, Steps
<1> QED
  BY <1>2, <1>3

LEMMA FinishLinks == ASSUME RInv, NEW p \in Processes, Finish(p) PROVE RInv'
<1>1. UNCHANGED <<imported, rounds, budget>> /\ work[p].pc = "finish"
  BY DEF Finish
<1>2. \/ UNCHANGED jobs
      \/ jobs' = [jobs EXCEPT ![work[p].job].status = "succeeded",
                              ![work[p].job].result = work[p].answer]
  BY DEF Finish
<1>3. Kept /\ DOMAIN jobs' = DOMAIN jobs
  BY <1>1, <1>2 DEF RInv, LoopShapes, Kept
<1>4. CASE Leave(p)
  BY <1>1, <1>3, <1>4, Leaves
<1>5. CASE ~Leave(p)
  <2>1. PICK next : /\ next = IF Kind(p) = "proposer" THEN "review" ELSE "round"
                    /\ Step(p, next)
    BY <1>5 DEF Finish
  <2>2. Kind(p) \in Kinds
    BY <1>1 DEF RInv, Working, LoopShapes, Kind
  <2>3. Committed(p) /\ (Kind(p) = "verifier" => AboutShown(p))
    BY <1>1 DEF RInv, Working
  <2>4. work'[p].pc = next /\ work'[p].job = work[p].job /\ work'[p].answer = work[p].answer
        => Working(p)'
    BY <1>1, <1>3, <2>1, <2>2, <2>3, StillKnows DEF Kinds, Working
  <2> QED
    BY <1>1, <1>3, <2>1, <2>4, Steps
<1> QED
  BY <1>4, <1>5

LEMMA JudgeLinks == ASSUME RInv, NEW p \in Processes, Judge(p) PROVE RInv'
<1>1. UNCHANGED <<jobs, imported, rounds, budget>> /\ work[p].pc = "judge"
  BY DEF Judge, database
<1>2. Kept /\ DOMAIN jobs' = DOMAIN jobs
  BY <1>1, SameKept
<1>3. CASE Step(p, "grant") /\ work[p].answer[2] \in Warrants
  <2>1. Committed(p) /\ Kind(p) = "verifier" /\ Concluded(p)
    BY <1>1 DEF RInv, Working
  <2>2. work'[p].pc = "grant" /\ work'[p].job = work[p].job /\ work'[p].answer = work[p].answer
        => Working(p)'
    BY <1>1, <1>2, <1>3, <2>1, StillKnows DEF Working
  <2> QED
    BY <1>1, <1>2, <1>3, <2>2, Steps
<1>4. CASE \E draft : work' = [work EXCEPT ![p].pc = "stop", ![p].draft = draft]
  BY <1>1, <1>2, <1>4, Stops
<1> QED
  BY <1>3, <1>4 DEF Judge

LEMMA GrantLinks == ASSUME RInv, NEW p \in Processes, Grant(p) PROVE RInv'
<1>1. UNCHANGED <<jobs, imported, rounds>> /\ work[p].pc = "grant"
  BY DEF Grant
<1>2. /\ Committed(p) /\ Kind(p) = "verifier" /\ Concluded(p) /\ work[p].answer[2] \in Warrants
      /\ Round(p) \in Nat
  BY <1>1 DEF RInv, Working, LoopShapes, Round
<1>3. CASE UNCHANGED budget /\ \E draft : work' = [work EXCEPT ![p].pc = "stop", ![p].draft = draft]
  <2>1. Kept /\ DOMAIN jobs' = DOMAIN jobs
    BY <1>1, <1>3, SameKept
  <2> QED
    BY <1>1, <1>3, <2>1, Stops
<1>4. CASE budget' = [budget EXCEPT !.rounds = Max({@, Round(p) + 1})] /\ Step(p, "revise")
  <2>1. budget'.rounds \in Int /\ budget'.rounds >= budget.rounds /\ budget'.rounds >= Round(p) + 1
        /\ DOMAIN budget' = DOMAIN budget
    <3>1. budget.rounds \in Int /\ Round(p) + 1 \in Int /\ "rounds" \in DOMAIN budget
      BY <1>2 DEF RInv, LoopShapes
    <3>2. budget'.rounds = Max({budget.rounds, Round(p) + 1}) /\ DOMAIN budget' = DOMAIN budget
      BY <1>4, <3>1
    <3> QED
      BY <3>1, <3>2, LaterRound
  <2>2. Kept /\ DOMAIN jobs' = DOMAIN jobs
    BY <1>1, <2>1 DEF RInv, LoopShapes, Kept
  <2>3. ASSUME work'[p].pc = "revise", work'[p].job = work[p].job, work'[p].answer = work[p].answer
        PROVE  Working(p)'
    <3>1. Round(p)' + 1 <= budget'.rounds
      BY <1>1, <1>2, <2>1, <2>2, <2>3, StillKnows
    <3> QED
      BY <1>1, <1>2, <2>2, <2>3, <3>1, StillKnows DEF Working
  <2> QED
    BY <1>1, <1>4, <2>2, <2>3, Steps
<1> QED
  BY <1>3, <1>4 DEF Grant

LEMMA FailLinks == ASSUME RInv, NEW p \in Processes, Fail(p) PROVE RInv'
<1>1. UNCHANGED <<imported, rounds, budget>> /\ work[p].pc = "fail"
  BY DEF Fail
<1>2. /\ DOMAIN jobs' = DOMAIN jobs
      /\ \A j \in DOMAIN jobs : /\ jobs'[j].payload = jobs[j].payload
                                /\ DOMAIN jobs'[j] = DOMAIN jobs[j]
  BY DEF Fail, RInv, LoopShapes
<1>3. Kept /\ DOMAIN jobs' = DOMAIN jobs
  BY <1>1, <1>2 DEF RInv, LoopShapes, Kept
<1>4. CASE Leave(p)
  BY <1>1, <1>3, <1>4, Leaves
<1>5. CASE \E draft : work' = [work EXCEPT ![p].pc = "stop", ![p].draft = draft]
  BY <1>1, <1>3, <1>5, Stops
<1> QED
  BY <1>4, <1>5 DEF Fail

LEMMA RecordStopLinks == ASSUME RInv, NEW p \in Processes, RecordStop(p) PROVE RInv'
<1>1. UNCHANGED <<jobs, imported, rounds, budget>> /\ work[p].pc = "stop"
  BY DEF RecordStop
<1>2. Kept /\ DOMAIN jobs' = DOMAIN jobs
  BY <1>1, SameKept
<1>3. CASE Leave(p)
  BY <1>1, <1>2, <1>3, Leaves
<1>4. CASE Step(p, "status")
  <2>1. work'[p].pc = "status" /\ work'[p].job = work[p].job => Working(p)'
    BY <1>1, <1>2, StillKnows DEF Working
  <2> QED
    BY <1>1, <1>2, <1>4, <2>1, Steps
<1> QED
  BY <1>3, <1>4 DEF RecordStop

\* A command, the deadline, a recovery or the end of the run: only statuses change.
LEMMA StatusKept ==
  ASSUME RInv, UNCHANGED <<imported, rounds, budget>>,
         DOMAIN jobs' = DOMAIN jobs,
         \A j \in DOMAIN jobs : /\ jobs'[j].payload = jobs[j].payload
                                /\ DOMAIN jobs'[j] = DOMAIN jobs[j]
  PROVE  Kept
  BY DEF RInv, LoopShapes, Kept

LEMMA AllStill ==
  ASSUME RInv, Kept, DOMAIN jobs' = DOMAIN jobs, rounds' = rounds, UNCHANGED work
  PROVE  RInv'
<1>1. LoopShapes'
  BY DEF RInv, LoopShapes, Kept
<1>2. \A q \in Processes : Working(q)'
  BY OthersWork DEF RInv
<1>3. Shown' /\ RoundsLinked'
  BY TablesStill DEF RInv
<1> QED
  BY <1>1, <1>2, <1>3 DEF RInv

LEMMA SetStatusKeeps ==
  ASSUME RInv, NEW to, NEW key, SetStatus(to, key)
  PROVE  /\ DOMAIN jobs' = DOMAIN jobs
         /\ \A j \in DOMAIN jobs : /\ jobs'[j].payload = jobs[j].payload
                                   /\ DOMAIN jobs'[j] = DOMAIN jobs[j]
  BY DEF SetStatus, Cancelled, RInv, LoopShapes

LEMMA EndRunLinks == ASSUME RInv, NEW p \in Processes, EndRun(p) PROVE RInv'
<1>1. UNCHANGED <<imported, rounds, budget>> /\ Leave(p)
  BY DEF EndRun
<1>2. UNCHANGED jobs \/ \E to : SetStatus(to, to)
  BY DEF EndRun
<1>3. Kept /\ DOMAIN jobs' = DOMAIN jobs
  BY <1>1, <1>2, SetStatusKeeps, StatusKept
<1> QED
  BY <1>1, <1>3, Leaves

LEMMA CommandLinks == ASSUME RInv, Pause \/ Resume \/ Cancel PROVE RInv'
<1>1. UNCHANGED <<imported, rounds, budget, work>>
  BY DEF Pause, Resume, Cancel, Command
<1>2. PICK to, key : SetStatus(to, key)
  BY DEF Pause, Resume, Cancel, Command
<1>3. Kept /\ DOMAIN jobs' = DOMAIN jobs
  BY <1>1, <1>2, SetStatusKeeps, StatusKept
<1> QED
  BY <1>1, <1>3, AllStill

LEMMA ClaimLateLinks == ASSUME RInv, NEW p \in Processes, ClaimLate(p) PROVE RInv'
<1>1. UNCHANGED <<imported, rounds, budget, work>>
  BY DEF ClaimLate
<1>2. /\ DOMAIN jobs' = DOMAIN jobs
      /\ \A j \in DOMAIN jobs : /\ jobs'[j].payload = jobs[j].payload
                                /\ DOMAIN jobs'[j] = DOMAIN jobs[j]
  BY DEF ClaimLate, RInv, LoopShapes
<1> QED
  BY <1>1, <1>2, StatusKept, AllStill

LEMMA RecoverLinks == ASSUME RInv, RecoverJobs PROVE RInv'
<1>1. UNCHANGED <<imported, rounds, budget, work>>
  BY DEF RecoverJobs
<1>2. /\ DOMAIN jobs' = DOMAIN jobs
      /\ \A j \in DOMAIN jobs : /\ jobs'[j].payload = jobs[j].payload
                                /\ DOMAIN jobs'[j] = DOMAIN jobs[j]
  BY DEF RecoverJobs, RInv, LoopShapes
<1> QED
  BY <1>1, <1>2, StatusKept, AllStill

LEMMA DieLinks == ASSUME RInv, NEW p \in Processes, Die(p) PROVE RInv'
<1>1. UNCHANGED <<jobs, imported, rounds, budget>> /\ Leave(p)
  BY DEF Die, database
<1> QED
  BY <1>1, SameKept, Leaves
-----------------------------------------------------------------------------
\* The steps that lengthen the chain: a verifier's job, the record of a round, a revision.
LEMMA EnqueueVerifierLinks == ASSUME RInv, NEW p \in Processes, EnqueueVerifier(p) PROVE RInv'
<1> DEFINE j == <<"verifier", Round(p)>>
           row == Job(work[p].answer)
<1>1. UNCHANGED <<imported, rounds, budget>> /\ work[p].pc = "review" /\ Leave(p)
      /\ (UNCHANGED jobs \/ jobs' = Insert(jobs, j, row))
  BY DEF EnqueueVerifier, Enqueue
<1>2. CASE UNCHANGED jobs
  BY <1>1, <1>2, SameKept, Leaves
<1>3. CASE jobs' = Insert(jobs, j, row)
  <2>1. /\ Committed(p) /\ Kind(p) = "proposer" /\ work[p].job \in DOMAIN jobs
        /\ work[p].job = <<"proposer", Round(p)>> /\ Round(p) \in Nat \ {0}
    BY <1>1 DEF RInv, Working, LoopShapes, Kind, Round
  <2>2. row.payload = work[p].answer
        /\ DOMAIN row = {"status", "attempts", "payload", "result"}
    BY DEF Job
  <2> HIDE DEF row
  <2>3. /\ DOMAIN jobs' = DOMAIN jobs \cup {j}
        /\ \A k \in DOMAIN jobs : jobs'[k] = jobs[k]
        /\ j \notin DOMAIN jobs => jobs'[j] = row
    BY <1>3 DEF Insert
  <2>4. Kept
    BY <1>1, <2>3 DEF RInv, LoopShapes, Kept
  <2>5. LoopShapes'
    <3>1. DOMAIN work' = Processes /\ \A q \in Processes : DOMAIN work'[q] = DOMAIN Idle
      BY <1>1 DEF Leave, RInv, LoopShapes
    <3>2. DOMAIN jobs' \subseteq Kinds \X (Nat \ {0})
      BY <2>1, <2>3 DEF RInv, LoopShapes, Kinds
    <3>3. \A k \in DOMAIN jobs' : DOMAIN jobs'[k] = {"status", "attempts", "payload", "result"}
      BY <2>2, <2>3 DEF RInv, LoopShapes
    <3> QED
      BY <1>1, <3>1, <3>2, <3>3 DEF RInv, LoopShapes
  <2>6. \A q \in Processes : Working(q)'
    <3>1. ASSUME NEW q \in Processes, q # p PROVE Working(q)'
      BY <1>1, <2>4, <3>1, OthersWork DEF Leave, RInv, LoopShapes
    <3>2. Working(p)'
      BY <1>1 DEF Leave, RInv, LoopShapes, Working, Idle
    <3> QED
      BY <3>1, <3>2
  <2>7. Shown'
    BY <1>1, <2>1, <2>2, <2>3 DEF RInv, Shown, Committed
  <2>8. RoundsLinked'
    BY <1>1, <2>1, <2>3 DEF RInv, RoundsLinked
  <2> QED
    BY <2>5, <2>6, <2>7, <2>8 DEF RInv
<1> QED
  BY <1>1, <1>2, <1>3

LEMMA EnqueueRevisionLinks == ASSUME RInv, NEW p \in Processes, EnqueueRevision(p) PROVE RInv'
<1> DEFINE j == <<"proposer", Round(p) + 1>>
           row == Job(work[p].answer)
<1>1. UNCHANGED <<imported, rounds, budget>> /\ work[p].pc = "revise" /\ Leave(p)
      /\ (UNCHANGED jobs \/ jobs' = Insert(jobs, j, row))
  BY DEF EnqueueRevision, Enqueue
<1>2. CASE UNCHANGED jobs
  BY <1>1, <1>2, SameKept, Leaves
<1>3. CASE jobs' = Insert(jobs, j, row)
  <2>1. /\ Concluded(p) /\ work[p].answer[2] \in Warrants /\ Round(p) + 1 <= budget.rounds
        /\ Round(p) \in Nat \ {0}
    BY <1>1 DEF RInv, Working, LoopShapes, Round
  <2>2. DOMAIN row = {"status", "attempts", "payload", "result"}
    BY DEF Job
  <2> HIDE DEF row
  <2>3. /\ DOMAIN jobs' = DOMAIN jobs \cup {j}
        /\ \A k \in DOMAIN jobs : jobs'[k] = jobs[k]
        /\ j \notin DOMAIN jobs => jobs'[j] = row
    BY <1>3 DEF Insert
  <2>4. Kept
    BY <1>1, <2>3 DEF RInv, LoopShapes, Kept
  <2>5. LoopShapes'
    <3>1. DOMAIN work' = Processes /\ \A q \in Processes : DOMAIN work'[q] = DOMAIN Idle
      BY <1>1 DEF Leave, RInv, LoopShapes
    <3>2. DOMAIN jobs' \subseteq Kinds \X (Nat \ {0})
      BY <2>1, <2>3 DEF RInv, LoopShapes, Kinds
    <3>3. \A k \in DOMAIN jobs' : DOMAIN jobs'[k] = {"status", "attempts", "payload", "result"}
      BY <2>2, <2>3 DEF RInv, LoopShapes
    <3> QED
      BY <1>1, <3>1, <3>2, <3>3 DEF RInv, LoopShapes
  <2>6. \A q \in Processes : Working(q)'
    <3>1. ASSUME NEW q \in Processes, q # p PROVE Working(q)'
      BY <1>1, <2>4, <3>1, OthersWork DEF Leave, RInv, LoopShapes
    <3>2. Working(p)'
      BY <1>1 DEF Leave, RInv, LoopShapes, Working, Idle
    <3> QED
      BY <3>1, <3>2
  <2>7. Shown'
    BY <1>1, <2>3 DEF RInv, Shown
  <2>8. RoundsLinked'
    <3>1. j[2] - 1 = Round(p) /\ j[2] = Round(p) + 1
      BY <2>1
    <3>2. \A k \in DOMAIN jobs' : k[2] > 1 =>
             /\ k[2] <= budget.rounds
             /\ k[2] - 1 \in DOMAIN rounds
             /\ rounds[k[2] - 1].finding[2] \in Warrants
      BY <2>1, <2>3, <3>1 DEF RInv, RoundsLinked, Concluded
    <3> QED
      BY <1>1, <3>2 DEF RInv, RoundsLinked
  <2> QED
    BY <2>5, <2>6, <2>7, <2>8 DEF RInv
<1> QED
  BY <1>1, <1>2, <1>3

\* The record of a round: its verifier was shown what is committed, and answered about it.
LEMMA RecordRoundLinks == ASSUME RInv, NEW p \in Processes, RecordRound(p) PROVE RInv'
<1> DEFINE r == Round(p)
           record == [candidate |-> Held(p).payload, finding |-> work[p].answer]
<1>1. UNCHANGED <<jobs, imported, budget>> /\ work[p].pc = "round"
  BY DEF RecordRound
<1>2. CASE Leave(p) /\ UNCHANGED rounds
  BY <1>1, <1>2, SameKept, Leaves
<1>3. CASE ~(Leave(p) /\ UNCHANGED rounds)
  <2>1. /\ r \in DOMAIN rounds => rounds[r] = record
        /\ rounds' = Insert(rounds, r, record)
        /\ Step(p, "judge")
    BY <1>3 DEF RecordRound
  <2>2. /\ Committed(p) /\ AboutShown(p) /\ Kind(p) = "verifier" /\ work[p].job \in DOMAIN jobs
        /\ work[p].job = <<"verifier", r>>
    BY <1>1 DEF RInv, Working, LoopShapes, Kind, Round
  <2>3. record.candidate = Held(p).payload /\ record.finding = work[p].answer
    OBVIOUS
  <2> HIDE DEF record
  <2>4. /\ DOMAIN rounds' = DOMAIN rounds \cup {r}
        /\ \A k \in DOMAIN rounds : rounds'[k] = rounds[k]
        /\ rounds'[r] = record
    BY <2>1 DEF Insert
  <2>5. Kept
    BY <1>1, <2>4 DEF RInv, LoopShapes, Kept
  <2>6. /\ work'[p].pc = "judge" /\ work'[p].job = work[p].job /\ work'[p].answer = work[p].answer
        /\ DOMAIN work' = Processes /\ \A q \in Processes : DOMAIN work'[q] = DOMAIN Idle
        /\ \A q \in Processes : q # p => work'[q] = work[q]
    BY <2>1 DEF Step, RInv, LoopShapes, Idle
  <2>7. LoopShapes'
    BY <1>1, <2>6 DEF RInv, LoopShapes
  <2>8. \A q \in Processes : Working(q)'
    <3>1. ASSUME NEW q \in Processes, q # p PROVE Working(q)'
      BY <2>5, <2>6, <3>1, OthersWork DEF RInv
    <3>2. Working(p)'
      <4>1. Concluded(p)'
        BY <2>3, <2>4, <2>6 DEF Concluded, Round
      <4> QED
        BY <1>1, <2>2, <2>5, <2>6, <4>1, StillKnows DEF Working
    <3> QED
      BY <3>1, <3>2
  <2>9. Shown'
    BY <1>1 DEF RInv, Shown
  <2>10. RoundsLinked'
    <3>1. /\ {<<"proposer", r>>, <<"verifier", r>>} \subseteq DOMAIN imported
          /\ imported[<<"proposer", r>>].artifact = record.candidate
          /\ imported[<<"verifier", r>>].artifact = record.finding
          /\ record.finding[1] = record.candidate[1]
      BY <2>2, <2>3 DEF Committed, AboutShown, Held, RInv, Shown
    <3> QED
      BY <1>1, <2>4, <3>1 DEF RInv, RoundsLinked
  <2> QED
    BY <2>7, <2>8, <2>9, <2>10 DEF RInv
<1> QED
  BY <1>2, <1>3
-----------------------------------------------------------------------------
LEMMA InitLinks == LoopInit => RInv
<1> SUFFICES ASSUME LoopInit PROVE RInv
  OBVIOUS
<1>1. /\ DOMAIN jobs = {<<"proposer", 1>>}
      /\ DOMAIN jobs[<<"proposer", 1>>] = {"status", "attempts", "payload", "result"}
      /\ DOMAIN rounds = {}
  BY DEF LoopInit, Job
<1>2. DOMAIN budget = {"calls", "tokens", "rounds"} /\ budget.rounds \in Int
  BY DEF LoopInit
<1>3. DOMAIN work = Processes /\ \A p \in Processes : work[p] = Idle
  BY DEF LoopInit
<1>4. LoopShapes
  BY <1>1, <1>2, <1>3 DEF LoopShapes, Kinds
<1>5. \A p \in Processes : Working(p)
  BY <1>3 DEF Working, Idle
<1>6. Shown /\ RoundsLinked
  BY <1>1 DEF Shown, RoundsLinked
<1> QED
  BY <1>4, <1>5, <1>6 DEF RInv

LEMMA StepLinks == RInv /\ [LoopNext]_loopVars => RInv'
<1> SUFFICES ASSUME RInv, [LoopNext]_loopVars PROVE RInv'
  OBVIOUS
<1>1. ASSUME NEW p \in Processes,
             \/ Claim(p) \/ ClaimLate(p) \/ Manifest(p) \/ Reserve(p) \/ Answer(p)
             \/ RecordUsage(p) \/ RecordCall(p) \/ Commit(p) \/ Finish(p)
      PROVE  RInv'
  BY <1>1, ClaimLinks, ClaimLateLinks, ManifestLinks, ReserveLinks, AnswerLinks,
     RecordUsageLinks, RecordCallLinks, CommitLinks, FinishLinks
<1>2. ASSUME NEW p \in Processes,
             \/ EnqueueVerifier(p) \/ RecordRound(p) \/ Judge(p) \/ Grant(p)
             \/ EnqueueRevision(p) \/ Fail(p) \/ RecordStop(p) \/ EndRun(p) \/ Die(p)
      PROVE  RInv'
  BY <1>2, EnqueueVerifierLinks, RecordRoundLinks, JudgeLinks, GrantLinks,
     EnqueueRevisionLinks, FailLinks, RecordStopLinks, EndRunLinks, DieLinks
<1>3. CASE Pause \/ Resume \/ Cancel
  BY <1>3, CommandLinks
<1>4. CASE Deadline \/ UNCHANGED loopVars
  <2>1. UNCHANGED <<jobs, imported, rounds, budget, work>>
    BY <1>4 DEF Deadline, loopVars, database
  <2> QED
    BY <2>1, SameKept, AllStill
<1>5. CASE RecoverJobs
  BY <1>5, RecoverLinks
<1> QED
  BY <1>1, <1>2, <1>3, <1>4, <1>5 DEF LoopNext

(***************************************************************************)
(* Whoever raced, died or was resumed in between, the record of a round    *)
(* names the candidate that was committed and shown to its verifier, and a *)
(* later round was warranted by the one before it and granted by the       *)
(* budget (baseline_loop.py, _conclude_round; sqlite_workspace.py,         *)
(* record_refinement_round, reserve_refinement_round).                     *)
(***************************************************************************)
THEOREM RoundsAreLinked == LoopSpec => []RoundsLinked
<1>1. RInv => RoundsLinked
  BY DEF RInv
<1> QED
  BY InitLinks, StepLinks, <1>1, PTL DEF LoopSpec
-----------------------------------------------------------------------------
(***************************************************************************)
(* The single token.  As long as nobody died, no lease or deadline lapsed  *)
(* and the run was never paused, exactly one job is in play: it waits, or  *)
(* one process holds it, and every write that process still has to make    *)
(* finds its row missing, so no branch that gives up is taken.             *)
(***************************************************************************)
Calm == faults = 0 /\ "paused" \notin DOMAIN statusLog

\* No table has a row that the tables before it do not account for.
RowsBacked ==
  /\ faults \in Nat /\ (late => faults > 0)
  /\ run = "paused" => "paused" \in DOMAIN statusLog
  /\ DOMAIN proposals \subseteq DOMAIN imported /\ DOMAIN imported \subseteq DOMAIN jobs
  /\ \A r \in DOMAIN manifests \cup DOMAIN rounds : <<"verifier", r>> \in DOMAIN jobs

\* The order of the chain: a round's proposer, its verifier, the next round's proposer.
Before(k, j) == k[2] < j[2] \/ (k[2] = j[2] /\ k[1] = "proposer" /\ j[1] = "verifier")

LastJob(j) ==
  /\ j \in DOMAIN jobs
  /\ \A k \in DOMAIN jobs : k # j => Before(k, j) /\ jobs[k].status \notin Runnable

JobWaiting ==
  /\ stopped = {} /\ \A p \in Processes : work[p].pc = "idle"
  /\ \E j \in DOMAIN jobs :
       /\ jobs[j].status \in Runnable /\ LastJob(j)
       /\ j \notin DOMAIN imported /\ j[2] \notin DOMAIN manifests \cup DOMAIN rounds

Alone(p) ==
  /\ \A q \in Processes : q # p => work[q].pc = "idle"
  /\ LastJob(work[p].job)

ToCommit == {"manifest", "reserve", "answer", "usage", "call", "commit"}
Ending == {"stop", "status"}

Doing(p) ==
  /\ work[p].pc \in ToCommit \cup {"finish", "review", "round", "judge", "grant", "revise", "fail"}
                      \cup Ending
  /\ Held(p).status \notin Runnable
  /\ work[p].pc \in ToCommit => work[p].job \notin DOMAIN imported
  /\ work[p].pc \in ToCommit \cup {"finish", "fail"} => Held(p).status = "running"
  /\ work[p].pc = "manifest" => Round(p) \notin DOMAIN manifests
  /\ work[p].pc \in ToCommit \cup {"finish", "round"} => Round(p) \notin DOMAIN rounds
  /\ work[p].pc = "fail" => work[p].answer \in Failures
  /\ work[p].pc \in Ending => work[p].draft # {} /\ \A d \in work[p].draft : d.status \in Terminal
  /\ work[p].pc # "status" => stopped = {}

Orderly ==
  /\ DOMAIN statusLog \subseteq {"resumed"}
  /\ JobWaiting \/ \E p \in Processes : Alone(p) /\ Doing(p)

OrderInv == RInv /\ RowsBacked /\ (Calm /\ run = "running" => Orderly)
-----------------------------------------------------------------------------
LEMMA BackedTables ==
  ASSUME RowsBacked, DOMAIN jobs \subseteq DOMAIN jobs',
         UNCHANGED <<run, proposals, imported, manifests, rounds, statusLog, late, faults>>
  PROVE  RowsBacked'
  BY DEF RowsBacked

LEMMA BackedProcess ==
  ASSUME RInv, RowsBacked, NEW p \in Processes,
         \/ Claim(p) \/ ClaimLate(p) \/ Manifest(p) \/ Reserve(p) \/ Answer(p)
         \/ RecordUsage(p) \/ RecordCall(p) \/ Commit(p) \/ Finish(p) \/ EnqueueVerifier(p)
         \/ RecordRound(p) \/ Judge(p) \/ Grant(p) \/ EnqueueRevision(p)
         \/ Fail(p) \/ RecordStop(p)
  PROVE  RowsBacked'
<1>1. CASE \/ Claim(p) \/ Reserve(p) \/ Answer(p) \/ RecordUsage(p) \/ RecordCall(p)
           \/ Finish(p) \/ Judge(p) \/ Grant(p) \/ Fail(p) \/ RecordStop(p)
  <2>1. DOMAIN jobs \subseteq DOMAIN jobs'
    BY <1>1 DEF Claim, Reserve, Answer, RecordUsage, RecordCall, Finish, Judge, Grant, Fail,
       RecordStop, database
  <2>2. UNCHANGED <<run, proposals, imported, manifests, rounds, statusLog, late, faults>>
    BY <1>1 DEF Claim, Reserve, Answer, RecordUsage, RecordCall, Finish, Judge, Grant, Fail,
       RecordStop, database
  <2> QED
    BY <2>1, <2>2, BackedTables
<1>2. CASE ClaimLate(p)
  BY <1>2, BackedTables DEF ClaimLate
<1>3. CASE EnqueueVerifier(p) \/ EnqueueRevision(p)
  BY <1>3, BackedTables DEF EnqueueVerifier, EnqueueRevision, Enqueue, Insert
<1>4. CASE Manifest(p)
  <2>1. /\ UNCHANGED <<run, proposals, imported, rounds, statusLog, late, faults, jobs>>
        /\ DOMAIN manifests' \subseteq DOMAIN manifests \cup {Round(p)}
    BY <1>4 DEF Manifest, Insert
  <2>2. <<"verifier", Round(p)>> \in DOMAIN jobs
    BY <1>4 DEF Manifest, RInv, Working, LoopShapes, Kind, Round
  <2> QED
    BY <2>1, <2>2 DEF RowsBacked
<1>5. CASE RecordRound(p)
  <2>1. /\ UNCHANGED <<run, proposals, imported, manifests, statusLog, late, faults, jobs>>
        /\ DOMAIN rounds' \subseteq DOMAIN rounds \cup {Round(p)}
    BY <1>5 DEF RecordRound, Insert
  <2>2. <<"verifier", Round(p)>> \in DOMAIN jobs
    BY <1>5 DEF RecordRound, RInv, Working, LoopShapes, Kind, Round
  <2> QED
    BY <2>1, <2>2 DEF RowsBacked
<1>6. CASE Commit(p)
  <2>1. UNCHANGED <<run, manifests, rounds, statusLog, late, faults, jobs>>
    BY <1>6 DEF Commit
  <2>2. work[p].job \in DOMAIN jobs
    BY <1>6 DEF Commit, RInv, Working
  <2>3. CASE UNCHANGED <<proposals, imported>>
    BY <2>1, <2>3 DEF RowsBacked
  <2>4. CASE ~UNCHANGED <<proposals, imported>>
    <3>1. PICK row \in Rows(p) :
            /\ DOMAIN proposals' = DOMAIN proposals \cup {row}
            /\ DOMAIN imported' = DOMAIN imported \cup {work[p].job}
      BY <1>6, <2>4 DEF Commit, Insert
    <3>2. row = work[p].job \/ row \in DOMAIN proposals
      BY <3>1 DEF Rows
    <3> QED
      BY <2>1, <2>2, <3>1, <3>2 DEF RowsBacked
  <2> QED
    BY <2>3, <2>4
<1> QED
  BY <1>1, <1>2, <1>3, <1>4, <1>5, <1>6

LEMMA BackedStatus ==
  ASSUME RowsBacked, NEW to, NEW key, SetStatus(to, key), to = "paused" => key = "paused",
         UNCHANGED <<proposals, imported, manifests, rounds, late, faults>>
  PROVE  RowsBacked'
<1>1. DOMAIN jobs' = DOMAIN jobs /\ DOMAIN statusLog' = DOMAIN statusLog \cup {key} /\ run' = to
  BY DEF SetStatus, Cancelled, Insert
<1> QED
  BY <1>1 DEF RowsBacked

LEMMA BackedStep == ASSUME RInv, RowsBacked, [LoopNext]_loopVars PROVE RowsBacked'
<1>1. ASSUME NEW p \in Processes, EndRun(p) PROVE RowsBacked'
  <2>1. /\ UNCHANGED <<proposals, imported, manifests, rounds, late, faults>>
        /\ UNCHANGED <<run, jobs, statusLog>> \/ \E to : SetStatus(to, to)
    BY <1>1 DEF EndRun
  <2> QED
    BY <2>1, BackedTables, BackedStatus
<1>2. CASE Pause \/ Resume \/ Cancel
  BY <1>2, BackedStatus DEF Pause, Resume, Cancel, Command
<1>3. ASSUME NEW p \in Processes, Die(p) PROVE RowsBacked'
  BY <1>3 DEF Die, RowsBacked, database
<1>4. CASE Deadline
  BY <1>4 DEF Deadline, RowsBacked, database
<1>5. CASE RecoverJobs
  BY <1>5 DEF RecoverJobs, RowsBacked
<1>6. CASE UNCHANGED loopVars
  BY <1>6, BackedTables DEF loopVars, database
<1> QED
  BY <1>1, <1>2, <1>3, <1>4, <1>5, <1>6, BackedProcess DEF LoopNext
-----------------------------------------------------------------------------
\* A calm running run was calm and running before.
LEMMA CalmBefore ==
  ASSUME RowsBacked, [LoopNext]_loopVars, Calm', run' = "running"
  PROVE  Calm /\ run = "running"
<1>1. /\ faults' = faults \/ faults' = faults + 1
      /\ UNCHANGED <<run, statusLog>> \/ \E to, key : MaySet(to, key) /\ SetStatus(to, key)
  <2>1. ASSUME NEW p \in Processes,
               \/ Claim(p) \/ ClaimLate(p) \/ Manifest(p) \/ Reserve(p) \/ Answer(p)
               \/ RecordUsage(p) \/ RecordCall(p) \/ Commit(p) \/ Finish(p) \/ EnqueueVerifier(p)
               \/ RecordRound(p) \/ Judge(p) \/ Grant(p) \/ EnqueueRevision(p)
               \/ Fail(p) \/ RecordStop(p)
        PROVE  UNCHANGED <<faults, run, statusLog>>
    BY <2>1 DEF Claim, ClaimLate, Manifest, Reserve, Answer, RecordUsage, RecordCall, Commit,
       Finish, EnqueueVerifier, RecordRound, Judge, Grant, EnqueueRevision, Fail, RecordStop,
       database
  <2>2. ASSUME NEW p \in Processes, EndRun(p) PROVE <1>1
    BY <2>2 DEF EndRun
  <2>3. CASE Pause \/ Resume \/ Cancel
    BY <2>3 DEF Pause, Resume, Cancel, Command
  <2>4. ASSUME NEW p \in Processes, Die(p) PROVE <1>1
    BY <2>4 DEF Die, database
  <2>5. CASE Deadline \/ RecoverJobs \/ UNCHANGED loopVars
    BY <2>5 DEF Deadline, RecoverJobs, loopVars, database
  <2> QED
    BY <2>1, <2>2, <2>3, <2>4, <2>5 DEF LoopNext
<1>2. faults = 0
  BY <1>1 DEF Calm, RowsBacked
<1>3. CASE UNCHANGED <<run, statusLog>>
  BY <1>2, <1>3 DEF Calm
<1>4. ASSUME NEW to, NEW key, MaySet(to, key), SetStatus(to, key) PROVE Calm /\ run = "running"
  <2>1. DOMAIN statusLog \subseteq DOMAIN statusLog' /\ to = "running"
    BY <1>4 DEF SetStatus, Insert
  <2>2. run = "running" \/ run = "paused"
    BY <1>4, <2>1 DEF MaySet, Allowed, Terminal
  <2> QED
    BY <1>2, <2>1, <2>2 DEF Calm, RowsBacked
<1> QED
  BY <1>1, <1>3, <1>4

LEMMA OneHolds ==
  ASSUME Orderly, NEW p \in Processes, work[p].pc # "idle"
  PROVE  Alone(p) /\ Doing(p) /\ DOMAIN statusLog \subseteq {"resumed"}
  BY DEF Orderly, JobWaiting, Alone

\* The process that holds the job goes on with it.
LEMMA GoesOn ==
  ASSUME RInv, NEW p \in Processes, Alone(p), DOMAIN statusLog \subseteq {"resumed"},
         UNCHANGED statusLog, DOMAIN jobs' = DOMAIN jobs,
         \A k \in DOMAIN jobs : k # work[p].job => jobs'[k] = jobs[k],
         NEW w, work' = [work EXCEPT ![p] = w], w.job = work[p].job,
         work'[p] = w => Doing(p)'
  PROVE  Orderly'
<1>1. work'[p] = w /\ \A q \in Processes : q # p => work'[q] = work[q]
  BY DEF RInv, LoopShapes
<1>2. Alone(p)'
  BY <1>1 DEF Alone, LastJob
<1> QED
  BY <1>1, <1>2 DEF Orderly

LEMMA StepsOn ==
  ASSUME RInv, NEW p \in Processes, Orderly, work[p].pc # "idle", UNCHANGED statusLog,
         DOMAIN jobs' = DOMAIN jobs,
         \A k \in DOMAIN jobs : k # work[p].job => jobs'[k] = jobs[k],
         NEW pc, Step(p, pc),
         LET w == work'[p] IN
           /\ w.pc = pc /\ w.job = work[p].job /\ w.answer = work[p].answer /\ w.draft = work[p].draft
           => Doing(p)'
  PROVE  Orderly'
<1> DEFINE w == [work[p] EXCEPT !.pc = pc]
<1>1. /\ w.pc = pc /\ w.job = work[p].job /\ w.answer = work[p].answer /\ w.draft = work[p].draft
      /\ work' = [work EXCEPT ![p] = w]
  BY DEF RInv, LoopShapes, Idle, Step
<1> HIDE DEF w
<1>2. work'[p] = w => Doing(p)'
  BY <1>1
<1> QED
  BY <1>1, <1>2, OneHolds, GoesOn

\* What Doing says when the job and the tables it is about are as before.
LEMMA SameJob ==
  ASSUME NEW p \in Processes, work'[p].job = work[p].job
  PROVE  /\ Kind(p)' = Kind(p) /\ Round(p)' = Round(p)
         /\ (UNCHANGED jobs => Held(p)' = Held(p))
  BY DEF Kind, Round, Held
-----------------------------------------------------------------------------
LEMMA ClaimOrderly ==
  ASSUME RInv, Orderly, NEW p \in Processes, Claim(p)
  PROVE  Orderly'
<1>1. PICK j \in DOMAIN jobs :
        /\ jobs[j].status \in Runnable
        /\ jobs' = [jobs EXCEPT ![j].status = "running", ![j].attempts = @ + 1]
        /\ work' = [work EXCEPT ![p] = [Idle EXCEPT !.job = j,
                      !.pc = IF j[1] = "verifier" THEN "manifest" ELSE "reserve"]]
  BY DEF Claim
<1>2. UNCHANGED <<imported, manifests, rounds, stopped, statusLog>>
  BY DEF Claim
<1>3. JobWaiting
  BY <1>1 DEF Orderly, Alone, LastJob, Doing, Held
<1>4. /\ LastJob(j) /\ j \notin DOMAIN imported /\ j[2] \notin DOMAIN manifests \cup DOMAIN rounds
      /\ stopped = {} /\ \A q \in Processes : work[q].pc = "idle"
  BY <1>1, <1>3 DEF JobWaiting, LastJob
<1>5. /\ DOMAIN jobs' = DOMAIN jobs /\ jobs'[j].status = "running"
      /\ \A k \in DOMAIN jobs : k # j => jobs'[k] = jobs[k]
  BY <1>1 DEF RInv, LoopShapes
<1> DEFINE w == [Idle EXCEPT !.job = j, !.pc = IF j[1] = "verifier" THEN "manifest" ELSE "reserve"]
<1>6. w.job = j /\ w.pc = IF j[1] = "verifier" THEN "manifest" ELSE "reserve"
  BY DEF Idle
<1> HIDE DEF w
<1>7. work'[p] = w /\ \A q \in Processes : q # p => work'[q] = work[q]
  BY <1>1 DEF RInv, LoopShapes, w
<1>8. Alone(p)'
  BY <1>4, <1>5, <1>6, <1>7 DEF Alone, LastJob
<1>9. Doing(p)'
  <2>1. Held(p)'.status = "running" /\ Round(p)' = j[2] /\ work'[p].job = j
    BY <1>5, <1>6, <1>7 DEF Held, Round
  <2>2. work'[p].pc \in {"manifest", "reserve"}
    BY <1>6, <1>7
  <2> QED
    BY <1>2, <1>4, <2>1, <2>2 DEF Doing, ToCommit, Ending, Runnable
<1> QED
  BY <1>2, <1>8, <1>9 DEF Orderly

LEMMA CallOrderly ==
  ASSUME RInv, Orderly, NEW p \in Processes,
         Manifest(p) \/ Reserve(p) \/ Answer(p) \/ RecordUsage(p) \/ RecordCall(p)
  PROVE  Orderly'
<1>0. UNCHANGED <<jobs, imported, rounds, stopped, statusLog>>
  BY DEF Manifest, Reserve, Answer, RecordUsage, RecordCall, database
<1>1. CASE Manifest(p)
  <2>1. work[p].pc = "manifest" /\ Doing(p)
    BY <1>1, OneHolds DEF Manifest
  <2>2. Step(p, "reserve")
    BY <1>1, <2>1 DEF Manifest, Doing
  <2>3. work'[p].pc = "reserve" /\ work'[p].job = work[p].job => Doing(p)'
    BY <1>0, <2>1, SameJob DEF Doing, ToCommit, Ending
  <2> QED
    BY <1>0, <2>1, <2>2, <2>3, StepsOn
<1>2. CASE Reserve(p)
  <2>1. work[p].pc = "reserve" /\ Doing(p) /\ Alone(p) /\ DOMAIN statusLog \subseteq {"resumed"}
    BY <1>2, OneHolds DEF Reserve
  <2>2. CASE work' = [work EXCEPT ![p].pc = "fail", ![p].answer = <<"none", "failed">>]
    <3> DEFINE w == [work[p] EXCEPT !.pc = "fail", !.answer = <<"none", "failed">>]
    <3>1. /\ w.pc = "fail" /\ w.job = work[p].job /\ w.answer = <<"none", "failed">>
          /\ work' = [work EXCEPT ![p] = w]
      BY <2>2 DEF RInv, LoopShapes, Idle
    <3> HIDE DEF w
    <3>2. work'[p] = w => Doing(p)'
      BY <1>0, <2>1, <3>1, SameJob DEF Doing, ToCommit, Ending, Failures
    <3> QED
      BY <1>0, <2>1, <3>1, <3>2, GoesOn
  <2>3. CASE work' = [work EXCEPT ![p].pc = "answer", ![p].try = Held(p).attempts]
    <3> DEFINE w == [work[p] EXCEPT !.pc = "answer", !.try = Held(p).attempts]
    <3>1. w.pc = "answer" /\ w.job = work[p].job /\ work' = [work EXCEPT ![p] = w]
      BY <2>3 DEF RInv, LoopShapes, Idle
    <3> HIDE DEF w
    <3>2. work'[p] = w => Doing(p)'
      BY <1>0, <2>1, <3>1, SameJob DEF Doing, ToCommit, Ending
    <3> QED
      BY <1>0, <2>1, <3>1, <3>2, GoesOn
  <2> QED
    BY <1>2, <2>2, <2>3 DEF Reserve
<1>3. CASE Answer(p)
  <2>1. work[p].pc = "answer" /\ Doing(p) /\ Alone(p) /\ DOMAIN statusLog \subseteq {"resumed"}
    BY <1>3, OneHolds DEF Answer
  <2>2. PICK a \in Answers(p) \cup Failures, u \in Usage :
          work' = [work EXCEPT ![p].pc = "usage", ![p].answer = a, ![p].tokens = u]
    BY <1>3 DEF Answer
  <2> DEFINE w == [work[p] EXCEPT !.pc = "usage", !.answer = a, !.tokens = u]
  <2>3. w.pc = "usage" /\ w.job = work[p].job /\ work' = [work EXCEPT ![p] = w]
    BY <2>2 DEF RInv, LoopShapes, Idle
  <2> HIDE DEF w
  <2>4. work'[p] = w => Doing(p)'
    BY <1>0, <2>1, <2>3, SameJob DEF Doing, ToCommit, Ending
  <2> QED
    BY <1>0, <2>1, <2>3, <2>4, GoesOn
<1>4. CASE RecordUsage(p)
  <2>1. work[p].pc = "usage" /\ Doing(p) /\ Step(p, "call")
    BY <1>4, OneHolds DEF RecordUsage
  <2>2. work'[p].pc = "call" /\ work'[p].job = work[p].job => Doing(p)'
    BY <1>0, <2>1, SameJob DEF Doing, ToCommit, Ending
  <2> QED
    BY <1>0, <2>1, <2>2, StepsOn
<1>5. CASE RecordCall(p)
  <2>1. work[p].pc = "call" /\ Doing(p)
    BY <1>5, OneHolds DEF RecordCall
  <2>2. PICK pc : /\ pc = IF work[p].answer \in Failures THEN "fail" ELSE "commit"
                  /\ Step(p, pc)
    BY <1>5 DEF RecordCall
  <2>3. work'[p].pc = pc /\ work'[p].job = work[p].job /\ work'[p].answer = work[p].answer
        => Doing(p)'
    BY <1>0, <2>1, <2>2, SameJob DEF Doing, ToCommit, Ending, Failures
  <2> QED
    BY <1>0, <2>1, <2>2, <2>3, StepsOn
<1> QED
  BY <1>1, <1>2, <1>3, <1>4, <1>5

\* No commit of a calm run is refused: nothing is late, and no row is in its place.
LEMMA CommitOrderly ==
  ASSUME RInv, RowsBacked, Calm, run = "running", Orderly, NEW p \in Processes, Commit(p)
  PROVE  Orderly'
<1>1. work[p].pc = "commit" /\ Doing(p)
  BY OneHolds DEF Commit
<1>2. UNCHANGED <<jobs, rounds, stopped, statusLog>>
  BY DEF Commit
<1>3. ~Inactive(p) /\ work[p].job \notin DOMAIN imported
  BY <1>1 DEF Inactive, Doing, ToCommit, Calm, RowsBacked
<1>4. Rows(p) # {}
  BY <1>3 DEF Rows, RowsBacked
<1>5. Step(p, "finish")
  BY <1>3, <1>4 DEF Commit, Imports
<1>6. work'[p].pc = "finish" /\ work'[p].job = work[p].job => Doing(p)'
  BY <1>1, <1>2, SameJob DEF Doing, ToCommit, Ending
<1> QED
  BY <1>1, <1>2, <1>5, <1>6, StepsOn

LEMMA FinishOrderly ==
  ASSUME RInv, RowsBacked, Calm, run = "running", Orderly, NEW p \in Processes, Finish(p)
  PROVE  Orderly'
<1>1. work[p].pc = "finish" /\ Doing(p) /\ work[p].job \in DOMAIN jobs
  BY OneHolds DEF Finish, RInv, Working
<1>2. UNCHANGED <<rounds, stopped, statusLog>>
  BY DEF Finish
<1>3. ~Inactive(p) /\ Held(p).status = "running"
  BY <1>1 DEF Inactive, Doing, Calm, RowsBacked
<1>4. jobs' = [jobs EXCEPT ![work[p].job].status = "succeeded",
                           ![work[p].job].result = work[p].answer]
  BY <1>3 DEF Finish
<1>5. /\ DOMAIN jobs' = DOMAIN jobs
      /\ \A k \in DOMAIN jobs : k # work[p].job => jobs'[k] = jobs[k]
      /\ jobs'[work[p].job].status = "succeeded"
  BY <1>1, <1>4 DEF RInv, LoopShapes
<1>6. PICK next : /\ next = IF Kind(p) = "proposer" THEN "review" ELSE "round"
                  /\ Step(p, next)
  BY <1>3 DEF Finish
<1>7. work'[p].pc = next /\ work'[p].job = work[p].job => Doing(p)'
  BY <1>1, <1>2, <1>5, <1>6, SameJob DEF Doing, Held, ToCommit, Ending, Runnable
<1> QED
  BY <1>1, <1>2, <1>5, <1>6, <1>7, StepsOn

LEMMA RecordRoundOrderly ==
  ASSUME RInv, Orderly, NEW p \in Processes, RecordRound(p)
  PROVE  Orderly'
<1>1. work[p].pc = "round" /\ Doing(p)
  BY OneHolds DEF RecordRound
<1>2. UNCHANGED <<jobs, imported, stopped, statusLog>>
  BY DEF RecordRound
<1>3. Step(p, "judge")
  BY <1>1 DEF RecordRound, Doing
<1>4. work'[p].pc = "judge" /\ work'[p].job = work[p].job => Doing(p)'
  BY <1>1, <1>2, SameJob DEF Doing, ToCommit, Ending
<1> QED
  BY <1>1, <1>2, <1>3, <1>4, StepsOn

\* A stop record in hand names a terminal status.
LEMMA StopsOrderly ==
  ASSUME RInv, Orderly, NEW p \in Processes, work[p].pc \in {"judge", "grant", "fail"},
         DOMAIN jobs' = DOMAIN jobs,
         \A k \in DOMAIN jobs : k # work[p].job => jobs'[k] = jobs[k],
         jobs'[work[p].job].status \notin Runnable,
         UNCHANGED <<stopped, statusLog>>,
         NEW status \in Terminal, NEW reason, NEW binding, NEW r,
         work' = [work EXCEPT ![p].pc = "stop",
                              ![p].draft = StopRecord(status, reason, binding, r)]
  PROVE  Orderly'
<1> DEFINE draft == StopRecord(status, reason, binding, r)
           w == [work[p] EXCEPT !.pc = "stop", !.draft = draft]
<1>1. draft # {} /\ \A d \in draft : d.status \in Terminal
  BY DEF StopRecord
<1>2. w.pc = "stop" /\ w.job = work[p].job /\ w.draft = draft /\ work' = [work EXCEPT ![p] = w]
  BY DEF RInv, LoopShapes, Idle
<1>3. Alone(p) /\ Doing(p) /\ DOMAIN statusLog \subseteq {"resumed"}
  BY OneHolds
<1> HIDE DEF w, draft
<1>4. work'[p] = w => Doing(p)'
  BY <1>1, <1>2, <1>3 DEF Doing, Held, ToCommit, Ending
<1> QED
  BY <1>2, <1>3, <1>4, GoesOn

LEMMA JudgeOrderly ==
  ASSUME RInv, Orderly, NEW p \in Processes, Judge(p) \/ Grant(p)
  PROVE  Orderly'
<1>1. /\ work[p].pc \in {"judge", "grant"} /\ Doing(p)
      /\ UNCHANGED <<jobs, imported, rounds, stopped, statusLog>>
  BY OneHolds DEF Judge, Grant, database
<1>2. ASSUME NEW pc \in {"grant", "revise"}, Step(p, pc) PROVE Orderly'
  <2>1. work'[p].pc = pc /\ work'[p].job = work[p].job => Doing(p)'
    BY <1>1, <1>2, SameJob DEF Doing, ToCommit, Ending
  <2> QED
    BY <1>1, <1>2, <2>1, StepsOn
<1>3. ASSUME NEW status \in Terminal, NEW reason, NEW binding,
             work' = [work EXCEPT ![p].pc = "stop",
                                  ![p].draft = StopRecord(status, reason, binding, Round(p))]
      PROVE  Orderly'
  BY <1>1, <1>3, StopsOrderly DEF Doing, Held
<1>4. CASE Judge(p)
  BY <1>2, <1>3, <1>4 DEF Judge, Terminal
<1>5. CASE Grant(p)
  BY <1>2, <1>3, <1>5 DEF Grant, Terminal
<1> QED
  BY <1>4, <1>5

LEMMA FailOrderly ==
  ASSUME RInv, Orderly, NEW p \in Processes, Fail(p)
  PROVE  Orderly'
<1>1. work[p].pc = "fail" /\ Doing(p) /\ work[p].job \in DOMAIN jobs
  BY OneHolds DEF Fail, RInv, Working
<1>2. Held(p).status = "running" /\ work[p].answer[2] \in {"failed", "timed_out"}
  BY <1>1 DEF Doing, Failures
<1>3. jobs' = [jobs EXCEPT ![work[p].job].status = work[p].answer[2],
                           ![work[p].job].result = work[p].answer]
  BY <1>2 DEF Fail
<1>4. /\ DOMAIN jobs' = DOMAIN jobs
      /\ \A k \in DOMAIN jobs : k # work[p].job => jobs'[k] = jobs[k]
      /\ jobs'[work[p].job].status \notin Runnable
  BY <1>1, <1>2, <1>3 DEF RInv, LoopShapes, Runnable
<1>5. /\ UNCHANGED <<stopped, statusLog>>
      /\ work' = [work EXCEPT ![p].pc = "stop", ![p].draft =
                    StopRecord("unresolved", "non_success", Exhausted, Round(p))]
  BY <1>2 DEF Fail
<1> QED
  BY <1>1, <1>4, <1>5, StopsOrderly DEF Terminal

LEMMA RecordStopOrderly ==
  ASSUME RInv, Orderly, NEW p \in Processes, RecordStop(p)
  PROVE  Orderly'
<1>1. work[p].pc = "stop" /\ Doing(p)
  BY OneHolds DEF RecordStop
<1>2. UNCHANGED <<jobs, imported, rounds, statusLog>>
  BY DEF RecordStop
<1>3. Step(p, "status")
  BY <1>1 DEF RecordStop, Doing
<1>4. work'[p].pc = "status" /\ work'[p].job = work[p].job /\ work'[p].draft = work[p].draft
      => Doing(p)'
  BY <1>1, <1>2, SameJob DEF Doing, ToCommit, Ending
<1> QED
  BY <1>1, <1>2, <1>3, <1>4, StepsOn

\* The end of a calm run is accepted: no status was set before under its key.
LEMMA EndRunOrderly ==
  ASSUME RInv, run = "running", Orderly, NEW p \in Processes, EndRun(p)
  PROVE  run' # "running"
<1>1. Doing(p) /\ work[p].pc = "status" /\ DOMAIN statusLog \subseteq {"resumed"}
  BY OneHolds DEF EndRun
<1>2. PICK to \in Terminal : to = (CHOOSE d \in work[p].draft : TRUE).status
  BY <1>1 DEF Doing, Ending
<1>3. MaySet(to, to)
  BY <1>1 DEF MaySet, Allowed, Terminal
<1> QED
  BY <1>2, <1>3 DEF EndRun, SetStatus, Terminal
-----------------------------------------------------------------------------
\* The token passes to the next job of the chain, which nothing has been written for.
LEMMA Passes ==
  ASSUME RInv, RowsBacked, NEW p \in Processes, Alone(p), Doing(p), stopped = {},
         DOMAIN statusLog \subseteq {"resumed"},
         NEW j, j \notin DOMAIN jobs, Before(work[p].job, j),
         \A k \in DOMAIN jobs : Before(k, work[p].job) => Before(k, j),
         j[2] \notin DOMAIN manifests \cup DOMAIN rounds,
         NEW payload, Enqueue(j, payload), Leave(p),
         UNCHANGED <<imported, manifests, rounds, stopped, statusLog>>
  PROVE  Orderly'
<1>1. /\ DOMAIN jobs' = DOMAIN jobs \cup {j}
      /\ \A k \in DOMAIN jobs : jobs'[k] = jobs[k]
      /\ jobs'[j] = Job(payload)
  BY DEF Enqueue, Insert
<1>2. jobs'[j].status \in Runnable
  BY <1>1 DEF Job, Runnable
<1>3. \A q \in Processes : work'[q].pc = "idle"
  BY DEF Leave, Alone, RInv, LoopShapes, Idle
<1>4. \A k \in DOMAIN jobs : Before(k, j) /\ jobs[k].status \notin Runnable
  BY DEF Alone, LastJob, Doing, Held
<1>5. LastJob(j)'
  <2>1. \A k \in DOMAIN jobs' : k # j => Before(k, j) /\ jobs'[k].status \notin Runnable
    BY <1>1, <1>4
  <2> QED
    BY <1>1, <2>1 DEF LastJob, Before
<1>6. j \notin DOMAIN imported'
  BY DEF RowsBacked
<1>7. JobWaiting'
  BY <1>1, <1>2, <1>3, <1>5, <1>6 DEF JobWaiting
<1> QED
  BY <1>7 DEF Orderly

LEMMA EnqueueOrderly ==
  ASSUME RInv, RowsBacked, Orderly, NEW p \in Processes, EnqueueVerifier(p) \/ EnqueueRevision(p)
  PROVE  Orderly'
<1>1. /\ work[p].pc \in {"review", "revise"} /\ Leave(p)
      /\ UNCHANGED <<imported, manifests, rounds, stopped, statusLog>>
  BY DEF EnqueueVerifier, EnqueueRevision
<1>2. /\ Alone(p) /\ Doing(p) /\ stopped = {} /\ DOMAIN statusLog \subseteq {"resumed"}
      /\ work[p].job \in DOMAIN jobs
  BY <1>1, OneHolds DEF Doing, RInv, Working
<1>3. \A k \in DOMAIN jobs : k = work[p].job \/ Before(k, work[p].job)
  BY <1>2 DEF Alone, LastJob
<1>4. \A k \in DOMAIN jobs : k[1] \in Kinds /\ k[2] \in Nat
  BY DEF RInv, LoopShapes
<1>5. CASE EnqueueVerifier(p)
  <2> DEFINE j == <<"verifier", Round(p)>>
  <2>1. work[p].job[1] = "proposer" /\ work[p].job[2] = Round(p) /\ Round(p) \in Nat
    BY <1>2, <1>4, <1>5 DEF EnqueueVerifier, RInv, Working, Kind, Round
  <2>2. j[1] = "verifier" /\ j[2] = Round(p)
    OBVIOUS
  <2> HIDE DEF j
  <2>3. j \notin DOMAIN jobs
    BY <1>3, <2>1, <2>2 DEF Before
  <2>4. Before(work[p].job, j) /\ \A k \in DOMAIN jobs : Before(k, work[p].job) => Before(k, j)
    BY <1>4, <2>1, <2>2 DEF Before
  <2>5. j[2] \notin DOMAIN manifests \cup DOMAIN rounds
    BY <2>2, <2>3 DEF RowsBacked, j
  <2>6. Enqueue(j, work[p].answer)
    BY <1>5, <2>3 DEF EnqueueVerifier, MayEnqueue, j
  <2> QED
    BY <1>1, <1>2, <2>3, <2>4, <2>5, <2>6, Passes
<1>6. CASE EnqueueRevision(p)
  <2> DEFINE j == <<"proposer", Round(p) + 1>>
  <2>1. work[p].job[1] = "verifier" /\ work[p].job[2] = Round(p) /\ Round(p) \in Nat
    BY <1>2, <1>4, <1>6 DEF EnqueueRevision, RInv, Working, Kind, Round
  <2>2. j[1] = "proposer" /\ j[2] = Round(p) + 1
    OBVIOUS
  <2> HIDE DEF j
  <2>3. j \notin DOMAIN jobs
    BY <1>3, <2>1, <2>2 DEF Before
  <2>4. Before(work[p].job, j) /\ \A k \in DOMAIN jobs : Before(k, work[p].job) => Before(k, j)
    BY <1>4, <2>1, <2>2 DEF Before
  <2>5. j[2] \notin DOMAIN manifests \cup DOMAIN rounds
    <3>1. <<"verifier", j[2]>>[1] = "verifier" /\ <<"verifier", j[2]>>[2] = Round(p) + 1
      BY <2>2
    <3>2. <<"verifier", j[2]>> \notin DOMAIN jobs
      BY <1>3, <2>1, <3>1 DEF Before
    <3> QED
      BY <3>2 DEF RowsBacked
  <2>6. Enqueue(j, work[p].answer)
    BY <1>6, <2>3 DEF EnqueueRevision, MayEnqueue, j
  <2> QED
    BY <1>1, <1>2, <2>3, <2>4, <2>5, <2>6, Passes
<1> QED
  BY <1>5, <1>6

LEMMA CommandOrderly ==
  ASSUME run = "running", Orderly, Pause \/ Resume \/ Cancel, run' = "running"
  PROVE  Orderly'
<1>1. SetStatus("running", "resumed")
  BY DEF Pause, Resume, Cancel, Command, SetStatus
<1>2. UNCHANGED <<imported, manifests, rounds, stopped, work>>
  BY DEF Pause, Resume, Cancel, Command
<1>3. UNCHANGED jobs /\ DOMAIN statusLog' = DOMAIN statusLog \cup {"resumed"}
  BY <1>1 DEF SetStatus, Insert
<1> QED
  BY <1>2, <1>3 DEF Orderly, JobWaiting, Alone, Doing, LastJob, Held, Round

LEMMA OrderlyStep ==
  ASSUME OrderInv, [LoopNext]_loopVars, Calm', run' = "running"
  PROVE  Orderly'
<1>1. RInv /\ RowsBacked /\ Calm /\ run = "running" /\ Orderly
  BY CalmBefore DEF OrderInv
<1>2. ~late
  BY <1>1 DEF Calm, RowsBacked
<1>3. ASSUME NEW p \in Processes,
             \/ Claim(p) \/ Manifest(p) \/ Reserve(p) \/ Answer(p) \/ RecordUsage(p)
             \/ RecordCall(p) \/ Commit(p) \/ Finish(p) \/ EnqueueVerifier(p)
             \/ RecordRound(p) \/ Judge(p) \/ Grant(p) \/ EnqueueRevision(p)
             \/ Fail(p) \/ RecordStop(p)
      PROVE  Orderly'
  BY <1>1, <1>3, ClaimOrderly, CallOrderly, CommitOrderly, FinishOrderly, EnqueueOrderly,
     RecordRoundOrderly, JudgeOrderly, FailOrderly, RecordStopOrderly
<1>4. ASSUME NEW p \in Processes, ClaimLate(p) \/ EndRun(p) PROVE Orderly'
  BY <1>1, <1>2, <1>4, EndRunOrderly DEF ClaimLate
<1>5. CASE Pause \/ Resume \/ Cancel
  BY <1>1, <1>5, CommandOrderly
<1>6. ASSUME (\E p \in Processes : Die(p)) \/ Deadline \/ RecoverJobs PROVE FALSE
  BY <1>1, <1>6 DEF Die, Deadline, RecoverJobs, Calm, RowsBacked
<1>7. CASE UNCHANGED loopVars
  BY <1>1, <1>7 DEF loopVars, database, Orderly, JobWaiting, Alone, Doing, LastJob, Held, Round
<1> QED
  BY <1>3, <1>4, <1>5, <1>6, <1>7 DEF LoopNext

LEMMA InitOrderly == LoopInit => OrderInv
<1> SUFFICES ASSUME LoopInit PROVE OrderInv
  OBVIOUS
<1>1. /\ DOMAIN jobs = {<<"proposer", 1>>} /\ jobs[<<"proposer", 1>>].status = "queued"
      /\ DOMAIN imported = {} /\ DOMAIN proposals = {} /\ DOMAIN manifests = {}
      /\ DOMAIN rounds = {} /\ DOMAIN statusLog = {}
  BY DEF LoopInit, Job
<1>2. \A p \in Processes : work[p].pc = "idle"
  BY DEF LoopInit, Idle
<1>3. RowsBacked
  BY <1>1 DEF LoopInit, RowsBacked
<1>4. Orderly
  BY <1>1, <1>2 DEF LoopInit, Orderly, JobWaiting, LastJob, Runnable
<1> QED
  BY <1>3, <1>4, InitLinks DEF OrderInv

(***************************************************************************)
(* A run that says it is running while no job of it can be claimed and no  *)
(* process is at work got there by a death, a lapsed lease, the deadline   *)
(* or a pause: the loop of baseline_loop.py alone hands its one job on or  *)
(* ends the run, for any number of processes, any answers and any budget.  *)
(***************************************************************************)
THEOREM OnlyFaultsStrand == LoopSpec => []StrandedOnlyByFault
<1>1. OrderInv /\ [LoopNext]_loopVars => OrderInv'
  BY StepLinks, BackedStep, OrderlyStep DEF OrderInv
<1>2. OrderInv => StrandedOnlyByFault
  <2> SUFFICES ASSUME OrderInv, run = "running", \A p \in Processes : work[p].pc = "idle",
                      \A j \in DOMAIN jobs : jobs[j].status \notin Runnable
               PROVE  faults > 0 \/ "paused" \in DOMAIN statusLog
    BY DEF StrandedOnlyByFault
  <2>1. ~Orderly
    BY DEF Orderly, JobWaiting, Doing, ToCommit, Ending
  <2> QED
    BY <2>1 DEF OrderInv, Calm, RowsBacked
<1> QED
  BY InitOrderly, <1>1, <1>2, PTL DEF LoopSpec
-----------------------------------------------------------------------------
(***************************************************************************)
(* The run as the abstract run.  A step of it is taken by a process that   *)
(* looked long before: what it holds must still be true of the tables when *)
(* it writes.  So the invariant ties the rounds to the jobs that made them *)
(* (a recorded round has two jobs that succeeded, every round but the last *)
(* granted one is recorded and warranted the next), and every stop record, *)
(* drafted or written, to a fact that no later step can change.            *)
(***************************************************************************)
Reply(kind, a) ==
  /\ kind = "proposer" => a \in Candidates \X {"proposed"}
  /\ kind = "verifier" => \E o \in Outcomes : a = <<a[1], o>>

Succeeded(j) == j \in DOMAIN jobs /\ jobs[j].status = "succeeded"
Ended(j) == j \in DOMAIN jobs /\ jobs[j].status \in {"failed", "timed_out"}

Earned(r) == r \in DOMAIN rounds /\ rounds[r].finding[2] \in Warrants
Unearned(r) == r \in DOMAIN rounds /\ rounds[r].finding[2] \notin Warrants

\* A stop record that the tables bear out, whenever they are read again.
Justified(draft) ==
  \E r \in 1..budget.rounds, binding \in SUBSET {"tokens", "calls"} :
    \/ /\ draft = StopRecord("awaiting_review", "no_refinement_warranted", {}, r)
       /\ Unearned(r)
    \/ /\ draft = StopRecord("refinement_exhausted", "refinement_round_cap", {"rounds"}, r)
       /\ Earned(r) /\ r >= MaxRounds
    \/ /\ draft = StopRecord("refinement_exhausted", "budget_bound", binding, r)
       /\ Earned(r) /\ binding # {}
    \/ /\ draft = StopRecord("unresolved", "non_success", binding, r)
       /\ Ended(<<"proposer", r>>) \/ Ended(<<"verifier", r>>)

Reviewing == {"review", "round", "judge", "grant", "revise"}

Holding(p) ==
  /\ work[p].pc \in {"usage", "call"} => work[p].answer \in Failures \/ Reply(Kind(p), work[p].answer)
  /\ work[p].pc = "commit" => Reply(Kind(p), work[p].answer)
  /\ work[p].pc = "fail" => work[p].answer[2] \in {"failed", "timed_out"}
  /\ work[p].pc \in Reviewing => Succeeded(work[p].job)
  /\ work[p].pc \in Ending => Justified(work[p].draft)
  /\ work[p].pc = "status" => stopped = work[p].draft

Grounded ==
  /\ budget.rounds \in 1..MaxRounds
  /\ \A r \in 1..(budget.rounds - 1) : Earned(r)
  /\ \A r \in DOMAIN rounds : Succeeded(<<"proposer", r>>) /\ Succeeded(<<"verifier", r>>)
  /\ \A j \in DOMAIN jobs : j[1] = "verifier" => Succeeded(<<"proposer", j[2]>>)
  /\ stopped = {} \/ Justified(stopped)
  /\ rounds = [r \in DOMAIN rounds |-> rounds[r]]

CInv == RInv /\ Grounded /\ \A p \in Processes : Holding(p)
\* What no step takes back: how a job ended, a round, a grant, a stop.
Stays ==
  /\ \A j \in DOMAIN jobs :
       /\ j \in DOMAIN jobs'
       /\ jobs[j].status \notin Live => jobs'[j].status = jobs[j].status
  /\ \A r \in DOMAIN rounds : r \in DOMAIN rounds' /\ rounds'[r] = rounds[r]
  /\ budget'.rounds \in Int /\ budget'.rounds >= budget.rounds
  /\ stopped = {} \/ stopped' = stopped

LEMMA JobsStay ==
  ASSUME CInv, [LoopNext]_loopVars, NEW j \in DOMAIN jobs
  PROVE  /\ j \in DOMAIN jobs'
         /\ jobs[j].status \notin Live => jobs'[j].status = jobs[j].status
<1> DEFINE Goal == /\ j \in DOMAIN jobs'
                   /\ jobs[j].status \notin Live => jobs'[j].status = jobs[j].status
<1> USE DEF Live, Runnable
<1>1. DOMAIN jobs[j] = {"status", "attempts", "payload", "result"}
  BY DEF CInv, RInv, LoopShapes
<1>2. CASE UNCHANGED jobs
  BY <1>2
<1>3. ASSUME NEW p \in Processes, Claim(p) PROVE Goal
  <2>1. PICK k \in DOMAIN jobs :
          /\ jobs[k].status \in Runnable
          /\ jobs' = [jobs EXCEPT ![k].status = "running", ![k].attempts = @ + 1]
    BY <1>3 DEF Claim
  <2> QED
    BY <1>1, <2>1
<1>4. ASSUME NEW p \in Processes, ClaimLate(p) PROVE Goal
  BY <1>4 DEF ClaimLate
<1>5. ASSUME NEW p \in Processes, Finish(p) PROVE Goal
  <2>1. UNCHANGED jobs
        \/ /\ Held(p).status = "running"
           /\ jobs' = [jobs EXCEPT ![work[p].job].status = "succeeded",
                                   ![work[p].job].result = work[p].answer]
    BY <1>5 DEF Finish, Inactive
  <2> QED
    BY <1>1, <1>2, <2>1 DEF Held
<1>6. ASSUME NEW p \in Processes, EnqueueVerifier(p) \/ EnqueueRevision(p) PROVE Goal
  <2>1. UNCHANGED jobs \/ \E k, row : jobs' = Insert(jobs, k, row)
    BY <1>6 DEF EnqueueVerifier, EnqueueRevision, Enqueue
  <2> QED
    BY <2>1 DEF Insert
<1>7. ASSUME NEW p \in Processes, Fail(p) PROVE Goal
  <2>1. UNCHANGED jobs
        \/ /\ Held(p).status = "running"
           /\ jobs' = [jobs EXCEPT ![work[p].job].status = work[p].answer[2],
                                   ![work[p].job].result = work[p].answer]
    BY <1>7 DEF Fail
  <2> QED
    BY <1>1, <1>2, <2>1 DEF Held
<1>8. ASSUME NEW to, NEW key, SetStatus(to, key) PROVE Goal
  BY <1>8 DEF SetStatus, Cancelled
<1>9. ASSUME RecoverJobs PROVE Goal
  BY <1>9 DEF RecoverJobs
<1>10. ASSUME NEW p \in Processes, EndRun(p) PROVE Goal
  BY <1>2, <1>8, <1>10 DEF EndRun
<1>11. ASSUME Pause \/ Resume \/ Cancel PROVE Goal
  BY <1>8, <1>11 DEF Pause, Resume, Cancel, Command
<1>12. ASSUME NEW p \in Processes,
              \/ Manifest(p) \/ Reserve(p) \/ Answer(p) \/ RecordUsage(p) \/ RecordCall(p)
              \/ Commit(p) \/ RecordRound(p) \/ Judge(p) \/ Grant(p) \/ RecordStop(p) \/ Die(p)
       PROVE  UNCHANGED jobs
  BY <1>12 DEF Manifest, Reserve, Answer, RecordUsage, RecordCall, Commit, RecordRound, Judge,
     Grant, RecordStop, Die, database
<1>13. ASSUME Deadline \/ UNCHANGED loopVars PROVE UNCHANGED jobs
  BY <1>13 DEF Deadline, loopVars, database
<1> HIDE DEF Goal
<1>14. Goal
  BY <1>2, <1>3, <1>4, <1>5, <1>6, <1>7, <1>9, <1>10, <1>11, <1>12, <1>13 DEF LoopNext, Goal
<1> QED
  BY <1>14 DEF Goal

\* A stop record is one: another that contains it is the same.
LEMMA OneStop ==
  ASSUME NEW draft, Justified(draft)
  PROVE  /\ \E d : draft = {d} /\ d.status \in Terminal
         /\ stopped # {} /\ stopped \subseteq draft => stopped = draft
<1>1. PICK status, reason, binding, r :
        status \in Terminal /\ draft = StopRecord(status, reason, binding, r)
  BY DEF Justified, Terminal
<1> DEFINE d == [status |-> status, reason |-> reason, binding |-> binding, round |-> r]
<1>2. draft = {d} /\ d.status = status
  BY <1>1 DEF StopRecord
<1> HIDE DEF d
<1> QED
  BY <1>1, <1>2

\* Every other step leaves rounds, grants and stops alone.
RoundsQuiet == UNCHANGED <<rounds, stopped>> /\ budget'.rounds = budget.rounds

LEMMA MostAreQuiet ==
  ASSUME CInv, [LoopNext]_loopVars, \A p \in Processes : ~(RecordRound(p) \/ Grant(p) \/ RecordStop(p))
  PROVE  RoundsQuiet
<1>1. DOMAIN budget = {"calls", "tokens", "rounds"}
  BY DEF CInv, RInv, LoopShapes
<1>2. ASSUME NEW p \in Processes, Reserve(p) PROVE RoundsQuiet
  BY <1>1, <1>2 DEF Reserve, RoundsQuiet
<1>3. ASSUME NEW p \in Processes, RecordUsage(p) PROVE RoundsQuiet
  BY <1>1, <1>3 DEF RecordUsage, RoundsQuiet
<1>4. ASSUME NEW p \in Processes,
             \/ Claim(p) \/ ClaimLate(p) \/ Manifest(p) \/ Answer(p) \/ RecordCall(p)
             \/ Commit(p) \/ Finish(p) \/ EnqueueVerifier(p) \/ Judge(p) \/ EnqueueRevision(p)
             \/ Fail(p) \/ EndRun(p) \/ Die(p)
      PROVE  RoundsQuiet
  BY <1>4 DEF Claim, ClaimLate, Manifest, Answer, RecordCall, Commit, Finish, EnqueueVerifier,
     Judge, EnqueueRevision, Fail, EndRun, Die, database, RoundsQuiet
<1>5. ASSUME Pause \/ Resume \/ Cancel \/ Deadline \/ RecoverJobs \/ UNCHANGED loopVars
      PROVE  RoundsQuiet
  BY <1>5 DEF Pause, Resume, Cancel, Command, Deadline, RecoverJobs, loopVars, database, RoundsQuiet
<1> QED
  BY <1>2, <1>3, <1>4, <1>5 DEF LoopNext

\* The round a process judged, and the grant behind it.
LEMMA Granting ==
  ASSUME CInv, NEW p \in Processes, Grant(p)
  PROVE  /\ UNCHANGED <<rounds, stopped>>
         /\ \/ budget'.rounds = budget.rounds
            \/ /\ Earned(budget.rounds) /\ budget.rounds < MaxRounds
               /\ budget'.rounds = budget.rounds + 1
<1>1. /\ Kind(p) = "verifier" /\ Concluded(p) /\ work[p].answer[2] \in Warrants
      /\ work[p].job \in DOMAIN jobs
  BY DEF CInv, RInv, Working, Grant
<1>2. Earned(Round(p)) /\ Round(p) \in Nat \ {0} /\ DOMAIN budget = {"calls", "tokens", "rounds"}
  BY <1>1 DEF Concluded, Earned, CInv, RInv, LoopShapes, Round
<1>3. budget.rounds \in 1..MaxRounds /\ Round(p) <= budget.rounds /\ MaxRounds \in Nat
  BY <1>1, <1>2, LoopAssumption DEF CInv, Grounded, RInv, RoundsLinked, Round
<1>4. UNCHANGED budget
      \/ /\ ~(Round(p) + 1 > MaxRounds)
         /\ budget' = [budget EXCEPT !.rounds = Max({@, Round(p) + 1})]
  BY DEF Grant
<1>5. Max({budget.rounds, Round(p) + 1}) \in {budget.rounds, Round(p) + 1}
      /\ Max({budget.rounds, Round(p) + 1}) >= Round(p) + 1
      /\ Max({budget.rounds, Round(p) + 1}) >= budget.rounds
  <2>1. \E x \in {budget.rounds, Round(p) + 1} : \A y \in {budget.rounds, Round(p) + 1} : x >= y
    BY <1>2, <1>3
  <2> QED
    BY <2>1 DEF Max
<1>6. UNCHANGED <<rounds, stopped>>
  BY DEF Grant
<1>7. CASE UNCHANGED budget
  BY <1>6, <1>7
<1>8. CASE /\ ~(Round(p) + 1 > MaxRounds)
           /\ budget' = [budget EXCEPT !.rounds = Max({@, Round(p) + 1})]
  <2>1. budget'.rounds = Max({budget.rounds, Round(p) + 1})
    BY <1>2, <1>8
  <2>2. CASE budget'.rounds = budget.rounds
    BY <1>6, <2>2
  <2>3. CASE budget'.rounds # budget.rounds
    <3>1. budget'.rounds = Round(p) + 1 /\ Round(p) + 1 >= budget.rounds
      BY <1>5, <2>1, <2>3
    <3>2. Round(p) = budget.rounds
      BY <1>2, <1>3, <2>3, <3>1
    <3> QED
      BY <1>2, <1>3, <1>6, <1>8, <3>1, <3>2
  <2> QED
    BY <2>2, <2>3
<1> QED
  BY <1>4, <1>7, <1>8

LEMMA StepStays == ASSUME CInv, [LoopNext]_loopVars PROVE Stays
<1>1. budget.rounds \in Int
  BY DEF CInv, RInv, LoopShapes
<1>2. CASE RoundsQuiet
  BY <1>1, <1>2, JobsStay DEF Stays, RoundsQuiet
<1>3. ASSUME NEW p \in Processes, RecordRound(p) PROVE Stays
  <2>1. UNCHANGED <<budget, stopped>>
        /\ (UNCHANGED rounds \/ \E k, row : rounds' = Insert(rounds, k, row))
    BY <1>3 DEF RecordRound
  <2>2. \A r \in DOMAIN rounds : r \in DOMAIN rounds' /\ rounds'[r] = rounds[r]
    BY <2>1 DEF Insert
  <2> QED
    BY <1>1, <2>1, <2>2, JobsStay DEF Stays
<1>4. ASSUME NEW p \in Processes, Grant(p) PROVE Stays
  BY <1>1, <1>4, JobsStay, Granting DEF Stays
<1>5. ASSUME NEW p \in Processes, RecordStop(p) PROVE Stays
  <2>1. UNCHANGED <<budget, rounds>> /\ work[p].pc = "stop"
        /\ (UNCHANGED stopped \/ (stopped \subseteq work[p].draft /\ stopped' = work[p].draft))
    BY <1>5 DEF RecordStop
  <2>2. Justified(work[p].draft)
    BY <2>1 DEF CInv, Holding, Ending
  <2>3. stopped = {} \/ stopped' = stopped
    BY <2>1, <2>2, OneStop
  <2> QED
    BY <1>1, <2>1, <2>3, JobsStay DEF Stays
<1> QED
  BY <1>2, <1>3, <1>4, <1>5, MostAreQuiet

\* What was true of the tables stays so.
LEMMA FactsStay ==
  ASSUME Stays, NEW j, NEW r
  PROVE  /\ Succeeded(j) => Succeeded(j)'
         /\ Ended(j) => Ended(j)'
         /\ Earned(r) => Earned(r)'
         /\ Unearned(r) => Unearned(r)'
  BY DEF Stays, Succeeded, Ended, Earned, Unearned, Live, Runnable

LEMMA JustifiedStays ==
  ASSUME CInv, Stays, NEW draft, Justified(draft)
  PROVE  Justified(draft)'
<1>1. PICK r \in 1..budget.rounds, binding \in SUBSET {"tokens", "calls"} :
        \/ /\ draft = StopRecord("awaiting_review", "no_refinement_warranted", {}, r)
           /\ Unearned(r)
        \/ /\ draft = StopRecord("refinement_exhausted", "refinement_round_cap", {"rounds"}, r)
           /\ Earned(r) /\ r >= MaxRounds
        \/ /\ draft = StopRecord("refinement_exhausted", "budget_bound", binding, r)
           /\ Earned(r) /\ binding # {}
        \/ /\ draft = StopRecord("unresolved", "non_success", binding, r)
           /\ Ended(<<"proposer", r>>) \/ Ended(<<"verifier", r>>)
  BY DEF Justified
<1>2. r \in 1..budget'.rounds
  BY DEF Stays, CInv, Grounded
<1>3. /\ Unearned(r) => Unearned(r)'
      /\ Earned(r) => Earned(r)'
      /\ Ended(<<"proposer", r>>) => Ended(<<"proposer", r>>)'
      /\ Ended(<<"verifier", r>>) => Ended(<<"verifier", r>>)'
  BY FactsStay
<1> QED
  BY <1>1, <1>2, <1>3 DEF Justified, StopRecord

\* A process that does not move keeps what it holds.
LEMMA OthersHold ==
  ASSUME CInv, Stays, NEW q \in Processes, work'[q] = work[q]
  PROVE  Holding(q)'
<1>1. PICK w : w = work[q]
  OBVIOUS
<1>2. Justified(w.draft) => Justified(w.draft)'
  BY JustifiedStays
<1>3. Succeeded(w.job) => Succeeded(w.job)'
  BY FactsStay
<1>4. w.pc = "status" => stopped' = w.draft
  <2>1. ASSUME w.pc = "status" PROVE stopped = w.draft /\ Justified(w.draft)
    BY <1>1, <2>1 DEF CInv, Holding, Ending
  <2>2. ASSUME Justified(w.draft) PROVE w.draft # {}
    BY <2>2 DEF Justified, StopRecord
  <2> QED
    BY <2>1, <2>2 DEF Stays
<1>5. Kind(q)' = Kind(q)
  BY DEF Kind
<1> QED
  BY <1>1, <1>2, <1>3, <1>4, <1>5 DEF CInv, Holding

\* Steps that write none of the tables an abstract step would.
LEMMA GroundStays ==
  ASSUME CInv, Stays, budget'.rounds = budget.rounds, rounds' = rounds,
         stopped' = stopped,
         \A j \in DOMAIN jobs' : j[1] = "verifier" => j \in DOMAIN jobs
  PROVE  Grounded'
<1>1. \A r \in 1..(budget'.rounds - 1) : Earned(r)'
  BY FactsStay DEF CInv, Grounded
<1>2. \A r \in DOMAIN rounds' : Succeeded(<<"proposer", r>>)' /\ Succeeded(<<"verifier", r>>)'
  BY FactsStay DEF CInv, Grounded
<1>3. \A j \in DOMAIN jobs' : j[1] = "verifier" => Succeeded(<<"proposer", j[2]>>)'
  BY FactsStay DEF CInv, Grounded
<1>4. stopped' = {} \/ Justified(stopped)'
  <2>1. PICK s : s = stopped
    OBVIOUS
  <2>2. Justified(s) => Justified(s)'
    BY JustifiedStays
  <2> QED
    BY <2>1, <2>2 DEF CInv, Grounded
<1> QED
  BY <1>1, <1>2, <1>3, <1>4 DEF CInv, Grounded

\* Where a process holds nothing that needs saying.
LEMMA HoldsNothing ==
  ASSUME NEW p, work'[p].pc \in {"idle", "manifest", "reserve", "answer", "finish"}
  PROVE  Holding(p)'
  BY DEF Holding, Reviewing, Ending

LEMMA LeftHolds ==
  ASSUME CInv, NEW p \in Processes, Leave(p)
  PROVE  Holding(p)' /\ \A q \in Processes : q # p => work'[q] = work[q]
<1>1. work'[p] = Idle /\ \A q \in Processes : q # p => work'[q] = work[q]
  BY DEF Leave, CInv, RInv, LoopShapes
<1>2. work'[p].pc = "idle"
  BY <1>1 DEF Idle
<1> QED
  BY <1>1, <1>2, HoldsNothing

\* What one step changes in a process's work.
LEMMA SteppedIs ==
  ASSUME CInv, NEW p \in Processes, NEW pc, Step(p, pc)
  PROVE  /\ work'[p].pc = pc /\ work'[p].job = work[p].job
         /\ work'[p].answer = work[p].answer /\ work'[p].draft = work[p].draft
         /\ \A q \in Processes : q # p => work'[q] = work[q]
  BY DEF Step, CInv, RInv, LoopShapes, Idle

LEMMA DraftedIs ==
  ASSUME CInv, NEW p \in Processes, NEW draft,
         work' = [work EXCEPT ![p].pc = "stop", ![p].draft = draft]
  PROVE  /\ work'[p].pc = "stop" /\ work'[p].draft = draft
         /\ \A q \in Processes : q # p => work'[q] = work[q]
  BY DEF CInv, RInv, LoopShapes, Idle

\* The step of one process: the others keep what they hold.
LEMMA OneMoves ==
  ASSUME CInv, RInv', Stays, Grounded', NEW p \in Processes,
         \A q \in Processes : q # p => work'[q] = work[q], Holding(p)'
  PROVE  CInv'
<1>1. \A q \in Processes : Holding(q)'
  BY OthersHold
<1> QED
  BY <1>1 DEF CInv

\* No step but the end of a proposal makes a verifier's job.
Narrow == \A j \in DOMAIN jobs' : j[1] = "verifier" => j \in DOMAIN jobs

LEMMA CallHolds ==
  ASSUME CInv, NEW p \in Processes,
         \/ Claim(p) \/ Manifest(p) \/ Reserve(p) \/ Answer(p) \/ RecordUsage(p)
         \/ RecordCall(p) \/ Commit(p)
  PROVE  /\ DOMAIN jobs' = DOMAIN jobs
         /\ Holding(p)' /\ \A q \in Processes : q # p => work'[q] = work[q]
<1> DEFINE Goal == /\ DOMAIN jobs' = DOMAIN jobs
                   /\ Holding(p)' /\ \A q \in Processes : q # p => work'[q] = work[q]
<1>1. DOMAIN work = Processes /\ DOMAIN work[p] = DOMAIN Idle
  BY DEF CInv, RInv, LoopShapes
<1>2. CASE Claim(p)
  <2>1. PICK j \in DOMAIN jobs :
          /\ jobs' = [jobs EXCEPT ![j].status = "running", ![j].attempts = @ + 1]
          /\ work' = [work EXCEPT ![p] = [Idle EXCEPT !.job = j,
                        !.pc = IF j[1] = "verifier" THEN "manifest" ELSE "reserve"]]
    BY <1>2 DEF Claim
  <2>2. work'[p].pc \in {"manifest", "reserve"} /\ \A q \in Processes : q # p => work'[q] = work[q]
    BY <1>1, <2>1 DEF Idle
  <2> QED
    BY <2>1, <2>2, HoldsNothing
<1>3. CASE Manifest(p)
  <2>1. UNCHANGED jobs /\ (Leave(p) \/ Step(p, "reserve"))
    BY <1>3 DEF Manifest
  <2> QED
    BY <2>1, LeftHolds, SteppedIs, HoldsNothing
<1>4. CASE Reserve(p)
  <2>1. UNCHANGED jobs
        /\ \/ work' = [work EXCEPT ![p].pc = "fail", ![p].answer = <<"none", "failed">>]
           \/ work' = [work EXCEPT ![p].pc = "answer", ![p].try = Held(p).attempts]
    BY <1>4 DEF Reserve
  <2>2. \A q \in Processes : q # p => work'[q] = work[q]
    BY <1>1, <2>1
  <2>3. CASE work' = [work EXCEPT ![p].pc = "fail", ![p].answer = <<"none", "failed">>]
    <3>1. work'[p].pc = "fail" /\ work'[p].answer[2] = "failed"
      BY <1>1, <2>3 DEF Idle
    <3>2. Holding(p)'
      BY <3>1 DEF Holding, Reviewing, Ending
    <3> QED
      BY <2>1, <2>2, <3>2
  <2>4. CASE work' = [work EXCEPT ![p].pc = "answer", ![p].try = Held(p).attempts]
    <3>1. work'[p].pc = "answer"
      BY <1>1, <2>4 DEF Idle
    <3> QED
      BY <2>1, <2>2, <3>1, HoldsNothing
  <2> QED
    BY <2>1, <2>3, <2>4
<1>5. CASE Answer(p)
  <2>1. PICK a \in Answers(p) \cup Failures, u \in Usage :
          work' = [work EXCEPT ![p].pc = "usage", ![p].answer = a, ![p].tokens = u]
    BY <1>5 DEF Answer
  <2>2. UNCHANGED jobs
    BY <1>5 DEF Answer, database
  <2>3. /\ work'[p].pc = "usage" /\ work'[p].answer = a /\ work'[p].job = work[p].job
        /\ \A q \in Processes : q # p => work'[q] = work[q]
    BY <1>1, <2>1 DEF Idle
  <2>4. Kind(p)' = Kind(p)
    BY <2>3 DEF Kind
  <2>5. a \in Failures \/ Reply(Kind(p), a)
    BY DEF Answers, Reply
  <2>6. Holding(p)'
    BY <2>3, <2>4, <2>5 DEF Holding, Reviewing, Ending, Failures, Reply
  <2> QED
    BY <2>2, <2>3, <2>6
<1>6. CASE RecordUsage(p)
  <2>1. UNCHANGED jobs /\ Step(p, "call") /\ work[p].pc = "usage"
    BY <1>6 DEF RecordUsage
  <2>2. /\ work'[p].pc = "call" /\ work'[p].job = work[p].job /\ work'[p].answer = work[p].answer
        /\ \A q \in Processes : q # p => work'[q] = work[q]
    BY <2>1, SteppedIs
  <2>3. Kind(p)' = Kind(p) /\ (work[p].answer \in Failures \/ Reply(Kind(p), work[p].answer))
    BY <2>1, <2>2 DEF Kind, CInv, Holding
  <2>4. Holding(p)'
    BY <2>2, <2>3 DEF Holding, Reviewing, Ending, Failures, Reply
  <2> QED
    BY <2>1, <2>2, <2>4
<1>7. CASE RecordCall(p)
  <2>1. PICK pc : pc = (IF work[p].answer \in Failures THEN "fail" ELSE "commit") /\ Step(p, pc)
    BY <1>7 DEF RecordCall
  <2>2. UNCHANGED jobs /\ work[p].pc = "call"
    BY <1>7 DEF RecordCall
  <2>3. /\ work'[p].pc = pc /\ work'[p].job = work[p].job /\ work'[p].answer = work[p].answer
        /\ \A q \in Processes : q # p => work'[q] = work[q]
    BY <2>1, SteppedIs
  <2>4. Kind(p)' = Kind(p) /\ (work[p].answer \in Failures \/ Reply(Kind(p), work[p].answer))
    BY <2>2, <2>3 DEF Kind, CInv, Holding
  <2>5. work[p].answer \in Failures => work[p].answer[2] \in {"failed", "timed_out"}
    BY DEF Failures
  <2>6. Holding(p)'
    BY <2>1, <2>3, <2>4, <2>5 DEF Holding, Reviewing, Ending, Reply
  <2> QED
    BY <2>2, <2>3, <2>6
<1>8. CASE Commit(p)
  <2>1. UNCHANGED jobs /\ (Leave(p) \/ Step(p, "finish"))
    BY <1>8 DEF Commit
  <2> QED
    BY <2>1, LeftHolds, SteppedIs, HoldsNothing
<1> QED
  BY <1>2, <1>3, <1>4, <1>5, <1>6, <1>7, <1>8

LEMMA FinishHolds ==
  ASSUME CInv, NEW p \in Processes, Finish(p)
  PROVE  /\ DOMAIN jobs' = DOMAIN jobs
         /\ Holding(p)' /\ \A q \in Processes : q # p => work'[q] = work[q]
<1>1. work[p].job \in DOMAIN jobs /\ "status" \in DOMAIN jobs[work[p].job]
  BY DEF Finish, CInv, RInv, Working, LoopShapes
<1>2. CASE Leave(p) /\ UNCHANGED jobs
  BY <1>2, LeftHolds
<1>3. CASE ~(Leave(p) /\ UNCHANGED jobs)
  <2>1. PICK next : /\ next \in {"review", "round"}
                    /\ Step(p, next)
    BY <1>3 DEF Finish
  <2>2. \/ UNCHANGED jobs /\ Held(p).status = "succeeded"
        \/ jobs' = [jobs EXCEPT ![work[p].job].status = "succeeded",
                                ![work[p].job].result = work[p].answer]
    BY <1>3 DEF Finish
  <2>3. DOMAIN jobs' = DOMAIN jobs /\ jobs'[work[p].job].status = "succeeded"
    BY <1>1, <2>2 DEF Held
  <2>4. /\ work'[p].pc = next /\ work'[p].job = work[p].job
        /\ \A q \in Processes : q # p => work'[q] = work[q]
    BY <2>1, SteppedIs
  <2>5. Holding(p)'
    BY <1>1, <2>1, <2>3, <2>4 DEF Holding, Succeeded, Reviewing, Ending
  <2> QED
    BY <2>3, <2>4, <2>5
<1> QED
  BY <1>2, <1>3

\* A process behind its verifier's answer.
LEMMA JudgingKnows ==
  ASSUME CInv, NEW p \in Processes, work[p].pc \in {"judge", "grant"}
  PROVE  /\ Succeeded(work[p].job) /\ Round(p) \in 1..budget.rounds
         /\ Round(p) \in DOMAIN rounds /\ rounds[Round(p)].finding = work[p].answer
         /\ work[p].pc = "grant" => Earned(Round(p))
<1>1. /\ work[p].job \in DOMAIN jobs /\ Concluded(p)
      /\ work[p].pc = "grant" => work[p].answer[2] \in Warrants
  BY DEF CInv, RInv, Working
<1>2. Round(p) \in Nat \ {0} /\ (Round(p) > 1 => Round(p) <= budget.rounds)
  BY <1>1 DEF CInv, RInv, LoopShapes, RoundsLinked, Round
<1>3. budget.rounds \in 1..MaxRounds
  BY DEF CInv, Grounded
<1>4. Round(p) \in 1..budget.rounds
  BY <1>2, <1>3, LoopAssumption
<1> QED
  BY <1>1, <1>4 DEF CInv, Holding, Reviewing, Concluded, Earned

\* A process that takes up a stop record that the tables bear out.
LEMMA DraftHolds ==
  ASSUME CInv, Stays, NEW p \in Processes, NEW draft, Justified(draft),
         work' = [work EXCEPT ![p].pc = "stop", ![p].draft = draft]
  PROVE  Holding(p)'
<1>1. work'[p].pc = "stop" /\ work'[p].draft = draft
  BY DraftedIs
<1>2. Justified(draft)'
  BY JustifiedStays
<1> QED
  BY <1>1, <1>2 DEF Holding, Reviewing

LEMMA JudgeHolds ==
  ASSUME CInv, Stays, NEW p \in Processes, Judge(p)
  PROVE  Holding(p)' /\ \A q \in Processes : q # p => work'[q] = work[q]
<1>1. /\ work[p].pc = "judge" /\ Succeeded(work[p].job) /\ Round(p) \in 1..budget.rounds
      /\ Round(p) \in DOMAIN rounds /\ rounds[Round(p)].finding = work[p].answer
  BY JudgingKnows DEF Judge
<1>2. CASE /\ work[p].answer[2] \notin Warrants
           /\ work' = [work EXCEPT ![p].pc = "stop", ![p].draft =
                StopRecord("awaiting_review", "no_refinement_warranted", {}, Round(p))]
  <2>1. PICK draft : draft = StopRecord("awaiting_review", "no_refinement_warranted", {}, Round(p))
    OBVIOUS
  <2>2. Justified(draft)
    BY <1>1, <1>2, <2>1 DEF Justified, Unearned
  <2> QED
    BY <1>2, <2>1, <2>2, DraftHolds, DraftedIs
<1>3. CASE /\ work[p].answer[2] \in Warrants /\ Binding(p) # {}
           /\ work' = [work EXCEPT ![p].pc = "stop", ![p].draft =
                StopRecord("refinement_exhausted", "budget_bound", Binding(p), Round(p))]
  <2>1. PICK draft : draft = StopRecord("refinement_exhausted", "budget_bound", Binding(p), Round(p))
    OBVIOUS
  <2>2. Binding(p) \in SUBSET {"tokens", "calls"}
    BY DEF Binding, Exhausted
  <2>3. Justified(draft)
    BY <1>1, <1>3, <2>1, <2>2 DEF Justified, Earned
  <2> QED
    BY <1>3, <2>1, <2>3, DraftHolds, DraftedIs
<1>4. CASE Step(p, "grant")
  <2>1. /\ work'[p].pc = "grant" /\ work'[p].job = work[p].job
        /\ \A q \in Processes : q # p => work'[q] = work[q]
    BY <1>4, SteppedIs
  <2>2. Holding(p)'
    BY <1>1, <2>1, FactsStay DEF Holding, Ending
  <2> QED
    BY <2>1, <2>2
<1> QED
  BY <1>2, <1>3, <1>4 DEF Judge

LEMMA GrantHolds ==
  ASSUME CInv, Stays, NEW p \in Processes, Grant(p)
  PROVE  Holding(p)' /\ \A q \in Processes : q # p => work'[q] = work[q]
<1>1. Succeeded(work[p].job) /\ Round(p) \in 1..budget.rounds /\ Earned(Round(p))
  BY JudgingKnows DEF Grant
<1>2. CASE /\ Round(p) + 1 > MaxRounds
           /\ work' = [work EXCEPT ![p].pc = "stop", ![p].draft =
                StopRecord("refinement_exhausted", "refinement_round_cap", {"rounds"}, Round(p))]
  <2>1. PICK draft : draft = StopRecord("refinement_exhausted", "refinement_round_cap",
                                        {"rounds"}, Round(p))
    OBVIOUS
  <2>2. Round(p) >= MaxRounds
    BY <1>1, <1>2, LoopAssumption DEF CInv, Grounded
  <2>3. Justified(draft)
    BY <1>1, <2>1, <2>2 DEF Justified
  <2> QED
    BY <1>2, <2>1, <2>3, DraftHolds, DraftedIs
<1>3. CASE Step(p, "revise")
  <2>1. /\ work'[p].pc = "revise" /\ work'[p].job = work[p].job
        /\ \A q \in Processes : q # p => work'[q] = work[q]
    BY <1>3, SteppedIs
  <2>2. Holding(p)'
    BY <1>1, <2>1, FactsStay DEF Holding, Ending
  <2> QED
    BY <2>1, <2>2
<1> QED
  BY <1>2, <1>3 DEF Grant

\* A job that ends without success takes its round with it.
LEMMA FailHolds ==
  ASSUME CInv, Stays, NEW p \in Processes, Fail(p)
  PROVE  /\ DOMAIN jobs' = DOMAIN jobs
         /\ Holding(p)' /\ \A q \in Processes : q # p => work'[q] = work[q]
<1>1. /\ work[p].job \in DOMAIN jobs /\ work[p].answer[2] \in {"failed", "timed_out"}
      /\ "status" \in DOMAIN jobs[work[p].job]
  BY DEF Fail, CInv, RInv, Working, LoopShapes, Holding
<1>2. CASE Leave(p) /\ UNCHANGED jobs
  BY <1>2, LeftHolds
<1>3. CASE ~(Leave(p) /\ UNCHANGED jobs)
  <2>1. /\ \/ UNCHANGED jobs /\ Held(p).status = work[p].answer[2]
           \/ jobs' = [jobs EXCEPT ![work[p].job].status = work[p].answer[2],
                                   ![work[p].job].result = work[p].answer]
        /\ work' = [work EXCEPT ![p].pc = "stop", ![p].draft =
             StopRecord("unresolved", "non_success", Exhausted, Round(p))]
        /\ UNCHANGED <<rounds, budget>>
    BY <1>3 DEF Fail
  <2>2. DOMAIN jobs' = DOMAIN jobs /\ jobs'[work[p].job].status \in {"failed", "timed_out"}
    BY <1>1, <2>1 DEF Held
  <2>3. PICK draft : draft = StopRecord("unresolved", "non_success", Exhausted, Round(p))
    OBVIOUS
  <2>4. work'[p].pc = "stop" /\ work'[p].draft = draft
        /\ \A q \in Processes : q # p => work'[q] = work[q]
    BY <2>1, <2>3, DraftedIs
  <2>5. Round(p) \in 1..budget'.rounds
    <3>1. Round(p) \in Nat \ {0} /\ (Round(p) > 1 => Round(p) <= budget.rounds)
      BY <1>1 DEF CInv, RInv, LoopShapes, RoundsLinked, Round
    <3>2. budget.rounds \in 1..MaxRounds
      BY DEF CInv, Grounded
    <3> QED
      BY <2>1, <3>1, <3>2, LoopAssumption
  <2>6. PICK r : r = Round(p)
    OBVIOUS
  <2>7. Ended(<<"proposer", r>>)' \/ Ended(<<"verifier", r>>)'
    <3>1. work[p].job \in {<<"proposer", r>>, <<"verifier", r>>}
      BY <1>1, <2>6 DEF CInv, RInv, LoopShapes, Kinds, Round
    <3> QED
      BY <1>1, <2>2, <3>1 DEF Ended
  <2>8. PICK binding \in SUBSET {"tokens", "calls"} : binding = Exhausted
    BY DEF Exhausted
  <2>9. Justified(draft)'
    <3>1. draft = StopRecord("unresolved", "non_success", binding, r)'
      BY <2>3, <2>6, <2>8 DEF StopRecord
    <3> QED
      BY <2>5, <2>6, <2>7, <3>1 DEF Justified
  <2> QED
    BY <2>2, <2>4, <2>9 DEF Holding, Reviewing
<1> QED
  BY <1>2, <1>3

LEMMA VerifierGrounds ==
  ASSUME CInv, Stays, NEW p \in Processes, EnqueueVerifier(p)
  PROVE  Grounded'
<1>1. /\ work[p].job \in DOMAIN jobs /\ Kind(p) = "proposer" /\ Succeeded(work[p].job)
      /\ UNCHANGED <<rounds, budget, stopped>>
  BY DEF EnqueueVerifier, CInv, RInv, Working, Holding, Reviewing
<1>2. PICK r : r = Round(p)
  OBVIOUS
<1>3. work[p].job = <<"proposer", r>>
  BY <1>1, <1>2 DEF CInv, RInv, LoopShapes, Kind, Round
<1>4. DOMAIN jobs' \subseteq DOMAIN jobs \cup {<<"verifier", r>>}
  BY <1>2 DEF EnqueueVerifier, Enqueue, Insert
<1>5. \A j \in DOMAIN jobs' : j[1] = "verifier" => Succeeded(<<"proposer", j[2]>>)'
  <2>1. ASSUME NEW j \in DOMAIN jobs', j[1] = "verifier"
        PROVE  Succeeded(<<"proposer", j[2]>>)
    <3>1. CASE j \in DOMAIN jobs
      BY <2>1, <3>1 DEF CInv, Grounded
    <3>2. CASE j = <<"verifier", r>>
      BY <1>1, <1>3, <3>2
    <3> QED
      BY <1>4, <3>1, <3>2
  <2> QED
    BY <2>1, FactsStay
<1>6. \A r1 \in 1..(budget'.rounds - 1) : Earned(r1)'
  BY <1>1, FactsStay DEF CInv, Grounded
<1>7. \A r1 \in DOMAIN rounds' : Succeeded(<<"proposer", r1>>)' /\ Succeeded(<<"verifier", r1>>)'
  BY <1>1, FactsStay DEF CInv, Grounded
<1>8. stopped' = {} \/ Justified(stopped)'
  <2>1. PICK s : s = stopped
    OBVIOUS
  <2>2. Justified(s) => Justified(s)'
    BY JustifiedStays
  <2> QED
    BY <1>1, <2>1, <2>2 DEF CInv, Grounded
<1> QED
  BY <1>1, <1>5, <1>6, <1>7, <1>8 DEF CInv, Grounded

LEMMA RoundGrounds ==
  ASSUME CInv, Stays, NEW p \in Processes, RecordRound(p)
  PROVE  Grounded' /\ Holding(p)' /\ \A q \in Processes : q # p => work'[q] = work[q]
<1>1. /\ work[p].job \in DOMAIN jobs /\ Kind(p) = "verifier" /\ Succeeded(work[p].job)
      /\ UNCHANGED <<jobs, budget, stopped>>
  BY DEF RecordRound, CInv, RInv, Working, Holding, Reviewing
<1>2. PICK r : r = Round(p)
  OBVIOUS
<1>3. work[p].job = <<"verifier", r>>
  BY <1>1, <1>2 DEF CInv, RInv, LoopShapes, Kind, Round
<1>4. Succeeded(<<"proposer", r>>)
  BY <1>1, <1>2 DEF CInv, Grounded, Kind, Round
<1>5. DOMAIN rounds' \subseteq DOMAIN rounds \cup {r}
  BY <1>2 DEF RecordRound, Insert
<1>6. \A k \in DOMAIN rounds' : Succeeded(<<"proposer", k>>)' /\ Succeeded(<<"verifier", k>>)'
  <2>1. \A k \in DOMAIN rounds' : Succeeded(<<"proposer", k>>) /\ Succeeded(<<"verifier", k>>)
    BY <1>1, <1>3, <1>4, <1>5 DEF CInv, Grounded
  <2> QED
    BY <2>1, FactsStay
<1>7. \A j \in DOMAIN jobs' : j[1] = "verifier" => Succeeded(<<"proposer", j[2]>>)'
  BY <1>1, FactsStay DEF CInv, Grounded
<1>8. \A k \in 1..(budget'.rounds - 1) : Earned(k)'
  BY <1>1, FactsStay DEF CInv, Grounded
<1>9. stopped' = {} \/ Justified(stopped)'
  <2>1. PICK s : s = stopped
    OBVIOUS
  <2>2. Justified(s) => Justified(s)'
    BY JustifiedStays
  <2> QED
    BY <1>1, <2>1, <2>2 DEF CInv, Grounded
<1>10. Grounded'
  <2>1. UNCHANGED rounds \/ \E row : rounds' = Insert(rounds, r, row)
    BY <1>2 DEF RecordRound
  <2>2. rounds' = [k \in DOMAIN rounds' |-> rounds'[k]]
    BY <2>1 DEF Insert, CInv, Grounded
  <2> QED
    BY <1>1, <1>6, <1>7, <1>8, <1>9, <2>2 DEF CInv, Grounded
<1>11. CASE Leave(p)
  BY <1>10, <1>11, LeftHolds
<1>12. CASE Step(p, "judge")
  <2>1. /\ work'[p].pc = "judge" /\ work'[p].job = work[p].job
        /\ \A q \in Processes : q # p => work'[q] = work[q]
    BY <1>12, SteppedIs
  <2>2. Holding(p)'
    BY <1>1, <2>1, FactsStay DEF Holding, Ending
  <2> QED
    BY <1>10, <2>1, <2>2
<1> QED
  BY <1>11, <1>12 DEF RecordRound

LEMMA GrantGrounds ==
  ASSUME CInv, Stays, NEW p \in Processes, Grant(p)
  PROVE  Grounded'
<1>1. /\ UNCHANGED <<jobs, rounds, stopped>>
      /\ \/ budget'.rounds = budget.rounds
         \/ /\ Earned(budget.rounds) /\ budget.rounds < MaxRounds
            /\ budget'.rounds = budget.rounds + 1
  BY Granting DEF Grant
<1>2. CASE budget'.rounds = budget.rounds
  BY <1>1, <1>2, GroundStays
<1>3. CASE /\ Earned(budget.rounds) /\ budget.rounds < MaxRounds
           /\ budget'.rounds = budget.rounds + 1
  <2>1. budget.rounds \in 1..MaxRounds
    BY DEF CInv, Grounded
  <2>2. budget'.rounds \in 1..MaxRounds /\ budget'.rounds - 1 = budget.rounds
    BY <1>3, <2>1, LoopAssumption
  <2>3. \A r \in 1..(budget'.rounds - 1) : Earned(r)
    <3>1. ASSUME NEW r \in 1..budget.rounds PROVE r = budget.rounds \/ r \in 1..(budget.rounds - 1)
      BY <2>1, LoopAssumption
    <3> QED
      BY <1>3, <2>2, <3>1 DEF CInv, Grounded
  <2>4. \A r \in 1..(budget'.rounds - 1) : Earned(r)'
    BY <2>3, FactsStay
  <2>5. \A r \in DOMAIN rounds' : Succeeded(<<"proposer", r>>)' /\ Succeeded(<<"verifier", r>>)'
    BY <1>1, FactsStay DEF CInv, Grounded
  <2>6. \A j \in DOMAIN jobs' : j[1] = "verifier" => Succeeded(<<"proposer", j[2]>>)'
    BY <1>1, FactsStay DEF CInv, Grounded
  <2>7. stopped' = {} \/ Justified(stopped)'
    <3>1. PICK s : s = stopped
      OBVIOUS
    <3>2. Justified(s) => Justified(s)'
      BY JustifiedStays
    <3> QED
      BY <1>1, <3>1, <3>2 DEF CInv, Grounded
  <2> QED
    BY <1>1, <2>2, <2>4, <2>5, <2>6, <2>7 DEF CInv, Grounded
<1> QED
  BY <1>1, <1>2, <1>3

LEMMA StopGrounds ==
  ASSUME CInv, Stays, NEW p \in Processes, RecordStop(p)
  PROVE  Grounded' /\ Holding(p)' /\ \A q \in Processes : q # p => work'[q] = work[q]
<1>1. work[p].pc = "stop" /\ UNCHANGED <<jobs, rounds, budget>>
  BY DEF RecordStop
<1>2. PICK draft : draft = work[p].draft
  OBVIOUS
<1>3. Justified(draft)'
  BY <1>1, <1>2, JustifiedStays DEF CInv, Holding, Ending
<1>4. \/ UNCHANGED stopped /\ Leave(p)
      \/ stopped' = draft /\ Step(p, "status")
  BY <1>2 DEF RecordStop
<1>5. CASE UNCHANGED stopped /\ Leave(p)
  BY <1>1, <1>5, GroundStays, LeftHolds
<1>6. CASE stopped' = draft /\ Step(p, "status")
  <2>1. /\ work'[p].pc = "status" /\ work'[p].draft = draft
        /\ \A q \in Processes : q # p => work'[q] = work[q]
    BY <1>2, <1>6, SteppedIs
  <2>2. Holding(p)'
    BY <1>3, <1>6, <2>1 DEF Holding, Reviewing
  <2>3. stopped' = {} \/ Justified(stopped)'
    BY <1>3, <1>6
  <2>4. \A r \in 1..(budget'.rounds - 1) : Earned(r)'
    BY <1>1, FactsStay DEF CInv, Grounded
  <2>5. \A r \in DOMAIN rounds' : Succeeded(<<"proposer", r>>)' /\ Succeeded(<<"verifier", r>>)'
    BY <1>1, FactsStay DEF CInv, Grounded
  <2>6. \A j \in DOMAIN jobs' : j[1] = "verifier" => Succeeded(<<"proposer", j[2]>>)'
    BY <1>1, FactsStay DEF CInv, Grounded
  <2> QED
    BY <1>1, <2>1, <2>2, <2>3, <2>4, <2>5, <2>6 DEF CInv, Grounded
<1> QED
  BY <1>4, <1>5, <1>6

LEMMA ChainBegins == LoopInit => CInv
<1> SUFFICES ASSUME LoopInit PROVE CInv
  OBVIOUS
<1>1. /\ DOMAIN jobs = {<<"proposer", 1>>} /\ rounds = << >> /\ stopped = {}
      /\ budget.rounds = 1 /\ \A p \in Processes : work[p].pc = "idle"
  BY DEF LoopInit, Idle
<1>2. DOMAIN rounds = {} /\ rounds = [r \in DOMAIN rounds |-> rounds[r]]
  BY <1>1
<1>3. Grounded
  BY <1>1, <1>2, LoopAssumption DEF Grounded
<1>4. \A p \in Processes : Holding(p)
  BY <1>1 DEF Holding, Reviewing, Ending
<1> QED
  BY <1>3, <1>4, InitLinks DEF CInv

LEMMA ChainStep == CInv /\ [LoopNext]_loopVars => CInv'
<1> SUFFICES ASSUME CInv, [LoopNext]_loopVars PROVE CInv'
  OBVIOUS
<1>1. RInv' /\ Stays
  BY StepLinks, StepStays DEF CInv
<1>2. ASSUME NEW p \in Processes, RecordRound(p) PROVE CInv'
  BY <1>1, <1>2, RoundGrounds, OneMoves
<1>3. ASSUME NEW p \in Processes, Grant(p) PROVE CInv'
  BY <1>1, <1>3, GrantGrounds, GrantHolds, OneMoves
<1>4. ASSUME NEW p \in Processes, RecordStop(p) PROVE CInv'
  BY <1>1, <1>4, StopGrounds, OneMoves
<1>5. ASSUME NEW p \in Processes, EnqueueVerifier(p) PROVE CInv'
  <2>1. Leave(p)
    BY <1>5 DEF EnqueueVerifier
  <2> QED
    BY <1>1, <1>5, <2>1, VerifierGrounds, LeftHolds, OneMoves
<1>6. CASE RoundsQuiet /\ Narrow
  <2>1. Grounded'
    BY <1>1, <1>6, GroundStays DEF RoundsQuiet, Narrow
  <2>2. ASSUME NEW p \in Processes,
               Holding(p)' /\ \A q \in Processes : q # p => work'[q] = work[q]
        PROVE  CInv'
    BY <1>1, <2>1, <2>2, OneMoves
  <2>3. ASSUME NEW p \in Processes,
               \/ Claim(p) \/ Manifest(p) \/ Reserve(p) \/ Answer(p) \/ RecordUsage(p)
               \/ RecordCall(p) \/ Commit(p) \/ Finish(p) \/ Judge(p) \/ Fail(p)
        PROVE  CInv'
    BY <1>1, <2>2, <2>3, CallHolds, FinishHolds, JudgeHolds, FailHolds
  <2>4. ASSUME NEW p \in Processes, EnqueueRevision(p) \/ EndRun(p) \/ Die(p) PROVE CInv'
    <3>1. Leave(p)
      BY <2>4 DEF EnqueueRevision, EndRun, Die
    <3> QED
      BY <2>2, <3>1, LeftHolds
  <2>5. ASSUME UNCHANGED work PROVE CInv'
    <3>1. \A q \in Processes : Holding(q)'
      BY <1>1, <2>5, OthersHold
    <3> QED
      BY <1>1, <2>1, <3>1 DEF CInv
  <2>6. ASSUME NEW p \in Processes, ClaimLate(p) PROVE CInv'
    BY <2>5, <2>6 DEF ClaimLate
  <2>7. ASSUME Pause \/ Resume \/ Cancel \/ Deadline \/ RecoverJobs \/ UNCHANGED loopVars
        PROVE  CInv'
    BY <2>5, <2>7 DEF Pause, Resume, Cancel, Command, Deadline, RecoverJobs, loopVars
  <2> QED
    BY <1>2, <1>3, <1>4, <1>5, <2>3, <2>4, <2>6, <2>7 DEF LoopNext
<1>7. ASSUME \A p \in Processes : ~EnqueueVerifier(p) PROVE Narrow
  <2>1. ASSUME NEW p \in Processes,
               \/ Claim(p) \/ ClaimLate(p) \/ Manifest(p) \/ Reserve(p) \/ Answer(p)
               \/ RecordUsage(p) \/ RecordCall(p) \/ Commit(p) \/ Finish(p)
               \/ RecordRound(p) \/ Judge(p) \/ Grant(p) \/ Fail(p) \/ RecordStop(p) \/ Die(p)
        PROVE  DOMAIN jobs' = DOMAIN jobs
    <3>1. CASE \/ Claim(p) \/ Manifest(p) \/ Reserve(p) \/ Answer(p) \/ RecordUsage(p)
               \/ RecordCall(p) \/ Commit(p) \/ Finish(p) \/ Fail(p)
      BY <1>1, <3>1, CallHolds, FinishHolds, FailHolds
    <3>2. CASE ClaimLate(p) \/ RecordRound(p) \/ Judge(p) \/ Grant(p) \/ RecordStop(p) \/ Die(p)
      BY <3>2 DEF ClaimLate, RecordRound, Judge, Grant, RecordStop, Die, database
    <3> QED
      BY <2>1, <3>1, <3>2
  <2>2. ASSUME NEW p \in Processes, EnqueueRevision(p) PROVE Narrow
    <3>1. UNCHANGED jobs \/ \E row : jobs' = Insert(jobs, <<"proposer", Round(p) + 1>>, row)
      BY <2>2 DEF EnqueueRevision, Enqueue
    <3> QED
      BY <3>1 DEF Insert, Narrow
  <2>3. ASSUME NEW p \in Processes, EndRun(p) PROVE DOMAIN jobs' = DOMAIN jobs
    BY <2>3 DEF EndRun, SetStatus, Cancelled
  <2>4. ASSUME Pause \/ Resume \/ Cancel \/ Deadline \/ RecoverJobs \/ UNCHANGED loopVars
        PROVE  DOMAIN jobs' = DOMAIN jobs
    BY <2>4 DEF Pause, Resume, Cancel, Command, SetStatus, Cancelled, Deadline, RecoverJobs,
       loopVars, database
  <2>5. DOMAIN jobs' = DOMAIN jobs => Narrow
    BY DEF Narrow
  <2> QED
    BY <1>7, <2>1, <2>2, <2>3, <2>4, <2>5 DEF LoopNext
<1> QED
  BY <1>2, <1>3, <1>4, <1>5, <1>6, <1>7, MostAreQuiet

\* The table of the abstract run, and where it stands.
Artifacts == [j \in DOMAIN imported |-> imported[j].artifact]

\* A job that can still run, or did and is not yet recorded, has nothing but a lack of
\* budget behind it.
LEMMA NothingLeft ==
  ASSUME CInv, NEW r, NEW kind \in Kinds, <<kind, r>> \in DOMAIN jobs,
         \/ jobs[<<kind, r>>].status = "running"
         \/ kind = "verifier" /\ Succeeded(<<kind, r>>) /\ r \notin DOMAIN rounds
  PROVE  \A s \in stopped : s.reason = "budget_bound"
<1> SUFFICES ASSUME NEW s \in stopped, s.reason # "budget_bound" PROVE FALSE
  OBVIOUS
<1>1. PICK g \in 1..budget.rounds, binding \in SUBSET {"tokens", "calls"} :
        \/ /\ stopped = StopRecord("awaiting_review", "no_refinement_warranted", {}, g)
           /\ Unearned(g)
        \/ /\ stopped = StopRecord("refinement_exhausted", "refinement_round_cap", {"rounds"}, g)
           /\ Earned(g) /\ g >= MaxRounds
        \/ /\ stopped = StopRecord("refinement_exhausted", "budget_bound", binding, g)
           /\ Earned(g) /\ binding # {}
        \/ /\ stopped = StopRecord("unresolved", "non_success", binding, g)
           /\ Ended(<<"proposer", g>>) \/ Ended(<<"verifier", g>>)
  BY DEF CInv, Grounded, Justified
<1>2. budget.rounds \in 1..MaxRounds /\ MaxRounds \in Nat
  BY LoopAssumption DEF CInv, Grounded
<1>3. r \in 1..budget.rounds
  <2>1. r \in Nat \ {0} /\ (r > 1 => r <= budget.rounds)
    <3>1. <<kind, r>>[2] = r
      OBVIOUS
    <3> QED
      BY <3>1 DEF CInv, RInv, LoopShapes, RoundsLinked
  <2> QED
    BY <1>2, <2>1
<1>4. r \notin DOMAIN rounds
  BY DEF CInv, Grounded, Succeeded, Kinds
<1>5. r = budget.rounds
  BY <1>2, <1>3, <1>4 DEF CInv, Grounded, Earned
<1>6. CASE Unearned(g) \/ (Earned(g) /\ g >= MaxRounds)
  <2>1. g \in DOMAIN rounds /\ g # r
    BY <1>4, <1>6 DEF Earned, Unearned
  <2>2. g \in 1..(budget.rounds - 1) /\ ~(g >= MaxRounds)
    BY <1>2, <1>5, <2>1
  <2> QED
    BY <1>6, <2>2 DEF CInv, Grounded, Earned, Unearned
<1>7. CASE Ended(<<"proposer", g>>) \/ Ended(<<"verifier", g>>)
  <2>1. g \notin DOMAIN rounds
    BY <1>7 DEF CInv, Grounded, Succeeded, Ended
  <2>2. g = r
    BY <1>2, <1>5, <2>1 DEF CInv, Grounded, Earned
  <2>3. <<"verifier", r>> \in DOMAIN jobs => Succeeded(<<"proposer", r>>)
    <3>1. <<"verifier", r>>[1] = "verifier" /\ <<"verifier", r>>[2] = r
      OBVIOUS
    <3> QED
      BY <3>1 DEF CInv, Grounded
  <2> QED
    BY <1>7, <2>2, <2>3 DEF Succeeded, Ended, Kinds
<1>8. stopped = StopRecord("refinement_exhausted", "budget_bound", binding, g) => s.reason = "budget_bound"
  BY DEF StopRecord
<1> QED
  BY <1>1, <1>6, <1>7, <1>8

LEMMA InsertIs ==
  ASSUME NEW table, NEW key, key \notin DOMAIN table, NEW row
  PROVE  Insert(table, key, row) = Chain!With(table, key, row)
  BY DEF Insert, Chain!With

\* A commit of the loop is a proposal or a verification of the abstract run.
LEMMA CommitMaps ==
  ASSUME CInv, NEW p \in Processes, Commit(p)
  PROVE  [Chain!Next]_(Chain!chainVars)
<1>1. /\ work[p].pc = "commit" /\ UNCHANGED <<run, rounds, budget, stopped, jobs>>
      /\ work[p].job \in DOMAIN jobs /\ Reply(Kind(p), work[p].answer)
      /\ Kind(p) = "verifier" => AboutShown(p)
  BY DEF Commit, CInv, RInv, Working, Holding
<1>2. CASE UNCHANGED imported
  BY <1>1, <1>2 DEF Chain!chainVars
<1>3. CASE ~UNCHANGED imported
  <2>1. PICK event : /\ event.artifact = work[p].answer
                     /\ Imports(p, event)
                     /\ imported' = Insert(imported, work[p].job, event)
    BY <1>3 DEF Commit
  <2>2. run # "cancelled" /\ Held(p).status = "running"
    BY <2>1 DEF Imports, Inactive
  <2>3. PICK r, kind : r = Round(p) /\ kind = Kind(p)
    OBVIOUS
  <2>4. work[p].job = <<kind, r>> /\ kind \in Kinds /\ r \in Nat \ {0}
    BY <1>1, <2>3 DEF CInv, RInv, LoopShapes, Kind, Round
  <2>5. \A s \in stopped : s.reason = "budget_bound"
    BY <1>1, <2>2, <2>4, NothingLeft DEF Held
  <2>6. CASE <<kind, r>> \in DOMAIN imported
    <3>1. DOMAIN imported' = DOMAIN imported /\ \A k \in DOMAIN imported : imported'[k] = imported[k]
      BY <2>1, <2>4, <2>6 DEF Insert
    <3>2. Artifacts' = Artifacts
      BY <3>1 DEF Artifacts
    <3> QED
      BY <1>1, <3>2 DEF Chain!chainVars, Artifacts
  <2> SUFFICES ASSUME <<kind, r>> \notin DOMAIN imported PROVE [Chain!Next]_(Chain!chainVars)
    BY <2>6
  <2>7. Artifacts' = Chain!With(Artifacts, <<kind, r>>, work[p].answer)
    BY <2>1, <2>4 DEF Artifacts, Insert, Chain!With
  <2>8. r \in 1..budget.rounds /\ (r > 1 => Earned(r - 1))
    <3>1. r > 1 => r <= budget.rounds /\ Earned(r - 1)
      <4>1. <<kind, r>>[2] = r
        OBVIOUS
      <4> QED
        BY <1>1, <2>4, <4>1 DEF CInv, RInv, RoundsLinked, Earned
    <3>2. budget.rounds \in 1..MaxRounds
      BY DEF CInv, Grounded
    <3> QED
      BY <2>4, <3>1, <3>2, LoopAssumption
  <2>9. ASSUME NEW key, key = <<kind, r>>, NEW a, a = work[p].answer
        PROVE  Chain!Commit(key, a)
    BY <1>1, <2>2, <2>5, <2>7, <2>9 DEF Chain!Commit, Chain!Open, Artifacts
  <2>10. CASE kind = "proposer"
    <3>1. PICK c \in Candidates : work[p].answer = <<c, "proposed">>
      BY <1>1, <2>3, <2>10 DEF Reply
    <3>2. Chain!Commit(<<"proposer", r>>, <<c, "proposed">>)
      BY <2>9, <2>10, <3>1
    <3>3. Chain!Propose(r, c)
      BY <2>8, <3>2 DEF Chain!Propose, Chain!Warranted, Earned
    <3> QED
      BY <2>8, <3>3 DEF Chain!Next
  <2>11. CASE kind = "verifier"
    <3>1. PICK o \in Outcomes : work[p].answer = <<work[p].answer[1], o>>
      BY <1>1, <2>3, <2>11 DEF Reply
    <3>2. /\ <<"proposer", r>> \in DOMAIN imported
          /\ imported[<<"proposer", r>>].artifact = Held(p).payload
      BY <1>1, <2>4, <2>11 DEF CInv, RInv, Shown, Held
    <3>3. PICK c : c = Artifacts[<<"proposer", r>>][1]
      OBVIOUS
    <3>4. work[p].answer = <<c, o>>
      BY <1>1, <2>3, <2>11, <3>1, <3>2, <3>3 DEF AboutShown, Artifacts
    <3>5. Chain!Commit(<<"verifier", r>>, <<c, o>>)
      BY <2>9, <2>11, <3>4
    <3>6. Chain!Verify(r, o)
      BY <3>2, <3>3, <3>5 DEF Chain!Verify, Chain!Commit, Artifacts
    <3> QED
      BY <2>8, <3>6 DEF Chain!Next
  <2> QED
    BY <2>4, <2>10, <2>11 DEF Kinds
<1> QED
  BY <1>2, <1>3

\* The record of a round is its conclusion.
LEMMA RecordMaps ==
  ASSUME CInv, NEW p \in Processes, RecordRound(p)
  PROVE  [Chain!Next]_(Chain!chainVars)
<1>1. /\ work[p].pc = "round" /\ UNCHANGED <<run, imported, budget, stopped, jobs>>
      /\ work[p].job \in DOMAIN jobs /\ Kind(p) = "verifier" /\ Committed(p)
      /\ Succeeded(work[p].job)
  BY DEF RecordRound, CInv, RInv, Working, Holding, Reviewing
<1>2. CASE UNCHANGED rounds
  BY <1>1, <1>2 DEF Chain!chainVars
<1>3. CASE ~UNCHANGED rounds
  <2>1. PICK r, candidate, finding :
          r = Round(p) /\ candidate = Held(p).payload /\ finding = work[p].answer
    OBVIOUS
  <2>2. rounds' = Insert(rounds, r, [candidate |-> candidate, finding |-> finding])
    BY <1>3, <2>1 DEF RecordRound
  <2>3. work[p].job = <<"verifier", r>> /\ r \in Nat \ {0}
    BY <1>1, <2>1 DEF CInv, RInv, LoopShapes, Kind, Round
  <2>4. CASE r \in DOMAIN rounds
    <3>1. rounds' = [k \in DOMAIN rounds |-> rounds[k]]
      BY <2>2, <2>4 DEF Insert
    <3>2. rounds = [k \in DOMAIN rounds |-> rounds[k]]
      BY DEF CInv, Grounded
    <3> QED
      BY <1>3, <3>1, <3>2
  <2>5. CASE r \notin DOMAIN rounds
    <3>1. \A s \in stopped : s.reason = "budget_bound"
      BY <1>1, <2>3, <2>5, NothingLeft DEF Kinds
    <3>2. /\ <<"proposer", r>> \in DOMAIN imported
          /\ imported[<<"proposer", r>>].artifact = candidate
          /\ <<"verifier", r>> \in DOMAIN imported
          /\ imported[<<"verifier", r>>].artifact = finding
      BY <1>1, <2>1, <2>3 DEF CInv, RInv, Shown, Held, Committed
    <3>3. rounds' = Chain!With(rounds, r, [candidate |-> candidate, finding |-> finding])
      BY <2>2, <2>5, InsertIs
    <3>4. r \in 1..budget.rounds
      <4>1. r > 1 => r <= budget.rounds
        BY <1>1, <2>3 DEF CInv, RInv, RoundsLinked
      <4>2. budget.rounds \in 1..MaxRounds
        BY DEF CInv, Grounded
      <4> QED
        BY <2>3, <4>1, <4>2, LoopAssumption
    <3>5. Chain!Conclude(r)
      BY <1>1, <2>5, <3>1, <3>2, <3>3 DEF Chain!Conclude, Chain!Open
    <3> QED
      BY <3>4, <3>5 DEF Chain!Next
  <2> QED
    BY <2>4, <2>5
<1> QED
  BY <1>2, <1>3

LEMMA GrantMaps ==
  ASSUME CInv, NEW p \in Processes, Grant(p)
  PROVE  [Chain!Next]_(Chain!chainVars)
<1>1. /\ UNCHANGED <<run, imported, rounds, stopped>>
      /\ \/ budget'.rounds = budget.rounds
         \/ /\ Earned(budget.rounds) /\ budget.rounds < MaxRounds
            /\ budget'.rounds = budget.rounds + 1
  BY Granting DEF Grant
<1>2. CASE budget'.rounds = budget.rounds
  BY <1>1, <1>2 DEF Chain!chainVars
<1>3. CASE /\ Earned(budget.rounds) /\ budget.rounds < MaxRounds
           /\ budget'.rounds = budget.rounds + 1
  <2>1. Chain!Grant
    BY <1>1, <1>3 DEF Chain!Grant, Chain!Warranted, Earned
  <2> QED
    BY <2>1 DEF Chain!Next
<1> QED
  BY <1>1, <1>2, <1>3

\* The stop a process drafted is one of the abstract run when it is written.
LEMMA StopMaps ==
  ASSUME CInv, NEW p \in Processes, RecordStop(p)
  PROVE  [Chain!Next]_(Chain!chainVars)
<1>1. /\ work[p].pc = "stop" /\ UNCHANGED <<run, imported, budget, rounds, jobs>>
      /\ UNCHANGED stopped \/ (stopped \subseteq work[p].draft /\ stopped' = work[p].draft)
  BY DEF RecordStop
<1>2. Justified(work[p].draft)
  BY <1>1 DEF CInv, Holding, Ending
<1>3. CASE UNCHANGED stopped
  BY <1>1, <1>3 DEF Chain!chainVars
<1>4. CASE ~UNCHANGED stopped
  <2>1. stopped = {} /\ stopped' = work[p].draft
    BY <1>1, <1>2, <1>4, OneStop
  <2>2. PICK r \in 1..budget.rounds, binding \in SUBSET {"tokens", "calls"} :
          \/ /\ work[p].draft = StopRecord("awaiting_review", "no_refinement_warranted", {}, r)
             /\ Unearned(r)
          \/ /\ work[p].draft = StopRecord("refinement_exhausted", "refinement_round_cap", {"rounds"}, r)
             /\ Earned(r) /\ r >= MaxRounds
          \/ /\ work[p].draft = StopRecord("refinement_exhausted", "budget_bound", binding, r)
             /\ Earned(r) /\ binding # {}
          \/ /\ work[p].draft = StopRecord("unresolved", "non_success", binding, r)
             /\ Ended(<<"proposer", r>>) \/ Ended(<<"verifier", r>>)
    BY <1>2 DEF Justified
  <2>3. budget.rounds \in 1..MaxRounds /\ MaxRounds \in Nat
    BY LoopAssumption DEF CInv, Grounded
  <2>4. Unearned(r) => r = budget.rounds
    BY <2>3 DEF CInv, Grounded, Earned, Unearned
  <2>5. r >= MaxRounds => r = budget.rounds
    BY <2>3
  <2>6. Ended(<<"proposer", r>>) \/ Ended(<<"verifier", r>>)
        => r = budget.rounds /\ r \notin DOMAIN rounds
    <3>1. Ended(<<"proposer", r>>) \/ Ended(<<"verifier", r>>) => r \notin DOMAIN rounds
      BY DEF CInv, Grounded, Succeeded, Ended
    <3>2. r \notin DOMAIN rounds => r = budget.rounds
      BY <2>3 DEF CInv, Grounded, Earned
    <3> QED
      BY <3>1, <3>2
  <2>7. ASSUME NEW reason \in {"no_refinement_warranted", "refinement_round_cap", "budget_bound",
                               "non_success"},
               NEW bound \in SUBSET {"tokens", "calls", "rounds"}, Chain!Stop(reason, bound, r)
        PROVE  Chain!Next
    BY <2>7 DEF Chain!Next, Chain!EndsAs
  <2>8. CASE /\ work[p].draft = StopRecord("awaiting_review", "no_refinement_warranted", {}, r)
             /\ Unearned(r)
    <3>1. Chain!Stop("no_refinement_warranted", {}, r)
      BY <1>1, <2>1, <2>4, <2>8 DEF Chain!Stop, Chain!EndsAs, Chain!Warranted, Unearned, StopRecord
    <3> QED
      BY <2>7, <3>1
  <2>9. CASE /\ work[p].draft = StopRecord("refinement_exhausted", "refinement_round_cap", {"rounds"}, r)
             /\ Earned(r) /\ r >= MaxRounds
    <3>1. Chain!Stop("refinement_round_cap", {"rounds"}, r)
      BY <1>1, <2>1, <2>5, <2>9 DEF Chain!Stop, Chain!EndsAs, Chain!Warranted, Earned, StopRecord
    <3> QED
      BY <2>7, <3>1
  <2>10. CASE /\ work[p].draft = StopRecord("refinement_exhausted", "budget_bound", binding, r)
              /\ Earned(r) /\ binding # {}
    <3>1. Chain!Stop("budget_bound", binding, r)
      BY <1>1, <2>1, <2>10 DEF Chain!Stop, Chain!EndsAs, Chain!Warranted, Earned, StopRecord
    <3> QED
      BY <2>7, <3>1
  <2>11. CASE /\ work[p].draft = StopRecord("unresolved", "non_success", binding, r)
              /\ Ended(<<"proposer", r>>) \/ Ended(<<"verifier", r>>)
    <3>1. Chain!Stop("non_success", binding, r)
      BY <1>1, <2>1, <2>6, <2>11 DEF Chain!Stop, Chain!EndsAs, StopRecord
    <3> QED
      BY <2>7, <3>1
  <2> QED
    BY <2>2, <2>8, <2>9, <2>10, <2>11
<1> QED
  BY <1>3, <1>4

\* A status the loop ends in is that of the stop on record.
LEMMA StatusMaps ==
  ASSUME NEW to, NEW key, MaySet(to, key), SetStatus(to, key),
         to \in {"paused", "running", "cancelled"}
           \/ (to \in Terminal /\ \E s \in stopped : s.status = to),
         to = "running" => run \notin Terminal,
         UNCHANGED <<imported, rounds, budget, stopped>>
  PROVE  [Chain!Next]_(Chain!chainVars)
<1>1. run' = to /\ (run = to \/ Allowed(run, to))
  BY DEF MaySet, SetStatus
<1>2. CASE run = to
  BY <1>1, <1>2 DEF Chain!chainVars
<1>3. CASE Allowed(run, to)
  <2>1. Chain!SetStatus(to)
    BY <1>1, <1>3 DEF Allowed, Terminal, Chain!SetStatus
  <2>2. to \in Terminal \cup {"running", "paused", "cancelled"}
    OBVIOUS
  <2> QED
    BY <2>1, <2>2 DEF Chain!Next
<1> QED
  BY <1>1, <1>2, <1>3

LEMMA ChainMaps ==
  ASSUME CInv, [LoopNext]_loopVars
  PROVE  [Chain!Next]_(Chain!chainVars)
<1>1. ASSUME NEW p \in Processes, Commit(p) \/ RecordRound(p) \/ Grant(p) \/ RecordStop(p)
      PROVE  [Chain!Next]_(Chain!chainVars)
  BY <1>1, CommitMaps, RecordMaps, GrantMaps, StopMaps
<1>2. ASSUME NEW p \in Processes, EndRun(p)
      PROVE  [Chain!Next]_(Chain!chainVars)
  <2>1. /\ work[p].pc = "status" /\ UNCHANGED <<imported, rounds, budget, stopped>>
        /\ Justified(work[p].draft) /\ stopped = work[p].draft
    BY <1>2 DEF EndRun, CInv, Holding, Ending
  <2>2. PICK d : stopped = {d} /\ d.status \in Terminal
    BY <2>1, OneStop
  <2>3. PICK to : to = (CHOOSE x \in work[p].draft : TRUE).status
    OBVIOUS
  <2>4. to \in Terminal /\ \E s \in stopped : s.status = to
    BY <2>1, <2>2, <2>3
  <2>5. IF MaySet(to, to) THEN SetStatus(to, to) ELSE UNCHANGED <<run, jobs, statusLog>>
    BY <1>2, <2>3 DEF EndRun
  <2>6. CASE UNCHANGED run
    BY <2>1, <2>6 DEF Chain!chainVars
  <2>7. CASE MaySet(to, to) /\ SetStatus(to, to)
    BY <2>1, <2>4, <2>7, StatusMaps DEF Terminal
  <2> QED
    BY <2>5, <2>6, <2>7
<1>3. CASE Pause \/ Resume \/ Cancel
  <2>1. PICK to, key : Command(to, key) /\ to \in {"paused", "running", "cancelled"}
    BY <1>3 DEF Pause, Resume, Cancel
  <2>2. /\ MaySet(to, key) /\ SetStatus(to, key) /\ UNCHANGED <<imported, rounds, budget, stopped>>
        /\ to = "running" => run \notin Terminal
    BY <2>1 DEF Command, MaySet, Allowed, Terminal
  <2> QED
    BY <2>1, <2>2, StatusMaps
<1>4. ASSUME UNCHANGED <<run, imported>>, RoundsQuiet
      PROVE  UNCHANGED Chain!chainVars
  BY <1>4 DEF RoundsQuiet, Chain!chainVars
<1>5. ASSUME NEW p \in Processes,
             \/ Claim(p) \/ ClaimLate(p) \/ Manifest(p) \/ Reserve(p) \/ Answer(p)
             \/ RecordUsage(p) \/ RecordCall(p) \/ Finish(p) \/ EnqueueVerifier(p)
             \/ Judge(p) \/ EnqueueRevision(p) \/ Fail(p) \/ Die(p)
      PROVE  UNCHANGED <<run, imported>>
  BY <1>5 DEF Claim, ClaimLate, Manifest, Reserve, Answer, RecordUsage, RecordCall, Finish,
     EnqueueVerifier, Judge, EnqueueRevision, Fail, Die, database
<1>6. ASSUME Deadline \/ RecoverJobs \/ UNCHANGED loopVars PROVE UNCHANGED <<run, imported>>
  BY <1>6 DEF Deadline, RecoverJobs, loopVars, database
<1> QED
  BY <1>1, <1>2, <1>3, <1>4, <1>5, <1>6, MostAreQuiet DEF LoopNext

(***************************************************************************)
(* For any processes, answers, budget, deaths, lapsed leases and commands, *)
(* the tables of a run (baseline_loop.py over sqlite_workspace.py) are     *)
(* those of the abstract run: every transaction is a step of it or none.   *)
(***************************************************************************)
THEOREM LoopImplementsRun == LoopSpec => ChainSpec
<1>1. LoopInit => Chain!Init
  <2> SUFFICES ASSUME LoopInit PROVE Chain!Init
    OBVIOUS
  <2>1. run = "running" /\ budget.rounds = 1 /\ imported = << >> /\ rounds = << >> /\ stopped = {}
    BY DEF LoopInit
  <2>2. [j \in DOMAIN imported |-> imported[j].artifact] = << >>
    BY <2>1
  <2> QED
    BY <2>1, <2>2 DEF Chain!Init
<1>2. CInv /\ [LoopNext]_loopVars => [Chain!Next]_(Chain!chainVars)
  BY ChainMaps
<1> QED
  BY <1>1, <1>2, ChainBegins, ChainStep, PTL DEF LoopSpec, ChainSpec, Chain!Spec

(***************************************************************************)
(* A run keeps what it promises: its tables are those of the abstract run, *)
(* and a cancelled one takes no more results (set_run_status,              *)
(* commit_proposal, finish_job, record_refinement_round, record_run_stop). *)
(***************************************************************************)
THEOREM RunIsKept == LoopSpec => RunKept
  BY CancellingIsFinal, LoopImplementsRun DEF RunKept
-----------------------------------------------------------------------------
(***************************************************************************)
(* What the tables and the budget of a run look like.  A status comes from *)
(* the abstract run, a job of a later round from a grant; a call is        *)
(* reserved below the bound, a claim counts an attempt below its own.      *)
(***************************************************************************)
Attempted == \A j \in DOMAIN jobs : jobs[j].attempts \in 0..MaxAttempts
Metered ==
  /\ budget \in [calls : 0..MaxCalls, tokens : Nat, rounds : Int]
  /\ \A p \in Processes : work[p].tokens \in Nat
Statuses == Terminal \cup {"running", "paused", "cancelled"}
LoopTypesInv == CInv /\ run \in Statuses /\ Attempted /\ Metered

LEMMA AttemptedStep ==
  ASSUME CInv, Attempted, [LoopNext]_loopVars
  PROVE  Attempted'
<1>1. \A j \in DOMAIN jobs : DOMAIN jobs[j] = {"status", "attempts", "payload", "result"}
  BY DEF CInv, RInv, LoopShapes
<1>2. MaxAttempts \in Nat
  BY LoopAssumption
<1>3. ASSUME DOMAIN jobs' = DOMAIN jobs, \A j \in DOMAIN jobs : jobs'[j].attempts = jobs[j].attempts
      PROVE  Attempted'
  BY <1>3 DEF Attempted
<1>4. CASE UNCHANGED jobs
  BY <1>4 DEF Attempted
<1>5. ASSUME NEW p \in Processes, Claim(p) PROVE Attempted'
  <2>1. PICK k \in DOMAIN jobs :
          /\ jobs[k].attempts < MaxAttempts
          /\ jobs' = [jobs EXCEPT ![k].status = "running", ![k].attempts = @ + 1]
    BY <1>5 DEF Claim
  <2>2. DOMAIN jobs' = DOMAIN jobs /\ jobs'[k].attempts = jobs[k].attempts + 1
        /\ \A j \in DOMAIN jobs : j # k => jobs'[j] = jobs[j]
    BY <1>1, <2>1
  <2> QED
    BY <1>2, <2>1, <2>2 DEF Attempted
<1>6. ASSUME NEW p \in Processes, ClaimLate(p) PROVE Attempted'
  BY <1>1, <1>3, <1>6 DEF ClaimLate
<1>7. ASSUME NEW j, NEW status, NEW result,
             jobs' = [jobs EXCEPT ![j].status = status, ![j].result = result]
      PROVE  Attempted'
  BY <1>1, <1>3, <1>7
<1>8. ASSUME NEW p \in Processes, Finish(p) \/ Fail(p) PROVE Attempted'
  <2>1. UNCHANGED jobs
        \/ \E j, status, result : jobs' = [jobs EXCEPT ![j].status = status, ![j].result = result]
    BY <1>8 DEF Finish, Fail
  <2> QED
    BY <1>4, <1>7, <2>1
<1>9. ASSUME NEW p \in Processes, EnqueueVerifier(p) \/ EnqueueRevision(p) PROVE Attempted'
  <2>1. UNCHANGED jobs \/ \E k, payload : jobs' = Insert(jobs, k, Job(payload))
    BY <1>9 DEF EnqueueVerifier, EnqueueRevision, Enqueue
  <2>2. ASSUME NEW k, NEW payload, jobs' = Insert(jobs, k, Job(payload)) PROVE Attempted'
    <3>1. Job(payload).attempts = 0
      BY DEF Job
    <3>2. \A j \in DOMAIN jobs' :
            (j \in DOMAIN jobs /\ jobs'[j] = jobs[j]) \/ jobs'[j] = Job(payload)
      BY <2>2 DEF Insert
    <3> QED
      BY <1>2, <3>1, <3>2 DEF Attempted
  <2> QED
    BY <1>4, <2>1, <2>2
<1>10. ASSUME NEW to, NEW key, SetStatus(to, key) PROVE Attempted'
  <2>1. CASE UNCHANGED jobs
    BY <1>4, <2>1
  <2>2. CASE jobs' = Cancelled(jobs)
    BY <1>1, <1>3, <2>2 DEF Cancelled
  <2> QED
    BY <1>10, <2>1, <2>2 DEF SetStatus
<1>11. ASSUME RecoverJobs PROVE Attempted'
  BY <1>1, <1>3, <1>11 DEF RecoverJobs
<1>12. ASSUME NEW p \in Processes, EndRun(p) PROVE Attempted'
  BY <1>4, <1>10, <1>12 DEF EndRun
<1>13. ASSUME Pause \/ Resume \/ Cancel PROVE Attempted'
  BY <1>10, <1>13 DEF Pause, Resume, Cancel, Command
<1>14. ASSUME NEW p \in Processes,
              \/ Manifest(p) \/ Reserve(p) \/ Answer(p) \/ RecordUsage(p) \/ RecordCall(p)
              \/ Commit(p) \/ RecordRound(p) \/ Judge(p) \/ Grant(p) \/ RecordStop(p) \/ Die(p)
       PROVE  UNCHANGED jobs
  BY <1>14 DEF Manifest, Reserve, Answer, RecordUsage, RecordCall, Commit, RecordRound, Judge,
     Grant, RecordStop, Die, database
<1>15. ASSUME Deadline \/ UNCHANGED loopVars PROVE UNCHANGED jobs
  BY <1>15 DEF Deadline, loopVars, database
<1> QED
  BY <1>4, <1>5, <1>6, <1>8, <1>9, <1>11, <1>12, <1>13, <1>14, <1>15 DEF LoopNext

LEMMA MeteredStep ==
  ASSUME CInv, Metered, [LoopNext]_loopVars
  PROVE  Metered'
<1>1. DOMAIN budget = {"calls", "tokens", "rounds"} /\ DOMAIN work = Processes
      /\ \A p \in Processes : DOMAIN work[p] = DOMAIN Idle
  BY DEF CInv, RInv, LoopShapes
<1>2. MaxCalls \in Nat /\ Usage \subseteq Nat
  BY LoopAssumption
<1>3. ASSUME NEW p \in Processes, NEW w, work' = [work EXCEPT ![p] = w],
             w.tokens \in Nat, UNCHANGED budget
      PROVE  Metered'
  BY <1>1, <1>3 DEF Metered
<1>4. ASSUME UNCHANGED <<work, budget>>
      PROVE  Metered'
  BY <1>4 DEF Metered
<1>5. ASSUME NEW p \in Processes, Leave(p), UNCHANGED budget PROVE Metered'
  <2>1. Idle.tokens \in Nat
    BY DEF Idle
  <2> QED
    BY <1>3, <1>5, <2>1 DEF Leave
<1>6. ASSUME NEW p \in Processes, NEW pc, Step(p, pc), UNCHANGED budget PROVE Metered'
  <2>1. work' = [work EXCEPT ![p] = [work[p] EXCEPT !.pc = pc]]
    BY <1>1, <1>6 DEF Step
  <2>2. [work[p] EXCEPT !.pc = pc].tokens = work[p].tokens /\ work[p].tokens \in Nat
    BY <1>1 DEF Metered, Idle
  <2> QED
    BY <1>3, <1>6, <2>1, <2>2
<1>7. ASSUME NEW p \in Processes, NEW draft, UNCHANGED budget,
             work' = [work EXCEPT ![p].pc = "stop", ![p].draft = draft]
      PROVE  Metered'
  <2>1. \A q \in Processes : work'[q].tokens = work[q].tokens
    BY <1>1, <1>7 DEF Idle
  <2> QED
    BY <1>7, <2>1 DEF Metered
<1>8. ASSUME NEW p \in Processes, Claim(p) PROVE Metered'
  <2>1. PICK j, pc : work' = [work EXCEPT ![p] = [Idle EXCEPT !.job = j, !.pc = pc]]
    BY <1>8 DEF Claim
  <2> DEFINE w == [Idle EXCEPT !.job = j, !.pc = pc]
  <2>2. w.tokens \in Nat /\ UNCHANGED budget /\ work' = [work EXCEPT ![p] = w]
    BY <1>8, <2>1 DEF Idle, Claim
  <2> HIDE DEF w
  <2> QED
    BY <1>3, <2>2
<1>9. ASSUME NEW p \in Processes, Reserve(p) PROVE Metered'
  <2>1. \A q \in Processes : work'[q].tokens = work[q].tokens
    BY <1>1, <1>9 DEF Reserve, Idle
  <2>2. CASE UNCHANGED budget
    BY <2>1, <2>2 DEF Metered
  <2>3. CASE budget' = [budget EXCEPT !.calls = @ + 1] /\ Exhausted = {}
    <3>1. "calls" \notin Exhausted
      BY <2>3
    <3>2. budget.calls < MaxCalls
      BY <1>2, <3>1 DEF Exhausted, Metered
    <3> QED
      BY <1>2, <2>1, <2>3, <3>2 DEF Metered
  <2> QED
    BY <1>9, <2>2, <2>3 DEF Reserve
<1>10. ASSUME NEW p \in Processes, Answer(p) PROVE Metered'
  <2>1. PICK u \in Usage : \E a :
          work' = [work EXCEPT ![p].pc = "usage", ![p].answer = a, ![p].tokens = u]
    BY <1>10 DEF Answer
  <2>2. \A q \in Processes : work'[q].tokens \in {work[q].tokens, u}
    BY <1>1, <2>1 DEF Idle
  <2>3. UNCHANGED budget
    BY <1>10 DEF Answer, database
  <2> QED
    BY <1>2, <2>2, <2>3 DEF Metered
<1>11. ASSUME NEW p \in Processes, RecordUsage(p) PROVE Metered'
  <2>1. \A q \in Processes : work'[q].tokens = work[q].tokens
    BY <1>1, <1>11 DEF RecordUsage, Step, Idle
  <2>2. budget' = [budget EXCEPT !.tokens = @ + work[p].tokens]
    BY <1>11 DEF RecordUsage
  <2> QED
    BY <2>1, <2>2 DEF Metered
<1>12. ASSUME NEW p \in Processes, Grant(p) PROVE Metered'
  <2>1. UNCHANGED budget
        \/ \E n \in Int : budget' = [budget EXCEPT !.rounds = n]
    <3>1. budget'.rounds \in Int
      BY StepStays DEF Stays
    <3>2. UNCHANGED budget \/ \E n : budget' = [budget EXCEPT !.rounds = n]
      BY <1>12 DEF Grant
    <3> QED
      BY <1>1, <3>1, <3>2
  <2>2. \A q \in Processes : work'[q].tokens = work[q].tokens
    BY <1>1, <1>12 DEF Grant, Step, Idle
  <2> QED
    BY <2>1, <2>2 DEF Metered
<1>13. ASSUME NEW p \in Processes,
              \/ Manifest(p) \/ RecordCall(p) \/ Commit(p) \/ Finish(p) \/ RecordRound(p)
              \/ RecordStop(p)
       PROVE  Metered'
  <2>1. UNCHANGED budget /\ (Leave(p) \/ \E pc : Step(p, pc))
    BY <1>13 DEF Manifest, RecordCall, Commit, Finish, RecordRound, RecordStop
  <2> QED
    BY <1>5, <1>6, <2>1
<1>14. ASSUME NEW p \in Processes, Judge(p) \/ Fail(p) PROVE Metered'
  <2>1. UNCHANGED budget
        /\ \/ Leave(p) \/ (\E pc : Step(p, pc))
           \/ \E draft : work' = [work EXCEPT ![p].pc = "stop", ![p].draft = draft]
    BY <1>14 DEF Judge, Fail, database
  <2> QED
    BY <1>5, <1>6, <1>7, <2>1
<1>15. ASSUME NEW p \in Processes, EnqueueVerifier(p) \/ EnqueueRevision(p) \/ EndRun(p) \/ Die(p)
       PROVE  Metered'
  <2>1. UNCHANGED budget /\ Leave(p)
    BY <1>15 DEF EnqueueVerifier, EnqueueRevision, EndRun, Die, database
  <2> QED
    BY <1>5, <2>1
<1>16. ASSUME \/ \E p \in Processes : ClaimLate(p)
              \/ Pause \/ Resume \/ Cancel \/ Deadline \/ RecoverJobs \/ UNCHANGED loopVars
       PROVE  Metered'
  <2>1. UNCHANGED <<budget, work>>
    BY <1>16 DEF ClaimLate, Pause, Resume, Cancel, Command, Deadline, RecoverJobs, loopVars, database
  <2> QED
    BY <1>4, <2>1
<1> QED
  BY <1>8, <1>9, <1>10, <1>11, <1>12, <1>13, <1>14, <1>15, <1>16 DEF LoopNext

\* A job of a later round was granted, and grants stay within the bound.
LEMMA TablesTyped == ASSUME LoopTypesInv PROVE LoopTypeOK
<1>1. budget.rounds \in 1..MaxRounds /\ MaxRounds \in Nat
  BY LoopAssumption DEF LoopTypesInv, CInv, Grounded
<1>2. DOMAIN jobs \subseteq {"proposer", "verifier"} \X (1..MaxRounds)
  <2> SUFFICES ASSUME NEW j \in DOMAIN jobs
               PROVE  j \in {"proposer", "verifier"} \X (1..MaxRounds)
    OBVIOUS
  <2>1. j \in {"proposer", "verifier"} \X (Nat \ {0}) /\ (j[2] > 1 => j[2] <= budget.rounds)
    BY DEF LoopTypesInv, CInv, RInv, LoopShapes, Kinds, RoundsLinked
  <2>2. j[2] \in 1..MaxRounds
    BY <1>1, <2>1
  <2> QED
    BY <2>1, <2>2
<1>3. budget \in [calls : 0..MaxCalls, tokens : Nat, rounds : 1..MaxRounds]
  BY <1>1 DEF LoopTypesInv, CInv, RInv, LoopShapes, Metered, Grounded
<1> QED
  BY <1>2, <1>3 DEF LoopTypeOK, LoopTypesInv, Attempted, Statuses

LEMMA TablesStep == LoopTypesInv /\ [LoopNext]_loopVars => LoopTypesInv'
<1> SUFFICES ASSUME LoopTypesInv, [LoopNext]_loopVars PROVE LoopTypesInv'
  OBVIOUS
<1>1. CInv' /\ Attempted' /\ Metered'
  BY ChainStep, AttemptedStep, MeteredStep DEF LoopTypesInv
<1>2. [Chain!Next]_(Chain!chainVars)
  BY ChainMaps DEF LoopTypesInv
<1>3. run' = run \/ run' \in Statuses
  BY <1>2 DEF Chain!Next, Chain!Unseen, Chain!chainVars, Chain!SetStatus, Chain!Propose, Chain!Verify,
     Chain!Commit, Chain!Conclude, Chain!Grant, Chain!Stop, Statuses
<1> QED
  BY <1>1, <1>3 DEF LoopTypesInv

LEMMA TablesBegin == LoopInit => LoopTypesInv
<1> SUFFICES ASSUME LoopInit PROVE LoopTypesInv
  OBVIOUS
<1>1. CInv
  BY ChainBegins
<1>2. \A j \in DOMAIN jobs : jobs[j].attempts = 0
  BY DEF LoopInit, Job
<1>3. \A p \in Processes : work[p].tokens = 0
  BY DEF LoopInit, Idle
<1> QED
  BY <1>1, <1>2, <1>3, LoopAssumption DEF LoopTypesInv, Attempted, Metered, Statuses, LoopInit

\* The tables and the budget of a run have their shape, whatever raced, died or was
\* commanded: no call is reserved past MaxCalls, no job claimed past its attempts and no
\* round granted past the cap (reserve_call, claim_job, reserve_refinement_round).
LEMMA LoopTyped == LoopSpec => []LoopTypeOK
<1>1. LoopTypesInv => LoopTypeOK
  BY TablesTyped
<1> QED
  BY <1>1, TablesBegin, TablesStep, PTL DEF LoopSpec
=============================================================================
