------------------------------ MODULE RuntimeLead ------------------------------
(***************************************************************************)
(* runtime/lead.py: ResearchLeadRuntime.run, one session of iterations     *)
(* over one frozen problem, each a run of the Phase 2 loop with one round, *)
(* and the ledger of attempts (runtime/context.py) the lead compares with. *)
(*                                                                         *)
(* The loop is BaselineLoop's with a cap of one round and advanced twice:  *)
(* a job is claimed, its call reserved, its answer committed or not.  The  *)
(* process may die between any two of these and be started again under     *)
(* the same session: what the database holds stays, what the lead          *)
(* remembers is gone.  One measured quantity, tokens, stands for the       *)
(* tokens, the cost and the time of an iteration.                          *)
(***************************************************************************)
EXTENDS Integers, Sequences, FiniteSets, SequencesExt, Sums

CONSTANTS
  Hypotheses,        \* digests of what a proposer may answer with
  Signatures,        \* finding signatures of a verifier that returns findings
  MaxIterations, MaxModelCalls, StagnationWindow,   \* the session configuration
  PerIteration,      \* per_iteration_budget.max_attempts
  IterationTokens,   \* the measured bound of an iteration
  CallEstimate,      \* tokens reserve_call asks for
  CallUsage,         \* tokens a call may turn out to use
  Window,            \* max_entries of the ledger
  MaxLaunches        \* bound on starts of the session

NoHypothesis == "no hypothesis"

ASSUME LeadAssumption ==
  /\ MaxIterations \in Nat \ {0} /\ MaxModelCalls \in Nat
  /\ PerIteration \in Nat /\ PerIteration >= 2
  /\ IterationTokens \in Nat \ {0} /\ CallEstimate \in Nat /\ CallUsage \subseteq Nat
  /\ StagnationWindow \in 1..MaxIterations /\ Window \in Nat \ {0}
  /\ NoHypothesis \notin Hypotheses

NoFindings == "no findings"

VARIABLES
  iterations,   \* iteration -> its run: [status, proposer, verifier, calls, digest, verdict]
  leadPc,       \* where the process is
  lead,         \* what it remembers: [records, shown, seen, streak, reason]
  session,      \* session.json: none, or [reason, calls]
  verifications,\* history: digest -> verifier calls spent on it
  launches

leadVars == <<iterations, leadPc, lead, session, verifications, launches>>

NewRun ==
  [status |-> "running", proposer |-> "queued", verifier |-> "none", calls |-> 0,
   tokens |-> 0, digest |-> NoHypothesis, verdict |-> "none", signature |-> NoFindings]

NoMemory == [records |-> <<>>, seen |-> {}, streak |-> 0, reason |-> "none"]

LeadInit ==
  /\ iterations = <<>> /\ leadPc = "off" /\ lead = NoMemory
  /\ session = [reason |-> "none", calls |-> 0]
  /\ verifications = [h \in Hypotheses |-> 0] /\ launches = 0
-----------------------------------------------------------------------------
Iteration == Len(lead.records) + 1
Current == iterations[Iteration]
SetRun(r) == iterations' = [iterations EXCEPT ![Iteration] = r]
GoTo(pc) == leadPc' = pc
Told(recs) == Tally([i \in 1..Len(recs) |-> recs[i].calls])
Digests == [i \in DOMAIN lead.records |-> lead.records[i].digest]

Launch ==
  /\ leadPc = "off" /\ launches < MaxLaunches
  /\ launches' = launches + 1 /\ lead' = NoMemory /\ GoTo("bounds")
  /\ UNCHANGED <<iterations, session, verifications>>

\* What the lead remembers goes with the process.
LeadDies ==
  /\ leadPc # "off" /\ GoTo("off") /\ lead' = NoMemory
  /\ UNCHANGED <<iterations, session, verifications, launches>>

Stop(reason) == lead' = [lead EXCEPT !.reason = reason] /\ GoTo("write")

\* Slip: the question is whether anything is left.
AnythingLeft == Told(lead.records) < MaxModelCalls

\* _exhausted_bound: there must be room for all the calls an iteration may make.
RoomForIteration == Told(lead.records) + PerIteration <= MaxModelCalls

CheckBounds ==
  /\ leadPc = "bounds"
  /\ IF Iteration > MaxIterations THEN Stop("iterations_exhausted")
     ELSE IF ~RoomForIteration THEN Stop("budget_exhausted")
     ELSE GoTo("start") /\ UNCHANGED lead
  /\ UNCHANGED <<iterations, session, verifications, launches>>

\* loop.start: a run of that name that still runs is taken up again.
StartIteration ==
  /\ leadPc = "start" /\ GoTo("half")
  /\ \/ Len(iterations) < Iteration /\ iterations' = Append(iterations, NewRun)
     \/ /\ Iteration <= Len(iterations) /\ Current.status = "running"
        /\ UNCHANGED iterations
  /\ UNCHANGED <<lead, session, verifications, launches>>

\* One that is over refuses to be running: the exception leaves the session.
StartRefused ==
  /\ leadPc = "start" /\ Iteration <= Len(iterations) /\ Current.status # "running"
  /\ GoTo("off") /\ lead' = NoMemory
  /\ UNCHANGED <<iterations, session, verifications, launches>>
-----------------------------------------------------------------------------
\* _budget().exhausted_dimensions: what is used up, not what an estimate would exceed.
UsedUp == Current.calls >= PerIteration \/ Current.tokens >= IterationTokens

\* advance(): the job that is queued, if there is one, and if its call may be reserved.
Advance(job) ==
  /\ leadPc \in {"half", "verify"} /\ Current.status = "running"
  /\ IF job = "proposer" THEN Current.proposer = "queued"
     ELSE Current.proposer # "queued" /\ Current.verifier = "queued"
  /\ IF UsedUp \/ Current.tokens + CallEstimate > IterationTokens
     THEN /\ SetRun([Current EXCEPT ![job] = "failed", !.status = "unresolved"])
          /\ GoTo(IF leadPc = "half" THEN "look" ELSE "close")
          /\ UNCHANGED verifications
     ELSE /\ SetRun([Current EXCEPT ![job] = "running", !.calls = @ + 1])
          /\ GoTo(IF leadPc = "half" THEN "asked" ELSE "asked again")
          /\ verifications' = IF job = "verifier"
                              THEN [verifications EXCEPT ![Current.digest] = @ + 1]
                              ELSE verifications
  /\ UNCHANGED <<lead, session, launches>>

NothingToDo ==
  /\ leadPc \in {"half", "verify"}
  /\ Current.status # "running" \/ "queued" \notin {Current.proposer, Current.verifier}
  /\ GoTo(IF leadPc = "half" THEN "look" ELSE "close")
  /\ UNCHANGED <<iterations, lead, session, verifications, launches>>

Behind == GoTo(IF leadPc = "asked" THEN "look" ELSE "close")
Running == CHOOSE job \in {"proposer", "verifier"} : Current[job] = "running"
Waiting == leadPc \in {"asked", "asked again"}

\* The answer is no proposal or no finding: the job fails and the run with it.
CallFails(n) ==
  /\ Waiting /\ Behind
  /\ SetRun([Current EXCEPT ![Running] = "failed", !.status = "unresolved", !.tokens = @ + n])
  /\ UNCHANGED <<lead, session, verifications, launches>>

\* It came after the deadline: nothing is committed and the job stays as it is.
CallLate(n) ==
  /\ Waiting /\ Behind /\ SetRun([Current EXCEPT !.tokens = @ + n])
  /\ UNCHANGED <<lead, session, verifications, launches>>

\* A proposal is committed, its job finished and the verifier's enqueued.
Proposed(n, h) ==
  /\ Waiting /\ Running = "proposer" /\ Behind
  /\ SetRun([Current EXCEPT !.proposer = "succeeded", !.digest = h, !.verifier = "queued",
               !.tokens = @ + n])
  /\ UNCHANGED <<lead, session, verifications, launches>>

Judged(n, verdict, s) ==
  /\ Waiting /\ Running = "verifier" /\ Behind
  /\ SetRun([Current EXCEPT !.verifier = "succeeded", !.verdict = verdict, !.signature = s,
               !.tokens = @ + n,
               !.status = IF verdict = "manual_review" THEN "awaiting_review" ELSE "unresolved"])
  /\ UNCHANGED <<lead, session, verifications, launches>>

\* Slip: a proposal is compared with the attempts the proposer is shown.
ShownToProposer(h) ==
  \E i \in DOMAIN Digests : i > Len(Digests) - Window /\ Digests[i] = h

\* Every digest of the session counts, those dropped from the window included.
Tried(h) == \E i \in DOMAIN Digests : Digests[i] = h

\* Without a proposal the iteration is over; a repeated one is cancelled unverified.
Look ==
  /\ leadPc = "look"
  /\ IF Current.digest = NoHypothesis THEN GoTo("close") /\ UNCHANGED iterations
     ELSE IF Tried(Current.digest)
     THEN SetRun([Current EXCEPT !.status = "cancelled",
                    !.verifier = IF @ = "queued" THEN "cancelled" ELSE @])
          /\ GoTo("close")
     ELSE GoTo("verify") /\ UNCHANGED iterations
  /\ UNCHANGED <<lead, session, verifications, launches>>
-----------------------------------------------------------------------------
\* Which half did not come, and whether a bound of the iteration is why.
Conclusion ==
  CASE Current.digest = NoHypothesis -> "proposer_failed"
    [] Current.digest # NoHypothesis /\ Tried(Current.digest) -> "duplicate"
    [] /\ Current.digest # NoHypothesis /\ ~Tried(Current.digest)
       /\ Current.verdict = "none" -> "verifier_failed"
    [] OTHER -> Current.verdict

HitBound ==
  /\ UsedUp
  /\ \/ Conclusion = "proposer_failed" /\ Current.calls < 1
     \/ Conclusion = "verifier_failed" /\ Current.calls < 2

Productive ==
  /\ Current.verdict # "none" /\ ~Tried(Current.digest)
  /\ Current.signature \notin lead.seen

Streak == IF Productive THEN 0 ELSE lead.streak + 1

ReasonAfter ==
  CASE HitBound -> "budget_exhausted"
    [] Conclusion = "manual_review" -> "awaiting_human_review"
    [] Conclusion \in {"proposer_failed", "verifier_failed"} /\ ~HitBound -> "iteration_failed"
    [] OTHER -> IF Streak >= StagnationWindow THEN "stagnated" ELSE "none"

\* Slip: the record tells the calls that were answered.
AnsweredCalls == Cardinality({j \in {"proposer", "verifier"} : Current[j] = "succeeded"})

\* The calls a record tells are those of the run's budget, of whatever process.
MeasuredCalls == Current.calls

Close ==
  /\ leadPc = "close"
  /\ lead' = [lead EXCEPT
       !.records = Append(@, [digest |-> Current.digest, outcome |-> Conclusion,
                              calls |-> MeasuredCalls, productive |-> Productive]),
       !.seen = @ \cup {Current.signature}, !.streak = Streak, !.reason = ReasonAfter]
  /\ GoTo(IF ReasonAfter = "none" THEN "bounds" ELSE "write")
  /\ UNCHANGED <<iterations, session, verifications, launches>>

WriteSession ==
  /\ leadPc = "write" /\ GoTo("off") /\ lead' = NoMemory
  /\ session' = [reason |-> lead.reason, calls |-> Told(lead.records)]
  /\ UNCHANGED <<iterations, verifications, launches>>

LeadNext ==
  \/ Launch \/ LeadDies \/ CheckBounds \/ StartIteration \/ StartRefused \/ NothingToDo
  \/ \E job \in {"proposer", "verifier"} : Advance(job)
  \/ Look \/ Close \/ WriteSession
  \/ \E n \in CallUsage :
       \/ CallFails(n) \/ CallLate(n)
       \/ \E h \in Hypotheses : Proposed(n, h)
       \/ \E s \in Signatures \cup {NoFindings} :
            \E v \in {"manual_review", "reject", "unresolved_finding"} : Judged(n, v, s)

LeadSpec == LeadInit /\ [][LeadNext]_leadVars
-----------------------------------------------------------------------------
LeadTypeOK ==
  /\ Len(iterations) <= MaxIterations
  /\ \A i \in DOMAIN iterations :
       /\ iterations[i].calls \in 0..PerIteration /\ iterations[i].tokens \in Nat
       /\ iterations[i].digest \in Hypotheses \cup {NoHypothesis}
  /\ lead.streak \in 0..MaxIterations /\ session.calls \in Nat
  /\ leadPc \in {"off", "bounds", "start", "half", "asked", "look", "verify", "asked again",
                 "close", "write"}

Spent == Told(iterations)

\* The calls a session made, over all its starts, stay within its bound (lead.py:22-26),
\* a session that is written tells them all, and no hypothesis is given to the verifier
\* twice (lead.py:397-402), however long ago it was tried and whatever died in between.
SessionAccounted ==
  /\ Spent <= MaxModelCalls
  /\ session.reason # "none" => session.calls = Spent
  /\ \A h \in Hypotheses : verifications[h] <= 1

\* lead.py:456-462, "two very different causes and they must not be reported as one": a
\* session does not fail when a call was refused for its bound.  It does (README).
BoundIsNoFailure ==
  session.reason = "iteration_failed" =>
    \A i \in DOMAIN iterations :
      iterations[i].tokens + CallEstimate > IterationTokens =>
        iterations[i].verifier # "failed" \/ iterations[i].calls = 2
=============================================================================
