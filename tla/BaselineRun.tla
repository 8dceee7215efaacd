------------------------------ MODULE BaselineRun ------------------------------
(***************************************************************************)
(* What a bounded research run promises the operator who reads its         *)
(* workspace (phase2/sqlite_workspace.py, phase2/baseline_loop.py): an     *)
(* artifact is committed once for its round and never to a cancelled run;  *)
(* a verifier's artifact is about the candidate committed for its round;   *)
(* a round is concluded with the two artifacts committed for it, and the   *)
(* next one is granted only because that finding warranted it; the run     *)
(* stops once, for a reason its rounds bear out, and takes its terminal    *)
(* status from that stop.  Jobs, leases, attempts, calls, processes and    *)
(* deaths are not visible here.                                            *)
(***************************************************************************)
EXTENDS Integers

CONSTANTS
  Candidates, Outcomes,  \* what a proposer returns; the classes of a finding
  Warrants,              \* the classes that warrant another round
  Terminal,              \* the statuses a run ends in by itself
  MaxRounds

VARIABLES
  status,     \* the run's status
  committed,  \* <<kind, round>> -> <<candidate, class>>
  rounds,     \* round -> [candidate, finding], once it is concluded
  granted,    \* rounds granted so far
  stopped     \* the stop record, if any

chainVars == <<status, committed, rounds, granted, stopped>>

Init ==
  /\ status = "running" /\ granted = 1
  /\ committed = <<>> /\ rounds = <<>> /\ stopped = {}

\* A table with one row more.
With(table, key, row) ==
  [k \in DOMAIN table \cup {key} |-> IF k = key THEN row ELSE table[k]]

Warranted(r) == r \in DOMAIN rounds /\ rounds[r].finding[2] \in Warrants
\* Behind any other stop there is nothing left to do.
Open == \A s \in stopped : s.reason = "budget_bound"

Commit(key, artifact) ==
  /\ status # "cancelled" /\ Open /\ key \notin DOMAIN committed
  /\ committed' = With(committed, key, artifact)
  /\ UNCHANGED <<status, rounds, granted, stopped>>

Propose(r, candidate) ==
  /\ r > 1 => Warranted(r - 1)
  /\ Commit(<<"proposer", r>>, <<candidate, "proposed">>)

Verify(r, class) ==
  /\ <<"proposer", r>> \in DOMAIN committed
  /\ Commit(<<"verifier", r>>, <<committed[<<"proposer", r>>][1], class>>)

Conclude(r) ==
  /\ Open /\ r \notin DOMAIN rounds
  /\ {<<"proposer", r>>, <<"verifier", r>>} \subseteq DOMAIN committed
  /\ rounds' = With(rounds, r, [candidate |-> committed[<<"proposer", r>>],
                                finding |-> committed[<<"verifier", r>>]])
  /\ UNCHANGED <<status, committed, granted, stopped>>

Grant ==
  /\ Warranted(granted) /\ granted < MaxRounds
  /\ granted' = granted + 1
  /\ UNCHANGED <<status, committed, rounds, stopped>>

\* Why a run stops, and how it then ends.
EndsAs ==
  [no_refinement_warranted |-> "awaiting_review", refinement_round_cap |-> "refinement_exhausted",
   budget_bound |-> "refinement_exhausted", non_success |-> "unresolved"]

Stop(reason, binding, r) ==
  /\ stopped = {}
  /\ \/ reason = "no_refinement_warranted" /\ binding = {}
        /\ r = granted /\ r \in DOMAIN rounds /\ ~Warranted(r)
     \/ reason = "refinement_round_cap" /\ binding = {"rounds"}
        /\ r = granted /\ r >= MaxRounds /\ Warranted(r)
     \/ reason = "budget_bound" /\ binding # {} /\ Warranted(r)
     \/ reason = "non_success" /\ r = granted /\ r \notin DOMAIN rounds
  /\ stopped' = {[status |-> EndsAs[reason], reason |-> reason, binding |-> binding, round |-> r]}
  /\ UNCHANGED <<status, committed, rounds, granted>>

SetStatus(to) ==
  /\ \/ status = "running" /\ to = "paused"
     \/ status = "paused" /\ to = "running"
     \/ status # "cancelled" /\ to = "cancelled"
     \/ status = "running" /\ to \in Terminal /\ \E s \in stopped : s.status = to
  /\ status' = to
  /\ UNCHANGED <<committed, rounds, granted, stopped>>

\* Most of the work shows nothing here: a claim, a reservation, a call, a death.
Unseen == UNCHANGED chainVars

Next ==
  \/ Unseen
  \/ \E r \in 1..granted :
       \/ \E c \in Candidates : Propose(r, c)
       \/ \E o \in Outcomes : Verify(r, o)
       \/ Conclude(r)
       \/ \E reason \in DOMAIN EndsAs, binding \in SUBSET {"tokens", "calls", "rounds"} :
            Stop(reason, binding, r)
  \/ Grant
  \/ \E to \in Terminal \cup {"running", "paused", "cancelled"} : SetStatus(to)

Spec == Init /\ [][Next]_chainVars
=============================================================================
