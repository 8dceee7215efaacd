------------------------------ MODULE FormalBridge ------------------------------
(***************************************************************************)
(* phase3b: requests to the Lean checker and where their findings lead     *)
(* back to.  bridge.py builds a request from a phase 2 proposal and records*)
(* the provenance, service.py checks requests, repair.py replaces a failed *)
(* proof by a proposer's within bounds, workspace.py keeps findings, and   *)
(* trace_finding resolves one to the proposal it formalizes.               *)
(*                                                                         *)
(* Commands run one after another on one workspace; a bridge command and a *)
(* repair session have points where the process may die.  The theorem of a *)
(* request is its proposal's and no repair changes it; its hash is the     *)
(* record itself.                                                          *)
(***************************************************************************)
EXTENDS Integers, Sequences, FiniteSets

CONSTANTS
  Proposals,        \* committed phase 2 proposals
  Proofs,           \* proof fragments
  Names,            \* declaration names an operator may give
  RepairAttempts,   \* RepairLimits.max_attempts, the origin's submission counted
  MaxRequests,      \* bound: request files
  MaxFindings       \* bound: findings saved when a check or a session begins

VARIABLES
  requests,     \* request files: [id, proposal, proof, name]
  bridges,      \* recorded bridges: [request, status], by status of the phase 2 run
  building,     \* the bridge whose request file is written and which is not saved yet
  findings,     \* [request, id, manifest, outcome] of every saved attempt
  repairing,    \* attempts of the living session, as findings; << >> when there is none
  ending        \* termination of the session

bridgeVars == <<requests, bridges, building, findings, repairing, ending>>

NoBridge == {}
BridgeInit ==
  /\ requests = {} /\ bridges = {} /\ building = NoBridge /\ findings = {}
  /\ repairing = <<>> /\ ending = "none"
-----------------------------------------------------------------------------
\* The identity of a bridged request: the name an operator gives is not part of it.
BridgedId(proposal, proof) == <<"bridge", proposal, proof>>

\* bridge-request writes the request file before it records the bridge.
BuildBridge ==
  /\ building = NoBridge /\ repairing = <<>>
  /\ \E proposal \in Proposals, proof \in Proofs, name \in Names,
        status \in {"running", "awaiting_review"} :
       LET request == [id |-> BridgedId(proposal, proof), proposal |-> proposal, proof |-> proof,
                       name |-> name] IN
       /\ Cardinality(requests \cup {request}) <= MaxRequests
       /\ requests' = requests \cup {request}
       /\ building' = {[request |-> request, status |-> status]}
  /\ UNCHANGED <<bridges, findings, repairing, ending>>

\* A bridge that exists is left as it is: the same record, or one of another instant,
\* which is refused.  The process may also die before.
SaveBridge ==
  /\ building # NoBridge
  /\ building' = NoBridge
  /\ bridges' \in {bridges, bridges \cup building}
  /\ UNCHANGED <<requests, findings, repairing, ending>>

\* An operator takes a request and edits its proof or its name.
EditByHand ==
  /\ building = NoBridge /\ repairing = <<>>
  /\ \E r \in requests, proof \in Proofs, name \in Names :
       LET edited == [r EXCEPT !.proof = proof, !.name = name] IN
       /\ Cardinality(requests \cup {edited}) <= MaxRequests
       /\ requests' = requests \cup {edited}
  /\ UNCHANGED <<bridges, building, findings, repairing, ending>>

\* One outcome of each kind: proved, a failed elaboration, and "timeout" for all others.
Checked == {"kernel_checked"}
Repairable == {"elaboration_failure"}
Executed == Checked \cup Repairable \cup {"timeout"}

\* FormalCheckingService.check: a request that does not parse loses its id; one whose
\* wrapper is too large keeps it; only what was executed has a wrapper manifest.
Verdicts3B(request) ==
  {[request |-> request, id |-> request.id, manifest |-> TRUE, outcome |-> o] : o \in Executed}
  \cup {[request |-> request, id |-> id, manifest |-> FALSE, outcome |-> "policy_rejection"] :
          id \in {request.id, <<"rejected">>}}

Check ==
  /\ building = NoBridge /\ repairing = <<>> /\ Cardinality(findings) < MaxFindings
  /\ \E r \in requests : \E finding \in Verdicts3B(r) : findings' = findings \cup {finding}
  /\ UNCHANGED <<requests, bridges, building, repairing, ending>>
-----------------------------------------------------------------------------
\* Slip: a repaired candidate goes under the id of the rejected one.
RepairedUnderOrigin(origin, proof, n) == [origin EXCEPT !.proof = proof]

\* _repaired_request_bytes: a separate record that differs in the proof only.
Repaired(origin, proof, n) == [origin EXCEPT !.id = <<"repair", origin.id, n, proof>>, !.proof = proof]

RepairStarts ==
  /\ building = NoBridge /\ repairing = <<>> /\ Cardinality(findings) < MaxFindings
  /\ \E r \in requests : \E finding \in Verdicts3B(r) :
       /\ finding.id = r.id      \* repair-live refuses a request that does not parse
       /\ repairing' = <<finding>>
  /\ ending' = "none"
  /\ UNCHANGED <<requests, bridges, building, findings>>

Latest == repairing[Len(repairing)]
Proposable == /\ repairing # <<>> /\ ending = "none" /\ Latest.outcome \in Repairable
              /\ Len(repairing) < RepairAttempts
SeenProofs == {repairing[i].request.proof : i \in DOMAIN repairing}

\* Slip: a fragment is compared with the last one only.
FreshToLast(proof) == proof # Latest.request.proof

\* A fragment that was seen before is not submitted again.
Fresh(proof) == proof \notin SeenProofs

\* A proposed fragment is checked; the validator's refusal of it ends the session.
RepairChecks ==
  /\ Proposable
  /\ \E proof \in Proofs :
       /\ Fresh(proof)
       /\ \E finding \in Verdicts3B(Repaired(repairing[1].request, proof, Len(repairing))) :
            /\ repairing' = Append(repairing, finding)
            /\ ending' = IF finding.outcome = "policy_rejection" THEN "proposer_rejected" ELSE "none"
  /\ UNCHANGED <<requests, bridges, building, findings>>

RepairEnds ==
  /\ repairing # <<>> /\ ending = "none"
  /\ ending' \in IF Latest.outcome \in Checked THEN {"kernel_checked"}
                 ELSE IF Latest.outcome \notin Repairable THEN {"outcome_not_repairable"}
                 ELSE IF ~Proposable THEN {"attempts_exhausted"}
                 ELSE {"proposer_declined", "duplicate_candidate"}
  /\ UNCHANGED <<requests, bridges, building, findings, repairing>>

\* repair-live saves all attempts when the session is over, in one command.
RepairSaves ==
  /\ repairing # <<>> /\ ending # "none"
  /\ findings' = findings \cup {repairing[i] : i \in DOMAIN repairing}
  /\ repairing' = <<>>
  /\ UNCHANGED <<requests, bridges, building, ending>>

\* The process dies, or a proposer raises: nothing of the session was saved.
RepairDies ==
  /\ repairing # <<>>
  /\ repairing' = <<>> /\ ending' = "none"
  /\ UNCHANGED <<requests, bridges, building, findings>>

BridgeNext ==
  \/ BuildBridge \/ SaveBridge \/ EditByHand \/ Check
  \/ RepairStarts \/ RepairChecks \/ RepairEnds \/ RepairSaves \/ RepairDies

BridgeSpec == BridgeInit /\ [][BridgeNext]_bridgeVars
-----------------------------------------------------------------------------
\* trace_finding: by the hash of the request that was executed, else by its id.  Of
\* several bridges it takes the first by id, here any of them.
Traced(f) ==
  LET byHash == {b \in bridges : f.manifest /\ b.request = f.request}
      byId == {b \in bridges : b.request.id = f.id}
  IN IF byHash # {} THEN byHash ELSE byId

BridgeTypeOK ==
  /\ building \subseteq [request : requests, status : {"running", "awaiting_review"}]
  /\ Cardinality(building) <= 1
  /\ \A b \in bridges : b.request \in requests /\ b.request.id = BridgedId(b.request.proposal, b.request.proof)

\* What a repair proposed is in no request file and is nobody's formalization of a
\* proposal: its findings lead to no bridge (repair.py, phase3b_bridge.py), even when its
\* origin was bridged and another bridge has the same proof.
RepairHasNoLineage == \A f \in findings : f.request \notin requests => Traced(f) = {}

\* A session spends its attempts on different proofs of one theorem, each after a failed
\* elaboration, and ends as checked exactly when its last attempt was (repair.py:295-365).
SessionSound ==
  /\ Len(repairing) <= RepairAttempts /\ Cardinality(SeenProofs) = Len(repairing)
  /\ \A i \in 1..(Len(repairing) - 1) : repairing[i].outcome \in Repairable
  /\ \A i \in DOMAIN repairing : /\ repairing[i].request.proposal = repairing[1].request.proposal
                                 /\ repairing[i].request.name = repairing[1].request.name
  /\ repairing # <<>> => (ending = "kernel_checked" => Latest.outcome \in Checked)

\* docs/adrs/0043-phase2-to-phase3b-request-bridge.md:147-151: the request id is the
\* "fallback for a policy-rejection finding that has no wrapper manifest", and a trace
\* reports absent "for a hand-authored request rather than inventing a lineage".
NoInventedLineage ==
  \A f \in findings : f.manifest => \A b \in Traced(f) : b.request = f.request
=============================================================================
