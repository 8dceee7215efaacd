------------------------------ MODULE MCServices ------------------------------
(***************************************************************************)
(* The services that share no state, each alone: a behaviour is a          *)
(* behaviour of one of them, chosen at the start.  The corpus store with   *)
(* its commands side by side, the snapshot fetcher, the baseline loop with *)
(* two processes, the formal bridge with its repair sessions, the          *)
(* literature sweep, the references it leads to and the batch acquisition, *)
(* the research lead with its iterations, the synthesis workspace and the  *)
(* ingestion of a vector partition with two processes each.                *)
(***************************************************************************)
EXTENDS MCCorpusStore, ServiceParts

CONSTANTS f1, f2, f3, p1, p2, c1, c2, x1, u1, u2, u3, w1, w2, i1, i2, y1, y2, y3, z1, z2, z3

\* Two of each part's processes may be exchanged, or two of the hypotheses or proofs it
\* does not tell apart.  Only one part takes steps, so all are exchanged together.
MCOther ==
  (f1 :> f2) @@ (f2 :> f1) @@ (w1 :> w2) @@ (w2 :> w1) @@ (i1 :> i2) @@ (i2 :> i1)
    @@ (y1 :> y2) @@ (y2 :> y1) @@ (z1 :> z2) @@ (z2 :> z1)
MCSymmetry ==
  {p @@ [x \in DOMAIN MCOther |-> IF p[p1] = p1 THEN x ELSE MCOther[x]] :
     p \in Permutations({p1, p2})}

\* A proposal, an admission that cites it, another at a later state, an invalidation.
MCEntry(id, type, subject, decision, inputs) ==
  [id |-> id, type |-> type, subject |-> subject, decision |-> decision, inputs |-> inputs]
MCEntries ==
  {MCEntry("q", "captured_proposal", "q", "none", {}),
   MCEntry("a", "graph_admission", "x", "admitted_under_policy", {"q"}),
   MCEntry("b", "graph_admission", "x", "excluded_under_policy", {"q"}),
   MCEntry("v", "influence_invalidation", "x", "none", {})}

MCProviders == <<"crossref", "arxiv">>
MCHosts == <<"a", "b", "a">>
MCReferences == {<<refs, <<u1, u2>> >> : refs \in [1..3 -> {u1, u2, u3, Unreadable}]}

VARIABLE part

serviceVars ==
  <<storeVars, fetchVars, loopVars, bridgeVars, sweepVars, followVars, batchVars, leadVars,
    synthesisVars, partitionVars>>

Init ==
  /\ part \in {"store", "fetch", "loop", "bridge", "sweep", "follow", "batch", "lead",
              "synthesis", "partition"}
  /\ StoreInit /\ FetchInit /\ LoopInit /\ BridgeInit
  /\ SweepInit /\ FollowInit /\ BatchInit /\ LeadInit
  /\ SynthesisInit /\ PartitionInit
  \* The input of a part at rest is chosen once.
  /\ part # "follow" => origins = CHOOSE choice \in References : TRUE

Next ==
  /\ UNCHANGED part
  /\ \/ part = "store" /\ StoreNext
     \/ part # "store" /\ UNCHANGED storeVars
  /\ \/ part = "fetch" /\ FetchNext
     \/ part # "fetch" /\ UNCHANGED fetchVars
  /\ \/ part = "loop" /\ LoopNext
     \/ part # "loop" /\ UNCHANGED loopVars
  /\ \/ part = "bridge" /\ BridgeNext
     \/ part # "bridge" /\ UNCHANGED bridgeVars
  /\ \/ part = "sweep" /\ SweepNext
     \/ part # "sweep" /\ UNCHANGED sweepVars
  /\ \/ part = "follow" /\ FollowNext
     \/ part # "follow" /\ UNCHANGED followVars
  /\ \/ part = "batch" /\ BatchNext
     \/ part # "batch" /\ UNCHANGED batchVars
  /\ \/ part = "lead" /\ LeadNext
     \/ part # "lead" /\ UNCHANGED leadVars
  /\ \/ part = "synthesis" /\ SynthesisNext
     \/ part # "synthesis" /\ UNCHANGED synthesisVars
  /\ \/ part = "partition" /\ PartitionNext
     \/ part # "partition" /\ UNCHANGED partitionVars

Spec == Init /\ [][Next]_<<part, serviceVars>>

\* tests/test_phase4d_discovery_v2.py:362 and docs/adrs/0081:116, without the exception.
ReportsVerify ==
  /\ sweeping = "reported" => SweepVerifies
  /\ batching = "reported" => BatchVerifies
=============================================================================
