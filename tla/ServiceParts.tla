------------------------------ MODULE ServiceParts ------------------------------
(***************************************************************************)
(* The services together: the properties they share.  Each has its own     *)
(* specification; none reads what another keeps.                           *)
(***************************************************************************)
EXTENDS CorpusStore, BaselineLoop, SnapshotFetch, FormalBridge, WrittenReports, RuntimeLead

\* The type invariants of the parts (corpus_service, fetcher.py, baseline_loop.py with
\* sqlite_workspace.py, phase3b, phase4d, batch_acquisition.py, lead.py, synthesis and
\* embedding): what each of them keeps has its shape and bounds.
ServicesTypeOK ==
  /\ StoreTypeOK /\ FetchTypeOK /\ LoopTypeOK /\ BridgeTypeOK
  /\ SweepTypeOK /\ FollowTypeOK /\ BatchTypeOK /\ LeadTypeOK
  /\ SynthesisTypeOK /\ PartitionTypeOK
=============================================================================
