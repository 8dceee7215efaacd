---------------------------- MODULE WrittenReports ----------------------------
(***************************************************************************)
(* The parts that write what is checked when it is read again: a           *)
(* literature sweep, the references of acquired documents, a batch of      *)
(* URLs, the synthesis workspace and the vector partition.  They share no  *)
(* state.                                                                  *)
(***************************************************************************)
EXTENDS LiteratureSweep, FollowReferences, BatchAcquisition, SynthesisWorkspace,
        PartitionIngestion

\* What a part wrote passes what checks it when it is read again: the reports of a
\* sweep, of followed references and of a batch (verify_report_v2, verify_followed,
\* verify_batch_report), whatever came, failed or was refused, unless a body came empty;
\* the synthesis workspace at its next open and its exports (verify_export_bytes),
\* whatever was interleaved; the vector partition and the record of its ingestion
\* (load_partition), whatever died and was tried again.
WrittenChecksOut ==
  /\ SweepChecksOut /\ FollowChecksOut /\ BatchChecksOut
  /\ ExportsAreViews /\ OpensAgain /\ OutputWasSaved
  /\ PartitionKept /\ WithdrawnNotSent
=============================================================================
