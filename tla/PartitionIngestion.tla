--------------------------- MODULE PartitionIngestion ---------------------------
(***************************************************************************)
(* The ingestion of documents into a vector partition                      *)
(* (embedding/ingestion.py, partition.py, embedding_cli.py): each document *)
(* is looked up in the rights, read, embedded by a paid call and charged   *)
(* against the budgets; then the artifacts are written one by one, the     *)
(* manifest that names them, and the record of the ingestion.  Files are   *)
(* immutable: the same bytes are accepted, others refused, and a file is   *)
(* written in place, so that a death leaves it torn.  Ingestions of one    *)
(* partition may follow one another or run side by side.                   *)
(***************************************************************************)
EXTENDS Naturals, FiniteSets

CONSTANTS Ingestions,          \* the processes
          Corpus,              \* documents, numbered in the order of their ids
          Vectors,             \* what the provider may answer for a text
          TokenCounts,         \* the input tokens a call may report
          PerCallReserve, MaxInputTokens, MaxCost, Rate, MaxEmbedCalls,
          MaxWithdrawals       \* bound on the rights withdrawn

ASSUME PartitionAssumption == Corpus \subseteq Nat /\ TokenCounts \subseteq Nat

VARIABLES permitted,           \* documents whose rights name the processor
          artifacts,           \* document -> its file, if there is one
          manifest,            \* the manifest's file, if there is one
          ingestion,           \* what each process does
          returned,            \* history: what the ingestions returned
          abreast              \* history: two ingestions were under way at once

partitionVars == <<permitted, artifacts, manifest, ingestion, returned, abreast>>

\* A file is whole, with what it says, or torn.
Whole(body) == [torn |-> FALSE, body |-> body]
Torn == [torn |-> TRUE]

Embedders == {i \in Ingestions : ingestion[i].at \notin {"new", "over"}}
FirstOf(documents) == CHOOSE d \in documents : \A e \in documents : d <= e

\* load_partition: the manifest is whole and every artifact it names is there, whole,
\* with the vector it names.
PartitionLoads(files, top) ==
  \E entries \in {file.body : file \in {f \in top : ~f.torn}} :
    \A d \in DOMAIN entries : files[d] = {Whole(entries[d])}

\* An ingestion is over: it raised, died or returned its record.
GiveUp(i) ==
  ingestion' = [ingestion EXCEPT ![i] = [at |-> "over", sent |-> @.sent, barred |-> @.barred]]

PartitionInit ==
  /\ permitted = Corpus
  /\ artifacts = [d \in Corpus |-> {}]
  /\ manifest = {}
  /\ ingestion = [i \in Ingestions |-> [at |-> "new", sent |-> {}, barred |-> {}]]
  /\ returned = {}
  /\ abreast = FALSE

\* The documents asked for are within the number of calls; none is embedded yet.
BeginIngestion(i) ==
  /\ ingestion[i].at = "new"
  /\ \E documents \in SUBSET Corpus :
       /\ documents # {} /\ Cardinality(documents) <= MaxEmbedCalls
       /\ ingestion' = [ingestion EXCEPT ![i] =
            [at |-> "checking rights", left |-> documents, vectors |-> [d \in {} |-> 0],
             spent |-> 0, sent |-> {}, barred |-> Corpus \ permitted]]
  /\ abreast' = (abreast \/ Embedders # {})
  /\ UNCHANGED <<permitted, artifacts, manifest, returned>>

\* The rights are required for the processor before the source is opened.
RequireRights(i) ==
  /\ ingestion[i].at = "checking rights"
  /\ IF FirstOf(ingestion[i].left) \in permitted
     THEN ingestion' = [ingestion EXCEPT ![i].at = "embedding"]
     ELSE GiveUp(i)
  /\ UNCHANGED <<permitted, artifacts, manifest, returned, abreast>>

Affordable(tokens, spent) ==
  /\ tokens <= PerCallReserve
  /\ spent <= MaxInputTokens
  /\ spent * Rate <= MaxCost

\* The document's vector is held; after the last document the files are written.
Embedded(now, v, tokens) ==
  LET d == FirstOf(now.left)
      vectors == [e \in DOMAIN now.vectors \cup {d} |-> IF e = d THEN v ELSE now.vectors[e]]
      last == now.left = {d}
  IN  [now EXCEPT !.at = IF last THEN "writing" ELSE "checking rights",
                  !.left = IF last THEN DOMAIN vectors ELSE now.left \ {d},
                  !.vectors = vectors,
                  !.spent = now.spent + tokens,
                  !.sent = now.sent \cup {d}]

\* The text is sent.  The call raises, or its answer is of another provider, model or
\* dimension, or saturates a coordinate, or does not fit the budgets: then the whole
\* ingestion raises.
EmbedDocument(i) ==
  LET now == ingestion[i] IN
  /\ now.at = "embedding"
  /\ \/ ingestion' = [ingestion EXCEPT ![i] =
          [at |-> "over", sent |-> now.sent \cup {FirstOf(now.left)}, barred |-> now.barred]]
     \/ \E v \in Vectors, tokens \in TokenCounts :
          /\ Affordable(tokens, now.spent + tokens)
          /\ ingestion' = [ingestion EXCEPT ![i] = Embedded(now, v, tokens)]
  /\ UNCHANGED <<permitted, artifacts, manifest, returned, abreast>>

\* What is written next: the artifact of the first document left, then the manifest.
ArtifactNext(i) == ingestion[i].left # {}
FileNow(i) ==
  IF ArtifactNext(i) THEN artifacts[FirstOf(ingestion[i].left)] ELSE manifest
FileWanted(i) ==
  Whole(IF ArtifactNext(i) THEN ingestion[i].vectors[FirstOf(ingestion[i].left)]
        ELSE ingestion[i].vectors)

Put(i, file) ==
  IF ArtifactNext(i)
  THEN /\ artifacts' = [artifacts EXCEPT ![FirstOf(ingestion[i].left)] = {file}]
       /\ UNCHANGED manifest
  ELSE manifest' = {file} /\ UNCHANGED artifacts

\* The file is there: on to the next one, and after the manifest to the loading.
Passed(now) ==
  IF now.left = {} THEN [now EXCEPT !.at = "loading"]
  ELSE [now EXCEPT !.at = "writing", !.left = now.left \ {FirstOf(now.left)}]
Written(i) == ingestion' = [ingestion EXCEPT ![i] = Passed(ingestion[i])]

\* _write_immutable: an existing file with the same bytes is left, with others it is
\* refused; a missing one is created.
LookAtFile(i) ==
  /\ ingestion[i].at = "writing"
  /\ \/ FileNow(i) = {FileWanted(i)} /\ Written(i)
     \/ FileNow(i) \notin {{}, {FileWanted(i)}} /\ GiveUp(i)
     \/ FileNow(i) = {} /\ ingestion' = [ingestion EXCEPT ![i].at = "creating"]
  /\ UNCHANGED <<permitted, artifacts, manifest, returned, abreast>>

\* It is opened for writing, which empties it, and then filled.
CreateFile(i) ==
  /\ ingestion[i].at = "creating"
  /\ Put(i, Torn)
  /\ ingestion' = [ingestion EXCEPT ![i].at = "filling"]
  /\ UNCHANGED <<permitted, returned, abreast>>

FillFile(i) ==
  /\ ingestion[i].at = "filling"
  /\ Put(i, FileWanted(i))
  /\ Written(i)
  /\ UNCHANGED <<permitted, returned, abreast>>

\* The partition is loaded from its files before the record is returned.
LoadPartition(i) ==
  /\ ingestion[i].at = "loading"
  /\ returned' = IF PartitionLoads(artifacts, manifest)
                THEN returned \cup {ingestion[i].vectors} ELSE returned
  /\ GiveUp(i)
  /\ UNCHANGED <<permitted, artifacts, manifest, abreast>>

WithdrawRights ==
  /\ Cardinality(Corpus \ permitted) < MaxWithdrawals
  /\ \E d \in permitted : permitted' = permitted \ {d}
  /\ UNCHANGED <<artifacts, manifest, ingestion, returned, abreast>>

IngestionDies(i) ==
  /\ i \in Embedders
  /\ GiveUp(i)
  /\ UNCHANGED <<permitted, artifacts, manifest, returned, abreast>>

PartitionNext ==
  \/ \E i \in Ingestions :
       \/ BeginIngestion(i) \/ RequireRights(i) \/ EmbedDocument(i)
       \/ LookAtFile(i) \/ CreateFile(i) \/ FillFile(i) \/ LoadPartition(i)
       \/ IngestionDies(i)
  \/ WithdrawRights

PartitionSpec == PartitionInit /\ [][PartitionNext]_partitionVars
-----------------------------------------------------------------------------

\* Files and processes have their shape.
PartitionTypeOK ==
  /\ permitted \subseteq Corpus
  /\ \A d \in Corpus : artifacts[d] \subseteq {Torn} \cup {Whole(v) : v \in Vectors}
  /\ Cardinality(manifest) <= 1
  /\ \A i \in Ingestions :
       ingestion[i].at \in {"new", "checking rights", "embedding", "writing", "creating",
                            "filling", "loading", "over"}

\* No text whose rights were withdrawn before an ingestion began is sent by it
\* (ingestion.py:452).
WithdrawnNotSent ==
  \A i \in Ingestions : ingestion[i].sent \cap ingestion[i].barred = {}

\* A manifest that is whole loads, and an ingestion that returned its record keeps the
\* partition it recorded, whatever dies or is tried again later with other vectors or
\* documents, unless two ingestions ran side by side (partition.py:474, 660).
PartitionKept ==
  ~abreast =>
    /\ manifest \in {{}, {Torn}} \/ PartitionLoads(artifacts, manifest)
    /\ \A vectors \in returned : manifest = {Whole(vectors)}
=============================================================================
