------------------------------ MODULE CorpusStore ------------------------------
(***************************************************************************)
(* corpus_service/service.py and generation.py: ingestion of tranches into *)
(* the data root, whole-store generations, takedown; and, as the reader    *)
(* that takedown must silence, build_projection of corpus_retrieval.       *)
(*                                                                         *)
(* One ingestion at a time holds ingest.lock; a takedown takes no lock, so *)
(* one per document may run beside it unless Overlap is FALSE (an operator *)
(* who runs one command at a time).  Every ledger append and every object  *)
(* written is a step; the process may die between any two.                 *)
(*                                                                         *)
(* Objects are named by what is hashed: <<"bytes", None, x>> for source or *)
(* extracted bytes x, <<"spans", d, x>> for the spans of document d over   *)
(* the text x, <<"vector", d, x>> for its embedding.  A generation is its  *)
(* own identity.  Rights are the embedding right: "open" allows it to the  *)
(* one processor there is, "closed" does not, "quarantined" admits nothing.*)
(***************************************************************************)
EXTENDS Integers, FiniteSetsExt, SequencesExt

CONSTANTS
  Order,       \* the documents, in identifier order
  Sources,     \* source and extracted bytes
  Text,        \* source -> the bytes extracted from it, or None: parse failure
  Runs,        \* run ids
  Tranche,     \* run id -> [policy, docs: some documents -> their source]
  Grade,       \* policy -> document -> "open", "closed" or "quarantined"
  Overlap,     \* whether a takedown may run beside an ingestion or another one
  MaxCrashes,  \* bound on the number of deaths
  None

Docs == ToSet(Order)
Grades == {"open", "closed", "quarantined"}

ASSUME CorpusAssumption ==
  /\ Order \in Seq(Docs) /\ IsInjective(Order) /\ None \notin Docs \cup Sources
  /\ Text \in [Sources -> Sources \cup {None}]
  /\ \A r \in Runs :
       /\ Tranche[r].policy \in DOMAIN Grade /\ DOMAIN Tranche[r].docs \subseteq Docs
       /\ \A d \in DOMAIN Tranche[r].docs :
            Tranche[r].docs[d] \in Sources /\ Grade[Tranche[r].policy][d] \in Grades
  /\ Overlap \in BOOLEAN /\ MaxCrashes \in Nat

VARIABLES
  objects,      \* objects/: the stored objects
  acquired,     \* acquisitions ledger: document -> its sources, in order
  indexed,      \* rights ledger, spans_parsed: <<document, source>>
  rights,       \* rights ledger: document -> its latest decision of any kind
                \* (state) and its latest rights_derived one (derived)
  allowed,      \* Phase 4A: the documents whose latest embedding right is ALLOWED
  published,    \* lineage ledger: the published generations, in order
  invalidated,  \* lineage ledger: the invalidated generations
  tombstoned,   \* tombstones ledger
  projections,  \* retrieval projections: the generations they index
  used,         \* usage ledger: run id -> the generation of its report, or None
  ingest,       \* the ingestion that holds ingest.lock
  takedown,     \* document -> its takedown
  struck,       \* history: the documents whose takedown ever began
  crashes

ledgers == <<acquired, indexed, rights, allowed, published, invalidated,
             tombstoned, used>>
storeVars == <<ledgers, objects, projections, ingest, takedown, struck, crashes>>

Bytes(x) == <<"bytes", None, x>>
Spans(d, x) == <<"spans", d, x>>
Vector(d, x) == <<"vector", d, x>>

NoIngest == [at |-> "idle", run |-> None, todo |-> {}, skip |-> {}, built |-> None]
NoTakedown == [at |-> "idle", dependent |-> {}, vectors |-> {}, doomed |-> {}]

StoreInit ==
  /\ objects = {}
  /\ acquired = [d \in Docs |-> <<>>]
  /\ indexed = {}
  /\ rights = [d \in Docs |-> [state |-> None, derived |-> None]]
  /\ allowed = {}
  /\ published = <<>>
  /\ invalidated = {}
  /\ tombstoned = {}
  /\ projections = {}
  /\ used = [r \in Runs |-> None]
  /\ ingest = NoIngest
  /\ takedown = [d \in Docs |-> NoTakedown]
  /\ struck = {}
  /\ crashes = 0
-----------------------------------------------------------------------------
(* What the ledgers say.                                                   *)

Known(d) == acquired[d] # <<>>
Source(d) == Last(acquired[d])
LatestGeneration == IF published = <<>> THEN None ELSE Last(published)

Entry(d) ==
  [doc |-> d, source |-> Source(d), decision |-> rights[d].state,
   indexed |-> <<d, Source(d)>> \in indexed]

\* build_current_generation, of the documents with a rights state.
CurrentGeneration ==
  LET active == {d \in Docs \ tombstoned : Known(d) /\ rights[d].state # None}
      Held(d) == rights[d].state.grade = "quarantined"
  IN  [entries |-> {Entry(d) : d \in {e \in active : ~Held(e)}},
       quarantined |-> {Entry(d) : d \in {e \in active : Held(e)}},
       tombstoned |-> tombstoned]

DocsOf(entries) == {e.doc : e \in entries}

\* Slip: the gate asks the lineage ledger only.
ServedUnlessInvalidated(g) == g \notin invalidated

\* require_active_generation lets the generation through.
Served(g) == g \notin invalidated /\ DocsOf(g.entries) \cap tombstoned = {}

VectorsOf(g) == {Vector(e.doc, e.source) : e \in {f \in g.entries : f.indexed}}

\* load_projection and load_chunked_projection accept it.
Loads(g) == Served(g) /\ VectorsOf(g) \subseteq objects
-----------------------------------------------------------------------------
(* ingest_tranche.  The acquisitions and the rights are written under      *)
(* ingest.lock only, so of what it reads at the start just the tombstones  *)
(* may be stale later.                                                     *)

Quiet == ingest.at = "idle"
NoTakedowns == \A d \in Docs : takedown[d].at = "idle"

BeginIngest(r) ==
  /\ Quiet
  /\ Overlap \/ NoTakedowns
  /\ used[r] = None
  /\ ingest' = [at |-> "acquire", run |-> r,
                todo |-> DOMAIN Tranche[r].docs, skip |-> tombstoned, built |-> None]
  /\ UNCHANGED <<ledgers, objects, projections, takedown, struck, crashes>>

At(stage) == ingest.at = stage
Goto(stage) == ingest' = [ingest EXCEPT !.at = stage]
HasDocument == At("acquire") /\ ingest.todo # {}
Place(d) == CHOOSE i \in DOMAIN Order : Order[i] = d
\* The documents of the manifest come in identifier order.
Doc == CHOOSE d \in ingest.todo : \A e \in ingest.todo : Place(d) <= Place(e)
NextDocument == ingest' = [ingest EXCEPT !.at = "acquire", !.todo = @ \ {Doc}]
New == Tranche[ingest.run].docs[Doc]

\* Slip: a tombstone does not stop a document from coming back.
SkipsNothing(d) == FALSE

Skips(d) == d \in ingest.skip

\* derive_document_rights, and the quarantine of what does not parse.
Decision ==
  LET policy == Tranche[ingest.run].policy
      grade == Grade[policy][Doc]
  IN  [policy |-> policy, source |-> New,
       grade |-> IF grade # "quarantined" /\ Text[New] = None
                 THEN "quarantined" ELSE grade]

Skip ==
  /\ HasDocument
  /\ Skips(Doc)
  /\ NextDocument
  /\ UNCHANGED <<ledgers, objects, projections, takedown, struck, crashes>>

Reacquired == Known(Doc) /\ Source(Doc) = New

Reuse ==
  /\ HasDocument
  /\ ~Skips(Doc)
  /\ Reacquired /\ Bytes(New) \in objects
  /\ Goto("parse")
  /\ UNCHANGED <<ledgers, objects, projections, takedown, struck, crashes>>

\* ObjectMissingError: "a replay never re-fetches".
AbortMissing ==
  /\ HasDocument
  /\ ~Skips(Doc)
  /\ Reacquired /\ Bytes(New) \notin objects
  /\ ingest' = NoIngest
  /\ UNCHANGED <<ledgers, objects, projections, takedown, struck, crashes>>

Store ==
  /\ HasDocument
  /\ ~Skips(Doc)
  /\ ~Reacquired
  /\ objects' = objects \cup {Bytes(New)}
  /\ Goto("record")
  /\ UNCHANGED <<ledgers, projections, takedown, struck, crashes>>

Record ==
  /\ At("record")
  /\ acquired' = [acquired EXCEPT ![Doc] = Append(@, New)]
  /\ Goto("parse")
  /\ UNCHANGED <<objects, indexed, rights, allowed, published, invalidated,
                 tombstoned, used, projections, takedown, struck, crashes>>

NeedsText == Decision.grade # "quarantined" /\ <<Doc, New>> \notin indexed

Extract ==
  /\ At("parse")
  /\ NeedsText
  /\ objects' = objects \cup {Bytes(Text[New]), Spans(Doc, Text[New])}
  /\ Goto("index")
  /\ UNCHANGED <<ledgers, projections, takedown, struck, crashes>>

NoExtract ==
  /\ At("parse")
  /\ ~NeedsText
  /\ Goto("decide")
  /\ UNCHANGED <<ledgers, objects, projections, takedown, struck, crashes>>

Index ==
  /\ At("index")
  /\ indexed' = indexed \cup {<<Doc, New>>}
  /\ Goto("decide")
  /\ UNCHANGED <<objects, acquired, rights, allowed, published, invalidated,
                 tombstoned, used, projections, takedown, struck, crashes>>

Decides == At("decide") /\ rights[Doc].state # Decision

\* Slip: a document with a decision keeps the Phase 4A record it has.
GrantFirst ==
  /\ Decides
  /\ Decision.grade # "quarantined"
  /\ allowed' = IF Decision.grade = "open" /\ rights[Doc].derived = None
                THEN allowed \cup {Doc} ELSE allowed
  /\ Goto("append")
  /\ UNCHANGED <<objects, acquired, indexed, rights, published, invalidated,
                 tombstoned, used, projections, takedown, struck, crashes>>

\* write_derived_decision: an embedding that is not allowed writes nothing.
GrantRight ==
  /\ Decides
  /\ Decision.grade # "quarantined"
  /\ allowed' = IF Decision.grade = "open" THEN allowed \cup {Doc} ELSE allowed
  /\ Goto("append")
  /\ UNCHANGED <<objects, acquired, indexed, rights, published, invalidated,
                 tombstoned, used, projections, takedown, struck, crashes>>

AppendDerived ==
  /\ At("append")
  /\ rights' = [rights EXCEPT ![Doc] = [state |-> Decision, derived |-> Decision]]
  /\ NextDocument
  /\ UNCHANGED <<objects, acquired, indexed, allowed, published, invalidated,
                 tombstoned, used, projections, takedown, struck, crashes>>

AppendQuarantined ==
  /\ Decides
  /\ Decision.grade = "quarantined"
  /\ rights' = [rights EXCEPT ![Doc].state = Decision]
  /\ NextDocument
  /\ UNCHANGED <<objects, acquired, indexed, allowed, published, invalidated,
                 tombstoned, used, projections, takedown, struck, crashes>>

KeepDecision ==
  /\ At("decide")
  /\ rights[Doc].state = Decision
  /\ NextDocument
  /\ UNCHANGED <<ledgers, objects, projections, takedown, struck, crashes>>

IngestExhausted == At("acquire") /\ ingest.todo = {}
Undecided == {d \in Docs \ tombstoned : Known(d) /\ rights[d].state = None}

\* corpus_store_inconsistent.
AbortInconsistent ==
  /\ IngestExhausted
  /\ Undecided # {}
  /\ ingest' = NoIngest
  /\ UNCHANGED <<ledgers, objects, projections, takedown, struck, crashes>>

\* Slip: a document without a rights state is left out of the generation.
BuildAnyway ==
  /\ IngestExhausted
  /\ ingest' = [ingest EXCEPT !.at = "publish", !.built = CurrentGeneration]
  /\ UNCHANGED <<ledgers, objects, projections, takedown, struck, crashes>>

Build ==
  /\ IngestExhausted
  /\ Undecided = {}
  /\ ingest' = [ingest EXCEPT !.at = "publish", !.built = CurrentGeneration]
  /\ UNCHANGED <<ledgers, objects, projections, takedown, struck, crashes>>

\* Slip: only the latest generation is looked at before one is published.
PublishAgain ==
  /\ At("publish")
  /\ published' = IF ingest.built = LatestGeneration THEN published
                  ELSE Append(published, ingest.built)
  /\ Goto("report")
  /\ UNCHANGED <<objects, acquired, indexed, rights, allowed, invalidated,
                 tombstoned, used, projections, takedown, struck, crashes>>

\* publish_generation; the manifest file is write-once under its own hash.
Publish ==
  /\ At("publish")
  /\ published' = IF ingest.built \in ToSet(published) THEN published
                  ELSE Append(published, ingest.built)
  /\ Goto("report")
  /\ UNCHANGED <<objects, acquired, indexed, rights, allowed, invalidated,
                 tombstoned, used, projections, takedown, struck, crashes>>

FinishIngest ==
  /\ At("report")
  /\ used' = [used EXCEPT ![ingest.run] = ingest.built]
  /\ ingest' = NoIngest
  /\ UNCHANGED <<objects, acquired, indexed, rights, allowed, published,
                 invalidated, tombstoned, projections, takedown, struck, crashes>>

CrashIngest ==
  /\ ~Quiet
  /\ crashes < MaxCrashes
  /\ crashes' = crashes + 1
  /\ ingest' = NoIngest
  /\ UNCHANGED <<ledgers, objects, projections, takedown, struck>>
-----------------------------------------------------------------------------
(* record_takedown.                                                        *)

Texts(d) == {Text[p[2]] : p \in {q \in indexed : q[1] = d}}

\* Slip: the vectors of every document of a projection are collected.
VectorsOfAll(d) == UNION {VectorsOf(g) : g \in {p \in projections : Loads(p)}}

\* The vectors of d that a projection which still loads names.
VectorsFound(d) ==
  {Vector(d, s) : s \in Sources}
  \cap UNION {VectorsOf(g) : g \in {p \in projections : Loads(p)}}

\* Slip: only the latest generation is taken to depend on a document.
DependentLatest(d) == {g \in ToSet(published) : g = LatestGeneration /\ d \in DocsOf(g.entries)}

Dependent(d) == {g \in ToSet(published) : d \in DocsOf(g.entries)}

\* Slip: what other documents were parsed into is not looked up.
NoTexts(d) == {}

\* What is still referenced: the texts of all other documents, read at the start with
\* the document's own, and the sources of the other active ones, read before the unlinks.
OtherTexts(d) == {Bytes(x) : x \in UNION {Texts(e) : e \in Docs \ {d}}}

OtherSources(d) ==
  {Bytes(s) : s \in UNION {ToSet(acquired[e]) : e \in Docs \ (tombstoned \cup {d})}}

\* The reads, and Phase 4A's revocation; nothing is lost by dying in between.
BeginTakedown(d) ==
  /\ takedown[d].at = "idle"
  /\ Overlap \/ (Quiet /\ NoTakedowns)
  /\ d \notin tombstoned
  /\ Known(d)
  /\ takedown' = [takedown EXCEPT ![d] =
       [at |-> "invalidate", dependent |-> Dependent(d),
        vectors |-> VectorsFound(d),
        doomed |-> ({Bytes(s) : s \in ToSet(acquired[d])}
                    \cup {Spans(d, x) : x \in Texts(d)}
                    \cup {Bytes(x) : x \in Texts(d)}) \ OtherTexts(d)]]
  /\ allowed' = allowed \ {d}
  /\ struck' = struck \cup {d}
  /\ UNCHANGED <<objects, acquired, indexed, rights, published, invalidated,
                 tombstoned, used, projections, ingest, crashes>>

Invalidate(d) ==
  /\ takedown[d].at = "invalidate"
  /\ \E g \in takedown[d].dependent \ invalidated :
       invalidated' = invalidated \cup {g}
  /\ UNCHANGED <<objects, acquired, indexed, rights, allowed, published,
                 tombstoned, used, projections, ingest, takedown, struck, crashes>>

Weigh(d) ==
  /\ takedown[d].at = "invalidate"
  /\ takedown[d].dependent \subseteq invalidated
  /\ takedown' = [takedown EXCEPT ![d] =
       [at |-> "unlink", dependent |-> @.dependent, vectors |-> @.vectors,
        doomed |-> (@.doomed \cup @.vectors) \ OtherSources(d)]]
  /\ UNCHANGED <<ledgers, objects, projections, ingest, struck, crashes>>

\* Sources and texts, spans, vectors: the order of the loop, group by group.
Rank(o) == CASE o[1] = "bytes" -> 1 [] o[1] = "spans" -> 2 [] o[1] = "vector" -> 3

Unlink(d) ==
  /\ takedown[d].at = "unlink"
  /\ \E o \in takedown[d].doomed :
       /\ \A p \in takedown[d].doomed : Rank(o) <= Rank(p)
       /\ objects' = objects \ {o}
       /\ takedown' = [takedown EXCEPT ![d].doomed = @ \ {o}]
  /\ UNCHANGED <<ledgers, projections, ingest, struck, crashes>>

Tombstone(d) ==
  /\ takedown[d].at = "unlink"
  /\ takedown[d].doomed = {}
  /\ tombstoned' = tombstoned \cup {d}
  /\ takedown' = [takedown EXCEPT ![d] = NoTakedown]
  /\ UNCHANGED <<objects, acquired, indexed, rights, allowed, published,
                 invalidated, used, projections, ingest, struck, crashes>>

CrashTakedown(d) ==
  /\ takedown[d].at # "idle"
  /\ crashes < MaxCrashes
  /\ crashes' = crashes + 1
  /\ takedown' = [takedown EXCEPT ![d] = NoTakedown]
  /\ UNCHANGED <<ledgers, objects, projections, ingest, struck>>
-----------------------------------------------------------------------------
(* build_projection (corpus_retrieval), in one step: the provider calls    *)
(* between its writes are left out, the failure of one of them is not.     *)

\* require_document_embedding_rights.
Embeddable(e) ==
  /\ e.decision.grade = "open"
  /\ rights[e.doc].derived # None /\ rights[e.doc].derived.grade = "open"
  /\ e.doc \in allowed

Project(g) ==
  LET todo == SelectSeq(Order, LAMBDA d : \E e \in g.entries : e.doc = d /\ e.indexed)
      EntryOf(d) == CHOOSE e \in g.entries : e.doc = d
      Embeds(d) ==
        /\ Text[EntryOf(d).source] = EntryOf(d).source
        /\ Embeddable(EntryOf(d))
        /\ Bytes(EntryOf(d).source) \in objects
  IN  /\ Overlap \/ (Quiet /\ NoTakedowns)
      /\ Served(g)
      /\ g \notin projections
      /\ \E n \in 1..Len(todo) :
           /\ \A i \in 1..n : Embeds(todo[i])
           /\ objects' = objects \cup
                {Vector(todo[i], EntryOf(todo[i]).source) : i \in 1..n}
           /\ projections' = IF n = Len(todo) THEN projections \cup {g} ELSE projections
      /\ UNCHANGED <<ledgers, ingest, takedown, struck, crashes>>
-----------------------------------------------------------------------------
Ingesting ==
  \/ Skip \/ Reuse \/ AbortMissing \/ Store \/ Record
  \/ Extract \/ NoExtract \/ Index
  \/ GrantRight \/ AppendDerived \/ AppendQuarantined \/ KeepDecision
  \/ AbortInconsistent \/ Build \/ Publish \/ FinishIngest

TakingDown(d) == Invalidate(d) \/ Weigh(d) \/ Unlink(d) \/ Tombstone(d)

StoreNext ==
  \/ \E r \in Runs : BeginIngest(r)
  \/ Ingesting
  \/ \E d \in Docs : BeginTakedown(d) \/ TakingDown(d) \/ CrashTakedown(d)
  \/ \E g \in ToSet(published) : Project(g)
  \/ CrashIngest

StoreSpec == StoreInit /\ [][StoreNext]_storeVars

\* A started command goes on; the operator repeats an ingestion that did not
\* finish and a takedown that was begun.
StoreFairness ==
  /\ WF_storeVars(Ingesting)
  /\ \A d \in Docs : WF_storeVars(TakingDown(d))
  /\ \A r \in Runs : SF_storeVars(BeginIngest(r))
  /\ \A d \in Docs : SF_storeVars(d \in struck /\ BeginTakedown(d))

FairStoreSpec == StoreSpec /\ StoreFairness
-----------------------------------------------------------------------------
Decisions == [policy : DOMAIN Grade, source : Sources, grade : Grades]

\* The ledgers keep their shape; no generation is published twice.
StoreTypeOK ==
  /\ acquired \in [Docs -> Seq(Sources)]
  /\ indexed \subseteq Docs \X Sources
  /\ rights \in [Docs -> [state : Decisions \cup {None}, derived : Decisions \cup {None}]]
  /\ allowed \subseteq Docs /\ tombstoned \subseteq struck /\ struck \subseteq Docs
  /\ IsInjective(published)
  /\ invalidated \cup projections \subseteq ToSet(published)
  /\ \A r \in Runs : used[r] # None => used[r] \in ToSet(published)
  /\ ingest.run \in Runs \cup {None} /\ ingest.todo \subseteq Docs
  /\ crashes \in 0..MaxCrashes

\* generation.py:13-17: whatever runs beside a takedown, a generation that
\* carries a tombstoned document is not let through, invalidated or not.
ServedClean ==
  \A g \in ToSet(published) : Served(g) => DocsOf(g.entries) \cap tombstoned = {}

\* service.py:23-24, "never discarded": the generation an ingestion is about to
\* publish accounts for every document ever acquired, crashed runs included.
NothingDiscarded ==
  At("publish") =>
    \A d \in Docs : Known(d) =>
      d \in DocsOf(ingest.built.entries \cup ingest.built.quarantined) \cup tombstoned

\* rightsstore.py:1-11: a document the latest generation calls open has its
\* Phase 4A right, unless it was taken down - after any death in between.
OpenMeansAllowed ==
  Quiet /\ LatestGeneration # None =>
    \A e \in LatestGeneration.entries : e.decision.grade = "open" /\ e.doc \notin struck
                                => e.doc \in allowed

\* What retrieval may read it may read by right: the two above together.
ServedByRight == ServedClean /\ OpenMeansAllowed

\* generation.py:351-352, "only when no other active document shares them": a
\* takedown, finished or not, leaves the other documents their objects.
SharedBytesKept ==
  \A d \in Docs \ struck : Known(d) =>
    /\ Bytes(Source(d)) \in objects
    /\ <<d, Source(d)>> \in indexed =>
         {Bytes(Text[Source(d)]), Spans(d, Text[Source(d)])} \subseteq objects

\* generation.py:405-443: a takedown collects the vectors of its document only, so
\* a served generation without the document keeps a projection that loads.
VectorsSpared ==
  \A g \in projections :
    Served(g) /\ DocsOf(g.entries) \cap struck = {} => Loads(g)

\* generation.py:13-15: with the tombstone, every generation that carries the
\* document is invalidated.
DependentsInvalidated ==
  \A d \in tombstoned, g \in ToSet(published) :
    d \in DocsOf(g.entries) => g \in invalidated

\* service.py:302, "A takedown is not undone by re-ingesting the archive": the
\* right it revoked stays revoked.
RevokedStays == tombstoned \cap allowed = {}

\* generation.py:13, "A takedown removes bytes from active use": between commands,
\* a tombstoned document's bytes are there only for an active one that has them.
BytesGo ==
  Quiet => \A d \in tombstoned :
    \A s \in ToSet(acquired[d]) : Bytes(s) \in objects =>
      \E e \in Docs \ tombstoned : s \in ToSet(acquired[e]) \cup Texts(e)

\* However often an ingestion or a takedown dies, repeating them gets every run
\* to its report (service.py:275: a finished run is replayed from it).
RunsComplete == \A r \in Runs : <>(used[r] # None)
=============================================================================
