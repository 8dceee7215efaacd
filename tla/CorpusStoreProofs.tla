--------------------------- MODULE CorpusStoreProofs ---------------------------
(***************************************************************************)
(* For any documents, tranches, policies and number of deaths: what is     *)
(* served is served by right, whatever overlaps. Where an operator runs    *)
(* one command at a time, what a takedown silences also stays silent, and  *)
(* what others share stays: the generation being built then knows every    *)
(* tombstone, and no generation appears between the reads of a takedown    *)
(* and its tombstone. Those theorems assume ~Overlap.                      *)
(***************************************************************************)
EXTENDS CorpusStore, SumTheorems, TLAPS

Active(d) == takedown[d].at # "idle"

Shapes ==
  /\ takedown = [d \in Docs |-> [at |-> takedown[d].at, dependent |-> takedown[d].dependent,
                                 vectors |-> takedown[d].vectors, doomed |-> takedown[d].doomed]]
  /\ ingest = [at |-> ingest.at, run |-> ingest.run, todo |-> ingest.todo,
               skip |-> ingest.skip, built |-> ingest.built]
  /\ \E S : published \in Seq(S)

\* One command at a time.
OneCommand ==
  /\ ~Quiet => NoTakedowns
  /\ \A d, e \in Docs : Active(d) /\ Active(e) => d = e

\* An ingestion knows the tombstones.
KnowsTombstones ==
  /\ ~Quiet => ingest.skip = tombstoned
  /\ ingest.at \in {"record", "parse", "index", "decide", "append"} => Doc \notin tombstoned
  /\ At("publish") => DocsOf(ingest.built.entries) \cap tombstoned = {}

\* A takedown knows the generations that carry its document.
Striking ==
  \A d \in Docs : Active(d) =>
    /\ d \notin allowed
    /\ takedown[d].dependent = Dependent(d)
    /\ takedown[d].at = "unlink" => Dependent(d) \subseteq invalidated

SInv == Shapes /\ OneCommand /\ KnowsTombstones /\ Striking /\ DependentsInvalidated /\ RevokedStays

vars == <<published, invalidated, tombstoned, allowed>>
-----------------------------------------------------------------------------
LEMMA SStart == StoreInit => SInv
<1> SUFFICES ASSUME StoreInit PROVE SInv
  OBVIOUS
<1>1. published = <<>> /\ tombstoned = {} /\ ingest = NoIngest
      /\ takedown = [d \in Docs |-> NoTakedown]
  BY DEF StoreInit
<1>2. Shapes
  BY <1>1 DEF Shapes, NoIngest, NoTakedown
<1>3. OneCommand /\ KnowsTombstones /\ Striking
  BY <1>1 DEF OneCommand, KnowsTombstones, Striking, Active, Quiet, At, NoTakedowns, NoIngest, NoTakedown
<1> QED
  BY <1>1, <1>2, <1>3 DEF SInv, DependentsInvalidated, RevokedStays

\* A step of an ingestion that publishes and grants nothing.
LEMMA IngestSteps ==
  ASSUME SInv, UNCHANGED <<vars, takedown>>, NEW stage, ~Quiet,
         ingest'.at = stage, ingest'.skip = ingest.skip, ingest'.todo = ingest.todo,
         ingest'.built = ingest.built, ingest'.run = ingest.run,
         ingest' = [at |-> ingest'.at, run |-> ingest'.run, todo |-> ingest'.todo,
                    skip |-> ingest'.skip, built |-> ingest'.built],
         stage # "publish",
         stage \in {"record", "parse", "index", "decide", "append"} => Doc \notin tombstoned
  PROVE  SInv'
<1>1. Shapes'
  BY DEF SInv, Shapes, vars
<1>2. OneCommand'
  BY DEF SInv, OneCommand, Quiet, NoTakedowns, Active
<1>3. KnowsTombstones'
  BY DEF SInv, KnowsTombstones, Quiet, At, Doc, vars
<1>4. Striking' /\ DependentsInvalidated' /\ RevokedStays'
  BY DEF SInv, Striking, DependentsInvalidated, RevokedStays, Active, Dependent, vars
<1> QED
  BY <1>1, <1>2, <1>3, <1>4 DEF SInv

\* The ingestion goes to its next document, or ends.
LEMMA IngestLeaves ==
  ASSUME SInv, UNCHANGED <<published, invalidated, tombstoned, takedown>>, ~Quiet,
         allowed' = allowed \/ (allowed' = allowed \cup {Doc} /\ Doc \notin tombstoned),
         \/ ingest' = NoIngest
         \/ ingest' = [ingest EXCEPT !.at = "acquire", !.todo = @ \ {Doc}]
         \/ ingest.at = "decide" /\ ingest' = [ingest EXCEPT !.at = "append"]
  PROVE  SInv'
<1>1. Shapes'
  BY DEF SInv, Shapes, NoIngest
<1>2. \/ ingest'.at = "idle"
      \/ ingest'.at = "acquire" /\ ingest'.skip = ingest.skip
      \/ /\ ingest.at = "decide" /\ ingest'.at = "append"
         /\ ingest'.skip = ingest.skip /\ ingest'.todo = ingest.todo
  <2>1. CASE ingest' = NoIngest
    BY <2>1 DEF NoIngest
  <2>2. CASE ingest' = [ingest EXCEPT !.at = "acquire", !.todo = @ \ {Doc}]
    BY <2>2 DEF SInv, Shapes
  <2>3. CASE ingest.at = "decide" /\ ingest' = [ingest EXCEPT !.at = "append"]
    BY <2>3 DEF SInv, Shapes
  <2> QED
    BY <2>1, <2>2, <2>3
<1>3. OneCommand'
  BY DEF SInv, OneCommand, Quiet, NoTakedowns, Active
<1>4. KnowsTombstones'
  <2>1. ingest'.todo = ingest.todo => Doc' = Doc
    BY DEF Doc
  <2> QED
    BY <1>2, <2>1 DEF SInv, KnowsTombstones, Quiet, At
<1>5. NoTakedowns
  BY DEF SInv, OneCommand
<1>6. Striking'
  BY <1>5 DEF Striking, Active, NoTakedowns
<1>7. DependentsInvalidated' /\ RevokedStays'
  BY DEF SInv, DependentsInvalidated, RevokedStays
<1> QED
  BY <1>1, <1>3, <1>4, <1>6, <1>7 DEF SInv

\* A step that grants, publishes and invalidates nothing, beside the ingestion or a takedown.
LEMMA NothingSaid ==
  ASSUME SInv, UNCHANGED <<vars, takedown, ingest>>
  PROVE  SInv'
  BY DEF SInv, vars, Shapes, OneCommand, KnowsTombstones, Striking, DependentsInvalidated, RevokedStays,
         Active, Quiet, NoTakedowns, At, Doc, Dependent

LEMMA BeginKeeps ==
  ASSUME SInv, ~Overlap, NEW r \in Runs, BeginIngest(r)
  PROVE  SInv'
<1>1. NoTakedowns /\ Quiet
  BY DEF BeginIngest
<1>2. ingest'.at = "acquire" /\ ingest'.skip = tombstoned
      /\ ingest' = [at |-> ingest'.at, run |-> ingest'.run, todo |-> ingest'.todo,
                    skip |-> ingest'.skip, built |-> ingest'.built]
  BY DEF BeginIngest
<1>3. UNCHANGED <<vars, takedown>>
  BY DEF BeginIngest, ledgers, vars
<1>4. Shapes'
  BY <1>2, <1>3 DEF SInv, Shapes, vars
<1>5. OneCommand'
  BY <1>1, <1>3 DEF SInv, OneCommand, NoTakedowns, Active
<1>6. KnowsTombstones'
  BY <1>2, <1>3 DEF KnowsTombstones, At, vars
<1> QED
  BY <1>3, <1>4, <1>5, <1>6 DEF SInv, Striking, DependentsInvalidated, RevokedStays, Active,
     Dependent, vars

LEMMA StageGoes ==
  ASSUME SInv, NEW stage, Goto(stage)
  PROVE  /\ ingest'.at = stage /\ ingest'.skip = ingest.skip /\ ingest'.todo = ingest.todo
         /\ ingest'.built = ingest.built /\ ingest'.run = ingest.run
         /\ ingest' = [at |-> ingest'.at, run |-> ingest'.run, todo |-> ingest'.todo,
                       skip |-> ingest'.skip, built |-> ingest'.built]
  BY DEF SInv, Shapes, Goto

LEMMA StepKeeps ==
  ASSUME SInv, Reuse \/ Store \/ Record \/ Extract \/ NoExtract \/ Index
  PROVE  SInv'
<1>1. UNCHANGED <<vars, takedown>>
  BY DEF Reuse, Store, Record, Extract, NoExtract, Index, ledgers, vars
<1>2. PICK stage \in {"record", "parse", "index", "decide"} : Goto(stage)
  BY DEF Reuse, Store, Record, Extract, NoExtract, Index
<1>3. ~Quiet /\ Doc \notin tombstoned
  BY DEF Reuse, Store, Record, Extract, NoExtract, Index, HasDocument, At, Quiet, Skips, SInv, KnowsTombstones
<1> QED
  BY <1>1, <1>2, <1>3, StageGoes, IngestSteps

LEMMA LeaveKeeps ==
  ASSUME SInv,
         \/ Skip \/ AbortMissing \/ GrantRight \/ AppendDerived \/ AppendQuarantined \/ KeepDecision
         \/ AbortInconsistent \/ FinishIngest \/ CrashIngest
  PROVE  SInv'
<1>1. ~Quiet /\ UNCHANGED <<published, invalidated, tombstoned, takedown>>
  BY DEF Skip, AbortMissing, GrantRight, AppendDerived, AppendQuarantined, KeepDecision,
     AbortInconsistent, FinishIngest, CrashIngest, HasDocument, IngestExhausted, Decides, At,
     Quiet, ledgers
<1>2. \/ ingest' = NoIngest
      \/ ingest' = [ingest EXCEPT !.at = "acquire", !.todo = @ \ {Doc}]
      \/ ingest.at = "decide" /\ ingest' = [ingest EXCEPT !.at = "append"]
  BY DEF Skip, AbortMissing, GrantRight, AppendDerived, AppendQuarantined, KeepDecision,
     AbortInconsistent, FinishIngest, CrashIngest, NextDocument, Goto, Decides, At
<1>3. allowed' = allowed \/ (allowed' = allowed \cup {Doc} /\ Doc \notin tombstoned)
  <2>1. CASE GrantRight
    BY <2>1 DEF GrantRight, Decides, At, SInv, KnowsTombstones
  <2>2. CASE Skip \/ AbortMissing \/ KeepDecision \/ AbortInconsistent \/ CrashIngest
    <3>1. UNCHANGED ledgers
      BY <2>2 DEF Skip, AbortMissing, KeepDecision, AbortInconsistent, CrashIngest
    <3> QED
      BY <3>1 DEF ledgers
  <2>3. CASE AppendDerived \/ AppendQuarantined \/ FinishIngest
    <3>1. allowed' = allowed
      BY <2>3 DEF AppendDerived, AppendQuarantined, FinishIngest
    <3> QED
      BY <3>1
  <2> QED
    BY <2>1, <2>2, <2>3
<1> QED
  BY <1>1, <1>2, <1>3, IngestLeaves

\* What is built leaves every tombstoned document out.
LEMMA BuildKeeps ==
  ASSUME SInv, Build
  PROVE  SInv'
<1>1. /\ ingest'.at = "publish" /\ ingest'.built = CurrentGeneration /\ ingest'.skip = ingest.skip
      /\ ingest' = [at |-> ingest'.at, run |-> ingest'.run, todo |-> ingest'.todo,
                    skip |-> ingest'.skip, built |-> ingest'.built]
  BY DEF Build, SInv, Shapes
<1>2. UNCHANGED <<vars, takedown>> /\ ~Quiet
  BY DEF Build, IngestExhausted, At, Quiet, ledgers, vars
<1>3. DocsOf(CurrentGeneration.entries) \cap tombstoned = {}
  <2> DEFINE Decided == {d \in Docs \ tombstoned : Known(d) /\ rights[d].state # None}
             Clear == {e \in Decided : ~(rights[e].state.grade = "quarantined")}
  <2>1. CurrentGeneration.entries = {Entry(d) : d \in Clear}
    BY DEF CurrentGeneration
  <2>2. \A d : Entry(d).doc = d
    BY DEF Entry
  <2>3. Clear \cap tombstoned = {}
    OBVIOUS
  <2> HIDE DEF Clear
  <2>4. \A e \in {Entry(d) : d \in Clear} : e.doc \in Clear
    BY <2>2
  <2> QED
    BY <2>1, <2>3, <2>4 DEF DocsOf
<1>4. Shapes' /\ OneCommand'
  BY <1>1, <1>2 DEF SInv, Shapes, OneCommand, Quiet, NoTakedowns, Active, vars
<1>5. KnowsTombstones'
  BY <1>1, <1>2, <1>3 DEF SInv, KnowsTombstones, Quiet, At, vars
<1> QED
  BY <1>2, <1>4, <1>5 DEF SInv, Striking, DependentsInvalidated, RevokedStays, Active,
     Dependent, vars

LEMMA PublishKeeps ==
  ASSUME SInv, Publish
  PROVE  SInv'
<1>1. /\ ingest'.at = "report" /\ ingest'.skip = ingest.skip
      /\ ingest' = [at |-> ingest'.at, run |-> ingest'.run, todo |-> ingest'.todo,
                    skip |-> ingest'.skip, built |-> ingest'.built]
  BY StageGoes DEF Publish
<1>2. UNCHANGED <<invalidated, tombstoned, allowed, takedown>> /\ ~Quiet
  BY DEF Publish, At, Quiet
<1>3. (\E S : published' \in Seq(S))
      /\ ToSet(published') \subseteq ToSet(published) \cup {ingest.built}
  <2>1. PICK S : published \in Seq(S)
    BY DEF SInv, Shapes
  <2>2. PICK g : g = ingest.built
    OBVIOUS
  <2>3. Append(published, g) \in Seq(S \cup {g})
        /\ ToSet(Append(published, g)) \subseteq ToSet(published) \cup {g}
    BY <2>1 DEF ToSet
  <2> QED
    BY <2>1, <2>2, <2>3 DEF Publish
<1>4. NoTakedowns
  BY <1>2 DEF SInv, OneCommand
<1>5. Shapes' /\ OneCommand'
  BY <1>1, <1>2, <1>3 DEF SInv, Shapes, OneCommand, Quiet, NoTakedowns, Active
<1>6. KnowsTombstones'
  BY <1>1, <1>2 DEF SInv, KnowsTombstones, Quiet, At
<1>7. Striking'
  BY <1>2, <1>4 DEF Striking, Active, NoTakedowns
<1>8. DependentsInvalidated'
  BY <1>2, <1>3 DEF Publish, At, SInv, KnowsTombstones, DependentsInvalidated
<1> QED
  BY <1>2, <1>5, <1>6, <1>7, <1>8 DEF SInv, RevokedStays
-----------------------------------------------------------------------------
LEMMA BeginTakedownKeeps ==
  ASSUME SInv, ~Overlap, NEW d \in Docs, BeginTakedown(d)
  PROVE  SInv'
<1>1. Quiet /\ NoTakedowns /\ UNCHANGED <<published, invalidated, tombstoned, ingest>>
  BY DEF BeginTakedown
<1>2. allowed' = allowed \ {d}
  BY DEF BeginTakedown
<1>3. /\ takedown'[d].at = "invalidate" /\ takedown'[d].dependent = Dependent(d)
      /\ \A e \in Docs : e # d => takedown'[e] = takedown[e]
      /\ takedown' = [e \in Docs |-> [at |-> takedown'[e].at, dependent |-> takedown'[e].dependent,
                                      vectors |-> takedown'[e].vectors, doomed |-> takedown'[e].doomed]]
  <2>1. PICK v, w : takedown' = [takedown EXCEPT ![d] =
          [at |-> "invalidate", dependent |-> Dependent(d), vectors |-> v, doomed |-> w]]
    BY DEF BeginTakedown
  <2> QED
    BY <2>1 DEF SInv, Shapes
<1>4. Shapes' /\ OneCommand'
  BY <1>1, <1>3 DEF SInv, Shapes, OneCommand, Quiet, NoTakedowns, Active
<1>5. Striking'
  BY <1>1, <1>2, <1>3 DEF Striking, Active, NoTakedowns, Dependent
<1> QED
  BY <1>1, <1>2, <1>4, <1>5 DEF SInv, KnowsTombstones, Quiet, At, Doc, DependentsInvalidated, RevokedStays

LEMMA InvalidateKeeps ==
  ASSUME SInv, NEW d \in Docs, Invalidate(d)
  PROVE  SInv'
<1>1. UNCHANGED <<published, tombstoned, allowed, takedown, ingest>>
  BY DEF Invalidate
<1>2. invalidated \subseteq invalidated'
  BY DEF Invalidate
<1>3. Shapes' /\ OneCommand' /\ KnowsTombstones' /\ RevokedStays'
  BY <1>1 DEF SInv, Shapes, OneCommand, KnowsTombstones, RevokedStays, Active, Quiet, NoTakedowns, At, Doc
<1>4. Striking' /\ DependentsInvalidated'
  BY <1>1, <1>2 DEF SInv, Striking, DependentsInvalidated, Active, Dependent
<1> QED
  BY <1>3, <1>4 DEF SInv

\* A takedown that weighs or unlinks is still the only command.
LEMMA TakedownGoes ==
  ASSUME SInv, NEW d \in Docs, Active(d), UNCHANGED <<vars, ingest>>,
         NEW doomed,
         takedown' = [takedown EXCEPT ![d] = [at |-> "unlink", dependent |-> takedown[d].dependent,
                                              vectors |-> takedown[d].vectors, doomed |-> doomed]],
         takedown[d].dependent \subseteq invalidated
  PROVE  SInv'
<1>1. /\ takedown'[d].at = "unlink" /\ takedown'[d].dependent = takedown[d].dependent
      /\ \A e \in Docs : e # d => takedown'[e] = takedown[e]
      /\ Shapes'
  BY DEF SInv, Shapes, vars
<1>2. OneCommand'
  BY <1>1 DEF SInv, OneCommand, Quiet, NoTakedowns, Active
<1>3. Striking'
  BY <1>1 DEF SInv, Striking, Active, Dependent, vars
<1> QED
  BY <1>1, <1>2, <1>3 DEF SInv, KnowsTombstones, Quiet, At, Doc, DependentsInvalidated, RevokedStays, vars

LEMMA WeighKeeps ==
  ASSUME SInv, NEW d \in Docs, Weigh(d)
  PROVE  SInv'
<1>1. Active(d) /\ takedown[d].dependent \subseteq invalidated /\ UNCHANGED <<vars, ingest>>
  BY DEF Weigh, Active, ledgers, vars
<1>2. PICK w : takedown' = [takedown EXCEPT ![d] =
                              [at |-> "unlink", dependent |-> takedown[d].dependent,
                               vectors |-> takedown[d].vectors, doomed |-> w]]
  BY DEF Weigh
<1> QED
  BY <1>1, <1>2, TakedownGoes

LEMMA UnlinkKeeps ==
  ASSUME SInv, NEW d \in Docs, Unlink(d)
  PROVE  SInv'
<1>1. Active(d) /\ takedown[d].at = "unlink" /\ UNCHANGED <<vars, ingest>>
  BY DEF Unlink, Active, ledgers, vars
<1>2. takedown[d].dependent \subseteq invalidated
  BY <1>1 DEF SInv, Striking
<1>3. PICK o : takedown' = [takedown EXCEPT ![d].doomed = @ \ {o}]
  BY DEF Unlink
<1>4. takedown' = [takedown EXCEPT ![d] = [at |-> "unlink", dependent |-> takedown[d].dependent,
                                          vectors |-> takedown[d].vectors,
                                          doomed |-> takedown[d].doomed \ {o}]]
  <2>1. takedown[d] = [at |-> "unlink", dependent |-> takedown[d].dependent,
                       vectors |-> takedown[d].vectors, doomed |-> takedown[d].doomed]
    BY <1>1 DEF SInv, Shapes
  <2>2. [takedown[d] EXCEPT !.doomed = @ \ {o}]
          = [at |-> "unlink", dependent |-> takedown[d].dependent,
             vectors |-> takedown[d].vectors, doomed |-> takedown[d].doomed \ {o}]
    BY <2>1
  <2>3. takedown' = [takedown EXCEPT ![d] = [takedown[d] EXCEPT !.doomed = @ \ {o}]]
    BY <1>3
  <2> QED
    BY <2>2, <2>3
<1> QED
  BY <1>1, <1>2, <1>4, TakedownGoes

\* A takedown that ends: with its tombstone, or with its process.
LEMMA TakedownEnds ==
  ASSUME SInv, NEW d \in Docs, Tombstone(d) \/ CrashTakedown(d)
  PROVE  SInv'
<1>1. /\ Active(d)
      /\ takedown' = [takedown EXCEPT ![d] = NoTakedown]
      /\ UNCHANGED <<published, invalidated, allowed, ingest>>
  BY DEF Tombstone, CrashTakedown, Active, ledgers
<1>2. tombstoned' = tombstoned \/ (tombstoned' = tombstoned \cup {d} /\ takedown[d].at = "unlink")
  BY DEF Tombstone, CrashTakedown, ledgers
<1>3. Quiet
  BY <1>1 DEF SInv, OneCommand, NoTakedowns, Active
<1>4. \A e \in Docs : takedown'[e].at = "idle"
  BY <1>1 DEF SInv, OneCommand, Shapes, Active, NoTakedown
<1>5. Shapes'
  BY <1>1 DEF SInv, Shapes, NoTakedown
<1>6. OneCommand' /\ Striking'
  BY <1>4 DEF OneCommand, Striking, NoTakedowns, Active
<1>7. KnowsTombstones'
  BY <1>1, <1>3 DEF KnowsTombstones, Quiet, At, Doc
<1>8. DependentsInvalidated' /\ RevokedStays'
  <2>1. CASE tombstoned' = tombstoned
    BY <1>1, <2>1 DEF SInv, DependentsInvalidated, RevokedStays
  <2>2. CASE tombstoned' = tombstoned \cup {d} /\ takedown[d].at = "unlink"
    <3>1. Dependent(d) \subseteq invalidated /\ d \notin allowed
      BY <1>1, <2>2 DEF SInv, Striking
    <3> QED
      BY <1>1, <2>2, <3>1 DEF SInv, DependentsInvalidated, RevokedStays, Dependent
  <2> QED
    BY <1>2, <2>1, <2>2
<1> QED
  BY <1>5, <1>6, <1>7, <1>8 DEF SInv

LEMMA SStep == ~Overlap /\ SInv /\ [StoreNext]_storeVars => SInv'
<1> SUFFICES ASSUME ~Overlap, SInv, [StoreNext]_storeVars
             PROVE  SInv'
  OBVIOUS
<1>1. CASE \E r \in Runs : BeginIngest(r)
  BY <1>1, BeginKeeps
<1>2. CASE Ingesting \/ CrashIngest
  BY <1>2, StepKeeps, LeaveKeeps, BuildKeeps, PublishKeeps DEF Ingesting
<1>3. CASE \E d \in Docs : BeginTakedown(d) \/ TakingDown(d) \/ CrashTakedown(d)
  BY <1>3, BeginTakedownKeeps, InvalidateKeeps, WeighKeeps, UnlinkKeeps, TakedownEnds DEF TakingDown
<1>4. CASE \E g \in ToSet(published) : Project(g)
  <2>1. UNCHANGED <<vars, takedown, ingest>>
    BY <1>4 DEF Project, ledgers, vars
  <2> QED
    BY <2>1, NothingSaid
<1>5. CASE UNCHANGED storeVars
  <2>1. UNCHANGED <<vars, takedown, ingest>>
    BY <1>5 DEF storeVars, ledgers, vars
  <2> QED
    BY <2>1, NothingSaid
<1> QED
  BY <1>1, <1>2, <1>3, <1>4, <1>5 DEF StoreNext

LEMMA SAlways == ASSUME ~Overlap PROVE StoreSpec => []SInv
<1>1. SInv /\ [StoreNext]_storeVars => SInv'
  BY SStep
<1> QED
  BY <1>1, SStart, PTL DEF StoreSpec
-----------------------------------------------------------------------------
(***************************************************************************)
(* With the tombstone of a document every generation that carries it is    *)
(* invalidated, whatever died or was ingested before, if commands do not   *)
(* overlap.                                                                *)
(***************************************************************************)
THEOREM TombstonesInvalidate == ASSUME ~Overlap PROVE StoreSpec => []DependentsInvalidated
  BY SAlways, PTL DEF SInv

(***************************************************************************)
(* The right that a takedown revoked is never granted again by ingesting   *)
(* the document once more, if commands do not overlap.                     *)
(***************************************************************************)
THEOREM RevocationStays == ASSUME ~Overlap PROVE StoreSpec => []RevokedStays
  BY SAlways, PTL DEF SInv
-----------------------------------------------------------------------------
(***************************************************************************)
(* Rights.  Only a takedown takes a document out of allowed, and it strikes *)
(* it in the same step; so a decision that is recorded as open after its   *)
(* Phase 4A record stays backed by it, whatever overlaps or dies.          *)
(***************************************************************************)
Records ==
  /\ ingest = [at |-> ingest.at, run |-> ingest.run, todo |-> ingest.todo,
               skip |-> ingest.skip, built |-> ingest.built]
  /\ rights = [d \in Docs |-> [state |-> rights[d].state, derived |-> rights[d].derived]]
  /\ \E S : published \in Seq(S)

Backed(d, decision) ==
  decision # None /\ decision.grade = "open" /\ d \notin struck => d \in allowed

Lawful(g) == \A e \in g.entries : e.decision.grade = "open" /\ e.doc \notin struck => e.doc \in allowed

\* A decision is backed from the moment GrantRight wrote it to the last generation that shows it.
OInv ==
  /\ Records
  /\ \A d \in Docs : Backed(d, rights[d].state)
  /\ At("append") => Backed(Doc, Decision)
  /\ At("publish") => Lawful(ingest.built)
  /\ \A g \in ToSet(published) : Lawful(g)

LEMMA OStart == StoreInit => OInv
<1> SUFFICES ASSUME StoreInit PROVE OInv
  OBVIOUS
<1>1. /\ published = <<>> /\ ingest = NoIngest
      /\ rights = [d \in Docs |-> [state |-> None, derived |-> None]]
  BY DEF StoreInit
<1>2. Records
  BY <1>1 DEF Records, NoIngest
<1> QED
  BY <1>1, <1>2 DEF OInv, Backed, At, NoIngest, ToSet

\* What is struck stays struck, and what is allowed stays allowed or is struck.
LEMMA AllowedGoes ==
  ASSUME [StoreNext]_storeVars
  PROVE  struck \subseteq struck' /\ allowed \subseteq allowed' \cup struck'
<1>1. CASE \E r \in Runs : BeginIngest(r)
  BY <1>1 DEF BeginIngest, ledgers
<1>2. CASE Ingesting \/ CrashIngest
  BY <1>2 DEF Ingesting, Skip, Reuse, AbortMissing, Store, Record, Extract, NoExtract, Index,
     GrantRight, AppendDerived, AppendQuarantined, KeepDecision, AbortInconsistent, Build, Publish,
     FinishIngest, CrashIngest, ledgers
<1>3. CASE \E d \in Docs : BeginTakedown(d) \/ TakingDown(d) \/ CrashTakedown(d)
  BY <1>3 DEF BeginTakedown, TakingDown, Invalidate, Weigh, Unlink, Tombstone, CrashTakedown, ledgers
<1>4. CASE \E g \in ToSet(published) : Project(g)
  BY <1>4 DEF Project, ledgers
<1>5. CASE UNCHANGED storeVars
  BY <1>5 DEF storeVars, ledgers
<1> QED
  BY <1>1, <1>2, <1>3, <1>4, <1>5 DEF StoreNext

\* The actions that write a decision, a generation, or a stage that promises something.
LEMMA RightsWriters ==
  ASSUME [StoreNext]_storeVars
  PROVE  UNCHANGED rights \/ AppendDerived \/ AppendQuarantined
<1>1. CASE Ingesting \/ CrashIngest
  BY <1>1 DEF Ingesting, Skip, Reuse, AbortMissing, Store, Record, Extract, NoExtract, Index,
     GrantRight, KeepDecision, AbortInconsistent, Build, Publish, FinishIngest, CrashIngest, ledgers
<1>2. CASE \E d \in Docs : BeginTakedown(d) \/ TakingDown(d) \/ CrashTakedown(d)
  BY <1>2 DEF BeginTakedown, TakingDown, Invalidate, Weigh, Unlink, Tombstone, CrashTakedown, ledgers
<1>3. CASE (\E r \in Runs : BeginIngest(r)) \/ (\E g \in ToSet(published) : Project(g))
           \/ UNCHANGED storeVars
  BY <1>3 DEF BeginIngest, Project, storeVars, ledgers
<1> QED
  BY <1>1, <1>2, <1>3 DEF StoreNext

LEMMA PublishedWriters ==
  ASSUME [StoreNext]_storeVars
  PROVE  UNCHANGED published \/ Publish
<1>1. CASE Ingesting \/ CrashIngest
  BY <1>1 DEF Ingesting, Skip, Reuse, AbortMissing, Store, Record, Extract, NoExtract, Index,
     GrantRight, AppendDerived, AppendQuarantined, KeepDecision, AbortInconsistent, Build,
     FinishIngest, CrashIngest, ledgers
<1>2. CASE \E d \in Docs : BeginTakedown(d) \/ TakingDown(d) \/ CrashTakedown(d)
  BY <1>2 DEF BeginTakedown, TakingDown, Invalidate, Weigh, Unlink, Tombstone, CrashTakedown, ledgers
<1>3. CASE (\E r \in Runs : BeginIngest(r)) \/ (\E g \in ToSet(published) : Project(g))
           \/ UNCHANGED storeVars
  BY <1>3 DEF BeginIngest, Project, storeVars, ledgers
<1> QED
  BY <1>1, <1>2, <1>3 DEF StoreNext

\* Where an ingestion goes to.
LEMMA StagesReached ==
  ASSUME [StoreNext]_storeVars
  PROVE  \/ UNCHANGED ingest
         \/ ingest' = NoIngest
         \/ \E r \in Runs : BeginIngest(r)
         \/ NextDocument
         \/ \E stage \in {"record", "parse", "index", "decide", "report"} : Goto(stage)
         \/ GrantRight \/ Build
<1>1. CASE Ingesting \/ CrashIngest
  BY <1>1 DEF Ingesting, Skip, Reuse, AbortMissing, Store, Record, Extract, NoExtract, Index,
     AppendDerived, AppendQuarantined, KeepDecision, AbortInconsistent, Publish,
     FinishIngest, CrashIngest
<1>2. CASE \E d \in Docs : BeginTakedown(d) \/ TakingDown(d) \/ CrashTakedown(d)
  BY <1>2 DEF BeginTakedown, TakingDown, Invalidate, Weigh, Unlink, Tombstone, CrashTakedown
<1>3. CASE (\E g \in ToSet(published) : Project(g)) \/ UNCHANGED storeVars
  BY <1>3 DEF Project, storeVars
<1> QED
  BY <1>1, <1>2, <1>3 DEF StoreNext

\* The ingestion keeps its record, and promises something only after GrantRight or Build.
LEMMA StagesPromise ==
  ASSUME Records, [StoreNext]_storeVars
  PROVE  /\ ingest' = [at |-> ingest'.at, run |-> ingest'.run, todo |-> ingest'.todo,
                       skip |-> ingest'.skip, built |-> ingest'.built]
         /\ At("append")' =>
              /\ UNCHANGED <<ingest.run, ingest.todo>>
              /\ At("append") \/ GrantRight
         /\ At("publish")' => (At("publish") /\ UNCHANGED ingest.built)
                              \/ (Build /\ ingest'.built = CurrentGeneration)
<1>1. CASE UNCHANGED ingest
  BY <1>1 DEF Records, At
<1>2. CASE ingest' = NoIngest
  BY <1>2 DEF NoIngest, At
<1>3. CASE \E r \in Runs : BeginIngest(r)
  BY <1>3 DEF BeginIngest, At
<1>4. CASE NextDocument \/ (\E stage \in {"record", "parse", "index", "decide", "report"} : Goto(stage))
  BY <1>4 DEF NextDocument, Goto, Records, At
<1>5. CASE GrantRight
  BY <1>5 DEF GrantRight, Goto, Records, At
<1>6. CASE Build
  BY <1>6 DEF Build, Records, At
<1> QED
  BY <1>1, <1>2, <1>3, <1>4, <1>5, <1>6, StagesReached

LEMMA BuiltLawful ==
  ASSUME \A d \in Docs : Backed(d, rights[d].state)
  PROVE  Lawful(CurrentGeneration)
<1> DEFINE Decided == {d \in Docs \ tombstoned : Known(d) /\ rights[d].state # None}
           Clear == {e \in Decided : ~(rights[e].state.grade = "quarantined")}
<1>1. CurrentGeneration.entries = {Entry(d) : d \in Clear}
  BY DEF CurrentGeneration
<1>2. \A d \in Clear : d \in Docs /\ rights[d].state # None
  OBVIOUS
<1>3. \A d : Entry(d).doc = d /\ Entry(d).decision = rights[d].state
  BY DEF Entry
<1> HIDE DEF Clear
<1> QED
  BY <1>1, <1>2, <1>3 DEF Lawful, Backed

LEMMA OStep == OInv /\ [StoreNext]_storeVars => OInv'
<1> SUFFICES ASSUME OInv, [StoreNext]_storeVars
             PROVE  OInv'
  OBVIOUS
<1>1. struck \subseteq struck' /\ allowed \subseteq allowed' \cup struck'
  BY AllowedGoes
<1>3. \A g : Lawful(g) => Lawful(g)'
  BY <1>1 DEF Lawful
<1>a. rights = [d \in Docs |-> [state |-> rights[d].state, derived |-> rights[d].derived]]
  BY DEF OInv, Records
<1>b. (rights = [d \in Docs |-> [state |-> rights[d].state, derived |-> rights[d].derived]])'
  <2>1. CASE UNCHANGED rights
    BY <1>a, <2>1
  <2>2. CASE AppendDerived
    <3>1. PICK x : rights' = [rights EXCEPT ![Doc] = [state |-> x, derived |-> x]]
      BY <2>2 DEF AppendDerived
    <3> QED
      BY <1>a, <3>1
  <2>3. CASE AppendQuarantined
    <3>1. PICK x : rights' = [rights EXCEPT ![Doc].state = x]
      BY <2>3 DEF AppendQuarantined
    <3>2. \A d \in Docs : rights'[d] = [state |-> rights'[d].state, derived |-> rights'[d].derived]
      <4> SUFFICES ASSUME NEW d \in Docs
                   PROVE  rights'[d] = [state |-> rights'[d].state, derived |-> rights'[d].derived]
        OBVIOUS
      <4>1. rights[d] = [state |-> rights[d].state, derived |-> rights[d].derived]
        BY <1>a
      <4>2. rights'[d] = rights[d] \/ rights'[d] = [rights[d] EXCEPT !.state = x]
        BY <1>a, <3>1
      <4> QED
        BY <4>1, <4>2
    <3>3. rights' = [d \in Docs |-> rights'[d]]
      BY <1>a, <3>1
    <3> QED
      BY <3>2, <3>3
  <2> QED
    BY <2>1, <2>2, <2>3, RightsWriters
<1>4. \A d \in Docs : \/ rights'[d].state = rights[d].state
                      \/ /\ d = Doc /\ rights'[d].state = Decision
                         /\ AppendDerived \/ AppendQuarantined
  <2>1. CASE UNCHANGED rights
    BY <2>1
  <2>2. CASE AppendDerived
    <3>1. rights' = [rights EXCEPT ![Doc] = [state |-> Decision, derived |-> Decision]]
      BY <2>2 DEF AppendDerived
    <3> QED
      BY <1>a, <2>2, <3>1
  <2>3. CASE AppendQuarantined
    <3>1. rights' = [rights EXCEPT ![Doc].state = Decision]
      BY <2>3 DEF AppendQuarantined
    <3> QED
      BY <1>a, <2>3, <3>1
  <2> QED
    BY <2>1, <2>2, <2>3, RightsWriters
<1>5. (\E S : published' \in Seq(S))
      /\ \A g \in ToSet(published') : \/ g \in ToSet(published)
                                      \/ At("publish") /\ g = ingest.built
  <2>1. CASE UNCHANGED published
    BY <2>1 DEF OInv, Records
  <2>2. CASE Publish
    <3>1. PICK S : published \in Seq(S)
      BY DEF OInv, Records
    <3>2. PICK g : g = ingest.built
      OBVIOUS
    <3>3. Append(published, g) \in Seq(S \cup {g})
          /\ ToSet(Append(published, g)) \subseteq ToSet(published) \cup {g}
      BY <3>1 DEF ToSet
    <3>4. published' = published \/ published' = Append(published, g)
      BY <2>2, <3>2 DEF Publish
    <3>5. At("publish")
      BY <2>2 DEF Publish
    <3>6. CASE published' = published
      BY <3>1, <3>6
    <3>7. CASE published' = Append(published, g)
      BY <3>2, <3>3, <3>5, <3>7
    <3> QED
      BY <3>4, <3>6, <3>7
  <2> QED
    BY <2>1, <2>2, PublishedWriters
<1>6. Records
  BY DEF OInv
<1>7. Records'
  BY <1>5, <1>6, <1>b, StagesPromise DEF Records
<1>8. (\A d \in Docs : Backed(d, rights[d].state))'
  <2> SUFFICES ASSUME NEW d \in Docs PROVE Backed(d, rights[d].state)'
    OBVIOUS
  <2>1. CASE rights'[d].state = rights[d].state
    BY <1>1, <2>1 DEF OInv, Backed
  <2>2. CASE rights'[d].state = Decision /\ AppendDerived /\ d = Doc
    BY <1>1, <2>2 DEF AppendDerived, OInv, Backed
  <2>3. CASE rights'[d].state = Decision /\ AppendQuarantined
    BY <2>3 DEF AppendQuarantined, Backed
  <2> QED
    BY <1>4, <2>1, <2>2, <2>3
<1>9. At("append")' => Backed(Doc, Decision)'
  <2> SUFFICES ASSUME At("append")' PROVE Backed(Doc, Decision)'
    OBVIOUS
  <2>1. UNCHANGED <<ingest.run, ingest.todo>> /\ (At("append") \/ GrantRight)
    BY <1>6, StagesPromise
  <2>2. Doc' = Doc /\ Decision' = Decision
    BY <2>1 DEF Doc, Decision, New
  <2>3. CASE At("append")
    BY <1>1, <2>2, <2>3 DEF OInv, Backed
  <2>4. CASE GrantRight
    BY <2>2, <2>4 DEF GrantRight, Backed
  <2> QED
    BY <2>1, <2>3, <2>4
<1>10. At("publish")' => Lawful(ingest.built)'
  <2> SUFFICES ASSUME At("publish")' PROVE Lawful(ingest.built)'
    OBVIOUS
  <2>1. CASE At("publish") /\ UNCHANGED ingest.built
    BY <1>3, <2>1 DEF OInv
  <2>2. CASE Build /\ ingest'.built = CurrentGeneration
    BY <1>3, <2>2, BuiltLawful DEF OInv
  <2> QED
    BY <1>6, <2>1, <2>2, StagesPromise
<1>11. (\A g \in ToSet(published) : Lawful(g))'
  BY <1>3, <1>5 DEF OInv
<1> QED
  BY <1>7, <1>8, <1>9, <1>10, <1>11 DEF OInv

LEMMA OAlways == StoreSpec => []OInv
<1>1. OInv /\ [StoreNext]_storeVars => OInv'
  BY OStep
<1> QED
  BY <1>1, OStart, PTL DEF StoreSpec
-----------------------------------------------------------------------------
(***************************************************************************)
(* Whatever overlaps or dies: a generation that is let through carries no  *)
(* tombstoned document, and a document that the latest generation calls    *)
(* open has its Phase 4A right unless its takedown began.                  *)
(***************************************************************************)
THEOREM ServesByRight == StoreSpec => []ServedByRight
<1>1. OInv => ServedByRight
  <2> SUFFICES ASSUME OInv PROVE ServedClean /\ OpenMeansAllowed
    BY DEF ServedByRight
  <2>1. ServedClean
    BY DEF ServedClean, Served
  <2>2. ASSUME LatestGeneration # None PROVE Lawful(LatestGeneration)
    <3>1. published # <<>>
      BY <2>2 DEF LatestGeneration
    <3>2. PICK S : published \in Seq(S)
      BY DEF OInv, Records
    <3>3. LatestGeneration = published[Len(published)] /\ Len(published) \in DOMAIN published
      BY <3>1, <3>2 DEF LatestGeneration, Last
    <3> QED
      BY <3>3 DEF OInv, ToSet
  <2> QED
    BY <2>1, <2>2 DEF OpenMeansAllowed, Lawful
<1> QED
  BY <1>1, OAlways, PTL
-----------------------------------------------------------------------------
(***************************************************************************)
(* Bytes.  Before the ledger names an object the object is there, and a    *)
(* takedown weighs what it found against what the others still name: with  *)
(* one command at a time nobody names more before it has unlinked.         *)
(***************************************************************************)
Attended ==
  /\ \E S : acquired \in [Docs -> Seq(S)]
  /\ tombstoned \subseteq struck
  /\ \A d \in Docs : Active(d) => d \in struck

\* What the ledgers name of a document no takedown ever struck is there.
NamedIsKept ==
  \A d \in Docs \ struck :
    /\ \A s \in ToSet(acquired[d]) : Bytes(s) \in objects
    /\ \A s : <<d, s>> \in indexed => {Bytes(Text[s]), Spans(d, Text[s])} \subseteq objects

\* What the ingestion is about to name is there.
InHand ==
  /\ At("record") => Bytes(New) \in objects
  /\ At("index") => {Bytes(Text[New]), Spans(Doc, Text[New])} \subseteq objects

\* What a takedown is about to unlink is its document's own, and named by no other.
DoomedIsOwn ==
  \A d \in Docs : Active(d) =>
    /\ \A o \in takedown[d].vectors : o[1] = "vector"
    /\ \A o \in takedown[d].doomed : o[1] = "spans" => o[2] = d
    /\ takedown[d].doomed \cap OtherTexts(d) = {}
    /\ takedown[d].at = "unlink" => takedown[d].doomed \cap OtherSources(d) = {}

BInv == Attended /\ NamedIsKept /\ InHand /\ DoomedIsOwn

LEMMA BStart == StoreInit => BInv
<1> SUFFICES ASSUME StoreInit PROVE BInv
  OBVIOUS
<1>1. /\ acquired = [d \in Docs |-> <<>>] /\ indexed = {} /\ tombstoned = {}
      /\ ingest = NoIngest /\ takedown = [d \in Docs |-> NoTakedown]
  BY DEF StoreInit
<1>2. Attended
  <2>1. acquired \in [Docs -> Seq({})]
    BY <1>1
  <2> QED
    BY <1>1, <2>1 DEF Attended, Active, NoTakedown
<1>3. NamedIsKept
  BY <1>1 DEF NamedIsKept, ToSet
<1> QED
  BY <1>1, <1>2, <1>3 DEF BInv, InHand, DoomedIsOwn, Active, At, NoIngest, NoTakedown

\* The ledgers grow by Record and Index, and only Unlink removes an object.
LEMMA ObjectWriters ==
  ASSUME [StoreNext]_storeVars
  PROVE  /\ UNCHANGED acquired \/ Record
         /\ UNCHANGED indexed \/ Index
         /\ objects \subseteq objects' \/ \E d \in Docs : Unlink(d)
<1>1. CASE Ingesting \/ CrashIngest
  BY <1>1 DEF Ingesting, Skip, Reuse, AbortMissing, Store, Record, Extract, NoExtract, Index,
     GrantRight, AppendDerived, AppendQuarantined, KeepDecision, AbortInconsistent, Build, Publish,
     FinishIngest, CrashIngest, ledgers
<1>2. CASE \E d \in Docs : BeginTakedown(d) \/ TakingDown(d) \/ CrashTakedown(d)
  BY <1>2 DEF BeginTakedown, TakingDown, Invalidate, Weigh, Unlink, Tombstone, CrashTakedown, ledgers
<1>3. CASE (\E r \in Runs : BeginIngest(r)) \/ (\E g \in ToSet(published) : Project(g))
           \/ UNCHANGED storeVars
  BY <1>3 DEF BeginIngest, Project, storeVars, ledgers
<1> QED
  BY <1>1, <1>2, <1>3 DEF StoreNext

LEMMA UnlinksOwn ==
  ASSUME SInv, BInv, NEW e \in Docs, Unlink(e)
  PROVE  NamedIsKept'
<1>1. PICK o \in takedown[e].doomed : objects' = objects \ {o}
  BY DEF Unlink
<1>2. UNCHANGED <<acquired, indexed, struck>> /\ Active(e) /\ takedown[e].at = "unlink"
  BY DEF Unlink, ledgers, Active
<1>3. o \notin OtherSources(e) /\ o \notin OtherTexts(e) /\ (o[1] = "spans" => o[2] = e)
  BY <1>1, <1>2 DEF BInv, DoomedIsOwn
<1> SUFFICES ASSUME NEW d \in Docs \ struck
             PROVE  /\ \A s \in ToSet(acquired[d]) : Bytes(s) \in objects'
                    /\ \A s : <<d, s>> \in indexed =>
                         {Bytes(Text[s]), Spans(d, Text[s])} \subseteq objects'
  BY <1>2 DEF NamedIsKept
<1>4. d # e /\ d \notin tombstoned
  BY <1>2 DEF BInv, Attended
<1>5. ASSUME NEW s \in ToSet(acquired[d]) PROVE Bytes(s) # o
  <2>1. s \in UNION {ToSet(acquired[f]) : f \in Docs \ (tombstoned \cup {e})}
    BY <1>4, <1>5
  <2> QED
    BY <1>3, <2>1 DEF OtherSources
<1>6. ASSUME NEW s, <<d, s>> \in indexed PROVE Bytes(Text[s]) # o
  <2>1. <<d, s>> \in {q \in indexed : q[1] = d} /\ <<d, s>>[2] = s
    BY <1>6
  <2>2. Text[s] \in Texts(d)
    BY <2>1 DEF Texts
  <2>3. Text[s] \in UNION {Texts(f) : f \in Docs \ {e}}
    BY <1>4, <2>2
  <2> QED
    BY <1>3, <2>3 DEF OtherTexts
<1>7. ASSUME NEW s PROVE Spans(d, Text[s]) # o
  BY <1>3, <1>4 DEF Spans
<1> QED
  BY <1>1, <1>5, <1>6, <1>7 DEF BInv, NamedIsKept

LEMMA NamedStaysKept ==
  ASSUME SInv, BInv, [StoreNext]_storeVars
  PROVE  NamedIsKept'
<1>1. struck \subseteq struck'
  BY AllowedGoes
<1>2. CASE \E d \in Docs : Unlink(d)
  BY <1>2, UnlinksOwn
<1>3. CASE objects \subseteq objects' /\ UNCHANGED <<acquired, indexed>>
  BY <1>1, <1>3 DEF BInv, NamedIsKept
<1>4. CASE Record
  <2>1. UNCHANGED <<objects, indexed, struck>> /\ Bytes(New) \in objects
        /\ acquired' = [acquired EXCEPT ![Doc] = Append(@, New)]
    BY <1>4 DEF Record, BInv, InHand
  <2>2. PICK S : acquired \in [Docs -> Seq(S)]
    BY DEF BInv, Attended
  <2>3. \A d \in Docs : ToSet(acquired'[d]) \subseteq ToSet(acquired[d]) \cup {New}
    <3> SUFFICES ASSUME NEW d \in Docs
                 PROVE  ToSet(acquired'[d]) \subseteq ToSet(acquired[d]) \cup {New}
      OBVIOUS
    <3>1. acquired[d] \in Seq(S)
      BY <2>2
    <3>2. acquired'[d] = acquired[d] \/ acquired'[d] = Append(acquired[d], New)
      BY <2>1, <2>2
    <3> QED
      BY <3>1, <3>2 DEF ToSet
  <2> QED
    BY <2>1, <2>3 DEF BInv, NamedIsKept
<1>5. CASE Index
  <2>1. UNCHANGED <<objects, acquired, struck>> /\ indexed' = indexed \cup {<<Doc, New>>}
        /\ {Bytes(Text[New]), Spans(Doc, Text[New])} \subseteq objects
    BY <1>5 DEF Index, BInv, InHand
  <2>2. \A d, s : <<d, s>> = <<Doc, New>> => d = Doc /\ s = New
    OBVIOUS
  <2> QED
    BY <2>1, <2>2 DEF BInv, NamedIsKept
<1>6. Record => UNCHANGED indexed
  BY DEF Record
<1> QED
  BY <1>2, <1>3, <1>4, <1>5, ObjectWriters

\* While an ingestion runs nothing is unlinked; what it will name it has just stored.
LEMMA InHandStays ==
  ASSUME SInv, BInv, [StoreNext]_storeVars
  PROVE  InHand'
<1>1. ASSUME ~Quiet PROVE objects \subseteq objects'
  <2>1. \A d \in Docs : ~Unlink(d)
    BY <1>1 DEF SInv, OneCommand, NoTakedowns, Unlink
  <2> QED
    BY <2>1, ObjectWriters
<1>2. CASE UNCHANGED ingest
  BY <1>1, <1>2 DEF BInv, InHand, At, Quiet, New, Doc
<1>3. CASE ingest' = NoIngest
  BY <1>3 DEF InHand, At, NoIngest
<1>4. CASE (\E r \in Runs : BeginIngest(r)) \/ NextDocument \/ GrantRight \/ Build
  <2>1. ingest'.at \in {"acquire", "append", "publish"}
    <3>1. CASE \E r \in Runs : BeginIngest(r)
      BY <3>1 DEF BeginIngest
    <3>2. CASE NextDocument
      BY <3>2 DEF NextDocument, SInv, Shapes
    <3>3. CASE GrantRight
      BY <3>3, StageGoes DEF GrantRight
    <3>4. CASE Build
      BY <3>4 DEF Build, SInv, Shapes
    <3> QED
      BY <1>4, <3>1, <3>2, <3>3, <3>4
  <2> QED
    BY <2>1 DEF InHand, At
<1>5. CASE Store
  <2>1. /\ objects' = objects \cup {Bytes(New)} /\ ingest'.at = "record"
        /\ UNCHANGED <<ingest.run, ingest.todo>>
    BY <1>5, StageGoes DEF Store
  <2> QED
    BY <2>1 DEF InHand, At, New, Doc
<1>6. CASE Extract
  <2>1. /\ objects' = objects \cup {Bytes(Text[New]), Spans(Doc, Text[New])}
        /\ ingest'.at = "index" /\ UNCHANGED <<ingest.run, ingest.todo>>
    BY <1>6, StageGoes DEF Extract
  <2> QED
    BY <2>1 DEF InHand, At, New, Doc
<1>7. CASE \E stage \in {"parse", "decide", "report"} : Goto(stage)
  BY <1>7, StageGoes DEF InHand, At
<1>8. ASSUME NEW stage \in {"record", "index"}, Goto(stage) PROVE Store \/ Extract \/ UNCHANGED ingest
  <2>1. ingest'.at = stage
    BY <1>8, StageGoes
  <2>2. CASE Ingesting \/ CrashIngest
    BY <1>8, <2>1, <2>2 DEF Ingesting, Skip, Reuse, AbortMissing, Record, NoExtract, Index, GrantRight,
       AppendDerived, AppendQuarantined, KeepDecision, AbortInconsistent, Build, Publish,
       FinishIngest, CrashIngest, Goto, NextDocument, NoIngest, SInv, Shapes
  <2>3. CASE \E d \in Docs : BeginTakedown(d) \/ TakingDown(d) \/ CrashTakedown(d)
    BY <2>3 DEF BeginTakedown, TakingDown, Invalidate, Weigh, Unlink, Tombstone, CrashTakedown
  <2>4. CASE (\E g \in ToSet(published) : Project(g)) \/ UNCHANGED storeVars
    BY <2>4 DEF Project, storeVars
  <2>5. CASE \E r \in Runs : BeginIngest(r)
    BY <2>1, <2>5 DEF BeginIngest
  <2> QED
    BY <2>2, <2>3, <2>4, <2>5 DEF StoreNext
<1> QED
  BY <1>2, <1>3, <1>4, <1>5, <1>6, <1>7, <1>8, StagesReached

\* A takedown that has ended, or has not begun, dooms nothing.
LEMMA NoneDoomed ==
  ASSUME \A d \in Docs : ~Active(d)'
  PROVE  DoomedIsOwn'
  BY DEF DoomedIsOwn

LEMMA DoomedStays ==
  ASSUME SInv, BInv, UNCHANGED <<takedown, acquired, indexed, tombstoned>>
  PROVE  DoomedIsOwn'
  BY DEF BInv, DoomedIsOwn, Active, OtherSources, OtherTexts, Texts

LEMMA BeginDooms ==
  ASSUME SInv, ~Overlap, NEW d \in Docs, BeginTakedown(d)
  PROVE  DoomedIsOwn'
<1>1. NoTakedowns
  BY DEF BeginTakedown
<1>2. PICK g, v, w :
        /\ takedown' = [takedown EXCEPT ![d] =
                          [at |-> "invalidate", dependent |-> g, vectors |-> v, doomed |-> w]]
        /\ v = VectorsFound(d)
        /\ w = ({Bytes(s) : s \in ToSet(acquired[d])} \cup {Spans(d, x) : x \in Texts(d)}
                \cup {Bytes(x) : x \in Texts(d)}) \ OtherTexts(d)
  BY DEF BeginTakedown
<1>3. takedown'[d].at = "invalidate" /\ takedown'[d].vectors = v /\ takedown'[d].doomed = w
      /\ \A e \in Docs : e # d => ~Active(e)'
  BY <1>1, <1>2 DEF SInv, Shapes, Active, NoTakedowns
<1>4. \A o \in v : o[1] = "vector"
  BY <1>2 DEF VectorsFound, Vector
<1>5. \A o \in w : o[1] = "spans" => o[2] = d
  BY <1>2 DEF Bytes, Spans
<1>6. OtherTexts(d)' = OtherTexts(d)
  BY DEF BeginTakedown, OtherTexts, Texts
<1> QED
  BY <1>2, <1>3, <1>4, <1>5, <1>6 DEF DoomedIsOwn

LEMMA WeighDooms ==
  ASSUME SInv, BInv, NEW d \in Docs, Weigh(d)
  PROVE  DoomedIsOwn'
<1>1. UNCHANGED <<acquired, indexed, tombstoned>> /\ Active(d)
  BY DEF Weigh, ledgers, Active
<1>2. PICK w : /\ w = (takedown[d].doomed \cup takedown[d].vectors) \ OtherSources(d)
               /\ takedown' = [takedown EXCEPT ![d] =
                                 [at |-> "unlink", dependent |-> takedown[d].dependent,
                                  vectors |-> takedown[d].vectors, doomed |-> w]]
  BY DEF Weigh
<1>3. /\ takedown'[d].vectors = takedown[d].vectors /\ takedown'[d].doomed = w
      /\ \A e \in Docs : e # d => takedown'[e] = takedown[e]
  BY <1>2 DEF SInv, Shapes
<1>4. OtherSources(d)' = OtherSources(d) /\ OtherTexts(d)' = OtherTexts(d)
  BY <1>1 DEF OtherSources, OtherTexts, Texts
<1>5. \A o \in takedown[d].vectors : o[1] = "vector"
  BY <1>1 DEF BInv, DoomedIsOwn
<1>6. \A o \in w : o[1] = "spans" => o[2] = d
  BY <1>1, <1>2, <1>5 DEF BInv, DoomedIsOwn
<1>7. \A e \in Docs : e # d => ~Active(e)'
  BY <1>1, <1>3 DEF SInv, OneCommand, Active
<1>8. w \cap OtherTexts(d) = {}
  <2>1. \A o \in OtherTexts(d) : o[1] = "bytes"
    BY DEF OtherTexts, Bytes
  <2>2. takedown[d].doomed \cap OtherTexts(d) = {}
    BY <1>1 DEF BInv, DoomedIsOwn
  <2> QED
    BY <1>2, <1>5, <2>1, <2>2
<1> QED
  BY <1>2, <1>3, <1>4, <1>5, <1>6, <1>7, <1>8 DEF DoomedIsOwn

LEMMA UnlinkDooms ==
  ASSUME SInv, BInv, NEW d \in Docs, Unlink(d)
  PROVE  DoomedIsOwn'
<1>1. UNCHANGED <<acquired, indexed, tombstoned>> /\ Active(d) /\ takedown[d].at = "unlink"
  BY DEF Unlink, ledgers, Active
<1>2. PICK o : takedown' = [takedown EXCEPT ![d].doomed = @ \ {o}]
  BY DEF Unlink
<1>3. /\ takedown'[d].vectors = takedown[d].vectors
      /\ takedown'[d].doomed \subseteq takedown[d].doomed
      /\ \A e \in Docs : e # d => takedown'[e] = takedown[e]
  BY <1>2 DEF SInv, Shapes
<1>4. OtherSources(d)' = OtherSources(d) /\ OtherTexts(d)' = OtherTexts(d)
  BY <1>1 DEF OtherSources, OtherTexts, Texts
<1>5. \A e \in Docs : e # d => ~Active(e)'
  BY <1>1, <1>3 DEF SInv, OneCommand, Active
<1> QED
  BY <1>1, <1>3, <1>4, <1>5 DEF BInv, DoomedIsOwn

LEMMA DoomedStaysOwn ==
  ASSUME SInv, BInv, ~Overlap, [StoreNext]_storeVars
  PROVE  DoomedIsOwn'
<1>1. CASE (\E r \in Runs : BeginIngest(r)) \/ Ingesting \/ CrashIngest
  <2>1. UNCHANGED takedown
    BY <1>1 DEF BeginIngest, Ingesting, Skip, Reuse, AbortMissing, Store, Record, Extract, NoExtract,
       Index, GrantRight, AppendDerived, AppendQuarantined, KeepDecision, AbortInconsistent, Build,
       Publish, FinishIngest, CrashIngest
  <2>2. NoTakedowns
    <3>1. CASE \E r \in Runs : BeginIngest(r)
      BY <3>1 DEF BeginIngest
    <3>2. CASE Ingesting \/ CrashIngest
      <4>1. ~Quiet
        BY <3>2 DEF Ingesting, Skip, Reuse, AbortMissing, Store, Record, Extract, NoExtract, Index,
           GrantRight, AppendDerived, AppendQuarantined, KeepDecision, AbortInconsistent, Build,
           Publish, FinishIngest, CrashIngest, HasDocument, IngestExhausted, Decides, At, Quiet
      <4> QED
        BY <4>1 DEF SInv, OneCommand
    <3> QED
      BY <1>1, <3>1, <3>2
  <2> QED
    BY <2>1, <2>2, NoneDoomed DEF Active, NoTakedowns
<1>2. ASSUME NEW d \in Docs, Invalidate(d) PROVE DoomedIsOwn'
  BY <1>2, DoomedStays DEF Invalidate
<1>3. ASSUME NEW d \in Docs, Tombstone(d) \/ CrashTakedown(d) PROVE DoomedIsOwn'
  <2>1. Active(d) /\ takedown' = [takedown EXCEPT ![d] = NoTakedown]
    BY <1>3 DEF Tombstone, CrashTakedown, Active
  <2>2. \A e \in Docs : ~Active(e)'
    BY <2>1 DEF SInv, OneCommand, Shapes, Active, NoTakedown
  <2> QED
    BY <2>2, NoneDoomed
<1>4. CASE (\E g \in ToSet(published) : Project(g)) \/ UNCHANGED storeVars
  <2>1. UNCHANGED <<takedown, acquired, indexed, tombstoned>>
    BY <1>4 DEF Project, storeVars, ledgers
  <2> QED
    BY <2>1, DoomedStays
<1> QED
  BY <1>1, <1>2, <1>3, <1>4, BeginDooms, WeighDooms, UnlinkDooms DEF StoreNext, TakingDown

LEMMA AttendedStays ==
  ASSUME SInv, BInv, [StoreNext]_storeVars
  PROVE  Attended'
<1>1. struck \subseteq struck'
  BY AllowedGoes
<1>2. \E S : acquired' \in [Docs -> Seq(S)]
  <2>1. PICK S : acquired \in [Docs -> Seq(S)]
    BY DEF BInv, Attended
  <2>2. CASE UNCHANGED acquired
    BY <2>1, <2>2
  <2>3. CASE Record
    <3>1. PICK x : x = New
      OBVIOUS
    <3>2. acquired' = [acquired EXCEPT ![Doc] = Append(@, x)]
      BY <2>3, <3>1 DEF Record
    <3>3. \A q \in Seq(S) : q \in Seq(S \cup {x}) /\ Append(q, x) \in Seq(S \cup {x})
      OBVIOUS
    <3>4. acquired' \in [Docs -> Seq(S \cup {x})]
      BY <2>1, <3>2, <3>3
    <3> QED
      BY <3>4
  <2> QED
    BY <2>2, <2>3, ObjectWriters
<1>3. (tombstoned \subseteq struck /\ \A d \in Docs : Active(d) => d \in struck)'
  <2>1. CASE (\E r \in Runs : BeginIngest(r)) \/ Ingesting \/ CrashIngest
             \/ (\E g \in ToSet(published) : Project(g)) \/ UNCHANGED storeVars
    <3>1. UNCHANGED <<takedown, tombstoned>>
      BY <2>1 DEF BeginIngest, Ingesting, Skip, Reuse, AbortMissing, Store, Record, Extract, NoExtract,
         Index, GrantRight, AppendDerived, AppendQuarantined, KeepDecision, AbortInconsistent, Build,
         Publish, FinishIngest, CrashIngest, Project, storeVars, ledgers
    <3> QED
      BY <1>1, <3>1 DEF BInv, Attended, Active
  <2>2. ASSUME NEW d \in Docs, BeginTakedown(d) \/ TakingDown(d) \/ CrashTakedown(d)
        PROVE  /\ tombstoned' \subseteq struck'
               /\ \A e \in Docs : Active(e)' => e \in struck'
    <3>1. d \in struck'
      BY <1>1, <2>2 DEF BeginTakedown, TakingDown, Invalidate, Weigh, Unlink, Tombstone,
         CrashTakedown, BInv, Attended, Active
    <3>2. tombstoned' \subseteq tombstoned \cup {d}
      BY <2>2 DEF BeginTakedown, TakingDown, Invalidate, Weigh, Unlink, Tombstone, CrashTakedown, ledgers
    <3>3. \A e \in Docs : e # d => takedown'[e] = takedown[e]
      BY <2>2 DEF BeginTakedown, TakingDown, Invalidate, Weigh, Unlink, Tombstone, CrashTakedown,
         SInv, Shapes
    <3> QED
      BY <1>1, <3>1, <3>2, <3>3 DEF BInv, Attended, Active
  <2> QED
    BY <2>1, <2>2 DEF StoreNext
<1> QED
  BY <1>2, <1>3 DEF Attended

LEMMA BAlways == ASSUME ~Overlap PROVE StoreSpec => []BInv
<1>1. SInv /\ BInv /\ [StoreNext]_storeVars => BInv'
  <2> SUFFICES ASSUME SInv, BInv, [StoreNext]_storeVars PROVE BInv'
    OBVIOUS
  <2> QED
    BY AttendedStays, NamedStaysKept, InHandStays, DoomedStaysOwn DEF BInv
<1> QED
  BY <1>1, BStart, SAlways, PTL DEF StoreSpec

(***************************************************************************)
(* A takedown, finished or dead on the way, leaves every document that no  *)
(* takedown struck its bytes, its text and its spans, if commands do not   *)
(* overlap; the run corpus_shared shows what happens when they do.         *)
(***************************************************************************)
THEOREM SharedBytesAreKept == ASSUME ~Overlap PROVE StoreSpec => []SharedBytesKept
<1>1. BInv => SharedBytesKept
  <2> SUFFICES ASSUME BInv, NEW d \in Docs \ struck, Known(d)
               PROVE  Source(d) \in ToSet(acquired[d])
    BY DEF BInv, NamedIsKept, SharedBytesKept
  <2>1. PICK S : acquired[d] \in Seq(S)
    BY DEF BInv, Attended
  <2>2. Source(d) = acquired[d][Len(acquired[d])] /\ Len(acquired[d]) \in DOMAIN acquired[d]
    BY <2>1 DEF Known, Source, Last
  <2> QED
    BY <2>2 DEF ToSet
<1> QED
  BY <1>1, BAlways, PTL
-----------------------------------------------------------------------------
(***************************************************************************)
(* What the ledgers look like, whatever overlaps or dies: an ingestion     *)
(* writes about a document of its own tranche, and what a takedown is      *)
(* about to invalidate was published.                                      *)
(***************************************************************************)
WithDocument == {"record", "parse", "index", "decide", "append"}

LedgersTyped ==
  /\ acquired \in [Docs -> Seq(Sources)]
  /\ indexed \subseteq Docs \X Sources
  /\ rights \in [Docs -> [state : Decisions \cup {None}, derived : Decisions \cup {None}]]
  /\ allowed \subseteq Docs /\ tombstoned \subseteq struck /\ struck \subseteq Docs
  /\ (\E S : published \in Seq(S)) /\ IsInjective(published)
  /\ invalidated \cup projections \subseteq ToSet(published)
  /\ \A r \in Runs : used[r] # None => used[r] \in ToSet(published)
  /\ crashes \in 0..MaxCrashes

IngestTyped ==
  /\ ingest = [at |-> ingest.at, run |-> ingest.run, todo |-> ingest.todo,
               skip |-> ingest.skip, built |-> ingest.built]
  /\ ingest.run \in Runs \cup {None} /\ ingest.todo \subseteq Docs
  /\ ~Quiet => ingest.run \in Runs /\ ingest.todo \subseteq DOMAIN Tranche[ingest.run].docs
  /\ ingest.at \in WithDocument => ingest.todo # {}
  /\ At("report") => ingest.built \in ToSet(published)

TakedownsTyped ==
  /\ DOMAIN takedown = Docs
  /\ \A d \in Docs :
       /\ DOMAIN takedown[d] = {"at", "dependent", "vectors", "doomed"}
       /\ takedown[d].dependent \subseteq ToSet(published)
       /\ takedown[d].at # "idle" => d \in struck

StoreTypesInv == LedgersTyped /\ IngestTyped /\ TakedownsTyped

LEMMA FirstPlace ==
  ASSUME NEW left, left \subseteq Docs, left # {}
  PROVE  \E d \in left : \A e \in left : Place(d) <= Place(e)
<1>1. \A d \in Docs : Place(d) \in Nat
  <2> SUFFICES ASSUME NEW d \in Docs PROVE Place(d) \in Nat
    OBVIOUS
  <2>1. \E i \in DOMAIN Order : Order[i] = d
    BY DEF Docs, ToSet
  <2>2. Place(d) \in DOMAIN Order
    BY <2>1 DEF Place
  <2> QED
    BY <2>2, CorpusAssumption
<1> DEFINE places == {Place(d) : d \in left}
<1>2. places \subseteq Nat /\ places # {}
  BY <1>1
<1>3. PICK n \in places : \A m \in places : n <= m
  BY <1>2, LeastNumber
<1> QED
  BY <1>3

\* The document an ingestion is at, its source and what is decided about it.
LEMMA AtDocument ==
  ASSUME IngestTyped, ~Quiet, ingest.todo # {}
  PROVE  Doc \in Docs /\ Doc \in ingest.todo /\ New \in Sources /\ Decision \in Decisions
<1>1. Doc \in ingest.todo
  BY FirstPlace DEF IngestTyped, Doc
<1>2. ingest.run \in Runs /\ Doc \in DOMAIN Tranche[ingest.run].docs /\ Doc \in Docs
  BY <1>1 DEF IngestTyped
<1>3. New \in Sources /\ Tranche[ingest.run].policy \in DOMAIN Grade
      /\ Grade[Tranche[ingest.run].policy][Doc] \in Grades
  BY <1>2, CorpusAssumption DEF New
<1>4. PICK policy, grade :
        /\ policy = Tranche[ingest.run].policy /\ grade \in Grades
        /\ Decision = [policy |-> policy, source |-> New, grade |-> grade]
  BY <1>3 DEF Decision, Grades
<1> QED
  BY <1>1, <1>2, <1>3, <1>4 DEF Decisions

\* Generations are only added.
LEMMA PublishedGrows ==
  ASSUME LedgersTyped, [StoreNext]_storeVars
  PROVE  ToSet(published) \subseteq ToSet(published')
         /\ (\E S : published' \in Seq(S)) /\ IsInjective(published')
<1>1. CASE UNCHANGED published
  BY <1>1 DEF LedgersTyped
<1>2. CASE Publish /\ published' # published
  <2>1. published' = Append(published, ingest.built) /\ ingest.built \notin ToSet(published)
    BY <1>2 DEF Publish
  <2>2. PICK S : published \in Seq(S)
    BY DEF LedgersTyped
  <2> DEFINE n == Len(published)
             T == S \cup {ingest.built}
  <2>3. /\ n \in Nat /\ DOMAIN published = 1..n /\ published' \in Seq(T)
        /\ DOMAIN published' = 1..(n + 1) /\ published'[n + 1] = ingest.built
        /\ \A k \in 1..n : published'[k] = published[k]
    <3>1. published \in Seq(T)
      BY <2>2
    <3> QED
      BY <2>1, <3>1
  <2>4. IsInjective(published')
    <3> SUFFICES ASSUME NEW a \in 1..(n + 1), NEW b \in 1..(n + 1), published'[a] = published'[b]
                 PROVE  a = b
      BY <2>3 DEF IsInjective
    <3>1. \A k \in 1..n : published[k] # ingest.built
      BY <2>1, <2>3 DEF ToSet
    <3>2. CASE a \in 1..n /\ b \in 1..n
      BY <2>3, <3>2 DEF LedgersTyped, IsInjective
    <3>3. CASE a = n + 1 \/ b = n + 1
      <4>1. a \in 1..n \/ a = n + 1
        BY <2>3
      <4>2. b \in 1..n \/ b = n + 1
        BY <2>3
      <4> QED
        BY <2>3, <3>1, <3>3, <4>1, <4>2
    <3>4. (a \in 1..n \/ a = n + 1) /\ (b \in 1..n \/ b = n + 1)
      BY <2>3
    <3> QED
      BY <3>2, <3>3, <3>4
  <2>5. ToSet(published) \subseteq ToSet(published')
    BY <2>3 DEF ToSet
  <2> QED
    BY <2>3, <2>4, <2>5
<1> QED
  BY <1>1, <1>2, PublishedWriters

\* An ingestion stays with its tranche; what it reports was published.
LEMMA IngestStaysTyped ==
  ASSUME LedgersTyped, IngestTyped, [StoreNext]_storeVars
  PROVE  IngestTyped'
<1> USE DEF WithDocument
<1>1. ToSet(published) \subseteq ToSet(published')
  BY PublishedGrows
<1>2. CASE UNCHANGED ingest
  BY <1>1, <1>2 DEF IngestTyped, Quiet, At
<1>3. CASE ingest' = NoIngest
  BY <1>3 DEF IngestTyped, NoIngest, Quiet, At
<1>4. ASSUME NEW r \in Runs, BeginIngest(r) PROVE IngestTyped'
  BY <1>4, CorpusAssumption DEF BeginIngest, IngestTyped, Quiet, At
<1>5. ASSUME NextDocument, ~Quiet PROVE IngestTyped'
  <2>1. /\ ingest'.at = "acquire" /\ ingest'.run = ingest.run /\ ingest'.todo \subseteq ingest.todo
        /\ ingest' = [at |-> ingest'.at, run |-> ingest'.run, todo |-> ingest'.todo,
                      skip |-> ingest'.skip, built |-> ingest'.built]
    BY <1>5 DEF NextDocument, IngestTyped
  <2> QED
    BY <1>5, <2>1 DEF IngestTyped, Quiet, At
<1>6. ASSUME NEW stage \in WithDocument, Goto(stage), ~Quiet, ingest.todo # {} PROVE IngestTyped'
  <2>1. /\ ingest'.at = stage /\ ingest'.run = ingest.run /\ ingest'.todo = ingest.todo
        /\ ingest' = [at |-> ingest'.at, run |-> ingest'.run, todo |-> ingest'.todo,
                      skip |-> ingest'.skip, built |-> ingest'.built]
    BY <1>6 DEF Goto, IngestTyped
  <2> QED
    BY <1>6, <2>1 DEF IngestTyped, Quiet, At
<1>7. CASE Build
  <2>1. /\ ingest'.at = "publish" /\ ingest'.run = ingest.run /\ ingest'.todo = ingest.todo
        /\ ingest' = [at |-> ingest'.at, run |-> ingest'.run, todo |-> ingest'.todo,
                      skip |-> ingest'.skip, built |-> ingest'.built]
        /\ ingest.at = "acquire"
    BY <1>7 DEF Build, IngestExhausted, At, IngestTyped
  <2> QED
    BY <2>1 DEF IngestTyped, Quiet, At
<1>8. CASE Publish
  <2>1. /\ ingest'.at = "report" /\ ingest'.run = ingest.run /\ ingest'.todo = ingest.todo
        /\ ingest' = [at |-> ingest'.at, run |-> ingest'.run, todo |-> ingest'.todo,
                      skip |-> ingest'.skip, built |-> ingest'.built]
        /\ ingest.at = "publish" /\ ingest'.built = ingest.built
    BY <1>8 DEF Publish, Goto, At, IngestTyped
  <2>2. ingest.built \in ToSet(published')
    <3>1. CASE ingest.built \in ToSet(published)
      BY <1>1, <3>1
    <3>2. CASE ingest.built \notin ToSet(published)
      <4>1. PICK S : published \in Seq(S)
        BY DEF LedgersTyped
      <4>2. published \in Seq(S \cup {ingest.built})
        BY <4>1
      <4>3. published' = Append(published, ingest.built)
        BY <1>8, <3>2 DEF Publish
      <4>4. Len(published) + 1 \in DOMAIN published' /\ published'[Len(published) + 1] = ingest.built
        BY <4>2, <4>3
      <4> QED
        BY <4>4 DEF ToSet
    <3> QED
      BY <3>1, <3>2
  <2> QED
    BY <2>1, <2>2 DEF IngestTyped, Quiet, At
<1>9. CASE Skip \/ AppendDerived \/ AppendQuarantined \/ KeepDecision
  BY <1>5, <1>9 DEF Skip, AppendDerived, AppendQuarantined, KeepDecision, HasDocument, Decides, At,
     Quiet
<1>10. CASE Reuse \/ Store \/ Record \/ Extract \/ NoExtract \/ Index \/ GrantRight
  <2>1. /\ ~Quiet /\ ingest.todo # {}
        /\ \E stage \in WithDocument : Goto(stage)
    BY <1>10 DEF Reuse, Store, Record, Extract, NoExtract, Index, GrantRight, HasDocument, Decides,
       At, Quiet, IngestTyped
  <2> QED
    BY <1>6, <2>1
<1>11. CASE AbortMissing \/ AbortInconsistent \/ FinishIngest \/ CrashIngest
  BY <1>3, <1>11 DEF AbortMissing, AbortInconsistent, FinishIngest, CrashIngest
<1>12. CASE (\E d \in Docs : BeginTakedown(d) \/ TakingDown(d) \/ CrashTakedown(d))
            \/ (\E g \in ToSet(published) : Project(g)) \/ UNCHANGED storeVars
  BY <1>2, <1>12 DEF BeginTakedown, TakingDown, Invalidate, Weigh, Unlink, Tombstone, CrashTakedown,
     Project, storeVars
<1> QED
  BY <1>4, <1>7, <1>8, <1>9, <1>10, <1>11, <1>12 DEF StoreNext, Ingesting

\* A takedown that began has struck its document, and invalidates what was published.
LEMMA TakedownsStayTyped ==
  ASSUME LedgersTyped, TakedownsTyped, [StoreNext]_storeVars
  PROVE  TakedownsTyped'
<1>1. ToSet(published) \subseteq ToSet(published') /\ struck \subseteq struck'
  BY PublishedGrows, AllowedGoes
<1>2. CASE UNCHANGED takedown
  BY <1>1, <1>2 DEF TakedownsTyped
<1>3. ASSUME NEW d \in Docs, NEW t, takedown' = [takedown EXCEPT ![d] = t],
             DOMAIN t = {"at", "dependent", "vectors", "doomed"},
             t.dependent \subseteq ToSet(published), t.at # "idle" => d \in struck'
      PROVE  TakedownsTyped'
  BY <1>1, <1>3 DEF TakedownsTyped
<1>4. ASSUME NEW d \in Docs, takedown' = [takedown EXCEPT ![d] = NoTakedown] PROVE TakedownsTyped'
  <2>1. /\ DOMAIN NoTakedown = {"at", "dependent", "vectors", "doomed"}
        /\ NoTakedown.dependent = {} /\ NoTakedown.at = "idle"
    BY DEF NoTakedown
  <2> QED
    BY <1>3, <1>4, <2>1
<1>5. ASSUME NEW d \in Docs, BeginTakedown(d) PROVE TakedownsTyped'
  <2>1. PICK t : /\ takedown' = [takedown EXCEPT ![d] = t]
                 /\ DOMAIN t = {"at", "dependent", "vectors", "doomed"}
                 /\ t.dependent = Dependent(d) /\ d \in struck'
    BY <1>5 DEF BeginTakedown
  <2> QED
    BY <1>3, <2>1 DEF Dependent
<1>6. ASSUME NEW d \in Docs, Weigh(d) PROVE TakedownsTyped'
  <2>1. PICK left :
          takedown' = [takedown EXCEPT ![d] =
            [at |-> "unlink", dependent |-> @.dependent, vectors |-> @.vectors, doomed |-> left]]
    BY <1>6 DEF Weigh
  <2> DEFINE t == [at |-> "unlink", dependent |-> takedown[d].dependent,
                   vectors |-> takedown[d].vectors, doomed |-> left]
  <2>3. /\ takedown' = [takedown EXCEPT ![d] = t]
        /\ DOMAIN t = {"at", "dependent", "vectors", "doomed"}
        /\ t.dependent = takedown[d].dependent
    BY <2>1
  <2> HIDE DEF t
  <2>2. takedown[d].at = "invalidate"
    BY <1>6 DEF Weigh
  <2> QED
    BY <1>1, <1>3, <2>2, <2>3 DEF TakedownsTyped
<1>7. ASSUME NEW d \in Docs, Unlink(d) PROVE TakedownsTyped'
  <2>1. PICK o : takedown' = [takedown EXCEPT ![d].doomed = @ \ {o}]
    BY <1>7 DEF Unlink
  <2>2. /\ DOMAIN takedown' = Docs
        /\ \A e \in Docs : /\ DOMAIN takedown'[e] = DOMAIN takedown[e]
                           /\ takedown'[e].dependent = takedown[e].dependent
                           /\ takedown'[e].at = takedown[e].at
    BY <2>1 DEF TakedownsTyped
  <2> QED
    BY <1>1, <2>2 DEF TakedownsTyped
<1>8. ASSUME NEW d \in Docs, Invalidate(d) \/ Tombstone(d) \/ CrashTakedown(d) PROVE TakedownsTyped'
  BY <1>2, <1>4, <1>8 DEF Invalidate, Tombstone, CrashTakedown
<1>9. CASE Ingesting \/ CrashIngest
  BY <1>2, <1>9 DEF Ingesting, Skip, Reuse, AbortMissing, Store, Record, Extract, NoExtract, Index,
     GrantRight, AppendDerived, AppendQuarantined, KeepDecision, AbortInconsistent, Build, Publish,
     FinishIngest, CrashIngest
<1>10. CASE (\E r \in Runs : BeginIngest(r)) \/ (\E g \in ToSet(published) : Project(g))
            \/ UNCHANGED storeVars
  BY <1>2, <1>10 DEF BeginIngest, Project, storeVars
<1> QED
  BY <1>5, <1>6, <1>7, <1>8, <1>9, <1>10 DEF StoreNext, TakingDown

LEMMA LedgersStayTyped ==
  ASSUME LedgersTyped, IngestTyped, TakedownsTyped, [StoreNext]_storeVars
  PROVE  LedgersTyped'
<1>1. /\ ToSet(published) \subseteq ToSet(published')
      /\ (\E S : published' \in Seq(S)) /\ IsInjective(published')
  BY PublishedGrows
<1>2. CASE UNCHANGED <<acquired, indexed, rights, allowed, invalidated, tombstoned, projections,
                       used, struck>> /\ crashes' \in 0..MaxCrashes
  BY <1>1, <1>2 DEF LedgersTyped
<1>3. CASE Record
  <2>1. New \in Sources /\ acquired' = [acquired EXCEPT ![Doc] = Append(@, New)]
    BY <1>3, AtDocument DEF Record, IngestTyped, At, Quiet, WithDocument
  <2>2. acquired' \in [Docs -> Seq(Sources)]
    <3>1. \A s \in Seq(Sources) : Append(s, New) \in Seq(Sources)
      BY <2>1
    <3> QED
      BY <2>1, <3>1 DEF LedgersTyped
  <2> QED
    BY <1>1, <1>3, <2>2 DEF Record, LedgersTyped
<1>4. CASE Index
  <2>1. Doc \in Docs /\ New \in Sources
    BY <1>4, AtDocument DEF Index, IngestTyped, At, Quiet, WithDocument
  <2> QED
    BY <1>1, <1>4, <2>1 DEF Index, LedgersTyped
<1>5. CASE GrantRight
  <2>1. Doc \in Docs
    BY <1>5, AtDocument DEF GrantRight, Decides, IngestTyped, At, Quiet, WithDocument
  <2>2. allowed' \subseteq Docs
    BY <1>5, <2>1 DEF GrantRight, LedgersTyped
  <2> QED
    BY <1>1, <1>5, <2>2 DEF GrantRight, LedgersTyped
<1>6. CASE AppendDerived \/ AppendQuarantined
  <2>1. PICK decision \in Decisions : decision = Decision
    BY <1>6, AtDocument DEF AppendDerived, AppendQuarantined, Decides, IngestTyped, At, Quiet,
       WithDocument
  <2>2. rights' = [rights EXCEPT ![Doc] = [state |-> decision, derived |-> decision]]
        \/ rights' = [rights EXCEPT ![Doc].state = decision]
    BY <1>6, <2>1 DEF AppendDerived, AppendQuarantined
  <2>3. rights' \in [Docs -> [state : Decisions \cup {None}, derived : Decisions \cup {None}]]
    <3> DEFINE D == Decisions \cup {None}
    <3> HIDE DEF D
    <3>1. decision \in D /\ rights \in [Docs -> [state : D, derived : D]]
      BY DEF LedgersTyped, D
    <3>2. CASE rights' = [rights EXCEPT ![Doc] = [state |-> decision, derived |-> decision]]
      BY <3>1, <3>2 DEF D
    <3>3. CASE rights' = [rights EXCEPT ![Doc].state = decision]
      BY <3>1, <3>3 DEF D
    <3> QED
      BY <2>2, <3>2, <3>3
  <2> QED
    BY <1>1, <1>6, <2>3 DEF AppendDerived, AppendQuarantined, LedgersTyped
<1>7. CASE FinishIngest
  <2>1. ingest.built \in ToSet(published) /\ used' = [used EXCEPT ![ingest.run] = ingest.built]
    BY <1>7 DEF FinishIngest, IngestTyped
  <2>2. \A r \in Runs : used'[r] \in {used[r], ingest.built}
    BY <2>1
  <2> QED
    BY <1>1, <1>7, <2>1, <2>2 DEF FinishIngest, LedgersTyped
<1>8. ASSUME NEW d \in Docs, BeginTakedown(d) \/ Invalidate(d) \/ Tombstone(d) PROVE LedgersTyped'
  <2>1. takedown[d].dependent \subseteq ToSet(published) /\ (takedown[d].at # "idle" => d \in struck)
    BY DEF TakedownsTyped
  <2>2. CASE BeginTakedown(d)
    BY <1>1, <2>2 DEF BeginTakedown, LedgersTyped
  <2>3. CASE Invalidate(d)
    BY <1>1, <2>1, <2>3 DEF Invalidate, LedgersTyped
  <2>4. CASE Tombstone(d)
    BY <1>1, <2>1, <2>4 DEF Tombstone, LedgersTyped
  <2> QED
    BY <1>8, <2>2, <2>3, <2>4
<1>9. ASSUME NEW g \in ToSet(published), Project(g) PROVE LedgersTyped'
  <2>1. projections' \subseteq projections \cup {g}
    BY <1>9 DEF Project
  <2> QED
    BY <1>1, <1>9, <2>1 DEF Project, ledgers, LedgersTyped
<1>10. CASE Skip \/ Reuse \/ AbortMissing \/ Store \/ Extract \/ NoExtract \/ KeepDecision
            \/ AbortInconsistent \/ Build \/ Publish \/ CrashIngest
  BY <1>2, <1>10, CorpusAssumption DEF Skip, Reuse, AbortMissing, Store, Extract, NoExtract,
     KeepDecision, AbortInconsistent, Build, Publish, CrashIngest, ledgers, LedgersTyped
<1>11. ASSUME NEW d \in Docs, Weigh(d) \/ Unlink(d) \/ CrashTakedown(d) PROVE LedgersTyped'
  BY <1>2, <1>11, CorpusAssumption DEF Weigh, Unlink, CrashTakedown, ledgers, LedgersTyped
<1>12. CASE (\E r \in Runs : BeginIngest(r)) \/ UNCHANGED storeVars
  BY <1>2, <1>12 DEF BeginIngest, storeVars, ledgers, LedgersTyped
<1> QED
  BY <1>3, <1>4, <1>5, <1>6, <1>7, <1>8, <1>9, <1>10, <1>11, <1>12
     DEF StoreNext, Ingesting, TakingDown

LEMMA TypedBegins == StoreInit => StoreTypesInv
<1> SUFFICES ASSUME StoreInit PROVE StoreTypesInv
  OBVIOUS
<1>1. LedgersTyped
  <2>1. /\ acquired = [d \in Docs |-> <<>>] /\ published = <<>>
        /\ rights = [d \in Docs |-> [state |-> None, derived |-> None]]
        /\ used = [r \in Runs |-> None]
    BY DEF StoreInit
  <2>2. IsInjective(published) /\ published \in Seq({})
    BY <2>1 DEF IsInjective
  <2> QED
    BY <2>1, <2>2, CorpusAssumption DEF StoreInit, LedgersTyped
<1>2. IngestTyped
  BY DEF StoreInit, IngestTyped, NoIngest, Quiet, At, WithDocument
<1>3. TakedownsTyped
  BY DEF StoreInit, TakedownsTyped, NoTakedown
<1> QED
  BY <1>1, <1>2, <1>3 DEF StoreTypesInv

\* The ledgers and the commands of a store have their shape, whatever overlaps or dies: no
\* generation is published twice, and only published ones are invalidated, projected or
\* reported (publish_generation, ingest_tranche, record_takedown, build_projection).
LEMMA StoreTyped == StoreSpec => []StoreTypeOK
<1>1. StoreTypesInv => StoreTypeOK
  BY DEF StoreTypesInv, LedgersTyped, IngestTyped, StoreTypeOK
<1>2. StoreTypesInv /\ [StoreNext]_storeVars => StoreTypesInv'
  BY LedgersStayTyped, IngestStaysTyped, TakedownsStayTyped DEF StoreTypesInv
<1> QED
  BY <1>1, <1>2, TypedBegins, PTL DEF StoreSpec
=============================================================================
