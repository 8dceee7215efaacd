# A TLA+ development of AdaIvy

AdaIvy (`src/math_research/`) is a research assistant that runs *campaigns*: a
planner proposes one action after another (search the literature, acquire and
parse a source, derive, experiment, verify, ask the operator, report), each
action is executed once and recorded, paid calls are charged to a budget, and
the documents it reads live in a corpus with rights, generations and takedowns.
Almost all of it is plain files: write-once records, append-only ledgers and
content-addressed objects that must tell the truth after a process died at any
point. That is what the models here are about.

Paths in this file are relative to `src/math_research/` unless they start with
`docs/` or `tests/`.

## 1. Inventory

| part | state it keeps | operations | talks to |
|---|---|---|---|
| action checkpoint store, `campaign/checkpoint.py` | per sequence an intent and a terminal file, `.partial` files, one flock | `execute`, `intent`, `complete`, `load` | every campaign runner |
| model-driven runner, `campaign/end_to_end.py:317-583` | three checkpoint stores (planner, actions, answers), a summary and its history | `run`, resumed with or without an answer | planner, effect registry, stores |
| fixed-list runner, `campaign/end_to_end.py:177-303` | one checkpoint store, a summary and its history | `run` of a list of actions | store; used by `fixture_runtime.py` |
| budget ledger, `campaign/budget.py` | events, totals, breaches in memory; one charge file per event; a closeout | `admit`, `charge`, `close`, reload | `routing.py` (gateway), `fixture_runtime.py` (files) |
| corpus service, `corpus_service/` | objects; the ledgers acquisitions, rights, lineage, tombstones, usage, fetches; generation manifests; `ingest.lock` | `ingest_tranche`, `publish_generation`, `require_active_generation`, `record_takedown`, `fetch_snapshot` | Phase 4A rights store, retrieval projections |
| corpus retrieval, `corpus_retrieval/` | vector objects, projection manifests | `build_projection`, `load_projection`, queries | corpus service, embedding gateway |
| campaign runner v1, `campaign/runner.py`, `planner.py`, `replay.py` | an intent per planner call, action ledger, artifact store, the planner's account | `run`, restore, replay | `campaign_cli.py` |
| campaign root, `campaign_cli.py` | activation, checkpoints, inputs, facts, `campaign.json`, report | `run`, `resume` | the runner, providers |
| baseline loop and workspace, `phase2/` | SQLite: run status, jobs, proposals, calls, rounds, budget, stop record | `advance`, `pause`, `resume`, `cancel`, `recover_jobs` | model gateway, review, lead |
| formal bridge and repair, `phase3b/` | requests, findings with manifests, bridges, repair attempts | bridge, check, repair, trace | phase 2 proposals, Lean |
| rights and content store, `phase4a/` | SQLite records in a hash chain, retained bytes, evidence cards, deletion state | open (verify, reconcile), decide, take in, card, erase | corpus service |
| document candidates, `phase4b/` | SQLite records with a projection, a publication journal, retained bytes | open (reconcile), acquire, parse, synchronize, invalidate, import | rights and content store, network, parsers |
| batch acquisition, `phase4b/` | one approved plan, fetched bytes, a report | `execute_batch_plan`, `verify_batch_report` | network |
| discovery, `phase4d/` | request and byte budgets, candidates, ledger, report | `sweep`, `follow_references` and their rechecks | providers |
| embedding, `embedding/` | artifacts and manifest of a partition, ingestion record | `ingest_partition`, `load_partition` | rights store, gateways |
| review journal, `review/` | append-only decisions, successor dossier | verdict, alignment, warrant, discharge, export | phase 2 run |
| synthesis workspace, `synthesis/` | append-only records, a projection rebuilt from them | open, append, rebuild, export | session commands |
| runtime lead, `runtime/` | attempts of a session, its spending, one loop per iteration | `run` | baseline loop |
| experiment sandbox, gateways, credentials | containers, provider wire formats | one-shot calls | OCI runtime, providers |
| exact graph mathematics, `exact_graph/` | none | `replay_candidate`, `spectral_extent_vs`, `verify_decomposition` | experiment verifier |
| publication, parsing, domain records, scoring | none | pure functions | - |

**How they interact.** A runner crosses a checkpoint store for every planner
call, effect and answer. A model effect goes through
`ProfileBoundModelGateway`, which admits, performs and charges it against the
ledger; the ledger hands each charge to a sink that writes a file. Literature
effects run the corpus service, whose generations the runner feeds back to the
planner. A takedown reads the projections through the retrieval service and
revokes rights in the Phase 4A workspace. Reviewers decide on what a baseline
run committed; the lead drives one baseline run per iteration; a bridge turns a
committed proposal into a request to Lean. There are no threads: concurrency is
that of processes (commands) over the same directories, and of one process
resuming what a dead one left.

**What is hard.** Deaths between two file operations; resumption by replay;
callers that race for one sequence; commands that run side by side with a lock
that only one of them takes; checks whose answer is stale when it is used;
SQLite transactions that are each atomic while the command is not; partial
failures that may or may not be passed over; bounds that are known only after
they were crossed. `PROJECT.json` lists each hazard with its line and the
properties that watch it, or the reason why none does yet.

**What correctness means, part by part.**

- checkpoint store: a paid effect runs at most once; records are never replaced
  and bind each other; two callers never hold different results; calls return;
  idempotent work can be finished.
- runners: replay rebuilds the same requests; nothing goes past an unanswered
  question or a failure that counts; the literature ladder is climbed in order;
  a summary is earned, and what it told stays true.
- budget: the ledger is a function of its files; nothing is admitted after a
  breach; routes do not spend each other's money; losses are bounded by deaths.
- corpus: what was taken down is not served; what others share stays; dependent
  generations are invalidated; rights follow decisions; nothing acquired is
  dropped; commands that are repeated come to an end; a document is asked for
  again only after a recorded failure.
- version 1 campaigns: ledger and store name the same artifacts after every
  refusal; a verifier's result stays private; a planner's bounds hold across
  restarts; a root is whole or refused.
- baseline loop: rounds are linked and warranted; cancellation is final; a run
  is stranded only by a fault.
- review: warrants and discharges are earned on the journal they are appended
  to, and granted once.
- rights and content: an erased source leaves no bytes and no right, active
  ones have theirs, and a store nobody is in opens again.
- document candidates: no bytes without a record or a journal row; what an open
  leaves agrees; no record against what its check had read.
- sweeps, batches, references, exports, partitions: what the program writes
  passes the program's own recheck; withdrawn documents are not disclosed.
- lead: a session keeps its bounds across restarts and says what it spent; no
  hypothesis is verified twice.
- exact graphs: a count or a comparison is that of the distance spectrum, by
  whichever route it was found, or it is refused.

## 2. Modules

| module | models | proofs |
|---|---|---|
| `EffectJournal` | what a checkpoint store promises | - |
| `ActionCheckpoint` | `checkpoint.py`, file by file, any number of processes | `ActionCheckpointProofs` |
| `LiteratureCycle` | which planned action is admissible (pure operators) | - |
| `ModelDrivenCampaign` | the model-driven runner over three journals | `ModelDrivenCampaignProofs` |
| `EndToEndCampaign` | the fixed-list runner, summary files included | `CampaignProofs` |
| `CampaignBudget` | the ledger with its gateway, sink and closeout | `CampaignProofs` |
| `SequentialCampaign` | the version 1 runner turn by turn, ledger and artifacts | `CampaignProofs` |
| `CampaignPlanner` | the planner's account of paid calls over restarts | `CampaignProofs` |
| `CampaignRoot` | `campaign run` and `resume` over one directory | `CampaignProofs` |
| `CorpusStore` | ingestion, publication, takedown, projections | `CorpusStoreProofs` |
| `SnapshotFetch` | `fetch_snapshot` with overlapping and dying runs | `ServiceProofs` |
| `BaselineRun` | what a bounded research run promises who reads its workspace | `BaselineLoopProofs` |
| `BaselineLoop` | the Phase 2 loop, transaction by transaction | `BaselineLoopProofs` |
| `ReviewJournal` | reviewers' commands over a `BaselineLoop` run | `DecisionProofs` |
| `RuntimeLead` | a session of the lead, iteration by iteration | `ServiceProofs` |
| `FormalBridge` | bridge, check, repair session, trace | `ServiceProofs` |
| `SourceErasure` | the rights and content store around one source | `DecisionProofs` |
| `CandidateLifecycle` | acquisition, parse and invalidation of one source's candidates | `DecisionProofs` |
| `LiteratureSweep`, `FollowReferences`, `BatchAcquisition` | budgeted requests and the recheck of their reports | `ServiceProofs` |
| `SynthesisWorkspace` | append, rebuild, verify at open, export | `ServiceProofs` |
| `PartitionIngestion` | ingestion of documents into a vector partition | `ServiceProofs` |
| `WrittenReports`, `ServiceParts`, `CampaignParts` | modules side by side, with the properties their parts share | `ServiceProofs`, `CampaignProofs` |
| `ExactGraph` | the exact spectrum of a graph's distances and the replay over it | - |
| `Sums` | the sums of the ledger and of the lead, as recursive functions | `SumTheorems` |

`MC...` modules hold the instances. `ReviewJournal` is a composition proper: its
reviewers act on the variables of `BaselineLoop`. `MCCampaigns`, `MCServices`
and `MCDecisions` are *sums*: they declare one more variable, `part`, chosen in
the initial state, and only that part takes steps. The parts share no state, so
this checks each of them exactly as a run of its own would, and every part keeps
its own `Init` and `Next`. `CorpusStore` is in two runs, with and without
commands that overlap.

In each model module, operators under a comment that begins with "Slip" are not
part of the specification: each is a plausible mistake in the operator that
follows it, and `PROJECT.json` says which property notices it.

### 2.1 ActionCheckpoint and EffectJournal

One action per file operation or unlocked read of `execute()`:

| action | code |
|---|---|
| `Start`, `Look` | entry, and the unlocked first `load` (221-227) |
| `TakeLock` | `_lock`, for the intent or for the terminal (79-83) |
| `KeepIntent`, `RefuseIntent`, `OpenIntent`, `BlockedIntent`, `RenameIntent` | the branches of `_ensure_intent` and `_write_once` (44-58, 94-127) |
| `ReturnKnown`, `RefuseAmbiguous`, `Decide` | the second look at the terminal and the decision to run (231-240) |
| `RunEffect`, `Bind` | the effect outside the lock, the stored intent read again (129-137, 241-247) |
| `AgreeTerminal`, `RefuseTerminal`, `OpenTerminal`, `BlockedTerminal`, `RenameTerminal` | `complete` (138-158) |
| `Crash` | the process dies, or a write raises: lock gone, files as they are |

Hashes are injective, so a record is its content, and an outcome stands for
status and result. A write is a step of its own between open and rename; a
short write and a lost rename after power failure are not modelled.
`EffectJournal` has three actions (`Declare`, `Run`, `Settle`); `JournalSpec`
says that the files implement it, with the four file and history variables as
the refinement mapping and everything else a stutter.

### 2.2 ModelDrivenCampaign and LiteratureCycle

The three stores are used at the journal's grain: `Announce`, `Effect`,
`Settle`, or `Replay`, `Retry`, `StopAmbiguous`, `RefuseOther` when a record is
there (404-493). The rest is `run()`: `AcceptPlan`/`StopAtPlan` (parsing, the
ladder, the registry), `GoOn`, `StopAtFailure`, `Report`, `AwaitUser`,
`GiveAnswer` and `AfterAnswer` (509-556). All of `frame` is lost when a run
ends and rebuilt by the next one; only `intents`, `terminals` and `summary`
stay. The request of a planner call contains what the code puts into it (the
latest feedback and the published generations), so `ReplayStable` really
compares rebuilt requests. One runner at a time is assumed: `run()` takes no
lock of its own, and two runners on one campaign are the business of
`ActionCheckpoint`.

`LiteratureCycle` holds `_advance_literature_state` (80-128) as operators over
plans; both runners use it, with and without the binding of retrieval to a
generation.

### 2.3 EndToEndCampaign

The list is a constant record per action: its kind, whether it is paid, and
which earlier results its request is built from (`needs`, as in
`fixture_runtime.py:726-807`). `Raise` is the exception that leaves `run()`
when a request cannot be built. An intent carries the `recorded_at` of the run
that announced it (`stamps`), and a run at another time is refused at the first
intent it meets, before any terminal is looked at (`RefuseIntent`,
`checkpoint.py:99-119`): the exception leaves `run()` and no summary is written.
`Preserve` copies a summary that is another one than this run's, in one step,
`Replace` is the rename of the new one. `SummaryStands` is that every summary
ever written stays what the records say, and that `Preserve` never finds a former
one.

### 2.4 CampaignBudget

`Admit`, `Perform`, `Charge`, `Sink` are the steps of one attempt
(`routing.py:115-201`, `budget.py:416-516`, `fixture_runtime.py:412-426`);
`Load` is one turn of the constructor's loop. Amounts are functions over the
charged quantities; the instance uses two, one of which (cost) also counts
against the total. `close` is the statement and its write-once file. Storage,
wall time, rate limits and backoff are not modelled. `BudgetBinds` is that nothing
follows a breach in the charge files of all processes (`OnlyLastBreaches`) and that
a resumed ledger is what they say (`LedgerExact`).

### 2.5 CorpusStore

Every ledger append and every object write of `ingest_tranche` is a step:
`Store`, `Record`, `Extract`, `Index`, `GrantRight`, `AppendDerived`, `Publish`,
`FinishIngest`, with the aborts `AbortMissing` and `AbortInconsistent`. The
acquisitions and the rights are written under `ingest.lock` only, so of what an
ingestion reads at its start just the tombstones can be stale, and they are
(`ingest.skip`). A takedown takes no lock: `BeginTakedown` (its reads, with the
texts of the other documents, `OtherTexts`, and the Phase 4A revocation),
`Invalidate` per generation, `Weigh` (whether another document has the source,
`OtherSources`, looked at right before the unlinks), `Unlink` per object,
`Tombstone`. `Project` is `build_projection` in one step
that may fail after any vector.

`Overlap` says whether commands run side by side. The code does not forbid it;
with `Overlap = FALSE` the operator runs one command at a time, and that is said
where a property needs it.

Abstractions: documents come in the order of their identifiers (`Order`), as the
code sorts them; objects are named by what is hashed; a text has one extraction;
`Decision` keeps of a rights decision its policy, source and grade; extraction
writes text and spans in one step; reads and revocation at the start of a
takedown are one step (dying between them loses nothing that repeating it does
not do again); projections use whole documents (the chunked ones store the same
kind of object).


### 2.6 SequentialCampaign, CampaignPlanner, CampaignRoot

`SequentialCampaign` is `SequentialCampaignRunner.run` (`campaign/runner.py:595-1086`),
one turn per step: `PlannerRefuses`, `PlannerFails` and `Malformed` end or
answer a turn without an action, `Write`, `RunProgram`, `Inspect`, `Verify` and
`ReadArtifact` are the kinds of action with their refusals (`Reject`, `Refused`,
the failed recheck of inputs), `TurnsExhausted` is the end of the loop. Every
turn records exactly one action; an artifact is its bytes, so a tool may return
a text that a model wrote before, and the ledger and the artifact store can
disagree if an output is stored but not named. `ExportCloses` is what
`replay.py:284` and `campaign_cli.py:1408` demand of the result.

`CampaignPlanner` is the account of `GatewayCampaignPlanner` as the runner of
`end_to_end.py` drives it: `PlannerCalls` (reserve, `planner.py:245`),
`PlannerReturns`, `PlannerRecorded` (the checkpoint, and the check after the
call), `PlannerBoundsRefuse`, `PlannerDies`, and `PlannerReplays`
(`restore_checkpoint`).

`CampaignRoot` is the directory of `campaign run` and `campaign resume`
(`campaign_cli.py`): `Guard` (every inert check, and refusal when a durable
byte is there), `Probe` (the paid probe of a provider), `Activated`, `Research`,
`Look` and `Put` for each file that is written in place and only once,
`FinishRoot` (the report), `CommandDies`, `ResumeRoot`. A file holds what was
written, or is torn.

### 2.7 SnapshotFetch

`fetch_snapshot` per document: `ReadIndex` (the index of earlier intents, once
per run), `AlreadyStored` (its recovery record), `RefuseAmbiguous`, `Intend`,
`Get`, `StoreObject`, `Fetched`, `Report`; `Interrupt` is a death or an
exception. The ledger is a sequence of intents and of terminals that name them.
Activation, allowlist and pacing decide whether and when a run starts and are
left out.

### 2.8 BaselineLoop

Every `with self.transaction()` of `phase2/sqlite_workspace.py` is one action,
and the loop of `baseline_loop.py` is the program counter of each process
between them: `Claim`, `ClaimLate`, `Manifest`, `Reserve`, `Answer` (the model,
with a lease that may lapse under it), `RecordUsage`, `RecordCall`, `Commit`,
`Finish`, `EnqueueVerifier`, `RecordRound`, `Judge` (`_binding_bounds`), `Grant`,
`EnqueueRevision`, `Fail`, `RecordStop`, `EndRun`. The operator has `Pause`,
`Resume`, `Cancel`; `Deadline` passes once; `Die` and `RecoverJobs` are the
fault model. Idempotency keys are kept (`statusLog`, `imported`), because the
code's repeated statements depend on them. Tokens stand for the other measured
quantities.

`BaselineRun` is the run as an operator reads it from the tables, without jobs,
leases, attempts, calls or processes: artifacts are committed (`Propose`,
`Verify`), a round is concluded with the two committed for it, another one is
granted because that finding warranted it, the run stops once and for a reason
its rounds bear out, and the status follows (`Stop`, `SetStatus`). `ChainSpec`
says that the loop implements it, with `run`, the artifacts of `imported` and
`budget.rounds` as the refinement mapping; a claim, a reservation, a lapsed lease
or a death is `Unseen` there, which `Next` names first because TLC reads it first. `Open` in it is as weak as the code makes it: two processes that judged
the same round may find different bounds, and after one of them has stopped the
run for its budget the other may still be granted the round, which is then worked
on. Behind every other stop nothing is committed or concluded any more.

### 2.9 ReviewJournal

A composition: `Build` (a draft from the run and the journal as they are),
`ReadSequence` (the next number, outside the transaction), `AppendOnce`
(`review/journal.py:115-191`: same key same payload, otherwise insert, `UNIQUE`
refuses a taken number), beside `LoopNext`. What may be drafted
is a set of records per kind of decision (`Verdicts`, `Alignments`, `Warranted`,
`Discharges`). A warrant is its basis, its support and its terms: a member of
`Terms` stands for the kind (one of three for a human warrant), the free text of
the scope and, of a kernel's warrant, the finding without what is only operational
about it (when it was made and how long it took). They come from the grantor and
are hashed into `warrant_id`, and so into the idempotency key
(`decisions.py:560-580`, `768-793`); who grants is not. Two grants of one basis on
different terms are therefore two warrants, and `GrantedOnce` says that there is one
for each basis and terms. Rationales, which do not enter a key, are left out. The
successor dossier is data; of its projection only the order
in which the export is walked is modelled.

### 2.10 RuntimeLead

`Launch` (a session, or the same one again), `CheckBounds`, `StartIteration`,
`StartRefused`, `NothingToDo`, `Advance`, the four outcomes of a call
(`CallFails`, `CallLate`, `Proposed`, `Judged`), `Look` (duplicates are stopped
before they are verified), `Close`, `WriteSession`, `LeadDies`. The loop below is
reduced to what the lead can see of a run with one round.

### 2.11 FormalBridge

`BuildBridge`, `SaveBridge`, `EditByHand` (a request file may be written by
hand), `Check` (Lean answers anything the classification allows), the repair
session `RepairStarts`, `RepairChecks`, `RepairEnds`, `RepairSaves`, and
`RepairDies`. `Traced` is `trace_finding`. Identities are the tuples that are
hashed, not more: where the code leaves a field out of an identity, so does the
model.

### 2.12 SourceErasure

Phase 4A around one source and its evidence card, for several processes, each
with one command: every open verifies the whole store and reconciles pending
deletions (`OpenStore`, `VerifyDurableIntegrity`), a decision is checked,
numbered and appended in three steps (`BeginAppend`, `NumberRecord`,
`AppendDecided`), intake and cards write the object before the record
(`MakeObject`, `PublishSource`, `AppendProvenance`; `BeginCard`, which asks for
the right, `QuoteSource`, `PutCard`, `AppendCard`), and erasure goes `CompleteDeletion`, `BeginRemoval`, `RenameObject`,
`RemoveTree`, `VerifySourceAbsent`, `AppendDeletionCompletion`, with
`RemovalFails`, `RecordDeletionFailure` and `OpenerDies`. `Intact` is
`_verify_durable_integrity_with`. `QuoteSource` reads the bytes and the next
sequence number in one step; `PutCard` reads the bytes again.

Not every store opens again. The model names the seven orders of steps after
which it does not (`wedges`: `died_storing`, `intakes_collided`, `broken_chain`,
`hold_overtaken`, `half_removed`, `asked_again_late`, `backdated`); a flag is
set by the step that does the damage, and `ErasureSound` says that without any
of them a store that nobody is in opens. The proof (section 5) found one order
that the run's single trouble cannot reach: a process that has begun a removal
goes on with its rename after another one failed and recorded the deletion as
incomplete. It leaves the same half removed directory under the wrong state, and
`RenameObject` sets `half_removed` for it.

### 2.13 LiteratureSweep, FollowReferences, BatchAcquisition

Three loops that ask the network within a budget and write a report, and the
functions that recheck such a report from nothing. `LiteratureSweep`:
`RefuseRequest`, `ResolverRaises`, `TransportFails`, `NotOk`, `Malformed`,
`PageTaken`, `ReportSweep`, against `SweepVerifies` (`verify_report_v2`).
`FollowReferences`: `TakeReference`, `DocumentDone`, against `FollowVerifies`.
`BatchAcquisition`: `RefuseUrl`, `UrlUnresolved`, `UrlFails`, `UrlStored`,
`UrlRefusedBy`, `ReportBatch`, against `BatchVerifies`. The network is external:
it resolves, fails, and answers with any status and any size up to the limit it
is given.

### 2.14 SynthesisWorkspace, PartitionIngestion

`SynthesisWorkspace`: `OpenWorkspace` and `VerifyIntegrity` (the projection is
recomputed and compared; its two reads of the records, `workspace.py:501-506` and
542, are one, in the step before: records are only appended, in order and whole, so
what is checked of the first read never fails, and only the second is compared with
the stored projection), `AppendRecord`, `ReadForRebuild` and
`RebuildAdmissionProjection` (two steps, and a transaction apart from the
append's), `BeginExport`, `ReadRecords`, `WriteTemporary`, `SaveVerifiedExport`,
`ReplaceOutput` (the command of `synthesis_cli.py`), `CloseWorkspace`,
`SessionDies`.

`PartitionIngestion`: `BeginIngestion`, `RequireRights` and `EmbedDocument` per
document, `LookAtFile`, `CreateFile`, `FillFile` per file (written in place, so a
death leaves it torn), `LoadPartition`, `IngestionDies`, `WithdrawRights`.

### 2.15 ExactGraph

Algorithms rather than a protocol, as operators and recursive functions: a
witness is chosen, and `ReplayWitness` replays it with or without a supplied
decomposition, or `CompareExtent` compares its extent with a value. Under them
lie fractions, polynomials (`PseudoRemainder`, `PolyGcd`, `MonicQuotient`), the
breadth-first distances, `CharacteristicPolynomial` (Samuelson-Berkowitz),
`KrylovAnnihilator` and `MinimalPolynomial` with its confirmation, Sturm chains
with `IsolateExtreme` and `Refine`, `Verified` for a decomposition, and
`Replayed` with the order of its refusals. `Unanswered` is every typed refusal;
a comparison that ran out of steps is `"undecided"`.

`SpectraExact` holds the answers against definitions that share nothing with the
algorithms: the number of eigenvalues is the number of independent powers of the
matrix (over the residues of a prime), and the extent is below `v` when `c - D`
and `D - c + v` are both positive definite for some `c`, which leading minors
decide, and reaches `v` when neither is. It also says that the two routes meet: an
accepted decomposition gives the replay that the graph alone gives.

The third seed repeats after `SeedCycle` vertices, 5 in the code and 2 in the
run: the smallest connected graphs with an eigenvalue that all five seeds miss
have then five vertices. That is where the confirmation matters.

### 2.16 CandidateLifecycle

`phase4b/service.py` around one source, for processes that open the store, run
one operation and leave, die, or are overtaken. Opening is reconciliation
(`ReconcilePending`, `FinishPublication`, `ReconcileSource`, with `RenameSource`
and `UnlinkSource` for a removal). `BeginAcquire`, `Answered`,
`BeginPublication`, `MakeSource`, `WriteSource`, `Recheck` and an append are
`acquire`; `BeginParse`, `Parsed` and an append are `parse`; `NumberRow` and
`InsertRow` are every append, the number read outside the transaction. Then
`SynchronizeRights`, `InvalidateCandidates`, `ImportCandidates`, `PartyDies`, and
`DecideRight` by a human. The replay artifacts, which live and die with their
record, and the two sides of a removal inside one `rmdir` are left out.

`CandidatesAccounted` speaks of everybody where it can (no untraced bytes, no
unfounded record) and of a process that nobody was beside where the code
promises no more; its history variables say exactly where a second process makes
the difference (`company`, `uncovered`), and without either exception TLC finds a
counterexample.

## 3. Runs

Passing runs:

| run | states | instance and bounds | asks |
|---|---|---|---|
| `checkpoint_clash` | 667k | 3 processes, 4 calls: a paid one, the same at another time, an idempotent one for the same sequence, another sequence; 2 outcomes, 2 deaths; symmetric in processes and outcomes | safety and refinement under every race |
| `checkpoint_fair` | 6.6k | 2 processes, 1 idempotent call, 2 outcomes, 2 deaths; no symmetry | calls return; retries complete, or a `.partial` blocks them |
| `campaign_resume` | 226k | 6 plans, 3 sequences, 2 answers, 2 deaths, any number of resumptions | replay, payment, questions, summaries, and that the three stores are effect journals |
| `campaigns` | 483k | lists of up to 7 actions at 2 times with 2 deaths; a ladder of 7 sequences and 2 generations; 4 charged attempts on 2 routes with 2 restarts; version 1 campaigns of 5 turns, 2 tool runs, 2 repairs; a planner with 5 calls, 6 tokens, 3 lives; two `run` and one `resume` over one root; graphs: all 11 of up to 3 vertices, 32 of 4 and 2 beyond, 10 decompositions, 4 values, 6 isolation and 3 refinement steps | the campaign code beside `campaign_resume`, part by part, with the graph computations its verifier of experiments calls |
| `services` | 1.2M | corpus store: 2 documents, 2 runs, commands that overlap, 1 death; fetch: 3 runs, two at a time, 2 documents; loop: 2 processes, 2 rounds, 1 fault, 1 command; bridge: 3 proofs, 3 repair attempts, 2 requests, 2 findings; sweep: 2 queries, 2 providers, 2 pages, 4 requests; references: 3 per document, 2 documents; batch: 3 URLs; lead: 4 iterations, 2 launches; synthesis: 2 sessions, 3 records; partition: 2 ingestions of 2 documents, 1 withdrawal | the services, part by part |
| `corpus_runs` | 52k | 2 documents, 3 byte strings, 3 runs, one command at a time, 1 death | what takedown spares, and that commands finish |
| `decisions` | 2.3M | 2 reviewers, 2 terms, 4 decisions behind and beside a loop of one round and one process; 3 processes over a rights store with one command each, 2 moments, 5 rows, 1 death or failed removal; 2 processes with 3 commands over the candidates of one source, 2 bodies, 4 records, 1 death, 1 change of a right | warrants are earned and given once; erasure is whole; candidates are accounted for |

Why the bounds are enough for what is asked. A second process is what races; a
third one is a bystander that must agree, or the operator's next command that
meets what two left behind. Two deaths leave a retry of a retry. Seven sequences
are a whole ladder and one more step for a second cycle. Two documents are one
that is taken down and one that must not suffer, and three byte strings are a
text, another source with that text, and one that does not parse. Two rounds are
one that is granted and one the bound refuses. Three proofs are an origin's, a
repair's and one that another bridge has. Byte and token limits are smaller than
the sum of what may come, so that each is crossed in the middle of a list. Four
vertices have every shape of spectrum the replay tells apart, rational or not,
simple or repeated, and every shape of graph with an edge has a numbering that
joins the first two. The steps of isolation and refinement are few so that some
comparisons run out of them; the numbers also have to stay within the 32 bits of
the checker. The
bounds themselves are constants whose declarations say so, and they appear in
guards (`MaxCrashes`, `MaxFaults`, `MaxCommands`, `MaxLives`, `MaxLaunches`,
`MaxTogether`, `MaxWithdrawals`, `MaxVisits`, `MaxDeaths`, `MaxChanges`, `MaxRequests`, `MaxFindings`); the other
`Max...` are limits the program itself has.

In `decisions` no reviewer is a source of the run (`Sources = {}`): with one, the
state space is out of reach. That clause of `WarrantsEarned` is covered by the
proof, for every `Sources`. Reviewers come to the desk once the verifier's finding
is committed (`MCReviewNext` in `MCDecisions`): before it no verdict is given
(`decisions.py:241-248`), and the other decisions read nothing that the loop writes,
so that an alignment approved before the finding makes the same journals as one
approved after it. A verdict that comes between two requests of one warrant, and
could change its support, needs five decisions; there too the proof is what covers
it, for any number.

The sums are checked up to a symmetry. Each part is indifferent to some of its
constants (the processes of one command, reviewers, terms, hypotheses, proofs), and since
only one part takes steps, one small group that permutes those of all parts together
does for each of them what its own group would (`MCSymmetry` in `MCServices` and
`MCDecisions`). Their properties are invariants and action properties, for which that
is sound; the runs that check liveness have no symmetry.

`CHECK_DEADLOCK FALSE` is given where the system may stop: a refused list never
starts, a ledger whose attempts are spent may stop, a finished run, report,
session or command has nothing more to do.

Violation runs, each a disagreement between the code and what it says:

| run | the code | what is said |
|---|---|---|
| `checkpoint_wedge` | a death between open and rename leaves a `.partial`; `O_EXCL` then fails for ever, after running the effect again each time | `checkpoint.py:6-7`: "may retry with the same key" |
| `campaign_second_question` | a resumption's answer goes to the first question of the replay; recorded answers are not read back | `docs/adrs/0079`: resume "continues at the next sequence" |
| `planner_restart` | tokens of a response whose usage source is a variant name are counted when it comes and not when it is replayed | `planner.py:207`: "Restore paid-call accounting" |
| `reports_verify` | an empty body leaves a hash in the ledger of a sweep or a batch, which their own rechecks refuse | `discovery_v2.py:530`, `batch_acquisition.py:428`; `tests/test_phase4d_discovery_v2.py:362` |
| `corpus_shared` | a takedown decides what is shared without `ingest.lock`, and unlinks bytes a second document has come to share | `generation.py:351-352`: "only when no other active document shares them" |

### 3.1 Divergences met that no run holds

Some of them are stated as operators that no run checks, beside the weaker
property that holds: `BytesGo`, `VectorsSpared` (`CorpusStore`), `ToolRunsBounded`
(`SequentialCampaign`), `NextRunResumes` (`SnapshotFetch`), `BoundIsNoFailure`
(`RuntimeLead`), `NoInventedLineage` (`FormalBridge`), `SupportProjected`
(`ReviewJournal`).

Corpus:

- `record_takedown` beside an ingestion: tombstones are read at
  `service.py:286`, so the ingestion may grant again what was revoked;
  `service.py:302` says "A takedown is not undone by re-ingesting the archive."
  (`RevokedStays` with `Overlap = TRUE`; the same missing lock as
  `corpus_shared`.)
- Of two documents with one text neither takedown deletes it: the index entry of
  the other counts for ever; `generation.py:13`: "removes bytes from active use".
- A projection that failed before its manifest leaves vector objects that a
  takedown does not find (`generation.py:415`); ADR-0074 says takedown "removes
  affected vector objects".
- `require_document_embedding_rights` (`corpus_retrieval/service.py:234`) passes
  over a later quarantine; `rightsstore.py:129-131` says quarantine "needs no
  record to withhold" an allowance.
- `publish_generation` (`generation.py:256`) returns the old record of a
  generation published before, so after a change and its reversal the latest
  generation is the one in between; `generation.py:9`: "A changed store
  publishes a NEW generation".
- A fetch that died after its intent refuses that document for ever
  (`fetcher.py:291`); `fetcher.py:183` says "Interrupting a run loses nothing
  ... the next run requests only the documents still absent".

Campaigns:

- `end_to_end.py:288-290` preserves the former summary because "A resumed run may
  legitimately advance from unresolved to completed". No run of the same fixed list
  does: a failure and an ambiguous intent stay what they are, and a run at another
  `recorded_at` is refused by the store (`checkpoint.py:99-119`) without a summary.
  The copy is never made (`SummaryStands`).
- A passed-over failure may make the next request unbuildable
  (`end_to_end.py:214`), and the run ends without the "honest unresolved report"
  of ADR-0072.
- An attempt is charged after it was answered (`budget.py:510`), so a death
  loses it, while `budget.py:4-6` preserves "every attempted request".
- A verifier result that is too large was run and leaves no tool run record
  (`runner.py:1285`), so `max_tool_runs` bounds the records and not the runs;
  `docs/adrs/0065:82-92` bounds the runs.
- Two `run` commands may both pass the guard of a root (`campaign_cli.py:1535`);
  a command that dies after its paid probe and before its first byte is paid for
  again; a torn file makes a root unusable, and a `CheckpointError` is not
  caught.

Baseline loop and lead:

- A death between `commit_proposal` and `finish_job` followed by another answer
  wedges the round; one between `finish_job` and the next `enqueue_job` strands
  the run; one after a verifier's commit ends in "verifier manifest is
  immutable". `recover_jobs` is called by no command, and all processes have one
  worker id. `StrandedOnlyByFault` states what holds.
- `resume` of a run that is running writes the `resumed` event, and later
  resumptions find their key used.
- A session is reported as failed when a call was refused for its bound;
  `lead.py:456-462` says the two "must not be reported as one". Its cost may pass
  the bound of the session by what one call uses beyond its estimate; ADR-0047:51
  has "Hard ceilings". A session that died behind a finished iteration cannot be
  started again under its id.

Review and formal checking:

- The projection of the dossier walks decisions in the order of their hashes
  (`projection.py:311`) and refuses a warrant whose verdict comes later in that
  order, although the journal has it before. `next_decision_sequence` is read
  outside the transaction; the loser of a race gets an uncaught
  `IntegrityError`. A run with a refinement round has two findings, and every
  verdict on it is refused (`decisions.py:154-163`).
- `trace_finding` falls back to the request id even where a manifest is there
  (ADR-0043:147-151 restricts the fallback), a request may have two bridges, of
  which the lowest id is taken, and a bridge built again at another instant is
  refused as a rewrite. A repair session that dies, or whose proposer raises,
  leaves none of its attempts (`phase3b_cli.py:129`).

Exact graphs:

- `minimal_polynomial` refuses `minimal_polynomial_unconfirmed` for well-formed
  graphs: with edges 0-1, 0-2, 0-11, 2-3, 2-9, 3-4, 3-12, 4-5, 5-6, 6-7, 7-8,
  8-9, 9-10 and 10-12, the leaves 1 and 11 look alike to all five seeds
  (`spectrum.py:451-461`). `tests/test_exact_graph_refusals.py:19-25` calls that
  guard "unreachable from the public API with a well-formed graph", and the
  replay raises where `replay.py:18-22` says "A failure is retained, never
  dropped". The run `campaigns` meets it with `SeedCycle` 2 and allows the refusal.

Rights and content:

- A legal hold that is appended between the check of `complete_deletion` and
  `_begin_deletion_removal` is overtaken by it, and the store does not open
  afterwards; `tests/test_phase4a_production.py:645` expects the hold to block.
- A completion has the instant of its request, so any action recorded later
  makes it backdated and every later open refuse; the open-time reconciliation
  (ADR-0021: "Restart reconciles") does not renew the request, as the test at
  `test_phase4a_production.py:655` does.
- Any append beside a deletion makes the completion fail after the bytes are
  gone; a failed removal leaves a half-removed object; a death between object and
  record, or two intakes of one source, leave an orphan. Each makes every later
  open refuse. A store at its record limit cannot finish a deletion.

Document candidates:

- An open beside a publication takes its journal row for a torn one and removes
  the row and the bytes (`service.py:625-640`); if the publisher then writes on
  and dies, bytes stay that no record and no row names. A second publisher of a
  source whose directory exists undoes by name and so removes the first one's
  bytes and row (`service.py:302-304`).
- Rights and invalidations are rechecked before an append, not in it: an
  invalidation between the recheck and the number leaves an active parse on an
  invalidated acquisition, or a second acquisition of one source. An append
  beside a publication takes its number and has it undone.
- `invalidate_candidates` with an acquisition alone leaves its parses active, and
  no open invalidates them; docs/adrs/0028:70-72 has invalidation propagate.

Discovery, acquisition, synthesis, embedding:

- A resolver that raises loses the whole report of a sweep; a response over the
  limit counts as zero bytes against the "hard" byte budget
  (`discovery_v2.py:4-5`).
- Append and rebuild of a synthesis workspace are two transactions, and the
  verification at open compares: a death in between, or two sessions, leave
  "projection drift" that no command repairs. Two exports share one temporary
  file. An admission recorded after an invalidation admits again.
- An ingestion that fails loses the account of its paid calls, and the next one
  discloses and pays every document again; `ingestion.py:419`: "Embed each
  document once". A torn file blocks the partition.

## 4. Fairness

- `ActionCheckpoint`: weak fairness of a process's own steps (it is running
  code), strong fairness of `TakeLock` (the kernel queues `flock` waiters in
  order), and for `RetryCompletesOrWedges` strong fairness of `Start` (the
  operator resumes for ever, ADR-0079's resumption).
- `ModelDrivenCampaign`: weak fairness of the started run, strong fairness of
  `Resume` with each answer. Nothing is assumed of the planner or of effects.
- `CorpusStore`: weak fairness of started commands, strong fairness of repeating
  an ingestion that did not finish and a takedown that was begun. That is the
  documented recovery (`service.py:275`: a finished run is replayed; an
  unfinished one starts over). New takedowns are not assumed.

The other modules state safety only. Their code promises no progress that
would survive a fault: nothing calls `recover_jobs`, a wedged store stays so
until somebody edits it, and each loop is bounded by construction.

## 5. Proofs

Every theorem holds for all values of the constants under the named assumption
of its module. Most of these say no more than that limits and measured amounts are
natural numbers, that what the code iterates over is a list and what it sums over
is finite, that a campaign has a turn and a run a round, and that `None` and the
like are different from what they are compared with (`CallsAssumption`,
`CampaignAssumption`, `EndToEndAssumption`, `SequentialAssumption`,
`PlannerAssumption`, `BudgetAssumption`, `RootAssumption`, `CorpusAssumption`,
`FetchAssumption`, `LoopAssumption`, `LeadAssumption`, `FollowAssumption`,
`BatchAssumption`, `SynthesisAssumption`, `PartitionAssumption`). The others are
facts of the code: a request's capability has a bucket or is refused
(`BudgetAssumption`); an action of a fixed list needs results of earlier ones only
(`EndToEndAssumption`); an iteration of the lead has room for its two calls
(`LeadAssumption`); a sweep asks at least one provider (`SweepAssumption`,
`policy.py:82-85`); the document store's ceiling has room for an imported package
(`CeilingAssumption`; `MAX_RECORDS` is far above that); and callers of the rights
store never append a completion (`service.py:312` refuses it) and find room for
the three records it may start with (`ErasureAssumption`). TLC evaluates them in
the runs. Three theorems of `CorpusStoreProofs`
also assume `~Overlap`, in their statements: with commands that overlap they are
false (section 3.1). Every inductive invariant was checked with TLC on a small
instance before it was proved.

**`ActionCheckpointProofs`**: `TypeCorrect`, `PaidOnce`, `RecordsAgree`,
`CallersAgree`, `OrphansStay`, `Refinement`. `PaidAtMostOnce` is not inductive:
one must know who may still run the effect. `IInv` adds `Exclusive` (who writes
holds the lock), `Frames` (what a process between two steps knows of its
sequence's files), `Licences` (a paid effect is reached by the one writer of its
intent, and only while nothing ran) and `Quiet` (nothing ran before the intent
was there). The action property and the step of the refinement follow from it
action by action.

**`ModelDrivenCampaignProofs`**:

- `CampaignPaysOnce`, by `Holding` (no record without its intent), `Planned` (an
  action is announced only behind its planner's recorded answer, so whether it is
  paid cannot change under it) and `Licensed` (a paid effect about to run never
  ran).
- `QuestionsGate`, `CompletedIsEarned`, by `GateInv`: `Behind` (the runner, every
  later intent and every completed summary are past a sequence only with its
  action recorded, its question answered and no failure but a candidate's) and
  `Bound`.
- `StoresImplementJournal`: the three stores as this runner uses them, tagged by
  their kind, are one `EffectJournal`.
- `ReplaysAreStable`, `LadderIsClimbed`, by `LInv`: what the runner knows at a
  sequence (`Replayed`) is a function of the records behind it, and those are
  complete and never change (`RecordsStay`), so `Told` says that each request on
  disk is the one a replay builds. The stage is a counter that failures and second
  cycles leave in place; `Standing` says which completed rung each value stands
  for, and `Earned` keeps that for an action that ran. The ladder of the run
  `campaigns` is an instance of this module, so the theorem covers its values too.

**`CampaignProofs`**:

- `PlannerWithinBudget`. What a resumed planner has counted is a partial sum of
  the recorded calls, and what was spent is the whole sum plus what is under way
  and what was not reported; an ambiguous call is never repeated, so there is at
  most one of those.
- `CampaignExportCloses`, `VerifierResultsPrivate`. The store is what was recorded
  without the seeds' preimage, every set from which inputs are taken
  (`available`, `programs`, `candidates`, `experiments`, the last inspection) is
  recorded, and what is private came from a tool.
- `SummariesStand`, by `SummaryInv`: once a summary is written, no runner is at an
  effect and nothing is left that one could announce or retry (`NothingLeft`), so
  the records it tells of are final; and records say one thing only (`SaysOne`), so
  the draft of every later run is the summary on disk.
- `LedgersAreReadable`, by `RootInv`: unless two commands were past the guard
  together, the one that is past it has written exactly what its queue no longer
  holds (`Course`), and whoever paid is past the guard, left a byte or died before
  it could (`Accounted`).
- `BoundsBind`, `FilesAreFollowed`, by `BudgetInv`: the totals and breaches of a
  ledger are those of its events (`Exact`), the events are the charge files but
  for those not loaded yet and the one not written yet (`Filed`), and an attempt
  in progress was admitted within the bounds (`Within`). `BudgetBinds` alone says
  nothing of a ledger that is half rebuilt.
- `CampaignsTyped`: the type invariants of the five parts. That a planner never
  accounts for more than was spent needs the partial sums of recorded calls to rise.

**`CorpusStoreProofs`**:

- `TombstonesInvalidate`, `RevocationStays` (assuming `~Overlap`). One command at
  a time makes the tombstones an ingestion has read, and the dependents a takedown
  has found, current.
- `ServesByRight`, whatever overlaps or dies. A decision that is open after its
  Phase 4A record stays backed by it, from the moment it was written through the
  generation being built to the one that shows it (`OInv`): a takedown that
  withdraws the allowance has struck the document in the same step.
- `SharedBytesAreKept` (assuming `~Overlap`), by `BInv`: what the ledgers name of
  a document no takedown struck is there (`NamedIsKept`), what an ingestion is
  about to name is there (`InHand`), and what a takedown is about to unlink is its
  document's own (`DoomedIsOwn`). The last is what a second command breaks.
- `StoreTyped` (a lemma of `ServicesTyped`): what an ingestion holds between two
  appends is of the documents of its tranche, and a takedown's queue is of
  generations that exist.

**`BaselineLoopProofs`**:

- `CancellingIsFinal`, an action property, needs no invariant: every transaction
  reads the status it would overwrite.
- `RoundsAreLinked`, by `RInv`: between two transactions the link is held by the
  process about to write the next row, so `Working` says what a process at each
  place knows, and `Kept` that no later row takes it away.
- `LoopImplementsRun`, and with the first `RunIsKept`: the refinement of section
  2.8. A transaction writes what its process decided on reads of long before, so
  `CInv` says that this is still true: `Holding`, of each process (the answer it
  brings has the kind of its job, the job it reviews has succeeded, the stop it is
  about to write is borne out), and `Grounded`, of the tables (a concluded round
  has two jobs that succeeded, every round but the last one granted warranted the
  next). `Justified` bears out a stop by facts that no step takes back (`Stays`),
  which is why a second process may be late with it.
- `LoopTyped` (a lemma of `ServicesTyped`), by `CInv` and what bounds attempts, calls and tokens.
- `OnlyFaultsStrand`, by `OrderInv`: without a fault the run has one runnable job, the
  last of the chain, and nobody is at work, or one process is at work on it, alone
  (`Orderly`).

**`DecisionProofs`**:

- `WarrantsAreEarned`, `GrantsAreOnce`. The journal is a sequence with unique keys;
  every decision is earned on its own prefix, a draft on the prefix it has read,
  which later appends only lengthen; and the first attested verdict, once there,
  stays the first, so that two warrants on the same terms, asked for at different
  times, have the same key and the second is the first repeated. A discharge has
  the support of the warrant it names, which is therefore determined by the basis
  and the terms.
- `CandidatesAreAccounted`. What a process knows depends on whether anybody was
  beside it. Everybody's checks were true of a beginning of the records, which
  appends leave alone (`Checked`), and every publication under way has its journal
  row, its record, or the witness that its row was taken (`Traced`). A process
  that nobody was beside is alone inside (`Companions`), so what its own reads and
  writes have left still holds (`AloneKnows`). Neither is inductive without
  `Traced`: an open that finds no journal row and no record concludes that there
  are no bytes.
- `ErasureIsSound`, by `EInv`. `Intact`, which every open verifies, is false most of
  the time something runs, and what a wedge leaves is arbitrary, so the invariant
  says what holds of a `Calm` store: no wedge happened, and nobody stores bytes
  beside a source that has its row. A store that is not calm never becomes so again
  without a wedge (`CalmBefore`): such an intake is refused, which collides, or dies,
  which leaves its bytes. In a calm one the temporary files are those of the writers,
  the chain is whole, a directory without a row has an intake behind it, and
  `Present` relates row, directories, cards (records and files about to get one),
  hold and completions under way. What holds with wedges too is kept apart: what a
  process that came this far knows (`Reached`), `TakenIn`, `AskedFor`, `Regained`.

**`ServiceProofs`**:

- `RepairsStayApart`. The ids of a repair's requests are apart from the bridged
  ones, whatever was edited by hand.
- `DocumentsAreAskedOnce`, by `FetchInv`: as long as no two runs were together,
  the requests that are still open are those the run found when it began and the
  one it made itself (`KnowsOpen`), and a document was asked for at most once more
  than it has recorded failures, and that once only if it is stored or still open
  (`Solo`). What a report says needs only the documents behind a run
  (`Collected`), whoever is beside it.
- `SessionsAreAccounted`, by `LeadInv`: a run of the loop is in one of eight stages
  that fix how many calls it made (`Staged`), the records a process keeps agree
  with the runs, another iteration starts only while its whole allowance is left,
  and a written session has told every call, so that starting it again adds none
  (`SessionTold`). A hypothesis given to the verifier is the digest of a run
  (`VerifiedOnce`), and `Tried` finds it there.
- `WrittenIsAccepted`: what five modules write passes what reads it again, with
  the exceptions `WrittenChecksOut` names. Its parts are theorems too:
  - `SweepsCheckOut`, `BatchesCheckOut`: every entry of a ledger is sound on the
    entries before it, or is the empty body of `reports_verify`, and the sums of the
    recheck are within the budget (`SweepInv`, `BatchInv`). A refused entry is
    checked against what came before, so appending must leave each prefix alone.
  - `FollowingChecksOut`: the recheck counts references, so `FollowInv` has the
    place in the lists agree with the number decided so far, as a partial sum of
    their lengths.
  - `SavedExportsAreViews`, `WorkspaceOpensAgain`, `ExportedFileWasSaved`, by
    `SynthesisInv`: what a session has read is a beginning of the records, always;
    the temporary file is its own until two sessions were inside together; and the
    projection is that of the records, unless somebody owes a rebuild, until there
    was a mishap.
  - `NothingWithdrawnIsSent`, `RecordedPartitionsStay`, by `PartitionInv`: a process
    asks for no document that was barred when it began, and as long as ingestions
    came one after another what a whole manifest names is there, with those vectors.
- `ServicesTyped`: the type invariants of ten services, each from the invariant
  above and the shapes that one leaves open.

**`SumTheorems`** holds the lemmas about sums that these need: a sum over a sequence
grows by its last term, a sum over a function by what one value gained. Both are
recursive functions, and a `CHOOSE` of one says nothing until it is shown to
exist, which is an induction over lengths and cardinalities. The library's
induction rules take an operator and no installed prover can instantiate one;
the least counterexample does instead: `<` on the naturals is well-founded
(`NatLessThanWellFounded`, `WFMin`), so a set of lengths at which the claim fails
would have a least element.

**Only model-checked.** Liveness (`RetryCompletes...`, `RunsComplete`,
`FirstQuestionAnswered`, `CallsReturn`), which needs fairness and `ENABLED`; the
violations of section 3 and the divergences of section 3.1. `SpectraExact`, the
type invariant of the graphs in it: polynomials and pivots are defined by
`RECURSIVE` operators, the prover has no SMT solver in a module that reaches one,
and what they compute for every matrix would be an induction over data. Every
other invariant and action property of the runs is a theorem.

## 6. Plan

Done: the checkpoint store with its journal; both version 2 runners and their
budget; version 1 campaigns from planner to root; the corpus with its fetcher;
the baseline loop with review, lead and formal bridge; rights, content and
document candidates; sweeps, references, batches; synthesis and embedding; the exact
graph spectrum; an abstract baseline run; proofs of the safety properties the runs
check, but for the graphs.

Left, most important first:

1. Composition of list runner, checkpoint store and ledger (`fixture_runtime.py`),
   for the charges of repeated idempotent effects and the closeout of a resumed
   campaign.
2. Projections and chunked projections call by call, with the rights that
   queries look up.
3. The loop inside one acquisition of `phase4b/` (robots, redirects, rates); the
   attestations of `phase3b/`; exported packages of `phase4a/`.
4. Reference checks of other pure algorithms (backoff, span maps, the proposal of
   blocks for a graph family).

## 7. Not modelled

Provider wire formats, extraction and parsing of documents, rendering of
publications, numerical mathematics, scoring, record validation and
schemas: functions of their input, without a protocol. They are the larger part
of the repository by lines. The `synthesis/` functions for branches, steering and
retrieval keep no state between calls. Containers, Lean and the network are
external. Power failure (as opposed to the death of a process), short writes and
hash collisions are outside every model here. `PROJECT.json` names each component
with its reason, and under `hazards` those that no property covers.
