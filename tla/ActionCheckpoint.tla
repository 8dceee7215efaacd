--------------------------- MODULE ActionCheckpoint ---------------------------
(***************************************************************************)
(* campaign/checkpoint.py: ActionCheckpointStore, file by file.            *)
(*                                                                         *)
(* Processes call execute() on one store directory.  A store keeps, per    *)
(* sequence, an intent file, a terminal file, the ".partial" file of a     *)
(* write in progress, and one flock for all of them.  execute() loads the  *)
(* terminal, writes the intent under the lock, loads the terminal again,   *)
(* runs the effect outside the lock and writes the terminal under the      *)
(* lock.  A process may die between any two steps: its lock goes, its      *)
(* files stay.                                                             *)
(*                                                                         *)
(* Hashes are injective, so a record is its content: the intent is the     *)
(* call itself and a terminal record names its intent.  An outcome stands  *)
(* for the pair (status, result): nothing here tells statuses apart.       *)
(***************************************************************************)
EXTENDS Naturals, FiniteSets

CONSTANTS
  Procs,        \* the processes that may execute actions of the campaign
  Calls,        \* the inputs of execute: [seq, request, paid, at]
  Outcomes,     \* what an effect can end with
  None,         \* no record, no process
  MaxCrashes    \* bound on the number of process deaths

ASSUME CallsAssumption ==
  /\ \A c \in Calls : c.paid \in BOOLEAN
  /\ None \notin Calls
  /\ None \notin [intent : Calls, outcome : Outcomes]
  /\ None \notin Procs
  /\ MaxCrashes \in Nat

VARIABLES
  intent,     \* sequence -> content of NNNNNN.intent.json or None
  terminal,   \* sequence -> content of NNNNNN.terminal.json or None
  partial,    \* the .partial files in the directory: <<sequence, kind>>
  lock,       \* holder of writer.lock or None
  runs,       \* history: how often an effect of the sequence ran
  produced,   \* history: the outcomes those runs delivered
  pc,         \* where in execute() each process is
  call,       \* the arguments of its execute()
  prior,      \* its local prior_terminal
  created,    \* its local created
  outcome,    \* what its effect ended with
  returned,   \* what its last execute() returned, None if it raised
  crashes     \* deaths so far

files == <<intent, terminal, partial>>
locals == <<call, prior, created, outcome>>
vars == <<intent, terminal, partial, lock, runs, produced, pc, call, prior,
          created, outcome, returned, crashes>>

\* The abstract journal over this module's own files and histories.
Journal == INSTANCE EffectJournal WITH
  Calls <- Calls, Outcomes <- Outcomes, None <- None,
  intent <- intent, terminal <- terminal, runs <- runs, produced <- produced

Seqs == Journal!Seqs
Terminals == Journal!Terminals
Kinds == {"intent", "terminal"}
Labels == {"idle", "look", "intend", "intending", "declaring", "recheck",
           "run", "bind", "close", "closing", "settling"}
InLock == {"intending", "declaring", "closing", "settling"}

Record(c, o) == [intent |-> c, outcome |-> o]
Sequence(p) == call[p].seq

Init ==
  /\ Journal!Init
  /\ partial = {}
  /\ lock = None
  /\ pc = [p \in Procs |-> "idle"]
  /\ call = [p \in Procs |-> None]
  /\ prior = [p \in Procs |-> None]
  /\ created = [p \in Procs |-> FALSE]
  /\ outcome = [p \in Procs |-> None]
  /\ returned = [p \in Procs |-> None]
  /\ crashes = 0
-----------------------------------------------------------------------------
Goto(p, from, to) == pc[p] = from /\ pc' = [pc EXCEPT ![p] = to]

\* execute() ends: its frame is gone, what it returned (None: it raised) stays.
Leave(p, value) ==
  /\ pc' = [pc EXCEPT ![p] = "idle"]
  /\ call' = [call EXCEPT ![p] = None]
  /\ prior' = [prior EXCEPT ![p] = None]
  /\ created' = [created EXCEPT ![p] = FALSE]
  /\ outcome' = [outcome EXCEPT ![p] = None]
  /\ returned' = [returned EXCEPT ![p] = value]

Start(p, c) ==
  /\ Goto(p, "idle", "look")
  /\ call' = [call EXCEPT ![p] = c]
  /\ returned' = [returned EXCEPT ![p] = None]
  /\ UNCHANGED <<files, lock, runs, produced, prior, created, outcome, crashes>>

\* prior_terminal = self.load(sequence, "terminal"), without the lock.
Look(p) ==
  /\ Goto(p, "look", "intend")
  /\ prior' = [prior EXCEPT ![p] = terminal[Sequence(p)]]
  /\ UNCHANGED <<files, lock, runs, produced, call, created, outcome, returned,
                 crashes>>

TakeLock(p) ==
  /\ lock = None
  /\ lock' = p
  /\ \/ Goto(p, "intend", "intending")
     \/ Goto(p, "close", "closing")
  /\ UNCHANGED <<files, runs, produced, locals, returned, crashes>>

\* Slip: an existing intent is reported as newly created.
KeepIntentAsNew(p) ==
  /\ Goto(p, "intending", "recheck")
  /\ intent[Sequence(p)] = call[p]
  /\ lock' = None
  /\ created' = [created EXCEPT ![p] = TRUE]
  /\ UNCHANGED <<files, runs, produced, call, prior, outcome, returned, crashes>>

\* The sequence holds this very intent: (existing, False).
KeepIntent(p) ==
  /\ Goto(p, "intending", "recheck")
  /\ intent[Sequence(p)] = call[p]
  /\ lock' = None
  /\ created' = [created EXCEPT ![p] = FALSE]
  /\ UNCHANGED <<files, runs, produced, call, prior, outcome, returned, crashes>>

\* Slip: the stored intent is replaced instead of compared.
ReplaceIntent(p) ==
  /\ Goto(p, "intending", "recheck")
  /\ intent[Sequence(p)] \notin {None, call[p]}
  /\ intent' = [intent EXCEPT ![Sequence(p)] = call[p]]
  /\ created' = [created EXCEPT ![p] = TRUE]
  /\ lock' = None
  /\ UNCHANGED <<terminal, partial, runs, produced, call, prior, outcome,
                 returned, crashes>>

\* It holds another one: CheckpointError, the lock released by finally.
RefuseIntent(p) ==
  /\ pc[p] = "intending"
  /\ intent[Sequence(p)] \notin {None, call[p]}
  /\ Leave(p, None)
  /\ lock' = None
  /\ UNCHANGED <<files, runs, produced, crashes>>

\* _write_once: os.open(O_CREAT | O_EXCL) of the partial file succeeds.
OpenIntent(p) ==
  /\ Goto(p, "intending", "declaring")
  /\ intent[Sequence(p)] = None
  /\ <<Sequence(p), "intent">> \notin partial
  /\ partial' = partial \cup {<<Sequence(p), "intent">>}
  /\ UNCHANGED <<intent, terminal, lock, runs, produced, locals, returned,
                 crashes>>

\* _write_once: a partial file is in the way, FileExistsError leaves execute().
BlockedIntent(p) ==
  /\ pc[p] = "intending"
  /\ intent[Sequence(p)] = None
  /\ <<Sequence(p), "intent">> \in partial
  /\ Leave(p, None)
  /\ lock' = None
  /\ UNCHANGED <<files, runs, produced, crashes>>

\* write, fsync, close, rename over the intent: (value, True), lock released.
RenameIntent(p) ==
  /\ Goto(p, "declaring", "recheck")
  /\ intent' = [intent EXCEPT ![Sequence(p)] = call[p]]
  /\ partial' = partial \ {<<Sequence(p), "intent">>}
  /\ created' = [created EXCEPT ![p] = TRUE]
  /\ lock' = None
  /\ UNCHANGED <<terminal, runs, produced, call, prior, outcome, returned,
                 crashes>>

\* terminal = prior_terminal or self.load(sequence, "terminal")
Known(p) == IF prior[p] # None THEN prior[p] ELSE terminal[Sequence(p)]

ReturnKnown(p) ==
  /\ pc[p] = "recheck"
  /\ Known(p) # None
  /\ Leave(p, Known(p))
  /\ UNCHANGED <<files, lock, runs, produced, crashes>>

\* AmbiguousEffectError: someone may have crossed the effect already.
RefuseAmbiguous(p) ==
  /\ pc[p] = "recheck"
  /\ Known(p) = None
  /\ ~created[p] /\ call[p].paid
  /\ Leave(p, None)
  /\ UNCHANGED <<files, lock, runs, produced, crashes>>

\* Slip: the effect class of an orphaned intent is not looked at.
DecideAlways(p) ==
  /\ Goto(p, "recheck", "run")
  /\ Known(p) = None
  /\ UNCHANGED <<files, lock, runs, produced, locals, returned, crashes>>

\* Slip: only the writer of an intent ever runs its effect.
DecideIfCreated(p) ==
  /\ Goto(p, "recheck", "run")
  /\ Known(p) = None
  /\ created[p]
  /\ UNCHANGED <<files, lock, runs, produced, locals, returned, crashes>>

Decide(p) ==
  /\ Goto(p, "recheck", "run")
  /\ Known(p) = None
  /\ created[p] \/ ~call[p].paid
  /\ UNCHANGED <<files, lock, runs, produced, locals, returned, crashes>>

\* effect(idempotency_key): it may raise, which is an outcome as well.
RunEffect(p, o) ==
  /\ Goto(p, "run", "bind")
  /\ runs' = [runs EXCEPT ![Sequence(p)] = Journal!More(@)]
  /\ produced' = [produced EXCEPT ![Sequence(p)] = @ \cup {o}]
  /\ outcome' = [outcome EXCEPT ![p] = o]
  /\ UNCHANGED <<files, lock, call, prior, created, returned, crashes>>

\* complete(): the stored intent is read again, before the lock is taken.
Bind(p) ==
  /\ Goto(p, "bind", "close")
  /\ intent[Sequence(p)] = call[p]
  /\ UNCHANGED <<files, lock, runs, produced, locals, returned, crashes>>

\* complete(): _write_once finds a terminal; equal bytes are accepted.
AgreeTerminal(p) ==
  /\ pc[p] = "closing"
  /\ terminal[Sequence(p)] = Record(call[p], outcome[p])
  /\ Leave(p, Record(call[p], outcome[p]))
  /\ lock' = None
  /\ UNCHANGED <<files, runs, produced, crashes>>

\* Slip: the refusal raises past the release of the lock.
RefuseTerminalInLock(p) ==
  /\ pc[p] = "closing"
  /\ terminal[Sequence(p)] \notin {None, Record(call[p], outcome[p])}
  /\ Leave(p, None)
  /\ UNCHANGED <<files, lock, runs, produced, crashes>>

\* complete(): _write_once finds other bytes: CheckpointError, "overwrite refused".
RefuseTerminal(p) ==
  /\ pc[p] = "closing"
  /\ terminal[Sequence(p)] \notin {None, Record(call[p], outcome[p])}
  /\ Leave(p, None)
  /\ lock' = None
  /\ UNCHANGED <<files, runs, produced, crashes>>

\* Slip: the terminal is written over.
OverwriteTerminal(p) ==
  /\ Goto(p, "closing", "settling")
  /\ <<Sequence(p), "terminal">> \notin partial
  /\ partial' = partial \cup {<<Sequence(p), "terminal">>}
  /\ UNCHANGED <<intent, terminal, lock, runs, produced, locals, returned,
                 crashes>>

OpenTerminal(p) ==
  /\ Goto(p, "closing", "settling")
  /\ terminal[Sequence(p)] = None
  /\ <<Sequence(p), "terminal">> \notin partial
  /\ partial' = partial \cup {<<Sequence(p), "terminal">>}
  /\ UNCHANGED <<intent, terminal, lock, runs, produced, locals, returned,
                 crashes>>

BlockedTerminal(p) ==
  /\ pc[p] = "closing"
  /\ terminal[Sequence(p)] = None
  /\ <<Sequence(p), "terminal">> \in partial
  /\ Leave(p, None)
  /\ lock' = None
  /\ UNCHANGED <<files, runs, produced, crashes>>

\* Slip: the terminal record does not name its intent.
RenameUnbound(p) ==
  /\ pc[p] = "settling"
  /\ terminal' = [terminal EXCEPT ![Sequence(p)] = outcome[p]]
  /\ partial' = partial \ {<<Sequence(p), "terminal">>}
  /\ Leave(p, None)
  /\ lock' = None
  /\ UNCHANGED <<intent, runs, produced, crashes>>

RenameTerminal(p) ==
  /\ pc[p] = "settling"
  /\ terminal' = [terminal EXCEPT ![Sequence(p)] = Record(call[p], outcome[p])]
  /\ partial' = partial \ {<<Sequence(p), "terminal">>}
  /\ Leave(p, Record(call[p], outcome[p]))
  /\ lock' = None
  /\ UNCHANGED <<intent, runs, produced, crashes>>

\* The process dies, or a write or fsync raises OSError: either way the lock
\* is released and the partial file, if there is one, stays behind.
Crash(p) ==
  /\ pc[p] # "idle"
  /\ crashes < MaxCrashes
  /\ crashes' = crashes + 1
  /\ Leave(p, None)
  /\ lock' = IF lock = p THEN None ELSE lock
  /\ UNCHANGED <<files, runs, produced>>
-----------------------------------------------------------------------------
\* The steps a process takes on its own once it has the lock or needs none.
Proceed(p) ==
  \/ Look(p)
  \/ KeepIntent(p) \/ RefuseIntent(p) \/ OpenIntent(p) \/ BlockedIntent(p)
  \/ RenameIntent(p)
  \/ ReturnKnown(p) \/ RefuseAmbiguous(p) \/ Decide(p)
  \/ \E o \in Outcomes : RunEffect(p, o)
  \/ Bind(p)
  \/ AgreeTerminal(p) \/ RefuseTerminal(p) \/ OpenTerminal(p)
  \/ BlockedTerminal(p) \/ RenameTerminal(p)

Next ==
  \E p \in Procs :
    \/ \E c \in Calls : Start(p, c)
    \/ TakeLock(p)
    \/ Proceed(p)
    \/ Crash(p)

Spec == Init /\ [][Next]_vars

\* A running process keeps running, and flock serves its waiters in turn.
Fairness ==
  \A p \in Procs : WF_vars(Proceed(p)) /\ SF_vars(TakeLock(p))

FairSpec == Spec /\ Fairness

\* The operator resumes the campaign again and again.
Resumed == \A p \in Procs, c \in Calls : SF_vars(Start(p, c))

ResumedSpec == FairSpec /\ Resumed
-----------------------------------------------------------------------------
TypeOK ==
  /\ intent \in [Seqs -> Calls \cup {None}]
  /\ terminal \in [Seqs -> Terminals \cup {None}]
  /\ partial \subseteq Seqs \X Kinds
  /\ lock \in Procs \cup {None}
  /\ runs \in [Seqs -> 0..Journal!Many]
  /\ produced \in [Seqs -> SUBSET Outcomes]
  /\ pc \in [Procs -> Labels]
  /\ call \in [Procs -> Calls \cup {None}]
  /\ prior \in [Procs -> Terminals \cup {None}]
  /\ created \in [Procs -> BOOLEAN]
  /\ outcome \in [Procs -> Outcomes \cup {None}]
  /\ returned \in [Procs -> Terminals \cup {None}]
  /\ crashes \in 0..MaxCrashes

\* checkpoint.py:5-6, "never executed again automatically": an effect ran
\* twice only at a sequence whose stored intent is an idempotent one.
PaidAtMostOnce ==
  \A s \in Seqs :
    runs[s] = Journal!Many => intent[s] # None /\ ~intent[s].paid

\* load() never finds a terminal without its intent, or one that binds another
\* intent, and what it records is an outcome some run really delivered.
TerminalBacked ==
  \A s \in Seqs :
    terminal[s] # None =>
      /\ intent[s] = terminal[s].intent
      /\ terminal[s].outcome \in produced[s]

\* checkpoint.py:4, "Replaying a completed action returns its recorded result":
\* whoever got an answer for a sequence got the record that is on disk, so two
\* callers that raced over an idempotent retry never hold different results.
OneAnswer ==
  \A p \in Procs :
    returned[p] # None => returned[p] = terminal[returned[p].intent.seq]

\* A process that may still run, or record, the paid effect of s: it wrote the
\* intent itself and has not left execute().
Owner(p, s) ==
  /\ pc[p] \in {"recheck", "run", "bind", "close", "closing", "settling"}
  /\ created[p]
  /\ Sequence(p) = s

\* A paid intent without a terminal whose writer died.
Orphan(s) ==
  /\ intent[s] # None /\ intent[s].paid
  /\ terminal[s] = None
  /\ \A p \in Procs : ~Owner(p, s)

\* checkpoint.py:5-6: no step of any process, restarted or racing, runs the
\* effect of an orphaned paid intent again or gives it a terminal.
OrphanFrozen ==
  [][\A s \in Seqs : Orphan(s) => runs'[s] = runs[s] /\ Orphan(s)']_vars

\* The store implements the journal: intent first, one run if paid, one
\* terminal out of what was delivered, nothing replaced, whatever crashes.
JournalSpec == Journal!Spec

\* Every execute() comes back: no error path keeps writer.lock, and no process
\* waits for ever for the lock of another (checkpoint.py:124-126, 155-157).
CallsReturn == \A p \in Procs : pc[p] # "idle" ~> pc[p] = "idle"

\* checkpoint.py:6-7, "an explicitly local, idempotent action may retry with the
\* same key": resumed often enough, an announced idempotent action ends.
RetryCompletes ==
  \A s \in Seqs :
    (intent[s] # None /\ ~intent[s].paid) ~> terminal[s] # None

\* What the code grants instead: it ends, or a ".partial" of the terminal that
\* a death between open and rename left behind stops every later attempt.
RetryCompletesOrWedges ==
  \A s \in Seqs :
    (intent[s] # None /\ ~intent[s].paid) ~>
      [](terminal[s] # None \/ <<s, "terminal">> \in partial)
=============================================================================
