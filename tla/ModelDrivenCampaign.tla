-------------------------- MODULE ModelDrivenCampaign --------------------------
(***************************************************************************)
(* campaign/end_to_end.py: ModelDrivenEndToEndCampaignRunner.              *)
(*                                                                         *)
(* One runner at a time replays a campaign from sequence 1: for each       *)
(* sequence it asks the planner for one action, executes it, and, after    *)
(* ask_user, records the operator's answer.  Each of the three crosses its *)
(* own checkpoint store; the only state that outlives a run is what the    *)
(* stores and the summary file hold.  The runner may die between any two   *)
(* steps and be resumed with an answer or without one.                     *)
(*                                                                         *)
(* A store is used as EffectJournal promises: the steps of execute() here  *)
(* are announce, effect, settle (module ActionCheckpoint has the files     *)
(* under them).  Of the hashes results carry, the model keeps the          *)
(* published generations.                                                  *)
(***************************************************************************)
EXTENDS LiteratureCycle, FiniteSets

CONSTANTS
  Plans,          \* what the planner may answer: [kind, names, sound]
  Registered,     \* the kinds the effect registry resolves
  PaidKinds,      \* the registered kinds whose effect is paid or irreversible
  PlannerIsPaid,  \* planner_is_paid
  Generations,    \* the generations a refresh may publish
  Answers,        \* what the operator may answer
  MaxActions,     \* max_actions
  MaxCrashes,     \* bound on the number of deaths
  None

Stores == {"plan", "act", "answer"}
Sequences == 1..MaxActions
Cells == Stores \X Sequences
Many == 2

ASSUME CampaignAssumption ==
  /\ MaxActions \in Nat \ {0}
  /\ MaxCrashes \in Nat
  /\ PlannerIsPaid \in BOOLEAN
  /\ None \notin [seq : Cells, paid : BOOLEAN]

VARIABLES
  intents,    \* <<store, sequence>> -> the announced request, where there is one
  terminals,  \* <<store, sequence>> -> the recorded outcome, where there is one
  runs,       \* history: how often the effect ran: 0, 1 or Many
  produced,   \* history: the outcomes those runs delivered
  summary,    \* the summary file: [status, at] or None
  pc,         \* "off", or the store the runner is executing through
  step,       \* "enter", "effect", "settle" or "consume" of that execute()
  seq,        \* the sequence of the run
  frame,      \* the run's stage, searched, published and latest
  answer,     \* the operator's answer, while the run still has it
  held,       \* the outcome execute() works on or returned
  crashes

durable == <<intents, terminals, summary>>
vars == <<intents, terminals, runs, produced, summary, pc, step, seq, frame, answer,
          held, crashes>>

At(store, s) == <<store, s>>

\* A file of the stores appears, with its content.
Put(store, c, content) ==
  [x \in DOMAIN store \cup {c} |-> IF x = c THEN content ELSE store[x]]

Outcome(status, value) == [status |-> status, value |-> value]
NewFrame == [stage |-> 0, searched |-> FALSE, published |-> {}, latest |-> None]

Init ==
  /\ intents = [c \in {} |-> None]
  /\ terminals = [c \in {} |-> None]
  /\ runs = [c \in Cells |-> 0]
  /\ produced = [c \in Cells |-> {}]
  /\ summary = None
  /\ pc = "off"
  /\ step = "enter"
  /\ seq = 1
  /\ frame = NewFrame
  /\ answer = None
  /\ held = None
  /\ crashes = 0
-----------------------------------------------------------------------------
(* The request each execute() carries, and whether it is paid.             *)

Plan(s) == terminals[At("plan", s)].value
Kind(s) == Plan(s).kind

Request ==
  CASE pc = "plan" ->
         [seq |-> seq, latest |-> frame.latest, available |-> frame.published]
    [] pc = "act" -> [seq |-> seq, plan |-> Plan(seq)]
    [] pc = "answer" ->
         [seq |-> seq, question |-> Plan(seq), answer |-> answer]

Paid(store, s) ==
  \/ store = "plan" /\ PlannerIsPaid
  \/ store = "act" /\ Kind(s) \in PaidKinds

\* What the effect may deliver, and whether it may fail: an exception is a
\* failed outcome, the local bindings of ask_user, report and the import do not
\* fail.
Delivered ==
  IF pc = "plan" THEN Plans
  ELSE IF pc = "answer" THEN {answer}
  ELSE IF Kind(seq) = "refresh" THEN Generations
  ELSE {None}

Fallible == pc = "plan" \/ (pc = "act" /\ Kind(seq) \notin {"ask", "report"})

Outcomes ==
  {Outcome("completed", v) : v \in Delivered}
  \cup (IF Fallible THEN {Outcome("failed", None)} ELSE {})

Here == At(pc, seq)

\* The run ends: the summary is written (partial file, rename) and returned.
Stop(status) ==
  /\ summary' = [status |-> status, at |-> seq]
  /\ pc' = "off" /\ step' = "enter"
  /\ seq' = 1 /\ frame' = NewFrame /\ answer' = None /\ held' = None

\* The run ends by an exception: nothing is written.
Off ==
  /\ pc' = "off" /\ step' = "enter"
  /\ seq' = 1 /\ frame' = NewFrame /\ answer' = None /\ held' = None

Goto(store, to) == pc' = store /\ step' = to

Resume(given) ==
  /\ pc = "off"
  /\ Goto("plan", "enter")
  /\ frame' = NewFrame
  /\ answer' = given
  /\ UNCHANGED <<intents, terminals, runs, produced, summary, seq, held, crashes>>
-----------------------------------------------------------------------------
(* execute() of the store the runner is at.                                *)

Running == pc # "off"
IsAnnounced(c) == c \in DOMAIN intents
IsRecorded(c) == c \in DOMAIN terminals

Replay ==
  /\ Running /\ step = "enter"
  /\ IsAnnounced(Here) /\ intents[Here] = Request
  /\ IsRecorded(Here)
  /\ held' = terminals[Here]
  /\ step' = "consume"
  /\ UNCHANGED <<intents, terminals, runs, produced, summary, pc, seq, frame, answer, crashes>>

\* CheckpointError, "different action intent": nobody catches it in run().
RefuseOther ==
  /\ Running /\ step = "enter"
  /\ IsAnnounced(Here) /\ intents[Here] # Request
  /\ Off
  /\ UNCHANGED <<intents, terminals, runs, produced, summary, crashes>>

Announce ==
  /\ Running /\ step = "enter"
  /\ ~IsAnnounced(Here)
  /\ intents' = Put(intents, Here, Request)
  /\ step' = "effect"
  /\ UNCHANGED <<terminals, runs, produced, summary, pc, seq, frame, answer, held, crashes>>

\* AmbiguousEffectError: the run stops unresolved.
StopAmbiguous ==
  /\ Running /\ step = "enter"
  /\ IsAnnounced(Here) /\ intents[Here] = Request
  /\ ~IsRecorded(Here)
  /\ Paid(pc, seq)
  /\ Stop("unresolved")
  /\ UNCHANGED <<intents, terminals, runs, produced, crashes>>

\* Slip: an orphaned intent is executed again whatever it costs.
RetryAny ==
  /\ Running /\ step = "enter"
  /\ IsAnnounced(Here) /\ intents[Here] = Request
  /\ ~IsRecorded(Here)
  /\ step' = "effect"
  /\ UNCHANGED <<intents, terminals, runs, produced, summary, pc, seq, frame, answer, held,
                 crashes>>

\* Slip: the second look at the terminal is forgotten.
RetrySettled ==
  /\ Running /\ step = "enter"
  /\ IsAnnounced(Here) /\ intents[Here] = Request
  /\ ~Paid(pc, seq)
  /\ step' = "effect"
  /\ UNCHANGED <<intents, terminals, runs, produced, summary, pc, seq, frame, answer, held,
                 crashes>>

Retry ==
  /\ Running /\ step = "enter"
  /\ IsAnnounced(Here) /\ intents[Here] = Request
  /\ ~IsRecorded(Here)
  /\ ~Paid(pc, seq)
  /\ step' = "effect"
  /\ UNCHANGED <<intents, terminals, runs, produced, summary, pc, seq, frame, answer, held,
                 crashes>>

Effect ==
  /\ Running /\ step = "effect"
  /\ runs' = [runs EXCEPT ![Here] = IF @ = Many THEN Many ELSE @ + 1]
  /\ held' \in Outcomes
  /\ produced' = [produced EXCEPT ![Here] = @ \cup {held'}]
  /\ step' = "settle"
  /\ UNCHANGED <<intents, terminals, summary, pc, seq, frame, answer, crashes>>

Settle ==
  /\ Running /\ step = "settle"
  /\ terminals' = Put(terminals, Here, held)
  /\ step' = "consume"
  /\ UNCHANGED <<intents, runs, produced, summary, pc, seq, frame, answer, held, crashes>>
-----------------------------------------------------------------------------
(* What run() does with the record execute() returned.                     *)

\* parse_planned_action, _advance_literature_state and the registry accept it.
Acceptable(plan) ==
  /\ plan.kind \notin {"malformed", "declined"}
  /\ Admissible(plan, frame.stage, frame.searched, frame.published, TRUE)
  /\ plan.kind = "ask" => plan.sound
  /\ plan.kind \in Registered \cup {"ask", "report"}

AcceptPlan ==
  /\ pc = "plan" /\ step = "consume"
  /\ held.status = "completed" /\ Acceptable(held.value)
  /\ frame' = [frame EXCEPT !.stage = StageAfter(held.value, @),
                            !.searched = SearchedAfter(held.value, @)]
  /\ Goto("act", "enter")
  /\ UNCHANGED <<intents, terminals, runs, produced, summary, seq, answer, held, crashes>>

StopAtPlan ==
  /\ pc = "plan" /\ step = "consume"
  /\ ~(held.status = "completed" /\ Acceptable(held.value))
  /\ Stop("unresolved")
  /\ UNCHANGED <<intents, terminals, runs, produced, crashes>>

\* records, latest and published_generations after a terminal action.
Feedback ==
  [frame EXCEPT
     !.latest = [from |-> Kind(seq), outcome |-> held],
     !.published = IF held.status = "completed" /\ Kind(seq) = "refresh"
                   THEN @ \cup {held.value} ELSE @]

\* Slip: the loop runs one sequence too far.
AdvanceTooFar(next, left) ==
  IF seq <= MaxActions
  THEN /\ seq' = seq + 1
       /\ frame' = next
       /\ answer' = left
       /\ Goto("plan", "enter")
       /\ held' = None
       /\ UNCHANGED summary
  ELSE Stop("unresolved")

\* The loop goes on with what is left of the answer, or its for-else:
\* action_bound_exhausted.
Advance(next, left) ==
  IF seq < MaxActions
  THEN /\ seq' = seq + 1
       /\ frame' = next
       /\ answer' = left
       /\ Goto("plan", "enter")
       /\ held' = None
       /\ UNCHANGED summary
  ELSE Stop("unresolved")

AtAct == pc = "act" /\ step = "consume"

\* Slip: the failure of any action is left behind.
GoOnAlways ==
  /\ AtAct
  /\ Kind(seq) \notin {"ask", "report"}
  /\ Advance(Feedback, answer)
  /\ UNCHANGED <<intents, terminals, runs, produced, crashes>>

\* Completed, or a failed candidate: on to the next sequence.
GoOn ==
  /\ AtAct
  /\ Kind(seq) \notin {"ask", "report"}
  /\ held.status = "completed" \/ Kind(seq) \in Candidates
  /\ Advance(Feedback, answer)
  /\ UNCHANGED <<intents, terminals, runs, produced, crashes>>

StopAtFailure ==
  /\ AtAct
  /\ held.status # "completed"
  /\ Kind(seq) \notin Candidates
  /\ Stop("unresolved")
  /\ UNCHANGED <<intents, terminals, runs, produced, crashes>>

Report ==
  /\ AtAct
  /\ Kind(seq) = "report"
  /\ Stop("completed")
  /\ UNCHANGED <<intents, terminals, runs, produced, crashes>>

\* Slip: a question nobody answered does not stop the run.
GoPastQuestion ==
  /\ AtAct
  /\ Kind(seq) = "ask"
  /\ answer = None
  /\ Advance(Feedback, answer)
  /\ UNCHANGED <<intents, terminals, runs, produced, crashes>>

\* Slip: the run stops at a question even with an answer in hand.
AwaitAlways ==
  /\ AtAct
  /\ Kind(seq) = "ask"
  /\ Stop("awaiting_user")
  /\ UNCHANGED <<intents, terminals, runs, produced, crashes>>

AwaitUser ==
  /\ AtAct
  /\ Kind(seq) = "ask"
  /\ answer = None
  /\ Stop("awaiting_user")
  /\ UNCHANGED <<intents, terminals, runs, produced, crashes>>

\* Slip: the answer is used, and not imported.
UseAnswer ==
  /\ AtAct
  /\ Kind(seq) = "ask"
  /\ answer # None
  /\ Advance([frame EXCEPT !.latest = [from |-> "answer", outcome |-> answer]], None)
  /\ UNCHANGED <<intents, terminals, runs, produced, crashes>>

\* The answer goes to the first question the replay meets.
GiveAnswer ==
  /\ AtAct
  /\ Kind(seq) = "ask"
  /\ answer # None
  /\ frame' = Feedback
  /\ Goto("answer", "enter")
  /\ UNCHANGED <<intents, terminals, runs, produced, summary, seq, answer, held, crashes>>

AfterAnswer ==
  /\ pc = "answer" /\ step = "consume"
  /\ Advance([frame EXCEPT !.latest = [from |-> "answer", outcome |-> held]], None)
  /\ UNCHANGED <<intents, terminals, runs, produced, crashes>>

Crash ==
  /\ Running
  /\ crashes < MaxCrashes
  /\ crashes' = crashes + 1
  /\ Off
  /\ UNCHANGED <<intents, terminals, runs, produced, summary>>
-----------------------------------------------------------------------------
Proceed ==
  \/ Replay \/ RefuseOther \/ Announce \/ StopAmbiguous \/ Retry
  \/ Effect \/ Settle
  \/ AcceptPlan \/ StopAtPlan
  \/ GoOn \/ StopAtFailure \/ Report
  \/ AwaitUser \/ GiveAnswer \/ AfterAnswer

Next ==
  \/ \E a \in Answers \cup {None} : Resume(a)
  \/ Proceed
  \/ Crash

Spec == Init /\ [][Next]_vars

\* A started run goes on; the operator resumes, with every answer, for ever.
Fairness ==
  /\ WF_vars(Proceed)
  /\ \A a \in Answers : SF_vars(Resume(a))

FairSpec == Spec /\ Fairness
-----------------------------------------------------------------------------
(* The stores as EffectJournal sees them: a cell is a sequence of its own, *)
(* a request is paid or not.                                               *)

Announcement(c) ==
  IF IsAnnounced(c) THEN [seq |-> c, paid |-> Paid(c[1], c[2])] ELSE None

Settlement(c) ==
  IF IsRecorded(c) THEN [intent |-> Announcement(c), outcome |-> terminals[c]] ELSE None

AllOutcomes ==
  {Outcome("failed", None)}
    \cup {Outcome("completed", v) : v \in Plans \cup Generations \cup Answers \cup {None}}

Journal == INSTANCE EffectJournal WITH
  Calls <- [seq : Cells, paid : BOOLEAN],
  Outcomes <- AllOutcomes,
  None <- None,
  intent <- [c \in Cells |-> Announcement(c)],
  terminal <- [c \in Cells |-> Settlement(c)],
  runs <- runs,
  produced <- produced

\* The three stores of a campaign are effect journals (checkpoint.py:1-9): whatever is
\* replayed, resumed or stopped, an intent comes before its effect and never changes,
\* not even in being paid, a paid effect runs once, and a terminal has an outcome that
\* its effect delivered.
StoresAreJournals == Journal!Spec
-----------------------------------------------------------------------------
Recorded(store, s) == IsRecorded(At(store, s))
Announced(store, s) == IsAnnounced(At(store, s))
Ran(s) == runs[At("act", s)] > 0
Done(kind, s) ==
  /\ Recorded("act", s)
  /\ Kind(s) = kind
  /\ terminals[At("act", s)].status = "completed"
Question(s) == Recorded("act", s) /\ Kind(s) = "ask"

TypeOK ==
  /\ DOMAIN terminals \subseteq DOMAIN intents /\ DOMAIN intents \subseteq Cells
  /\ runs \in [Cells -> 0..Many]
  /\ summary = None \/ summary \in
       [status : {"unresolved", "awaiting_user", "completed"}, at : Sequences]
  /\ pc \in Stores \cup {"off"}
  /\ step \in {"enter", "effect", "settle", "consume"}
  /\ seq \in Sequences
  /\ frame.stage \in 0..6 /\ frame.searched \in BOOLEAN
  /\ frame.published \subseteq Generations
  /\ answer \in Answers \cup {None}
  /\ crashes \in 0..MaxCrashes

\* ADR-0079, "an orphaned paid or irreversible intent stops unresolved": over
\* any number of deaths and resumptions a paid planner call or effect ran once.
PaidOnce ==
  \A store \in Stores, s \in Sequences :
    runs[At(store, s)] = Many => ~Paid(store, s)

\* end_to_end.py:84-128 over a whole campaign: the effect of a rung ran only
\* after the rung before it was completed, in the same literature cycle.
LiteratureOrder ==
  \A s \in Sequences :
    Ran(s) /\ Kind(s) \in DOMAIN Before =>
      \E r \in 1..(s - 1) :
        /\ Done(Before[Kind(s)], r)
        /\ \A t \in (r + 1)..(s - 1) : ~Done("search", t)

\* ADR-0079: "Search must precede the first substantive research action" - a
\* search that is recorded as completed, not one that was only planned.
SearchBeforeResearch ==
  \A s \in Sequences :
    Ran(s) /\ Kind(s) \in Substantive => \E r \in 1..(s - 1) : Done("search", r)

\* ADR-0079: retrieval names a generation "that the current campaign observed
\* as published from a completed refresh".
RetrievalBound ==
  \A s \in Sequences :
    Ran(s) /\ Kind(s) = "retrieve" =>
      \E r \in 1..(s - 1) :
        Done("refresh", r) /\ terminals[At("act", r)].value = Plan(s).names

\* The two of them: the ladder is climbed rung by rung, to a generation of this campaign.
LadderClimbed == LiteratureOrder /\ RetrievalBound

\* A replay rebuilds the request of every recorded planner call and effect: the
\* stores never refuse their own campaign (end_to_end.py:419-434, 487-493).
ReplayStable ==
  Running /\ step = "enter" /\ pc # "answer" /\ IsAnnounced(Here) =>
    intents[Here] = Request

\* No step of the campaign goes past a question that has no human answer.
QuestionGate ==
  \A s \in Sequences :
    Question(s) /\ ~Recorded("answer", s) =>
      \A t \in (s + 1)..MaxActions : ~Announced("plan", t)

\* end_to_end.py:538-551: a campaign is called completed only with a report, and
\* with no failure before it but those of experiments and verifiers.
CompletedMeansReported ==
  summary # None /\ summary.status = "completed" =>
    /\ Done("report", summary.at)
    /\ \A r \in 1..(summary.at - 1) : Done(Kind(r), r) \/ Kind(r) \in Candidates

\* Without a question in it, a completed campaign stays completed, however often
\* it is resumed (checkpoint.py:4: replay returns the recorded result).
CompletedFinal ==
  [][ (/\ summary # None /\ summary.status = "completed"
       /\ \A s \in Sequences : ~Question(s))
      => summary' = summary ]_vars

\* The first question of a campaign is answered once the operator resumes with
\* an answer often enough, wherever the runner died before.
FirstQuestionAnswered ==
  \A s \in Sequences :
    Question(s) /\ (\A r \in 1..(s - 1) : ~Question(r)) ~> Recorded("answer", s)

\* ADR-0079, "Resume with an answer records a separate human-attributed import
\* checkpoint and continues at the next sequence", of every question.
EveryQuestionAnswered ==
  \A s \in Sequences : Question(s) ~> Recorded("answer", s)
=============================================================================
