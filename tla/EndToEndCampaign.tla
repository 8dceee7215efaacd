---------------------------- MODULE EndToEndCampaign ----------------------------
(***************************************************************************)
(* campaign/end_to_end.py: EndToEndCampaignRunner, the runner of a fixed   *)
(* list of actions (fixture_runtime.py gives it fifteen).                  *)
(*                                                                         *)
(* A run replays the list through the checkpoint store and ends by         *)
(* writing its summary; a summary that differs from the one on disk is     *)
(* first copied under summary-history.  The caller may run the list again, *)
(* at the same time or another, for ever; the runner may die at any step.  *)
(*                                                                         *)
(* The store is used at the grain of EffectJournal: an intent, an effect,  *)
(* a terminal.  An intent carries the time of the run that announced it,   *)
(* and a run at another time is refused at the first one it meets; nothing *)
(* else of an intent can differ, for requests are made of the list and of  *)
(* results that are recorded.  The copy of a former summary is one step.   *)
(***************************************************************************)
EXTENDS LiteratureCycle, FiniteSetsExt, SequencesExt

CONSTANTS
  Lists,       \* the lists a caller may pass: sequences of
               \* [kind, names, sound, paid, needs]
  MaxActions,  \* max_actions
  Times,       \* the recorded_at a run may be given
  MaxRunDeaths,  \* bound on the number of deaths
  None

ASSUME EndToEndAssumption ==
  /\ MaxActions \in Nat \ {0} /\ MaxRunDeaths \in Nat
  /\ \A list \in Lists :
       /\ Len(list) \in Nat /\ DOMAIN list = 1..Len(list)
       /\ \A s \in DOMAIN list : list[s].paid \in BOOLEAN /\ list[s].needs \subseteq 1..(s - 1)

VARIABLES
  actions,   \* the list of this campaign
  steps,   \* sequence -> "none", "intent", "completed" or "failed"
  stamps,   \* sequence -> the recorded_at of its intent, or None
  summary,   \* end-to-end-summary.json, or None
  history,   \* summary-history: the former summaries copied
  former,    \* history variable: every summary that was ever on disk
  position,        \* where the runner is
  seq,       \* the sequence of the loop
  state,     \* its stage, searched and published
  draft,     \* the summary the run will write
  runDeaths

listFiles == <<steps, stamps, summary, history>>
listVars == <<actions, listFiles, former, position, seq, state, draft, runDeaths>>

Action == actions[seq]
FreshState == [stage |-> 0, searched |-> FALSE, published |-> {}]

ListInit ==
  /\ actions \in Lists
  /\ steps = [s \in DOMAIN actions |-> "none"]
  /\ stamps = [s \in DOMAIN actions |-> None]
  /\ summary = None
  /\ history = {}
  /\ former = {}
  /\ position = "off"
  /\ seq = 1
  /\ state = FreshState
  /\ draft = None
  /\ runDeaths = 0
-----------------------------------------------------------------------------
Kinds(list) == {list[s].kind : s \in DOMAIN list}
First(list, kinds) == Min({s \in DOMAIN list : list[s].kind \in kinds} \cup {Len(list) + 1})

\* run() lets the list through.
Accepts(list) ==
  /\ Len(list) <= MaxActions
  /\ "search" \in Kinds(list)
  /\ First(list, {"search"}) <= First(list, Substantive)

Off ==
  /\ position' = "off"
  /\ seq' = 1 /\ state' = FreshState /\ draft' = None

Run(time) ==
  /\ position = "off"
  /\ Accepts(actions)
  /\ position' = "enter"
  /\ draft' = [status |-> None, done |-> 0, time |-> time]
  /\ UNCHANGED <<actions, listFiles, former, seq, state, runDeaths>>

\* What _advance_literature_state and the request's callable need.
Ready ==
  /\ \A r \in Action.needs : steps[r] = "completed"
  /\ Admissible(Action, state.stage, state.searched, state.published, FALSE)

\* EndToEndRuntimeError, or a request that cannot be built: no summary.
Raise ==
  /\ position = "enter"
  /\ ~Ready
  /\ Off
  /\ UNCHANGED <<actions, listFiles, former, runDeaths>>

Advanced ==
  [state EXCEPT !.stage = StageAfter(Action, @), !.searched = SearchedAfter(Action, @)]

\* execute(): announce, effect, settle; or the recorded terminal.
Announce ==
  /\ position = "enter" /\ Ready
  /\ steps[seq] = "none"
  /\ steps' = [steps EXCEPT ![seq] = "intent"]
  /\ stamps' = [stamps EXCEPT ![seq] = draft.time]
  /\ state' = Advanced
  /\ position' = "effect"
  /\ UNCHANGED <<actions, summary, history, former, seq, draft, runDeaths>>

\* The intent of this sequence is there; it is the one this run would write.
Meets(status) ==
  /\ position = "enter" /\ Ready
  /\ steps[seq] = status
  /\ stamps[seq] = draft.time

\* CheckpointError, before a terminal is looked at: it leaves run(), no summary.
RefuseIntent ==
  /\ position = "enter" /\ Ready
  /\ steps[seq] # "none" /\ stamps[seq] # draft.time
  /\ Off
  /\ UNCHANGED <<actions, listFiles, former, runDeaths>>

Retry ==
  /\ Meets("intent") /\ ~Action.paid
  /\ state' = Advanced
  /\ position' = "effect"
  /\ UNCHANGED <<actions, listFiles, former, seq, draft, runDeaths>>

\* Slip: a terminal is returned before the intents are compared.
ReplayAtAnyTime ==
  /\ position = "enter" /\ Ready
  /\ steps[seq] \in {"completed", "failed"}
  /\ state' = Advanced
  /\ position' = "consume"
  /\ UNCHANGED <<actions, listFiles, former, seq, draft, runDeaths>>

Replay ==
  /\ \E status \in {"completed", "failed"} : Meets(status)
  /\ state' = Advanced
  /\ position' = "consume"
  /\ UNCHANGED <<actions, listFiles, former, seq, draft, runDeaths>>

Settle(status) ==
  /\ position = "effect"
  /\ steps' = [steps EXCEPT ![seq] = status]
  /\ position' = "consume"
  /\ UNCHANGED <<actions, stamps, summary, history, former, seq, state, draft, runDeaths>>

\* The loop is left: the draft is what the summary will say.
Conclude(status, done) ==
  /\ draft' = [draft EXCEPT !.status = status, !.done = done]
  /\ position' = "compare"

StopAmbiguous ==
  /\ Meets("intent") /\ Action.paid
  /\ Conclude("unresolved", seq - 1)
  /\ UNCHANGED <<actions, listFiles, former, seq, state, runDeaths>>

\* A completed action, or nonterminal_candidate_failure.
Passed(s) ==
  \/ steps[s] = "completed"
  \/ steps[s] = "failed" /\ actions[s].kind \in Candidates /\ s < Len(actions)

\* Slip: the count is off by one.
GoOnCountingOne ==
  /\ position = "consume"
  /\ Passed(seq)
  /\ IF seq < Len(actions)
     THEN seq' = seq + 1 /\ position' = "enter" /\ UNCHANGED draft
     ELSE Conclude("completed", seq + 1) /\ UNCHANGED seq
  /\ UNCHANGED <<actions, listFiles, former, state, runDeaths>>

GoOn ==
  /\ position = "consume"
  /\ Passed(seq)
  /\ IF seq < Len(actions)
     THEN seq' = seq + 1 /\ position' = "enter" /\ UNCHANGED draft
     ELSE Conclude("completed", seq) /\ UNCHANGED seq
  /\ UNCHANGED <<actions, listFiles, former, state, runDeaths>>

StopFailed ==
  /\ position = "consume"
  /\ ~Passed(seq)
  /\ Conclude("unresolved", seq)
  /\ UNCHANGED <<actions, listFiles, former, seq, state, runDeaths>>
-----------------------------------------------------------------------------
\* A summary on disk that is another one than this run's is copied first.
Preserve ==
  /\ position = "compare"
  /\ history' = history \cup ({summary} \ {None, draft})
  /\ position' = "replace"
  /\ UNCHANGED <<actions, steps, stamps, summary, former, seq, state, draft, runDeaths>>

\* The .partial is truncated and written, then renamed: readers see one step.
Replace ==
  /\ position = "replace"
  /\ summary' = draft
  /\ former' = former \cup {draft}
  /\ Off
  /\ UNCHANGED <<actions, steps, stamps, history, runDeaths>>

RunDies ==
  /\ position # "off"
  /\ runDeaths < MaxRunDeaths
  /\ runDeaths' = runDeaths + 1
  /\ Off
  /\ UNCHANGED <<actions, listFiles, former>>

ListNext ==
  \/ \E time \in Times : Run(time)
  \/ Raise \/ Announce \/ RefuseIntent \/ Retry \/ Replay \/ StopAmbiguous
  \/ \E status \in {"completed", "failed"} : Settle(status)
  \/ GoOn \/ StopFailed
  \/ Preserve \/ Replace
  \/ RunDies

ListSpec == ListInit /\ [][ListNext]_listVars
-----------------------------------------------------------------------------
Summaries ==
  [status : {"completed", "unresolved"}, done : 0..MaxActions, time : Times]

ListTypeOK ==
  /\ actions \in Lists
  /\ steps \in [DOMAIN actions -> {"none", "intent", "completed", "failed"}]
  /\ stamps \in [DOMAIN actions -> Times \cup {None}]
  /\ former \cup history \cup ({summary} \ {None}) \subseteq Summaries
  /\ position \in {"off", "enter", "effect", "consume", "compare", "replace"}
  /\ seq \in 1..MaxActions
  /\ runDeaths \in 0..MaxRunDeaths

\* What the records say of the campaign: where it stopped, or that all was passed.
Says(h) ==
  /\ h.time = stamps[1]
  /\ \/ /\ h.status = "completed" /\ h.done = Len(actions)
        /\ \A s \in DOMAIN actions : Passed(s)
     \/ /\ h.status = "unresolved"
        /\ \E s \in DOMAIN actions :
             /\ \A r \in 1..s - 1 : Passed(r)
             /\ ~Passed(s)
             /\ \/ steps[s] = "failed" /\ h.done = s
                \/ steps[s] = "intent" /\ actions[s].paid /\ h.done = s - 1

\* end_to_end.py:213-303: what a summary told, the records bear out ever after, over
\* runs at any time and deaths at any step: nothing is announced, retried or settled
\* once a summary is written, so every later run that ends with a summary writes the
\* same one and there is never a former summary to preserve.
SummaryStands ==
  /\ \A h \in former : Says(h)
  /\ history = {}
=============================================================================
