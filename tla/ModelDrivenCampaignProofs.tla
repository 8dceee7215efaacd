----------------------- MODULE ModelDrivenCampaignProofs -----------------------
(***************************************************************************)
(* Theorems about ModelDrivenCampaign, for any planner, registry, number   *)
(* of actions and number of deaths.                                        *)
(***************************************************************************)
EXTENDS ModelDrivenCampaign, TLAPS

\* The variables have their shape.
Shape ==
  /\ runs \in [Cells -> 0..Many]
  /\ pc \in Stores \cup {"off"}
  /\ step \in {"enter", "effect", "settle", "consume"}
  /\ seq \in Sequences

\* No record without its intent, and what the runner knows between two steps of
\* execute().
Holding ==
  /\ DOMAIN terminals \subseteq DOMAIN intents
  /\ Running /\ step = "consume" => IsRecorded(Here)
  /\ Running /\ step \in {"effect", "settle"} => IsAnnounced(Here) /\ ~IsRecorded(Here)

\* An action is announced only behind its planner's recorded answer, so whether
\* it is paid is settled before it can run.
Planned ==
  /\ pc = "act" => Recorded("plan", seq)
  /\ \A s \in Sequences : Announced("act", s) => Recorded("plan", s)

\* Nothing ran before it was announced, and a paid effect about to run is new.
Licensed ==
  /\ \A c \in Cells : ~IsAnnounced(c) => runs[c] = 0
  /\ Running /\ step = "effect" /\ Paid(pc, seq) => runs[Here] = 0

IInv == Shape /\ Holding /\ Planned /\ Licensed /\ PaidOnce
-----------------------------------------------------------------------------
LEMMA CellFacts ==
  /\ \A store \in Stores, s \in Sequences : At(store, s) \in Cells
  /\ \A a, b, s, t : At(a, s) = At(b, t) => a = b /\ s = t
  BY DEF At, Cells

LEMMA InvInit == Init => IInv
<1> SUFFICES ASSUME Init PROVE IInv
  OBVIOUS
<1> USE CampaignAssumption, CellFacts
<1>1. Shape
  BY DEF Init, Shape, NewFrame, Stores, Sequences, Many
<1>2. Holding /\ Planned /\ Licensed /\ PaidOnce
  BY DEF Init, Holding, Planned, Licensed, PaidOnce, Running, Many,
         IsAnnounced, IsRecorded, Announced, Recorded
<1> QED
  BY <1>1, <1>2 DEF IInv

LEMMA InvStep == IInv /\ [Next]_vars => IInv'
<1> SUFFICES ASSUME IInv, [Next]_vars PROVE IInv'
  OBVIOUS
<1> USE CampaignAssumption, CellFacts
    DEF IInv, Shape, Holding, Planned, Licensed, PaidOnce, Running, Here, Stores,
        Many, Sequences, Paid, Kind, Plan,
        IsAnnounced, IsRecorded, Announced, Recorded, Put
<1>1. ASSUME NEW a \in Answers \cup {None}, Resume(a) PROVE IInv'
  BY <1>1 DEF Resume, NewFrame, Goto
<1>2. ASSUME Replay PROVE IInv'
  BY <1>2 DEF Replay
<1>3. ASSUME RefuseOther PROVE IInv'
  BY <1>3 DEF RefuseOther, Off, NewFrame
<1>4. ASSUME Announce PROVE IInv'
  BY <1>4 DEF Announce
<1>5. ASSUME StopAmbiguous PROVE IInv'
  BY <1>5 DEF StopAmbiguous, Stop, NewFrame
<1>6. ASSUME Retry PROVE IInv'
  BY <1>6 DEF Retry
<1>7. ASSUME Effect PROVE IInv'
  BY <1>7 DEF Effect
<1>8. ASSUME Settle PROVE IInv'
  BY <1>8 DEF Settle
<1>9. ASSUME AcceptPlan PROVE IInv'
  BY <1>9 DEF AcceptPlan, Goto
<1>10. ASSUME StopAtPlan PROVE IInv'
  BY <1>10 DEF StopAtPlan, Stop, NewFrame
<1>11. ASSUME GoOn PROVE IInv'
  BY <1>11 DEF GoOn, Advance, Stop, NewFrame, Goto
<1>12. ASSUME StopAtFailure PROVE IInv'
  BY <1>12 DEF StopAtFailure, Stop, NewFrame
<1>13. ASSUME Report PROVE IInv'
  BY <1>13 DEF Report, Stop, NewFrame
<1>14. ASSUME AwaitUser PROVE IInv'
  BY <1>14 DEF AwaitUser, Stop, NewFrame
<1>15. ASSUME GiveAnswer PROVE IInv'
  BY <1>15 DEF GiveAnswer, Goto
<1>16. ASSUME AfterAnswer PROVE IInv'
  BY <1>16 DEF AfterAnswer, Advance, Stop, NewFrame, Goto
<1>17. ASSUME Crash PROVE IInv'
  BY <1>17 DEF Crash, Off, NewFrame
<1>18. CASE UNCHANGED vars
  BY <1>18 DEF vars
<1> QED
  BY <1>1, <1>2, <1>3, <1>4, <1>5, <1>6, <1>7, <1>8, <1>9, <1>10, <1>11, <1>12,
     <1>13, <1>14, <1>15, <1>16, <1>17, <1>18 DEF Next, Proceed

\* ADR-0079, for every campaign: over any number of deaths and resumptions, a
\* paid planner call or effect ran at most once (end_to_end.py:435-441).
THEOREM CampaignPaysOnce == Spec => []PaidOnce
<1>1. IInv => PaidOnce
  BY DEF IInv
<1> QED
  BY <1>1, InvInit, InvStep, PTL DEF Spec
-----------------------------------------------------------------------------
\* The runner is past a sequence only with its action recorded, its question
\* answered and no failure but a candidate's; so is every later intent, and every
\* summary that says completed.
Passed(s) ==
  /\ Recorded("act", s)
  /\ Question(s) => Recorded("answer", s)
  /\ Done(Kind(s), s) \/ Kind(s) \in Candidates

Behind ==
  /\ ~Running => seq = 1
  /\ Running => \A s \in 1..(seq - 1) : Passed(s)
  /\ pc = "answer" => Recorded("act", seq) /\ Done("ask", seq)
  /\ \A s, t \in Sequences : s < t /\ Announced("plan", t) => Recorded("act", s)
  /\ summary # None /\ summary.status = "completed" =>
       summary.at \in Sequences /\ \A s \in 1..(summary.at - 1) : Passed(s)

\* The local bindings of ask_user and report are recorded as completed.
Local == {"ask", "report"}
Bound ==
  /\ Running /\ step = "consume" => held = terminals[Here]
  /\ pc = "act" /\ step = "settle" /\ Kind(seq) \in Local => held.status = "completed"
  /\ \A s \in Sequences :
       Recorded("act", s) /\ Kind(s) \in Local => Done(Kind(s), s)

GateInv == IInv /\ Behind /\ Bound /\ QuestionGate /\ CompletedMeansReported

LEMMA GateInit == Init => GateInv
<1> SUFFICES ASSUME Init PROVE GateInv
  OBVIOUS
<1>1. IInv
  BY InvInit
<1> QED
  BY <1>1, CampaignAssumption
     DEF Init, GateInv, Behind, Bound, QuestionGate, CompletedMeansReported, Running,
         IsAnnounced, IsRecorded, Announced, Recorded, Question, Sequences

LEMMA GateStep == GateInv /\ [Next]_vars => GateInv'
<1> SUFFICES ASSUME GateInv, [Next]_vars PROVE GateInv'
  OBVIOUS
<1>0. IInv'
  BY InvStep DEF GateInv
<1> USE CampaignAssumption, CellFacts, <1>0
    DEF GateInv, IInv, Shape, Holding, Planned, Behind, Passed, Bound, QuestionGate, Local,
        CompletedMeansReported, Done, Question, Running, Here, Stores, Sequences, Kind,
        Plan, IsAnnounced, IsRecorded, Announced, Recorded, Put
<1>1. ASSUME NEW a \in Answers \cup {None}, Resume(a) PROVE GateInv'
  BY <1>1 DEF Resume, NewFrame, Goto
<1>2. ASSUME Replay PROVE GateInv'
  BY <1>2 DEF Replay
<1>3. ASSUME RefuseOther PROVE GateInv'
  BY <1>3 DEF RefuseOther, Off, NewFrame
<1>4. ASSUME Announce PROVE GateInv'
  BY <1>4 DEF Announce
<1>5. ASSUME StopAmbiguous PROVE GateInv'
  BY <1>5 DEF StopAmbiguous, Stop, NewFrame
<1>6. ASSUME Retry PROVE GateInv'
  BY <1>6 DEF Retry
<1>7. ASSUME Effect PROVE GateInv'
  BY <1>7 DEF Effect, Outcomes, Outcome, Fallible
<1>8. ASSUME Settle PROVE GateInv'
  <2>1. /\ Running /\ step = "settle" /\ step' = "consume"
        /\ terminals' = Put(terminals, Here, held)
        /\ UNCHANGED <<intents, summary, pc, seq, held>>
    BY <1>8 DEF Settle
  <2>2. /\ DOMAIN terminals' = DOMAIN terminals \cup {Here}
        /\ \A c \in DOMAIN terminals : terminals'[c] = terminals[c]
        /\ terminals'[Here] = held
    BY <2>1
  <2>3. Behind'
    BY <2>1, <2>2
  <2>4. Bound'
    BY <2>1, <2>2
  <2>5. QuestionGate'
    BY <2>1, <2>2
  <2>6. CompletedMeansReported'
    BY <2>1, <2>2
  <2> QED
    BY <2>3, <2>4, <2>5, <2>6
<1>9. ASSUME AcceptPlan PROVE GateInv'
  BY <1>9 DEF AcceptPlan, Goto
<1>10. ASSUME StopAtPlan PROVE GateInv'
  BY <1>10 DEF StopAtPlan, Stop, NewFrame
<1>11. ASSUME GoOn PROVE GateInv'
  <2>1. /\ pc = "act" /\ step = "consume" /\ Kind(seq) \notin Local
        /\ held.status = "completed" \/ Kind(seq) \in Candidates
        /\ UNCHANGED <<intents, terminals>>
    BY <1>11 DEF GoOn, AtAct
  <2>2. Passed(seq)
    BY <2>1
  <2>3. CASE seq < MaxActions
    BY <1>11, <2>1, <2>2, <2>3 DEF GoOn, Advance, Goto
  <2>4. CASE ~(seq < MaxActions)
    BY <1>11, <2>1, <2>4 DEF GoOn, Advance, Stop
  <2> QED
    BY <2>3, <2>4
<1>12. ASSUME StopAtFailure PROVE GateInv'
  BY <1>12 DEF StopAtFailure, Stop, NewFrame
<1>13. ASSUME Report PROVE GateInv'
  BY <1>13 DEF Report, AtAct, Stop, NewFrame
<1>14. ASSUME AwaitUser PROVE GateInv'
  BY <1>14 DEF AwaitUser, Stop, NewFrame
<1>15. ASSUME GiveAnswer PROVE GateInv'
  BY <1>15 DEF GiveAnswer, AtAct, Goto
<1>16. ASSUME AfterAnswer PROVE GateInv'
  BY <1>16 DEF AfterAnswer, Advance, Stop, NewFrame, Goto
<1>17. ASSUME Crash PROVE GateInv'
  BY <1>17 DEF Crash, Off, NewFrame
<1>18. CASE UNCHANGED vars
  BY <1>18 DEF vars
<1> QED
  BY <1>1, <1>2, <1>3, <1>4, <1>5, <1>6, <1>7, <1>8, <1>9, <1>10, <1>11, <1>12,
     <1>13, <1>14, <1>15, <1>16, <1>17, <1>18 DEF Next, Proceed

\* No step of any campaign goes past a question without a recorded human answer,
\* whoever is killed and resumed in between (end_to_end.py:521-532).
THEOREM QuestionsGate == Spec => []QuestionGate
<1>1. GateInv => QuestionGate
  BY DEF GateInv
<1> QED
  BY <1>1, GateInit, GateStep, PTL DEF Spec

\* A summary that says completed has a completed report, and no failure before it
\* but those of experiments and verifiers (end_to_end.py:538-551).
THEOREM CompletedIsEarned == Spec => []CompletedMeansReported
<1>1. GateInv => CompletedMeansReported
  BY DEF GateInv
<1> QED
  BY <1>1, GateInit, GateStep, PTL DEF Spec
-----------------------------------------------------------------------------
\* What an effect delivered is remembered, and the operator's answer is one.
Deliveries ==
  /\ answer \in Answers \cup {None}
  /\ produced \in [Cells -> SUBSET AllOutcomes]
  /\ Running /\ step = "settle" => held \in produced[Here]

JInv == IInv /\ Deliveries

LEMMA OutcomesKnown ==
  ASSUME answer \in Answers \cup {None}
  PROVE  Outcomes \subseteq AllOutcomes
  BY DEF Outcomes, AllOutcomes, Outcome, Delivered

LEMMA DeliveriesInit == Init => Deliveries
  BY DEF Init, Deliveries, Running

LEMMA DeliveriesStep == JInv /\ [Next]_vars => Deliveries'
<1> SUFFICES ASSUME JInv, [Next]_vars PROVE Deliveries'
  OBVIOUS
<1> USE CellFacts DEF JInv, IInv, Shape, Deliveries, Running, Here
<1>1. ASSUME NEW a \in Answers \cup {None}, Resume(a) PROVE Deliveries'
  BY <1>1 DEF Resume, Goto
<1>2. ASSUME Replay PROVE Deliveries'
  BY <1>2 DEF Replay
<1>3. ASSUME RefuseOther PROVE Deliveries'
  BY <1>3 DEF RefuseOther, Off
<1>4. ASSUME Announce PROVE Deliveries'
  BY <1>4 DEF Announce
<1>5. ASSUME StopAmbiguous PROVE Deliveries'
  BY <1>5 DEF StopAmbiguous, Stop
<1>6. ASSUME Retry PROVE Deliveries'
  BY <1>6 DEF Retry
<1>7. ASSUME Effect PROVE Deliveries'
  <2>1. Here \in Cells /\ held' \in AllOutcomes
    BY <1>7, OutcomesKnown DEF Effect
  <2> QED
    BY <1>7, <2>1 DEF Effect
<1>8. ASSUME Settle PROVE Deliveries'
  BY <1>8 DEF Settle
<1>9. ASSUME AcceptPlan PROVE Deliveries'
  BY <1>9 DEF AcceptPlan, Goto
<1>10. ASSUME StopAtPlan PROVE Deliveries'
  BY <1>10 DEF StopAtPlan, Stop
<1>11. ASSUME GoOn PROVE Deliveries'
  BY <1>11 DEF GoOn, Advance, Stop, Goto
<1>12. ASSUME StopAtFailure PROVE Deliveries'
  BY <1>12 DEF StopAtFailure, Stop
<1>13. ASSUME Report PROVE Deliveries'
  BY <1>13 DEF Report, Stop
<1>14. ASSUME AwaitUser PROVE Deliveries'
  BY <1>14 DEF AwaitUser, Stop
<1>15. ASSUME GiveAnswer PROVE Deliveries'
  BY <1>15 DEF GiveAnswer, Goto
<1>16. ASSUME AfterAnswer PROVE Deliveries'
  BY <1>16 DEF AfterAnswer, Advance, Stop, Goto
<1>17. ASSUME Crash PROVE Deliveries'
  BY <1>17 DEF Crash, Off
<1>18. CASE UNCHANGED vars
  BY <1>18 DEF vars
<1> QED
  BY <1>1, <1>2, <1>3, <1>4, <1>5, <1>6, <1>7, <1>8, <1>9, <1>10, <1>11, <1>12,
     <1>13, <1>14, <1>15, <1>16, <1>17, <1>18 DEF Next, Proceed

LEMMA NoneIsNoIntent ==
  \A c \in Cells, store \in Stores, s \in Sequences :
    [seq |-> c, paid |-> Paid(store, s)] # None
<1> SUFFICES ASSUME NEW c \in Cells, NEW store \in Stores, NEW s \in Sequences
             PROVE  [seq |-> c, paid |-> Paid(store, s)] # None
  OBVIOUS
<1>1. Paid(store, s) \in BOOLEAN
  BY DEF Paid
<1> QED
  BY <1>1, CampaignAssumption

LEMMA JournalCells == Journal!Seqs = Cells
<1>1. ASSUME NEW c \in Cells PROVE c \in Journal!Seqs
  <2> DEFINE call == [seq |-> c, paid |-> TRUE]
  <2>1. call \in [seq : Cells, paid : BOOLEAN] /\ call.seq = c
    OBVIOUS
  <2> QED
    BY <2>1 DEF Journal!Seqs
<1>2. \A c \in Journal!Seqs : c \in Cells
  BY DEF Journal!Seqs
<1> QED
  BY <1>1, <1>2

\* While intents and terminals stay, so does what the journal sees of them.
LEMMA SameView ==
  ASSUME UNCHANGED <<intents, terminals>>
  PROVE  \A c \in Cells : Announcement(c)' = Announcement(c) /\ Settlement(c)' = Settlement(c)
  BY DEF Announcement, Settlement, Paid, Kind, Plan, IsAnnounced, IsRecorded

LEMMA Stutters ==
  ASSUME UNCHANGED <<intents, terminals, runs, produced>>
  PROVE  UNCHANGED Journal!journalVars
  BY SameView DEF Journal!journalVars

LEMMA JournalInit == Init => Journal!Init
  BY JournalCells DEF Init, Journal!Init, Announcement, Settlement, IsAnnounced, IsRecorded

LEMMA JournalStep ==
  ASSUME JInv, [Next]_vars
  PROVE  [Journal!Next]_(Journal!journalVars)
<1> USE CampaignAssumption, CellFacts DEF JInv, IInv, Shape, Running
<1>1. ASSUME NEW a \in Answers \cup {None}, Resume(a) PROVE UNCHANGED Journal!journalVars
  BY <1>1, Stutters DEF Resume
<1>2. ASSUME Replay PROVE UNCHANGED Journal!journalVars
  BY <1>2, Stutters DEF Replay
<1>3. ASSUME RefuseOther PROVE UNCHANGED Journal!journalVars
  BY <1>3, Stutters DEF RefuseOther
<1>4. ASSUME Announce PROVE Journal!Next
  <2> DEFINE c == [seq |-> Here, paid |-> Paid(pc, seq)]
  <2>1. Here \in Cells /\ ~IsAnnounced(Here) /\ pc \in Stores
    BY <1>4 DEF Announce, Here
  <2>2. Here[1] = pc /\ Here[2] = seq
    BY DEF Here, At
  <2>3. c \in [seq : Cells, paid : BOOLEAN]
    BY <2>1 DEF Paid
  <2>4. /\ DOMAIN intents' = DOMAIN intents \cup {Here}
        /\ UNCHANGED <<terminals, runs, produced>>
    BY <1>4 DEF Announce, Put
  <2>5. \A x \in Cells : Announcement(x)' = IF x = Here THEN c ELSE Announcement(x)
    BY <2>1, <2>2, <2>4 DEF Announcement, Paid, Kind, Plan, IsAnnounced
  <2>6. \A x \in Cells : Settlement(x)' = Settlement(x)
    BY <2>1, <2>4, <2>5 DEF Settlement, IsRecorded, IsAnnounced, Holding
  <2>7. Announcement(Here) = None
    BY <2>1 DEF Announcement
  <2>8. Journal!Declare(c)
    BY <2>1, <2>4, <2>5, <2>6, <2>7 DEF Journal!Declare
  <2> QED
    BY <2>3, <2>8 DEF Journal!Next
<1>5. ASSUME StopAmbiguous PROVE UNCHANGED Journal!journalVars
  BY <1>5, Stutters DEF StopAmbiguous
<1>6. ASSUME Retry PROVE UNCHANGED Journal!journalVars
  BY <1>6, Stutters DEF Retry
<1>7. ASSUME Effect PROVE Journal!Next
  <2>1. /\ Here \in Cells /\ Here[1] = pc /\ Here[2] = seq
        /\ pc \in Stores /\ seq \in Sequences
        /\ Running /\ step = "effect"
        /\ UNCHANGED <<intents, terminals>>
        /\ runs' = [runs EXCEPT ![Here] = IF @ = Many THEN Many ELSE @ + 1]
        /\ produced' = [produced EXCEPT ![Here] = @ \cup {held'}]
        /\ held' \in AllOutcomes
    BY <1>7, OutcomesKnown DEF Effect, Here, At, Deliveries
  <2>2. IsAnnounced(Here) /\ ~IsRecorded(Here)
    BY <2>1 DEF Holding
  <2>3. Announcement(Here) = [seq |-> Here, paid |-> Paid(pc, seq)] /\ Settlement(Here) = None
    BY <2>1, <2>2 DEF Announcement, Settlement
  <2>4. Announcement(Here) # None
    BY <2>1, <2>3, NoneIsNoIntent
  <2>5. Paid(pc, seq) => runs[Here] = 0
    BY <2>1 DEF Licensed
  <2>6. Journal!Run(Here, held')
    BY <2>1, <2>3, <2>4, <2>5, SameView DEF Journal!Run, Journal!More, Journal!Many, Many
  <2> QED
    BY <2>1, <2>6, JournalCells DEF Journal!Next
<1>8. ASSUME Settle PROVE Journal!Next
  <2>1. /\ Here \in Cells /\ Here[1] = pc /\ Here[2] = seq
        /\ Running /\ step = "settle"
        /\ UNCHANGED <<intents, runs, produced>>
        /\ terminals' = Put(terminals, Here, held)
    BY <1>8 DEF Settle, Here, At
  <2>2. IsAnnounced(Here) /\ ~IsRecorded(Here)
    BY <2>1 DEF Holding
  <2>3. /\ DOMAIN terminals' = DOMAIN terminals \cup {Here}
        /\ \A x \in DOMAIN terminals : terminals'[x] = terminals[x]
        /\ terminals'[Here] = held
    BY <2>1, <2>2 DEF Put, IsRecorded
  <2>4. \A s \in Sequences : IsAnnounced(At("act", s)) => Kind(s)' = Kind(s)
    BY <2>3 DEF Planned, Announced, Recorded, IsRecorded, Kind, Plan
  <2>5. ASSUME NEW x \in Cells PROVE Announcement(x)' = Announcement(x)
    <3>1. PICK store \in Stores, s \in Sequences : x = At(store, s)
      BY DEF Cells, At
    <3>2. x[1] = store /\ x[2] = s
      BY <3>1 DEF At
    <3>3. IsAnnounced(x)' = IsAnnounced(x)
      BY <2>1 DEF IsAnnounced
    <3>4. IsAnnounced(x) => Paid(store, s)' = Paid(store, s)
      BY <2>4, <3>1 DEF Paid
    <3> QED
      BY <3>2, <3>3, <3>4 DEF Announcement
  <2>6. \A x \in Cells : Settlement(x)' =
          IF x = Here THEN [intent |-> Announcement(Here), outcome |-> held] ELSE Settlement(x)
    BY <2>1, <2>3, <2>5 DEF Settlement, IsRecorded
  <2>7. /\ Announcement(Here) # None /\ Settlement(Here) = None
        /\ held \in produced[Here] /\ held \in AllOutcomes
    BY <2>1, <2>2, NoneIsNoIntent DEF Announcement, Settlement, Deliveries
  <2>8. Journal!Settle(Here, held)
    BY <2>1, <2>5, <2>6, <2>7 DEF Journal!Settle
  <2> QED
    BY <2>1, <2>7, <2>8, JournalCells DEF Journal!Next
<1>9. ASSUME AcceptPlan PROVE UNCHANGED Journal!journalVars
  BY <1>9, Stutters DEF AcceptPlan
<1>10. ASSUME StopAtPlan PROVE UNCHANGED Journal!journalVars
  BY <1>10, Stutters DEF StopAtPlan
<1>11. ASSUME GoOn PROVE UNCHANGED Journal!journalVars
  BY <1>11, Stutters DEF GoOn
<1>12. ASSUME StopAtFailure PROVE UNCHANGED Journal!journalVars
  BY <1>12, Stutters DEF StopAtFailure
<1>13. ASSUME Report PROVE UNCHANGED Journal!journalVars
  BY <1>13, Stutters DEF Report
<1>14. ASSUME AwaitUser PROVE UNCHANGED Journal!journalVars
  BY <1>14, Stutters DEF AwaitUser
<1>15. ASSUME GiveAnswer PROVE UNCHANGED Journal!journalVars
  BY <1>15, Stutters DEF GiveAnswer
<1>16. ASSUME AfterAnswer PROVE UNCHANGED Journal!journalVars
  BY <1>16, Stutters DEF AfterAnswer
<1>17. ASSUME Crash PROVE UNCHANGED Journal!journalVars
  BY <1>17, Stutters DEF Crash
<1>18. CASE UNCHANGED vars
  BY <1>18, Stutters DEF vars
<1> QED
  BY <1>1, <1>2, <1>3, <1>4, <1>5, <1>6, <1>7, <1>8, <1>9, <1>10, <1>11, <1>12,
     <1>13, <1>14, <1>15, <1>16, <1>17, <1>18 DEF Next, Proceed

\* The stores of any campaign implement the effect journal (checkpoint.py:1-9): the
\* runner's replays, retries, stops and deaths are stutters of it.
THEOREM StoresImplementJournal == Spec => StoresAreJournals
<1>1. Init => JInv
  BY InvInit, DeliveriesInit DEF JInv
<1>2. JInv /\ [Next]_vars => JInv'
  BY InvStep, DeliveriesStep DEF JInv
<1>3. JInv /\ [Next]_vars => [Journal!Next]_(Journal!journalVars)
  BY JournalStep
<1> QED
  BY <1>1, <1>2, <1>3, JournalInit, PTL DEF Spec, StoresAreJournals, Journal!Spec
-----------------------------------------------------------------------------
(***************************************************************************)
(* A replay.  What the runner knows at a sequence is a function of the     *)
(* records behind it, and those never change: so each request is rebuilt   *)
(* as it was announced, and a rung that the stage admits has its           *)
(* predecessor completed in this literature cycle.                         *)
(***************************************************************************)
\* The generations the refreshes before s published.
Published(s) == {terminals[At("act", r)].value : r \in {q \in 1..(s - 1) : Done("refresh", q)}}

\* What the planner is told of the sequence before s.
Latest(s) ==
  IF s = 1 THEN None
  ELSE IF Kind(s - 1) = "ask" THEN [from |-> "answer", outcome |-> terminals[At("answer", s - 1)]]
  ELSE [from |-> Kind(s - 1), outcome |-> terminals[At("act", s - 1)]]

\* The rung before kind was completed before s, with no later search.
Reached(kind, s) ==
  \E r \in 1..(s - 1) :
    /\ Done(Before[kind], r)
    /\ \A t \in (r + 1)..(s - 1) : ~Done("search", t)

\* The stage and the search a runner at s has earned.
Standing(stage, searched, s) ==
  /\ \A kind \in DOMAIN Minimum : stage >= Minimum[kind] => Reached(kind, s)
  /\ searched => \E r \in 1..(s - 1) : Done("search", r)

\* The stage of an accepted plan is one ahead of what is completed.
Advanced(g, h, s) ==
  /\ Standing(g, h, s)
  /\ Admissible(Plan(s), g, h, frame.published, TRUE)
  /\ frame.stage = StageAfter(Plan(s), g)
  /\ frame.searched = SearchedAfter(Plan(s), h)

\* The frame of a runner at s.
StandsAt(s) ==
  /\ pc \in {"plan", "answer"} => Standing(frame.stage, frame.searched, s)
  /\ pc = "act" => \E g \in 0..6, h \in BOOLEAN : Advanced(g, h, s)
  /\ pc \in {"plan", "act"} => frame.latest = Latest(s)
  /\ Running => frame.published = Published(s)

Replayed ==
  /\ frame = [stage |-> frame.stage, searched |-> frame.searched,
              published |-> frame.published, latest |-> frame.latest]
  /\ frame.stage \in 0..6 /\ frame.searched \in BOOLEAN
  /\ \A s \in Sequences : s = seq => StandsAt(s)

\* What was announced is what a replay announces.
Told ==
  \A s \in Sequences :
    /\ Announced("plan", s) =>
         intents[At("plan", s)] = [seq |-> s, latest |-> Latest(s), available |-> Published(s)]
    /\ Announced("act", s) => intents[At("act", s)] = [seq |-> s, plan |-> Plan(s)]

\* What an action that ran had behind it.
Earned(s) ==
  /\ Kind(s) \in DOMAIN Before => Reached(Kind(s), s)
  /\ Kind(s) \in Substantive => \E r \in 1..(s - 1) : Done("search", r)
  /\ Kind(s) = "retrieve" => Plan(s).names \in Published(s)

LInv == GateInv /\ Replayed /\ Told /\ \A s \in Sequences : Ran(s) => Earned(s)

\* Everything before s is on record.
Solid(s) ==
  \A r \in 1..(s - 1) :
    Recorded("act", r) /\ Recorded("plan", r) /\ (Kind(r) = "ask" => Recorded("answer", r))

LEMMA RecordsStay ==
  ASSUME IInv, [Next]_vars
  PROVE  /\ \A c \in DOMAIN terminals : c \in DOMAIN terminals' /\ terminals'[c] = terminals[c]
         /\ \A c \in DOMAIN intents : c \in DOMAIN intents' /\ intents'[c] = intents[c]
<1>1. CASE UNCHANGED <<intents, terminals>>
  BY <1>1
<1>2. CASE Announce
  BY <1>2 DEF Announce, Put, IsAnnounced
<1>3. CASE Settle
  <2>1. Running /\ step = "settle" /\ terminals' = Put(terminals, Here, held) /\ UNCHANGED intents
    BY <1>3 DEF Settle
  <2>2. ~IsRecorded(Here)
    BY <2>1 DEF IInv, Holding
  <2> QED
    BY <2>1, <2>2 DEF Put, IsRecorded
<1>4. UNCHANGED <<intents, terminals>> \/ Announce \/ Settle
  BY DEF Next, Proceed, Resume, Replay, RefuseOther, StopAmbiguous, Retry, Effect, AcceptPlan,
     StopAtPlan, GoOn, StopAtFailure, Report, AwaitUser, GiveAnswer, AfterAnswer, Crash, vars
<1> QED
  BY <1>1, <1>2, <1>3, <1>4

LEMMA SolidHere ==
  ASSUME GateInv, Running
  PROVE  Solid(seq)
<1> SUFFICES ASSUME NEW r \in 1..(seq - 1)
             PROVE  Recorded("act", r) /\ Recorded("plan", r)
                    /\ (Kind(r) = "ask" => Recorded("answer", r))
  BY DEF Solid
<1>1. r \in Sequences
  BY CampaignAssumption DEF GateInv, IInv, Shape, Sequences
<1>2. Passed(r)
  BY DEF GateInv, Behind
<1>3. Recorded("plan", r)
  BY <1>1, <1>2 DEF Passed, GateInv, IInv, Holding, Planned, Recorded, Announced, IsRecorded,
     IsAnnounced
<1> QED
  BY <1>2, <1>3 DEF Passed, Question

LEMMA SolidAnnounced ==
  ASSUME GateInv, NEW s \in Sequences, Announced("plan", s)
  PROVE  Solid(s)
<1> SUFFICES ASSUME NEW r \in 1..(s - 1)
             PROVE  Recorded("act", r) /\ Recorded("plan", r)
                    /\ (Kind(r) = "ask" => Recorded("answer", r))
  BY DEF Solid
<1>1. r \in Sequences /\ r < s /\ s \in (r + 1)..MaxActions
  BY CampaignAssumption DEF Sequences
<1>2. Recorded("act", r)
  BY <1>1 DEF GateInv, Behind
<1>3. Recorded("plan", r)
  BY <1>1, <1>2 DEF GateInv, IInv, Holding, Planned, Recorded, Announced, IsRecorded, IsAnnounced
<1>4. Kind(r) = "ask" => Recorded("answer", r)
  BY <1>1, <1>2 DEF GateInv, QuestionGate, Question
<1> QED
  BY <1>2, <1>3, <1>4

\* What is on record behind s does not change.
LEMMA PastStays ==
  ASSUME NEW s \in Sequences, Solid(s),
         \A c \in DOMAIN terminals : c \in DOMAIN terminals' /\ terminals'[c] = terminals[c]
  PROVE  /\ Published(s)' = Published(s) /\ Latest(s)' = Latest(s)
         /\ \A kind : Reached(kind, s)' = Reached(kind, s)
         /\ \A kind, r : r \in 1..(s - 1) => Done(kind, r)' = Done(kind, r)
         /\ \A g, h : Standing(g, h, s)' = Standing(g, h, s)
<1>1. \A r \in 1..(s - 1) :
        /\ Recorded("act", r)' = Recorded("act", r)
        /\ Kind(r)' = Kind(r)
        /\ terminals'[At("act", r)] = terminals[At("act", r)]
        /\ Kind(r) = "ask" => terminals'[At("answer", r)] = terminals[At("answer", r)]
  BY DEF Solid, Recorded, IsRecorded, Kind, Plan
<1>2. \A kind, r : r \in 1..(s - 1) => Done(kind, r)' = Done(kind, r)
  BY <1>1 DEF Done
<1>3. Published(s)' = Published(s)
  <2>1. {q \in 1..(s - 1) : Done("refresh", q)}' = {q \in 1..(s - 1) : Done("refresh", q)}
    BY <1>2
  <2> QED
    BY <1>1, <2>1 DEF Published
<1>4. Latest(s)' = Latest(s)
  <2>1. s # 1 => s - 1 \in 1..(s - 1)
    BY DEF Sequences
  <2> QED
    BY <1>1, <2>1 DEF Latest
<1>5. \A kind : Reached(kind, s)' = Reached(kind, s)
  <2> SUFFICES ASSUME NEW kind PROVE Reached(kind, s)' = Reached(kind, s)
    OBVIOUS
  <2>1. \A r \in 1..(s - 1) : \A t \in (r + 1)..(s - 1) : t \in 1..(s - 1)
    BY DEF Sequences
  <2> QED
    BY <1>2, <2>1 DEF Reached
<1>6. \A g, h : Standing(g, h, s)' = Standing(g, h, s)
  BY <1>2, <1>5 DEF Standing
<1> QED
  BY <1>2, <1>3, <1>4, <1>5, <1>6

LEMMA LadderFacts ==
  /\ "search" \notin DOMAIN Minimum /\ "search" \notin Candidates /\ DOMAIN Before = DOMAIN Minimum
  /\ \A kind \in DOMAIN Minimum :
       /\ Minimum[kind] \in 1..5 /\ kind \notin Candidates
       /\ Minimum[kind] = 1 => Before[kind] = "search"
       /\ \A rung \in DOMAIN Minimum : Minimum[kind] = Minimum[rung] + 1 => Before[kind] = rung
  BY DEF Minimum, Before, Candidates

\* An accepted plan whose action passed leaves its runner standing where it says.
LEMMA StandsOn ==
  ASSUME NEW s \in Sequences, NEW g \in 0..6, NEW h, NEW published, Standing(g, h, s),
         Admissible(Plan(s), g, h, published, TRUE), Done(Kind(s), s) \/ Kind(s) \in Candidates
  PROVE  Standing(StageAfter(Plan(s), g), SearchedAfter(Plan(s), h), s + 1)
<1> DEFINE stage == StageAfter(Plan(s), g)
<1>0. (s + 1) - 1 = s /\ s \in 1..s /\ (\A r \in 1..(s - 1) : r \in 1..s) /\ s + 1 > s
  BY DEF Sequences
<1>1. ASSUME Kind(s) # "search", NEW kind, Reached(kind, s) PROVE Reached(kind, s + 1)
  <2>1. PICK r \in 1..(s - 1) :
          Done(Before[kind], r) /\ \A t \in (r + 1)..(s - 1) : ~Done("search", t)
    BY <1>1 DEF Reached
  <2>2. ~Done("search", s)
    BY <1>1 DEF Done
  <2>3. \A t \in (r + 1)..s : t \in (r + 1)..(s - 1) \/ t = s
    BY DEF Sequences
  <2>4. \A t \in (r + 1)..s : ~Done("search", t)
    BY <2>1, <2>2, <2>3
  <2> QED
    BY <1>0, <2>1, <2>4 DEF Reached
<1>2. ASSUME NEW kind, Done(Before[kind], s) PROVE Reached(kind, s + 1)
  BY <1>0, <1>2 DEF Reached, Sequences
<1>3. ASSUME NEW kind \in DOMAIN Minimum, stage >= Minimum[kind] PROVE Reached(kind, s + 1)
  <2>1. CASE Kind(s) = "search"
    <3>1. Before[kind] = "search"
      BY <1>3, <2>1, LadderFacts DEF StageAfter, Kind
    <3> QED
      BY <1>2, <2>1, <3>1, LadderFacts
  <2>2. CASE Kind(s) \in DOMAIN Minimum
    <3>1. Done(Kind(s), s)
      BY <2>2, LadderFacts
    <3>2. g >= Minimum[Kind(s)] /\ stage = Minimum[Kind(s)] + 1 /\ Kind(s) # "search"
      BY <2>2, LadderFacts DEF Admissible, StageAfter, Kind
    <3>3. CASE Minimum[kind] = Minimum[Kind(s)] + 1
      <4>1. Before[kind] = Kind(s)
        BY <2>2, <3>3, LadderFacts
      <4> QED
        BY <1>2, <3>1, <4>1
    <3>4. CASE Minimum[kind] # Minimum[Kind(s)] + 1
      <4>1. g >= Minimum[kind]
        BY <1>3, <2>2, <3>2, <3>4, LadderFacts
      <4> QED
        BY <1>1, <3>2, <4>1 DEF Standing
    <3> QED
      BY <3>3, <3>4
  <2>3. CASE Kind(s) # "search" /\ Kind(s) \notin DOMAIN Minimum
    <3>1. stage = g
      BY <2>3 DEF StageAfter, Kind
    <3> QED
      BY <1>1, <1>3, <2>3, <3>1 DEF Standing
  <2> QED
    BY <2>1, <2>2, <2>3
<1>4. ASSUME SearchedAfter(Plan(s), h) PROVE \E r \in 1..s : Done("search", r)
  <2>1. CASE h
    BY <1>0, <2>1 DEF Standing
  <2>2. CASE Kind(s) = "search"
    BY <1>0, <2>2, LadderFacts
  <2> QED
    BY <1>4, <2>1, <2>2 DEF SearchedAfter, Kind
<1> QED
  BY <1>0, <1>3, <1>4 DEF Standing

\* A question or a report changes neither the stage nor the search.
LEMMA StandsStill ==
  ASSUME NEW plan, plan.kind = "ask", NEW g, NEW h \in BOOLEAN, NEW published
  PROVE  /\ Admissible(plan, g, h, published, TRUE)
         /\ StageAfter(plan, g) = g /\ SearchedAfter(plan, h) = h
  BY DEF Admissible, StageAfter, SearchedAfter, Minimum, Substantive

LEMMA PublishedNext ==
  ASSUME NEW s \in Sequences
  PROVE  Published(s + 1) = Published(s) \cup
           (IF Done("refresh", s) THEN {terminals[At("act", s)].value} ELSE {})
<1>1. {q \in 1..s : Done("refresh", q)}
        = {q \in 1..(s - 1) : Done("refresh", q)} \cup (IF Done("refresh", s) THEN {s} ELSE {})
  BY DEF Sequences
<1>2. (s + 1) - 1 = s
  BY DEF Sequences
<1> QED
  BY <1>1, <1>2 DEF Published
-----------------------------------------------------------------------------
LEMMA LInit == Init => LInv
<1> SUFFICES ASSUME Init PROVE LInv
  OBVIOUS
<1>1. GateInv
  BY GateInit
<1>2. Replayed
  BY DEF Init, Replayed, StandsAt, NewFrame, Running
<1>3. Told /\ \A s \in Sequences : Ran(s) => Earned(s)
  BY CellFacts DEF Init, Told, Announced, IsAnnounced, Ran, Stores
<1> QED
  BY <1>1, <1>2, <1>3 DEF LInv

\* A step inside execute() leaves the runner where it stands.
LEMMA StaysReplayed ==
  ASSUME LInv, [Next]_vars, UNCHANGED <<pc, seq, frame>>, Running
  PROVE  Replayed'
<1> SUFFICES ASSUME NEW s \in Sequences, s = seq PROVE StandsAt(s)'
  BY DEF LInv, Replayed
<1>0. StandsAt(s)
  BY DEF LInv, Replayed
<1>1. Solid(s)
  BY SolidHere DEF LInv
<1>2. \A c \in DOMAIN terminals : c \in DOMAIN terminals' /\ terminals'[c] = terminals[c]
  BY RecordsStay DEF LInv, GateInv
<1>3. /\ Published(s)' = Published(s) /\ Latest(s)' = Latest(s)
      /\ \A g, h : Standing(g, h, s)' = Standing(g, h, s)
  BY <1>1, <1>2, PastStays
<1>4. pc = "act" => Plan(s)' = Plan(s)
  BY <1>2 DEF LInv, GateInv, IInv, Planned, Recorded, IsRecorded, Plan
<1>5. ASSUME pc = "act" PROVE \E g \in 0..6, h \in BOOLEAN : Advanced(g, h, s)'
  <2>1. PICK g \in 0..6, h \in BOOLEAN : Advanced(g, h, s)
    BY <1>0, <1>5 DEF StandsAt
  <2>2. Advanced(g, h, s)'
    BY <1>3, <1>4, <1>5, <2>1 DEF Advanced
  <2> QED
    BY <2>2
<1>6. Standing(frame.stage, frame.searched, s)' = Standing(frame.stage, frame.searched, s)
  <2>1. PICK g, h : g = frame.stage /\ h = frame.searched
    OBVIOUS
  <2> QED
    BY <1>3, <2>1 DEF Standing
<1> QED
  BY <1>0, <1>3, <1>5, <1>6 DEF StandsAt, Running

\* The run ends.
LEMMA OffReplayed ==
  ASSUME pc' = "off", frame' = NewFrame
  PROVE  Replayed'
  BY DEF Replayed, StandsAt, NewFrame, Running

LEMMA ResumeReplayed ==
  ASSUME LInv, NEW a, Resume(a)
  PROVE  Replayed'
<1>1. pc' = "plan" /\ seq' = 1 /\ frame' = NewFrame /\ UNCHANGED terminals
  BY DEF Resume, Goto, LInv, GateInv, Behind, Running
<1>2. (Latest(1) = None /\ Published(1) = {} /\ Standing(0, FALSE, 1))'
  <2>1. \A kind \in DOMAIN Minimum : ~(0 >= Minimum[kind])
    BY LadderFacts
  <2> QED
    BY <2>1 DEF Latest, Published, Standing
<1>3. StandsAt(1)'
  BY <1>1, <1>2 DEF StandsAt, NewFrame, Standing
<1>4. \A s \in Sequences : s = 1 => StandsAt(s)'
  BY <1>3
<1> QED
  BY <1>1, <1>4 DEF Replayed, NewFrame

LEMMA AcceptReplayed ==
  ASSUME LInv, AcceptPlan
  PROVE  Replayed'
<1> SUFFICES ASSUME NEW s \in Sequences, s = seq PROVE StandsAt(s)' /\ frame'.stage \in 0..6
             /\ frame'.searched \in BOOLEAN
             /\ frame' = [stage |-> frame'.stage, searched |-> frame'.searched,
                          published |-> frame'.published, latest |-> frame'.latest]
  BY DEF AcceptPlan, Replayed, LInv, GateInv, IInv, Shape
<1>1. /\ pc = "plan" /\ pc' = "act" /\ UNCHANGED terminals
      /\ Acceptable(held.value)
      /\ frame' = [frame EXCEPT !.stage = StageAfter(held.value, @),
                                !.searched = SearchedAfter(held.value, @)]
      /\ held = terminals[At("plan", s)]
  BY DEF AcceptPlan, Goto, LInv, GateInv, Bound, Running, Here
<1>2. held.value = Plan(s) /\ StandsAt(s)
  BY <1>1 DEF Plan, LInv, Replayed
<1>3. /\ frame = [stage |-> frame.stage, searched |-> frame.searched,
                  published |-> frame.published, latest |-> frame.latest]
      /\ frame.stage \in 0..6 /\ frame.searched \in BOOLEAN
  BY DEF LInv, Replayed
<1>4. /\ frame'.stage = StageAfter(Plan(s), frame.stage)
      /\ frame'.searched = SearchedAfter(Plan(s), frame.searched)
      /\ frame'.published = frame.published /\ frame'.latest = frame.latest
      /\ frame' = [stage |-> frame'.stage, searched |-> frame'.searched,
                   published |-> frame'.published, latest |-> frame'.latest]
  BY <1>1, <1>2, <1>3
<1>5. frame'.stage \in 0..6 /\ frame'.searched \in BOOLEAN
  BY <1>3, <1>4, LadderFacts DEF StageAfter, SearchedAfter
<1>6. Standing(frame.stage, frame.searched, s)
      /\ Admissible(Plan(s), frame.stage, frame.searched, frame.published, TRUE)
  BY <1>1, <1>2 DEF StandsAt, Acceptable
<1>7. Plan(s)' = Plan(s) /\ Latest(s)' = Latest(s) /\ Published(s)' = Published(s)
      /\ \A g, h : Standing(g, h, s)' = Standing(g, h, s)
  BY <1>1 DEF Plan, Kind, Latest, Published, Standing, Reached, Done, Recorded, IsRecorded
<1>8. PICK g \in 0..6, h \in BOOLEAN : g = frame.stage /\ h = frame.searched
  BY <1>3
<1>9. Advanced(g, h, s)'
  BY <1>4, <1>6, <1>7, <1>8 DEF Advanced
<1>10. frame'.latest = Latest(s)' /\ frame'.published = Published(s)'
  BY <1>1, <1>2, <1>4, <1>7 DEF StandsAt, Running
<1> QED
  BY <1>1, <1>4, <1>5, <1>9, <1>10 DEF StandsAt, Running

\* While the records stay, so does everything that is read off them.
LEMMA SameRecords ==
  ASSUME UNCHANGED terminals
  PROVE  \A s : /\ Plan(s)' = Plan(s) /\ Latest(s)' = Latest(s) /\ Published(s)' = Published(s)
                /\ \A kind : Done(kind, s)' = Done(kind, s) /\ Reached(kind, s)' = Reached(kind, s)
                /\ \A g, h : Standing(g, h, s)' = Standing(g, h, s)
  BY DEF Plan, Kind, Latest, Published, Standing, Reached, Done, Recorded, IsRecorded

LEMMA GoOnReplayed ==
  ASSUME LInv, GoOn, seq < MaxActions
  PROVE  Replayed'
<1> PICK s \in Sequences : s = seq
  BY DEF LInv, GateInv, IInv, Shape
<1>1. /\ pc = "act" /\ Kind(s) \notin {"ask", "report"}
      /\ held.status = "completed" \/ Kind(s) \in Candidates
      /\ pc' = "plan" /\ seq' = s + 1 /\ frame' = Feedback /\ UNCHANGED terminals
      /\ held = terminals[At("act", s)] /\ Recorded("act", s)
  BY DEF GoOn, AtAct, Advance, Goto, LInv, GateInv, IInv, Holding, Bound, Running, Here, Recorded
<1>2. /\ frame = [stage |-> frame.stage, searched |-> frame.searched,
                  published |-> frame.published, latest |-> frame.latest]
      /\ frame.stage \in 0..6 /\ frame.searched \in BOOLEAN
      /\ StandsAt(s)
  BY DEF LInv, Replayed
<1>3. /\ frame'.stage = frame.stage /\ frame'.searched = frame.searched
      /\ frame'.latest = [from |-> Kind(s), outcome |-> held]
      /\ frame'.published = IF held.status = "completed" /\ Kind(s) = "refresh"
                            THEN frame.published \cup {held.value} ELSE frame.published
      /\ frame' = [stage |-> frame'.stage, searched |-> frame'.searched,
                   published |-> frame'.published, latest |-> frame'.latest]
  BY <1>1, <1>2 DEF Feedback
<1>4. Done(Kind(s), s) \/ Kind(s) \in Candidates
  BY <1>1 DEF Done
<1>5. Standing(frame.stage, frame.searched, s + 1)
  <2>1. PICK g \in 0..6, h \in BOOLEAN : Advanced(g, h, s)
    BY <1>1, <1>2 DEF StandsAt
  <2> QED
    BY <1>4, <2>1, StandsOn DEF Advanced
<1>6. frame'.published = Published(s + 1)
  <2>1. Done("refresh", s) = (held.status = "completed" /\ Kind(s) = "refresh")
    BY <1>1 DEF Done
  <2>2. frame.published = Published(s)
    BY <1>1, <1>2 DEF StandsAt, Running
  <2> QED
    BY <1>1, <1>3, <2>1, <2>2, PublishedNext
<1>7. frame'.latest = Latest(s + 1)
  BY <1>1, <1>3 DEF Latest, Sequences
<1>8. PICK n : n = s + 1
  OBVIOUS
<1>9. StandsAt(n)'
  <2>1. /\ Latest(n)' = Latest(n) /\ Published(n)' = Published(n)
        /\ \A g, h : Standing(g, h, n)' = Standing(g, h, n)
    BY <1>1, SameRecords
  <2>2. Standing(frame'.stage, frame'.searched, n)
    BY <1>3, <1>5, <1>8
  <2>3. PICK g, h : g = frame'.stage /\ h = frame'.searched
    OBVIOUS
  <2>4. (Standing(frame.stage, frame.searched, n))'
    BY <2>1, <2>2, <2>3 DEF Standing
  <2> QED
    BY <1>1, <1>6, <1>7, <1>8, <2>1, <2>4 DEF StandsAt
<1>10. \A x \in Sequences : x = seq' => StandsAt(x)'
  BY <1>1, <1>8, <1>9
<1> QED
  BY <1>2, <1>3, <1>10 DEF Replayed

LEMMA AskStands ==
  ASSUME LInv, NEW s \in Sequences, s = seq, pc = "act", Kind(s) = "ask"
  PROVE  Standing(frame.stage, frame.searched, s)
<1>1. PICK g \in 0..6, h \in BOOLEAN : Advanced(g, h, s)
  BY DEF LInv, Replayed, StandsAt
<1>2. StageAfter(Plan(s), g) = g /\ SearchedAfter(Plan(s), h) = h
  BY StandsStill DEF Kind
<1> QED
  BY <1>1, <1>2 DEF Advanced

LEMMA GiveReplayed ==
  ASSUME LInv, GiveAnswer
  PROVE  Replayed'
<1> PICK s \in Sequences : s = seq
  BY DEF LInv, GateInv, IInv, Shape
<1>1. /\ pc = "act" /\ Kind(s) = "ask" /\ pc' = "answer" /\ seq' = s /\ frame' = Feedback
      /\ UNCHANGED terminals
  BY DEF GiveAnswer, AtAct, Goto
<1>2. /\ frame = [stage |-> frame.stage, searched |-> frame.searched,
                  published |-> frame.published, latest |-> frame.latest]
      /\ frame.stage \in 0..6 /\ frame.searched \in BOOLEAN
      /\ frame.published = Published(s)
  BY <1>1 DEF LInv, Replayed, StandsAt, Running
<1>3. /\ frame'.stage = frame.stage /\ frame'.searched = frame.searched
      /\ frame'.published = frame.published
      /\ frame' = [stage |-> frame'.stage, searched |-> frame'.searched,
                   published |-> frame'.published, latest |-> frame'.latest]
  BY <1>1, <1>2 DEF Feedback
<1>4. Standing(frame.stage, frame.searched, s)
  BY <1>1, AskStands
<1>5. StandsAt(s)'
  <2>1. Published(s)' = Published(s) /\ \A g, h : Standing(g, h, s)' = Standing(g, h, s)
    BY <1>1, SameRecords
  <2>2. PICK g, h : g = frame.stage /\ h = frame.searched
    OBVIOUS
  <2>3. (Standing(frame.stage, frame.searched, s))'
    BY <1>3, <1>4, <2>1, <2>2 DEF Standing
  <2> QED
    BY <1>1, <1>2, <1>3, <2>1, <2>3 DEF StandsAt
<1> QED
  BY <1>1, <1>2, <1>3, <1>5 DEF Replayed

LEMMA AnswerReplayed ==
  ASSUME LInv, AfterAnswer, seq < MaxActions
  PROVE  Replayed'
<1> PICK s \in Sequences : s = seq
  BY DEF LInv, GateInv, IInv, Shape
<1>1. /\ pc = "answer" /\ Kind(s) = "ask" /\ pc' = "plan" /\ seq' = s + 1 /\ UNCHANGED terminals
      /\ frame' = [frame EXCEPT !.latest = [from |-> "answer", outcome |-> held]]
      /\ held = terminals[At("answer", s)] /\ Done("ask", s)
  BY DEF AfterAnswer, Advance, Goto, LInv, GateInv, Behind, Bound, Running, Here, Done
<1>2. /\ frame = [stage |-> frame.stage, searched |-> frame.searched,
                  published |-> frame.published, latest |-> frame.latest]
      /\ frame.stage \in 0..6 /\ frame.searched \in BOOLEAN
      /\ frame.published = Published(s) /\ Standing(frame.stage, frame.searched, s)
  BY <1>1 DEF LInv, Replayed, StandsAt, Running
<1>3. /\ frame'.stage = frame.stage /\ frame'.searched = frame.searched
      /\ frame'.published = frame.published
      /\ frame'.latest = [from |-> "answer", outcome |-> held]
      /\ frame' = [stage |-> frame'.stage, searched |-> frame'.searched,
                   published |-> frame'.published, latest |-> frame'.latest]
  BY <1>1, <1>2
<1>4. Standing(frame.stage, frame.searched, s + 1)
  <2>1. /\ Admissible(Plan(s), frame.stage, frame.searched, frame.published, TRUE)
        /\ StageAfter(Plan(s), frame.stage) = frame.stage
        /\ SearchedAfter(Plan(s), frame.searched) = frame.searched
    BY <1>1, <1>2, StandsStill DEF Kind
  <2>2. Standing(StageAfter(Plan(s), frame.stage), SearchedAfter(Plan(s), frame.searched), s + 1)
    BY <1>1, <1>2, <2>1, StandsOn
  <2> QED
    BY <2>1, <2>2
<1>5. frame'.published = Published(s + 1)
  <2>1. ~Done("refresh", s)
    BY <1>1 DEF Done
  <2> QED
    BY <1>2, <1>3, <2>1, PublishedNext
<1>6. frame'.latest = Latest(s + 1)
  BY <1>1, <1>3 DEF Latest, Sequences
<1>7. PICK n : n = s + 1
  OBVIOUS
<1>8. StandsAt(n)'
  <2>1. /\ Latest(n)' = Latest(n) /\ Published(n)' = Published(n)
        /\ \A g, h : Standing(g, h, n)' = Standing(g, h, n)
    BY <1>1, SameRecords
  <2>2. PICK g, h : g = frame'.stage /\ h = frame'.searched
    OBVIOUS
  <2>3. (Standing(frame.stage, frame.searched, n))'
    BY <1>3, <1>4, <1>7, <2>1, <2>2 DEF Standing
  <2> QED
    BY <1>1, <1>5, <1>6, <1>7, <2>1, <2>3 DEF StandsAt
<1>9. \A x \in Sequences : x = seq' => StandsAt(x)'
  BY <1>1, <1>7, <1>8
<1> QED
  BY <1>2, <1>3, <1>9 DEF Replayed

LEMMA ReplayedStep ==
  ASSUME LInv, [Next]_vars
  PROVE  Replayed'
<1>1. CASE \E a \in Answers \cup {None} : Resume(a)
  BY <1>1, ResumeReplayed
<1>2. CASE Replay \/ Announce \/ Retry \/ Effect \/ Settle
  <2>1. Running /\ UNCHANGED <<pc, seq, frame>>
    BY <1>2 DEF Replay, Announce, Retry, Effect, Settle
  <2> QED
    BY <2>1, StaysReplayed
<1>3. CASE RefuseOther \/ StopAmbiguous \/ StopAtPlan \/ StopAtFailure \/ Report \/ AwaitUser \/ Crash
  <2>1. pc' = "off" /\ frame' = NewFrame
    BY <1>3 DEF RefuseOther, StopAmbiguous, StopAtPlan, StopAtFailure, Report, AwaitUser, Crash,
       Off, Stop
  <2> QED
    BY <2>1, OffReplayed
<1>4. CASE AcceptPlan
  BY <1>4, AcceptReplayed
<1>5. CASE GiveAnswer
  BY <1>5, GiveReplayed
<1>6. CASE GoOn \/ AfterAnswer
  <2>1. CASE seq < MaxActions
    BY <1>6, <2>1, GoOnReplayed, AnswerReplayed
  <2>2. CASE ~(seq < MaxActions)
    <3>1. pc' = "off" /\ frame' = NewFrame
      BY <1>6, <2>2 DEF GoOn, AfterAnswer, Advance, Stop
    <3> QED
      BY <3>1, OffReplayed
  <2> QED
    BY <2>1, <2>2
<1>7. CASE UNCHANGED vars
  <2>1. UNCHANGED <<pc, seq, frame, terminals>>
    BY <1>7 DEF vars
  <2>2. CASE Running
    BY <2>1, <2>2, StaysReplayed
  <2>3. CASE ~Running
    BY <2>1, <2>3 DEF LInv, Replayed, StandsAt, Running
  <2> QED
    BY <2>2, <2>3
<1> QED
  BY <1>1, <1>2, <1>3, <1>4, <1>5, <1>6, <1>7 DEF Next, Proceed

\* A request is announced where the runner stands, and never announced anew.
LEMMA ToldStep ==
  ASSUME LInv, [Next]_vars
  PROVE  Told'
<1> SUFFICES ASSUME NEW s \in Sequences
             PROVE  /\ Announced("plan", s)' =>
                         intents'[At("plan", s)] = [seq |-> s, latest |-> Latest(s)',
                                                    available |-> Published(s)']
                    /\ Announced("act", s)' => intents'[At("act", s)] = [seq |-> s, plan |-> Plan(s)']
  BY DEF Told
<1>1. /\ \A c \in DOMAIN terminals : c \in DOMAIN terminals' /\ terminals'[c] = terminals[c]
      /\ \A c \in DOMAIN intents : c \in DOMAIN intents' /\ intents'[c] = intents[c]
  BY RecordsStay DEF LInv, GateInv
<1>2. CASE Announce
  <2>1. /\ intents' = Put(intents, Here, Request) /\ UNCHANGED terminals /\ Running
        /\ DOMAIN intents' = DOMAIN intents \cup {Here} /\ intents'[Here] = Request
    BY <1>2 DEF Announce, Put
  <2>2. Latest(s)' = Latest(s) /\ Published(s)' = Published(s) /\ Plan(s)' = Plan(s)
    BY <2>1, SameRecords
  <2>3. ASSUME Here = At("plan", s)
        PROVE  Request = [seq |-> s, latest |-> Latest(s), available |-> Published(s)]
    <3>1. pc = "plan" /\ seq = s
      BY <2>3, CellFacts DEF Here
    <3> QED
      BY <3>1, <2>1 DEF Request, LInv, Replayed, StandsAt
  <2>4. ASSUME Here = At("act", s) PROVE Request = [seq |-> s, plan |-> Plan(s)]
    <3>1. pc = "act" /\ seq = s
      BY <2>4, CellFacts DEF Here
    <3> QED
      BY <3>1 DEF Request
  <2> QED
    BY <1>1, <2>1, <2>2, <2>3, <2>4 DEF LInv, Told, Announced, IsAnnounced
<1>3. CASE UNCHANGED intents
  <2>1. Announced("plan", s) => Latest(s)' = Latest(s) /\ Published(s)' = Published(s)
    BY <1>1, SolidAnnounced, PastStays DEF LInv
  <2>2. Announced("act", s) => Plan(s)' = Plan(s)
    BY <1>1 DEF LInv, GateInv, IInv, Planned, Recorded, IsRecorded, Plan
  <2> QED
    BY <1>3, <2>1, <2>2 DEF LInv, Told, Announced, IsAnnounced
<1>4. UNCHANGED intents \/ Announce
  BY DEF Next, Proceed, Resume, Replay, RefuseOther, StopAmbiguous, Retry, Effect, Settle, AcceptPlan,
     StopAtPlan, GoOn, StopAtFailure, Report, AwaitUser, GiveAnswer, AfterAnswer, Crash, vars
<1> QED
  BY <1>2, <1>3, <1>4

\* An effect runs behind an accepted plan, and what it had behind it stays.
LEMMA EarnedStep ==
  ASSUME LInv, [Next]_vars, NEW s \in Sequences, Ran(s)'
  PROVE  Earned(s)'
<1>1. \A c \in DOMAIN terminals : c \in DOMAIN terminals' /\ terminals'[c] = terminals[c]
  BY RecordsStay DEF LInv, GateInv
<1>2. runs \in [Cells -> 0..Many] /\ At("act", s) \in Cells
  BY CellFacts DEF LInv, GateInv, IInv, Shape, Stores
<1>3. Ran(s) \/ (Effect /\ Here = At("act", s))
  <2>1. CASE Effect
    BY <1>2, <2>1 DEF Effect, Ran
  <2>2. CASE UNCHANGED runs
    BY <2>2 DEF Ran
  <2>3. UNCHANGED runs \/ Effect
    BY DEF Next, Proceed, Resume, Replay, RefuseOther, StopAmbiguous, Retry, Announce, Settle,
       AcceptPlan, StopAtPlan, GoOn, StopAtFailure, Report, AwaitUser, GiveAnswer, AfterAnswer,
       Crash, vars
  <2> QED
    BY <2>1, <2>2, <2>3
<1>4. Announced("act", s) /\ Recorded("plan", s) /\ Announced("plan", s)
  <2>1. CASE Ran(s)
    BY <1>2, <2>1 DEF LInv, GateInv, IInv, Licensed, Holding, Planned, Ran, Announced, Recorded,
       IsAnnounced, IsRecorded, Many
  <2>2. CASE Effect /\ Here = At("act", s)
    BY <2>2 DEF Effect, LInv, GateInv, IInv, Holding, Planned, Announced, Recorded, IsAnnounced,
       IsRecorded
  <2> QED
    BY <1>3, <2>1, <2>2
<1>5. Earned(s)
  <2>1. CASE Ran(s)
    BY <2>1 DEF LInv
  <2>2. CASE Effect /\ Here = At("act", s)
    <3>1. pc = "act" /\ seq = s
      BY <2>2, CellFacts DEF Here
    <3>2. StandsAt(s)
      BY <3>1 DEF LInv, Replayed
    <3>3. PICK g \in 0..6, h \in BOOLEAN : Advanced(g, h, s)
      BY <3>1, <3>2 DEF StandsAt
    <3>4. frame.published = Published(s)
      BY <3>1, <3>2 DEF StandsAt, Running
    <3>5. Kind(s) \in DOMAIN Before => Reached(Kind(s), s)
      BY <3>3, LadderFacts DEF Advanced, Admissible, Standing, Kind
    <3>6. Kind(s) \in Substantive => \E r \in 1..(s - 1) : Done("search", r)
      BY <3>3 DEF Advanced, Admissible, Standing, Kind
    <3>7. Kind(s) = "retrieve" => Plan(s).names \in Published(s)
      BY <3>3, <3>4 DEF Advanced, Admissible, Kind
    <3> QED
      BY <3>5, <3>6, <3>7 DEF Earned
  <2> QED
    BY <1>3, <2>1, <2>2
<1>6. Plan(s)' = Plan(s) /\ Kind(s)' = Kind(s)
  BY <1>1, <1>4 DEF Recorded, IsRecorded, Plan, Kind
<1>7. Solid(s)
  BY <1>4, SolidAnnounced DEF LInv
<1>8. /\ Published(s)' = Published(s)
      /\ \A kind : Reached(kind, s)' = Reached(kind, s)
      /\ \A kind, r : r \in 1..(s - 1) => Done(kind, r)' = Done(kind, r)
  BY <1>1, <1>7, PastStays
<1>9. PICK kind : kind = Kind(s)
  OBVIOUS
<1>10. (kind \in DOMAIN Before => Reached(kind, s))'
  BY <1>5, <1>8, <1>9 DEF Earned
<1>11. (Kind(s) \in DOMAIN Before => Reached(Kind(s), s))'
  BY <1>6, <1>9, <1>10 DEF Reached
<1> QED
  BY <1>5, <1>6, <1>8, <1>11 DEF Earned

LEMMA LStep == LInv /\ [Next]_vars => LInv'
<1> SUFFICES ASSUME LInv, [Next]_vars PROVE LInv'
  OBVIOUS
<1>1. GateInv'
  BY GateStep DEF LInv
<1>2. \A s \in Sequences : (Ran(s) => Earned(s))'
  BY EarnedStep
<1> QED
  BY <1>1, <1>2, ReplayedStep, ToldStep DEF LInv

LEMMA LAlways == Spec => []LInv
  BY LInit, LStep, PTL DEF Spec

(***************************************************************************)
(* A replay rebuilds the request of every planner call and effect that was *)
(* announced, so the stores never refuse their own campaign, wherever the  *)
(* runner died (end_to_end.py:419-434, 487-493).                           *)
(***************************************************************************)
THEOREM ReplaysAreStable == Spec => []ReplayStable
<1>1. LInv => ReplayStable
  <2> SUFFICES ASSUME LInv, Running, step = "enter", pc # "answer", IsAnnounced(Here)
               PROVE  intents[Here] = Request
    BY DEF ReplayStable
  <2> PICK s \in Sequences : s = seq
    BY DEF LInv, GateInv, IInv, Shape
  <2>1. CASE pc = "plan"
    <3>1. intents[Here] = [seq |-> s, latest |-> Latest(s), available |-> Published(s)]
      BY <2>1 DEF LInv, Told, Announced, Here
    <3>2. frame.latest = Latest(s) /\ frame.published = Published(s)
      BY <2>1 DEF LInv, Replayed, StandsAt
    <3> QED
      BY <2>1, <3>1, <3>2 DEF Request
  <2>2. CASE pc = "act"
    BY <2>2 DEF LInv, Told, Announced, Here, Request
  <2> QED
    BY <2>1, <2>2 DEF LInv, GateInv, IInv, Shape, Running, Stores
<1> QED
  BY <1>1, LAlways, PTL

(***************************************************************************)
(* The effect of a rung ran only after the rung before it was completed in *)
(* the same literature cycle, a retrieval names a generation that a        *)
(* completed refresh of this campaign published, and substantive research  *)
(* ran only behind a completed search (end_to_end.py:84-128, ADR-0079).    *)
(***************************************************************************)
THEOREM LadderIsClimbed == Spec => [](LadderClimbed /\ SearchBeforeResearch)
<1>1. LInv => LadderClimbed /\ SearchBeforeResearch
  <2> SUFFICES ASSUME LInv
               PROVE  LiteratureOrder /\ RetrievalBound /\ SearchBeforeResearch
    BY DEF LadderClimbed
  <2>1. LiteratureOrder
    BY DEF LInv, Earned, Reached, LiteratureOrder
  <2>2. RetrievalBound
    <3> SUFFICES ASSUME NEW s \in Sequences, Ran(s), Kind(s) = "retrieve"
                 PROVE  \E r \in 1..(s - 1) :
                          Done("refresh", r) /\ terminals[At("act", r)].value = Plan(s).names
      BY DEF RetrievalBound
    <3>1. Plan(s).names \in Published(s)
      BY DEF LInv, Earned
    <3> QED
      BY <3>1 DEF Published
  <2>3. SearchBeforeResearch
    BY DEF LInv, Earned, SearchBeforeResearch
  <2> QED
    BY <2>1, <2>2, <2>3
<1> QED
  BY <1>1, LAlways, PTL
=============================================================================
