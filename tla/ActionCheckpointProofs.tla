------------------------ MODULE ActionCheckpointProofs ------------------------
(***************************************************************************)
(* Theorems about ActionCheckpoint, for any set of processes, calls and    *)
(* outcomes and any number of crashes.                                     *)
(***************************************************************************)
EXTENDS ActionCheckpoint, TLAPS

\* The labels execute() passes once its intent is durable, and those it passes
\* once its effect was allowed, or had ended.
Announced == {"recheck", "run", "bind", "close", "closing", "settling"}
Allowed == Announced \ {"recheck"}
Ended == {"bind", "close", "closing", "settling"}

\* The arguments and the outcome a running execute() works on are real ones.
Running ==
  \A p \in Procs :
    /\ pc[p] # "idle" => call[p] \in Calls
    /\ pc[p] \in Ended => outcome[p] \in Outcomes

\* The lock excludes: whoever writes, holds it.
Exclusive == \A p \in Procs : pc[p] \in InLock => lock = p

\* What a process between two steps knows of the files of its sequence.
Frames ==
  \A p \in Procs :
    /\ pc[p] = "declaring" => intent[Sequence(p)] = None
    /\ pc[p] \in Announced => intent[Sequence(p)] = call[p]
    /\ pc[p] \in Ended => outcome[p] \in produced[Sequence(p)]
    /\ pc[p] = "settling" => terminal[Sequence(p)] = None
    /\ prior[p] # None => pc[p] # "idle" /\ prior[p] = terminal[Sequence(p)]

\* Only the writer of a paid intent gets to its effect, and there is one writer.
Licences ==
  \A p \in Procs :
    /\ created[p] => pc[p] \in Announced
    /\ pc[p] \in Allowed /\ call[p].paid => created[p]
    /\ pc[p] \in {"recheck", "run"} /\ created[p] /\ call[p].paid =>
         runs[Sequence(p)] = 0
    /\ \A q \in Procs :
         created[p] /\ created[q] /\ Sequence(p) = Sequence(q) => p = q

\* Nothing ran, and nothing was recorded, before the intent was there.
Quiet ==
  \A s \in Seqs :
    /\ intent[s] = None => runs[s] = 0
    /\ runs[s] = 0 => produced[s] = {}

TypeInv == TypeOK /\ Running

IInv ==
  /\ TypeInv
  /\ Exclusive
  /\ Frames
  /\ Licences
  /\ Quiet
  /\ PaidAtMostOnce
  /\ TerminalBacked
  /\ OneAnswer
-----------------------------------------------------------------------------
LEMMA SeqOfCall == ASSUME NEW c \in Calls PROVE c.seq \in Seqs
  BY DEF Seqs, Journal!Seqs

LEMMA RecordIsTerminal ==
  ASSUME NEW c \in Calls, NEW o \in Outcomes
  PROVE  /\ Record(c, o) \in Terminals
         /\ Record(c, o).intent = c
         /\ Record(c, o).outcome = o
         /\ Record(c, o) # None
  BY CallsAssumption DEF Record, Terminals, Journal!Terminals

LEMMA TypeInit == Init => TypeInv
  BY CallsAssumption DEF Init, Journal!Init, TypeInv, TypeOK, Running, Ended, Seqs, Journal!Many, Labels

LEMMA TypeStep == TypeInv /\ [Next]_vars => TypeInv'
<1> SUFFICES ASSUME TypeInv, [Next]_vars PROVE TypeInv'
  OBVIOUS
<1> USE CallsAssumption, SeqOfCall, RecordIsTerminal DEF TypeInv, TypeOK, Running, Ended, Labels, Kinds,
        Sequence, Goto, Leave, files, locals
<1>1. ASSUME NEW p \in Procs, NEW c \in Calls, Start(p, c) PROVE TypeInv'
  BY <1>1 DEF Start
<1>2. ASSUME NEW p \in Procs, TakeLock(p) PROVE TypeInv'
  BY <1>2 DEF TakeLock
<1>3. ASSUME NEW p \in Procs, KeepIntent(p) PROVE TypeInv'
  BY <1>3 DEF KeepIntent
<1>4. ASSUME NEW p \in Procs, RefuseIntent(p) PROVE TypeInv'
  BY <1>4 DEF RefuseIntent
<1>5. ASSUME NEW p \in Procs, OpenIntent(p) PROVE TypeInv'
  BY <1>5 DEF OpenIntent
<1>6. ASSUME NEW p \in Procs, BlockedIntent(p) PROVE TypeInv'
  BY <1>6 DEF BlockedIntent
<1>7. ASSUME NEW p \in Procs, RenameIntent(p) PROVE TypeInv'
  BY <1>7 DEF RenameIntent
<1>8. ASSUME NEW p \in Procs, ReturnKnown(p) PROVE TypeInv'
  BY <1>8 DEF ReturnKnown, Known
<1>9. ASSUME NEW p \in Procs, RefuseAmbiguous(p) PROVE TypeInv'
  BY <1>9 DEF RefuseAmbiguous
<1>10. ASSUME NEW p \in Procs, Decide(p) PROVE TypeInv'
  BY <1>10 DEF Decide
<1>11. ASSUME NEW p \in Procs, NEW o \in Outcomes, RunEffect(p, o)
     PROVE TypeInv'
  BY <1>11 DEF RunEffect, Journal!More, Journal!Many
<1>12. ASSUME NEW p \in Procs, Bind(p) PROVE TypeInv'
  BY <1>12 DEF Bind
<1>13. ASSUME NEW p \in Procs, AgreeTerminal(p) PROVE TypeInv'
  BY <1>13 DEF AgreeTerminal
<1>14. ASSUME NEW p \in Procs, RefuseTerminal(p) PROVE TypeInv'
  BY <1>14 DEF RefuseTerminal
<1>15. ASSUME NEW p \in Procs, OpenTerminal(p) PROVE TypeInv'
  BY <1>15 DEF OpenTerminal
<1>16. ASSUME NEW p \in Procs, BlockedTerminal(p) PROVE TypeInv'
  BY <1>16 DEF BlockedTerminal
<1>17. ASSUME NEW p \in Procs, RenameTerminal(p) PROVE TypeInv'
  BY <1>17 DEF RenameTerminal
<1>18. ASSUME NEW p \in Procs, Look(p) PROVE TypeInv'
  BY <1>18 DEF Look
<1>19. ASSUME NEW p \in Procs, Crash(p) PROVE TypeInv'
  BY <1>19 DEF Crash
<1>20. CASE UNCHANGED vars
  BY <1>20 DEF vars
<1> QED
  BY <1>1, <1>2, <1>3, <1>4, <1>5, <1>6, <1>7, <1>8, <1>9, <1>10, <1>11, <1>12, <1>13, <1>14, <1>15, <1>16, <1>17, <1>18, <1>19, <1>20 DEF Next, Proceed

LEMMA InvInit == Init => IInv
<1> SUFFICES ASSUME Init PROVE IInv
  OBVIOUS
<1>1. TypeInv
  BY TypeInit
<1> QED
  BY <1>1, CallsAssumption
     DEF Init, Journal!Init, IInv, Exclusive, Frames, Licences, Quiet,
         PaidAtMostOnce, TerminalBacked, OneAnswer, Seqs, Journal!Many, InLock,
         Announced, Allowed, Ended

LEMMA InvStep == IInv /\ [Next]_vars => IInv'
<1> SUFFICES ASSUME IInv, [Next]_vars PROVE IInv'
  OBVIOUS
<1>0. TypeInv'
  BY TypeStep DEF IInv
<1> USE CallsAssumption, SeqOfCall, RecordIsTerminal, <1>0
    DEF IInv, TypeInv, TypeOK, Running, Exclusive, Frames, Licences, Quiet, PaidAtMostOnce,
        TerminalBacked, OneAnswer, InLock, Announced, Allowed, Ended, Sequence,
        Goto, Leave, files, locals
<1>1. ASSUME NEW p \in Procs, NEW c \in Calls, Start(p, c) PROVE IInv'
  BY <1>1 DEF Start
<1>2. ASSUME NEW p \in Procs, TakeLock(p) PROVE IInv'
  BY <1>2 DEF TakeLock
<1>3. ASSUME NEW p \in Procs, KeepIntent(p) PROVE IInv'
  BY <1>3 DEF KeepIntent
<1>4. ASSUME NEW p \in Procs, RefuseIntent(p) PROVE IInv'
  BY <1>4 DEF RefuseIntent
<1>5. ASSUME NEW p \in Procs, OpenIntent(p) PROVE IInv'
  BY <1>5 DEF OpenIntent
<1>6. ASSUME NEW p \in Procs, BlockedIntent(p) PROVE IInv'
  BY <1>6 DEF BlockedIntent
<1>7. ASSUME NEW p \in Procs, RenameIntent(p) PROVE IInv'
  BY <1>7 DEF RenameIntent
<1>8. ASSUME NEW p \in Procs, ReturnKnown(p) PROVE IInv'
  BY <1>8 DEF ReturnKnown, Known
<1>9. ASSUME NEW p \in Procs, RefuseAmbiguous(p) PROVE IInv'
  BY <1>9 DEF RefuseAmbiguous
<1>10. ASSUME NEW p \in Procs, Decide(p) PROVE IInv'
  BY <1>10 DEF Decide
<1>11. ASSUME NEW p \in Procs, NEW o \in Outcomes, RunEffect(p, o)
     PROVE IInv'
  BY <1>11 DEF RunEffect, Journal!More, Journal!Many
<1>12. ASSUME NEW p \in Procs, Bind(p) PROVE IInv'
  BY <1>12 DEF Bind
<1>13. ASSUME NEW p \in Procs, AgreeTerminal(p) PROVE IInv'
  BY <1>13 DEF AgreeTerminal
<1>14. ASSUME NEW p \in Procs, RefuseTerminal(p) PROVE IInv'
  BY <1>14 DEF RefuseTerminal
<1>15. ASSUME NEW p \in Procs, OpenTerminal(p) PROVE IInv'
  BY <1>15 DEF OpenTerminal
<1>16. ASSUME NEW p \in Procs, BlockedTerminal(p) PROVE IInv'
  BY <1>16 DEF BlockedTerminal
<1>17. ASSUME NEW p \in Procs, RenameTerminal(p) PROVE IInv'
  BY <1>17 DEF RenameTerminal
<1>18. ASSUME NEW p \in Procs, Look(p) PROVE IInv'
  BY <1>18 DEF Look
<1>19. ASSUME NEW p \in Procs, Crash(p) PROVE IInv'
  BY <1>19 DEF Crash
<1>20. CASE UNCHANGED vars
  BY <1>20 DEF vars
<1> QED
  BY <1>1, <1>2, <1>3, <1>4, <1>5, <1>6, <1>7, <1>8, <1>9, <1>10, <1>11, <1>12, <1>13, <1>14, <1>15, <1>16, <1>17, <1>18, <1>19, <1>20 DEF Next, Proceed

LEMMA Invariance == Spec => []IInv
  BY InvInit, InvStep, PTL DEF Spec

\* Every variable keeps the shape the store's files and locals have.
THEOREM TypeCorrect == Spec => []TypeOK
<1>1. IInv => TypeOK
  BY DEF IInv, TypeInv
<1> QED
  BY Invariance, <1>1, PTL

\* checkpoint.py:5-6: a paid effect runs at most once, however many processes
\* execute the action and wherever they die.
THEOREM PaidOnce == Spec => []PaidAtMostOnce
<1>1. IInv => PaidAtMostOnce
  BY DEF IInv
<1> QED
  BY Invariance, <1>1, PTL

\* checkpoint.py:210-218: load() finds no terminal it would have to refuse.
THEOREM RecordsAgree == Spec => []TerminalBacked
<1>1. IInv => TerminalBacked
  BY DEF IInv
<1> QED
  BY Invariance, <1>1, PTL

\* checkpoint.py:4: all callers of one action hold the recorded result.
THEOREM CallersAgree == Spec => []OneAnswer
<1>1. IInv => OneAnswer
  BY DEF IInv
<1> QED
  BY Invariance, <1>1, PTL
-----------------------------------------------------------------------------
\* The effect and the terminal of a paid intent are in the hands of its writer.
LEMMA OrphanStep ==
  ASSUME IInv, IInv', [Next]_vars, NEW s \in Seqs, Orphan(s)
  PROVE  runs'[s] = runs[s] /\ Orphan(s)'
<1> USE CallsAssumption, SeqOfCall
    DEF IInv, TypeInv, TypeOK, Running, Exclusive, Frames, Licences, Orphan,
        Owner, InLock, Announced, Allowed, Ended, Sequence, Goto, Leave, files,
        locals
<1>1. ASSUME NEW p \in Procs, NEW c \in Calls, Start(p, c) PROVE runs'[s] = runs[s] /\ Orphan(s)'
  BY <1>1 DEF Start
<1>2. ASSUME NEW p \in Procs, TakeLock(p) PROVE runs'[s] = runs[s] /\ Orphan(s)'
  BY <1>2 DEF TakeLock
<1>3. ASSUME NEW p \in Procs, KeepIntent(p) PROVE runs'[s] = runs[s] /\ Orphan(s)'
  BY <1>3 DEF KeepIntent
<1>4. ASSUME NEW p \in Procs, RefuseIntent(p) PROVE runs'[s] = runs[s] /\ Orphan(s)'
  BY <1>4 DEF RefuseIntent
<1>5. ASSUME NEW p \in Procs, OpenIntent(p) PROVE runs'[s] = runs[s] /\ Orphan(s)'
  BY <1>5 DEF OpenIntent
<1>6. ASSUME NEW p \in Procs, BlockedIntent(p) PROVE runs'[s] = runs[s] /\ Orphan(s)'
  BY <1>6 DEF BlockedIntent
<1>7. ASSUME NEW p \in Procs, RenameIntent(p) PROVE runs'[s] = runs[s] /\ Orphan(s)'
  BY <1>7 DEF RenameIntent
<1>8. ASSUME NEW p \in Procs, ReturnKnown(p) PROVE runs'[s] = runs[s] /\ Orphan(s)'
  BY <1>8 DEF ReturnKnown
<1>9. ASSUME NEW p \in Procs, RefuseAmbiguous(p) PROVE runs'[s] = runs[s] /\ Orphan(s)'
  BY <1>9 DEF RefuseAmbiguous
<1>10. ASSUME NEW p \in Procs, Decide(p) PROVE runs'[s] = runs[s] /\ Orphan(s)'
  BY <1>10 DEF Decide
<1>11. ASSUME NEW p \in Procs, NEW o \in Outcomes, RunEffect(p, o)
     PROVE runs'[s] = runs[s] /\ Orphan(s)'
  BY <1>11 DEF RunEffect
<1>12. ASSUME NEW p \in Procs, Bind(p) PROVE runs'[s] = runs[s] /\ Orphan(s)'
  BY <1>12 DEF Bind
<1>13. ASSUME NEW p \in Procs, AgreeTerminal(p) PROVE runs'[s] = runs[s] /\ Orphan(s)'
  BY <1>13 DEF AgreeTerminal
<1>14. ASSUME NEW p \in Procs, RefuseTerminal(p) PROVE runs'[s] = runs[s] /\ Orphan(s)'
  BY <1>14 DEF RefuseTerminal
<1>15. ASSUME NEW p \in Procs, OpenTerminal(p) PROVE runs'[s] = runs[s] /\ Orphan(s)'
  BY <1>15 DEF OpenTerminal
<1>16. ASSUME NEW p \in Procs, BlockedTerminal(p) PROVE runs'[s] = runs[s] /\ Orphan(s)'
  BY <1>16 DEF BlockedTerminal
<1>17. ASSUME NEW p \in Procs, RenameTerminal(p) PROVE runs'[s] = runs[s] /\ Orphan(s)'
  BY <1>17 DEF RenameTerminal
<1>18. ASSUME NEW p \in Procs, Look(p) PROVE runs'[s] = runs[s] /\ Orphan(s)'
  BY <1>18 DEF Look
<1>19. ASSUME NEW p \in Procs, Crash(p) PROVE runs'[s] = runs[s] /\ Orphan(s)'
  BY <1>19 DEF Crash
<1>20. CASE UNCHANGED vars
  BY <1>20 DEF vars
<1> QED
  BY <1>1, <1>2, <1>3, <1>4, <1>5, <1>6, <1>7, <1>8, <1>9, <1>10, <1>11, <1>12, <1>13, <1>14, <1>15, <1>16, <1>17, <1>18, <1>19, <1>20 DEF Next, Proceed

\* checkpoint.py:5-6, "never executed again automatically".
THEOREM OrphansStay == Spec => OrphanFrozen
<1>1. IInv /\ IInv' /\ [Next]_vars =>
        [\A s \in Seqs : Orphan(s) => runs'[s] = runs[s] /\ Orphan(s)']_vars
  BY OrphanStep
<1> QED
  BY Invariance, <1>1, PTL DEF Spec, OrphanFrozen
-----------------------------------------------------------------------------
\* Four steps are steps of the journal; all the others leave its records alone.
LEMMA JournalStep ==
  ASSUME IInv, [Next]_vars
  PROVE  [Journal!Next]_(Journal!journalVars)
<1> USE CallsAssumption, SeqOfCall, RecordIsTerminal
    DEF IInv, TypeInv, TypeOK, Running, Frames, Licences, Quiet, TerminalBacked,
        Announced, Allowed, Ended, Sequence, Goto, files, locals,
        Journal!journalVars
<1> DEFINE Same == UNCHANGED Journal!journalVars
<1>1. ASSUME NEW p \in Procs, NEW c \in Calls, Start(p, c) PROVE Same
  BY <1>1 DEF Start
<1>2. ASSUME NEW p \in Procs, TakeLock(p) PROVE Same
  BY <1>2 DEF TakeLock
<1>3. ASSUME NEW p \in Procs, KeepIntent(p) PROVE Same
  BY <1>3 DEF KeepIntent
<1>4. ASSUME NEW p \in Procs, RefuseIntent(p) PROVE Same
  BY <1>4 DEF RefuseIntent
<1>5. ASSUME NEW p \in Procs, OpenIntent(p) PROVE Same
  BY <1>5 DEF OpenIntent
<1>6. ASSUME NEW p \in Procs, BlockedIntent(p) PROVE Same
  BY <1>6 DEF BlockedIntent
<1>7. ASSUME NEW p \in Procs, ReturnKnown(p) PROVE Same
  BY <1>7 DEF ReturnKnown
<1>8. ASSUME NEW p \in Procs, RefuseAmbiguous(p) PROVE Same
  BY <1>8 DEF RefuseAmbiguous
<1>9. ASSUME NEW p \in Procs, Decide(p) PROVE Same
  BY <1>9 DEF Decide
<1>10. ASSUME NEW p \in Procs, Bind(p) PROVE Same
  BY <1>10 DEF Bind
<1>11. ASSUME NEW p \in Procs, AgreeTerminal(p) PROVE Same
  BY <1>11 DEF AgreeTerminal
<1>12. ASSUME NEW p \in Procs, RefuseTerminal(p) PROVE Same
  BY <1>12 DEF RefuseTerminal
<1>13. ASSUME NEW p \in Procs, OpenTerminal(p) PROVE Same
  BY <1>13 DEF OpenTerminal
<1>14. ASSUME NEW p \in Procs, BlockedTerminal(p) PROVE Same
  BY <1>14 DEF BlockedTerminal
<1>15. ASSUME NEW p \in Procs, Look(p) PROVE Same
  BY <1>15 DEF Look
<1>16. ASSUME NEW p \in Procs, Crash(p) PROVE Same
  BY <1>16 DEF Crash
<1>17. CASE UNCHANGED vars
  BY <1>17 DEF vars
<1>18. ASSUME NEW p \in Procs, RenameIntent(p) PROVE Journal!Next
  <2>1. Journal!Declare(call[p])
    BY <1>18 DEF RenameIntent, Journal!Declare
  <2> QED
    BY <1>18, <2>1 DEF RenameIntent, Journal!Next
<1>19. ASSUME NEW p \in Procs, NEW o \in Outcomes, RunEffect(p, o)
     PROVE Journal!Next
  <2>1. Journal!Run(Sequence(p), o)
    BY <1>19 DEF RunEffect, Journal!Run
  <2> QED
    BY <1>19, <2>1 DEF RunEffect, Journal!Next, Seqs
<1>20. ASSUME NEW p \in Procs, RenameTerminal(p) PROVE Journal!Next
  <2>0. pc[p] = "settling" /\ call[p] \in Calls /\ Sequence(p) \in Seqs
    BY <1>20 DEF RenameTerminal
  <2>1. /\ intent[Sequence(p)] = call[p] /\ terminal[Sequence(p)] = None
        /\ outcome[p] \in produced[Sequence(p)]
    BY <2>0
  <2>2. terminal' = [terminal EXCEPT ![Sequence(p)] = Record(call[p], outcome[p])]
    BY <1>20 DEF RenameTerminal
  <2>3. UNCHANGED <<intent, runs, produced>>
    BY <1>20 DEF RenameTerminal
  <2>4. call[p] # None
    BY <2>0
  <2>5. Journal!Settle(Sequence(p), outcome[p])
    <3> HIDE DEF IInv, Sequence
    <3> QED
      BY ONLY <2>1, <2>2, <2>3, <2>4 DEF Record, Journal!Settle
  <2> QED
    BY <2>0, <2>5 DEF Journal!Next, Seqs
<1> HIDE DEF Same
<1> QED
  BY <1>1, <1>2, <1>3, <1>4, <1>5, <1>6, <1>7, <1>8, <1>9, <1>10, <1>11, <1>12, <1>13, <1>14, <1>15, <1>16, <1>17, <1>18, <1>19, <1>20 DEF Next, Proceed, Same

\* The store, seen through its files and what its effects did, is the journal.
THEOREM Refinement == Spec => JournalSpec
<1>1. Init => Journal!Init
  BY DEF Init
<1>2. IInv /\ [Next]_vars => [Journal!Next]_(Journal!journalVars)
  BY JournalStep
<1> QED
  BY Invariance, <1>1, <1>2, PTL DEF Spec, JournalSpec, Journal!Spec
=============================================================================
