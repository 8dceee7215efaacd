---------------------------- MODULE EffectJournal ----------------------------
(***************************************************************************)
(* What an action checkpoint store promises the campaign that writes its   *)
(* effects through it (campaign/checkpoint.py, module docstring): an       *)
(* intent is durable before its effect runs, a terminal record is durable  *)
(* only with an outcome the effect delivered, neither is ever replaced,    *)
(* and a paid or irreversible effect runs at most once however often, and  *)
(* by however many callers, the action is executed.  A crash is not        *)
(* visible here: it is a stuttering step.                                  *)
(***************************************************************************)
EXTENDS Naturals

CONSTANTS
  Calls,      \* the inputs of an execute call: [seq, request, paid, at]
  Outcomes,   \* a status with its result, as an effect ends with it
  None        \* no record

VARIABLES
  intent,     \* sequence -> the durable intent or None
  terminal,   \* sequence -> the durable terminal record or None
  runs,       \* sequence -> how often an effect ran: 0, 1 or Many
  produced    \* sequence -> the outcomes those runs delivered

journalVars == <<intent, terminal, runs, produced>>

Many == 2                                   \* two runs or more
More(n) == IF n = Many THEN Many ELSE n + 1

Seqs == {c.seq : c \in Calls}
Terminals == [intent : Calls, outcome : Outcomes]

Init ==
  /\ intent = [s \in Seqs |-> None]
  /\ terminal = [s \in Seqs |-> None]
  /\ runs = [s \in Seqs |-> 0]
  /\ produced = [s \in Seqs |-> {}]

\* An action is announced once for its sequence.
Declare(c) ==
  /\ intent[c.seq] = None
  /\ intent' = [intent EXCEPT ![c.seq] = c]
  /\ UNCHANGED <<terminal, runs, produced>>

\* Its effect runs: a paid one only if it never ran before.
Run(s, o) ==
  /\ intent[s] # None
  /\ intent[s].paid => runs[s] = 0 /\ terminal[s] = None
  /\ runs' = [runs EXCEPT ![s] = More(@)]
  /\ produced' = [produced EXCEPT ![s] = @ \cup {o}]
  /\ UNCHANGED <<intent, terminal>>

\* One delivered outcome becomes the recorded one.
Settle(s, o) ==
  /\ intent[s] # None
  /\ terminal[s] = None
  /\ o \in produced[s]
  /\ terminal' = [terminal EXCEPT ![s] = [intent |-> intent[s], outcome |-> o]]
  /\ UNCHANGED <<intent, runs, produced>>

Next ==
  \/ \E c \in Calls : Declare(c)
  \/ \E s \in Seqs, o \in Outcomes : Run(s, o) \/ Settle(s, o)

Spec == Init /\ [][Next]_journalVars
=============================================================================
