------------------------------ MODULE CampaignRoot ------------------------------
(***************************************************************************)
(* campaign_cli.py: the root directory of a version 1 campaign under the   *)
(* commands `run` and `resume`, processes that may overlap and die.        *)
(*                                                                         *)
(* A file is modelled by the content that was written, "torn" when its     *)
(* writer died in the middle.  "inputs" stands for the target, the         *)
(* configuration, the recheck and the preimages; "checkpoints" for the     *)
(* checkpoints and the artifacts of SequentialCampaign.                    *)
(***************************************************************************)
EXTENDS Integers, Sequences, FiniteSets

CONSTANTS
  Commands,     \* processes of `run`
  Resumes,      \* processes of `resume`
  Contents      \* what a campaign's records may say

Absent == "absent"

ASSUME RootAssumption ==
  Absent \notin Contents /\ "torn" \notin Contents /\ Commands \cap Resumes = {}

Files == {"activation", "checkpoints", "inputs", "facts", "campaign", "report"}
Closing == Files \ {"report"}        \* _existing_durable_state looks at these

VARIABLES
  root,         \* content of each file
  content,      \* what a command writes
  paying,       \* commands with a live provider
  where,           \* where a process is
  queue,        \* files a command still has to write, and where it asks its planner
  paid,         \* history: commands that reached a provider
  overlapped,   \* history: a command passed the guard while another was past it
  unrecorded    \* history: a paid command died before its first durable byte

rootVars == <<root, content, paying, where, queue, paid, overlapped, unrecorded>>

RootInit ==
  /\ root = [f \in Files |-> Absent]
  /\ content \in [Commands -> Contents]
  /\ paying \in SUBSET Commands
  /\ where = [p \in Commands \cup Resumes |-> "new"]
  /\ queue = [c \in Commands |-> <<>>]
  /\ paid = {} /\ overlapped = FALSE /\ unrecorded = FALSE
-----------------------------------------------------------------------------
Goto(p, place) == where' = [where EXCEPT ![p] = place]
Ended == {"refused", "dead", "done"}

\* Everything inert is checked and any durable byte refuses the command.
Guard(c) ==
  /\ where[c] = "new"
  /\ IF \E f \in Closing : root[f] # Absent
     THEN Goto(c, "refused") /\ UNCHANGED overlapped
     ELSE /\ Goto(c, IF c \in paying THEN "probing" ELSE "running")
          /\ overlapped' = (overlapped \/ \E d \in Commands \ {c} : where[d] \notin Ended \cup {"new"})
  /\ UNCHANGED <<root, content, paying, queue, paid, unrecorded>>

\* _live_activation: the last inert input refuses before money is spent, then one probe.
\* Its observation is kept before anything else uses it, whether it passed or failed.
Probe(c) ==
  /\ where[c] = "probing"
  /\ \/ Goto(c, "refused") /\ UNCHANGED <<queue, paid>>
     \/ /\ Goto(c, "looking")
        /\ queue' = [queue EXCEPT ![c] = <<"activation", "planner">>]
        /\ paid' = paid \cup {c}
  /\ UNCHANGED <<root, content, paying, overlapped, unrecorded>>

\* Slip: the ledger is written first.
LedgerFirst == <<"campaign", "facts", "inputs">>

\* _write_durable: the file the guard once keyed on comes last.
LedgerLast == <<"facts", "inputs", "campaign">>

\* A refused planner keeps an activation-only ledger (_retain_activation).
Activated(c) ==
  /\ where[c] = "looking" /\ queue[c] = <<"planner">>
  /\ \/ Goto(c, "running") /\ UNCHANGED queue
     \/ UNCHANGED where /\ queue' = [queue EXCEPT ![c] = LedgerLast]
  /\ UNCHANGED <<root, content, paying, paid, overlapped, unrecorded>>

\* SequentialCampaignRunner: its first intent is durable before a planner is called; an
\* intent of other content raises.  A run that cannot name its bytes leaves no ledger.
Research(c) ==
  /\ where[c] = "running"
  /\ IF root["checkpoints"] \notin {Absent, content[c]}
     THEN Goto(c, "dead") /\ UNCHANGED <<root, queue, paid>>
     ELSE /\ root' = [root EXCEPT !["checkpoints"] = content[c]]
          /\ paid' = IF c \in paying THEN paid \cup {c} ELSE paid
          /\ \/ Goto(c, "looking") /\ queue' = [queue EXCEPT ![c] = LedgerLast]
             \/ Goto(c, "refused") /\ UNCHANGED queue
  /\ UNCHANGED <<content, paying, overlapped, unrecorded>>

\* _write_once first looks: another content refuses, the same is left as it is.
Look(c) ==
  /\ where[c] = "looking" /\ queue[c] \notin {<<>>, <<"planner">>}
  /\ LET found == root[Head(queue[c])] IN
     \/ found = Absent /\ Goto(c, "putting") /\ UNCHANGED queue
     \/ found = content[c] /\ queue' = [queue EXCEPT ![c] = Tail(@)] /\ UNCHANGED where
     \/ found \notin {Absent, content[c]} /\ Goto(c, "refused") /\ UNCHANGED queue
  /\ UNCHANGED <<root, content, paying, paid, overlapped, unrecorded>>

\* ... and then writes in place.
Put(c) ==
  /\ where[c] = "putting"
  /\ root' = [root EXCEPT ![Head(queue[c])] = content[c]]
  /\ queue' = [queue EXCEPT ![c] = Tail(@)]
  /\ Goto(c, "looking")
  /\ UNCHANGED <<content, paying, paid, overlapped, unrecorded>>

\* The report is a projection: that it fails does not change the ledger.
FinishRoot(c) ==
  /\ where[c] = "looking" /\ queue[c] = <<>>
  /\ Goto(c, "done")
  /\ root' \in {root, [root EXCEPT !["report"] = IF @ = Absent THEN content[c] ELSE @]}
  /\ UNCHANGED <<content, paying, queue, paid, overlapped, unrecorded>>

\* _load_campaign: the ledger and what it is checked against.
Loads == root["campaign"] \in Contents /\ \A f \in {"facts", "inputs"} : root[f] = root["campaign"]

\* A version 1 root is only finished, never run again.
ResumeRoot(r) ==
  /\ where[r] = "new"
  /\ \/ Loads /\ Goto(r, "done")
              /\ root' \in {root, [root EXCEPT !["report"] = IF @ = Absent THEN root["campaign"] ELSE @]}
     \/ ~Loads /\ Goto(r, "refused") /\ UNCHANGED root
  /\ UNCHANGED <<content, paying, queue, paid, overlapped, unrecorded>>

CommandDies(c) ==
  /\ where[c] \notin Ended \cup {"new"}
  /\ Goto(c, "dead")
  /\ root' \in IF where[c] = "putting" THEN {root, [root EXCEPT ![Head(queue[c])] = "torn"]} ELSE {root}
  /\ unrecorded' = (unrecorded \/ (c \in paid /\ \A f \in Closing : root'[f] = Absent))
  /\ UNCHANGED <<content, paying, queue, paid, overlapped>>

RootNext ==
  \/ \E c \in Commands : \/ Guard(c) \/ Probe(c) \/ Activated(c) \/ Research(c)
                         \/ Look(c) \/ Put(c) \/ FinishRoot(c) \/ CommandDies(c)
  \/ \E r \in Resumes : ResumeRoot(r)

RootSpec == RootInit /\ [][RootNext]_rootVars
-----------------------------------------------------------------------------
RootTypeOK ==
  /\ root \in [Files -> Contents \cup {Absent, "torn"}]
  /\ root["report"] # "torn" /\ paid \subseteq paying /\ \A c \in Commands : Len(queue[c]) \in 0..3

\* Unless two commands were past the guard at once, a whole campaign.json stands beside
\* whole files of the same campaign: a command that died leaves a root that is refused,
\* not one that contradicts itself (_write_durable), and money is spent a second time for
\* one root only if the first command died before its first durable byte.
LedgerReadable ==
  overlapped \/ /\ root["campaign"] \in Contents => Loads
                /\ Cardinality(paid) > 1 => unrecorded
=============================================================================
