----------------------------- MODULE ReviewJournal -----------------------------
(***************************************************************************)
(* review/journal.py, review/decisions.py and review/projection.py over    *)
(* the run of BaselineLoop: human verdicts, alignment decisions, warrants  *)
(* and discharges in an append-only journal, and the successor dossier     *)
(* that is projected from it.                                              *)
(*                                                                         *)
(* A command reads the run and the journal, then the next sequence number, *)
(* and only then opens the transaction of append_once; commands of several *)
(* reviewers run beside each other and beside the loop.  One claim and the *)
(* dossier of the run stand for all: the run's dossier never changes.  A   *)
(* command that is refused leaves the journal alone; the table of refusals *)
(* is read by no decision and is left out.                                 *)
(***************************************************************************)
EXTENDS BaselineLoop, SequencesExt

CONSTANTS
  Reviewers,     \* named humans
  Sources,       \* those among them that produced a proposal of the run
  Obligations,   \* open obligations of the dossier, none about literature
  Terms,         \* what a grant says besides its basis and its support: the warrant's kind
                 \* and scope, and of a kernel's warrant the formal finding
  MaxDecisions   \* MAX_DECISIONS

VARIABLES
  journal,   \* sequence number -> decision: the table review_decisions
  desk       \* reviewer -> the command in progress: [pc, draft, seq]

reviewVars == <<journal, desk>>

Away == [pc |-> "away", draft |-> {}, seq |-> 0]

ReviewInit ==
  /\ LoopInit
  /\ journal = <<>>
  /\ desk = [r \in Reviewers |-> Away]
-----------------------------------------------------------------------------
\* read_verifier_finding: the committed findings, of every round.
Findings == {i \in DOMAIN proposals : i[1] = "verifier"}

Recorded(kind) == {n \in DOMAIN journal : journal[n].kind = kind}

\* build_review_verdict.
Verdicts(r) ==
  {d \in [kind : {"verdict"}, by : {r}, accept : BOOLEAN, checked : BOOLEAN] :
     /\ run = "awaiting_review" /\ r \notin Sources
     /\ Cardinality(Findings) = 1
     /\ d.accept => d.checked}

\* build_alignment_decision: the dossier's alignment is still proposed, whatever
\* the journal holds.
Alignments(r) == [kind : {"alignment"}, by : {r}, approve : BOOLEAN]

\* approved_alignment and _supporting_verdict; the first of each in sequence order.
Approved == \E n \in Recorded("alignment") : journal[n].approve

\* Slip: a verdict is enough, whatever it says.
AnyVerdict == Recorded("verdict")

Attested == {n \in Recorded("verdict") : journal[n].accept /\ journal[n].checked}

Support == {journal[Min(Attested)]}

\* build_human_review_warrant and build_kernel_warrant.  The grantor names the kind and
\* the scope and supplies the finding (external): any terms.
Warranted(r) ==
  {[kind |-> "warrant", by |-> r, basis |-> b, terms |-> t,
    support |-> IF b = "human_review" THEN Support ELSE {}] :
     t \in Terms,
     b \in {k \in {"human_review", "formal_kernel"} :
              /\ Approved
              /\ k = "human_review" => r \notin Sources /\ Attested # {}}}

\* build_obligation_discharge: against a warrant of this journal.
Discharges(r) ==
  {[kind |-> "discharge", by |-> r, obligation |-> o, basis |-> journal[n].basis,
    terms |-> journal[n].terms, support |-> journal[n].support] :
     o \in Obligations, n \in Recorded("warrant")}

Build(r) ==
  /\ desk[r].pc = "away"
  /\ \E d \in Verdicts(r) \cup Alignments(r) \cup Warranted(r) \cup Discharges(r) :
       desk' = [desk EXCEPT ![r] = [pc |-> "number", draft |-> {d}, seq |-> 0]]
  /\ UNCHANGED journal

\* next_decision_sequence is read before the transaction.
ReadSequence(r) ==
  /\ desk[r].pc = "number"
  /\ desk' = [desk EXCEPT ![r] =
                [pc |-> "append", draft |-> @.draft, seq |-> Max(DOMAIN journal \cup {-1}) + 1]]
  /\ UNCHANGED journal

\* The idempotency key: one verdict and one alignment decision of each reviewer, one
\* grant of each warrant, whose id is a hash of all it says (not of who grants it), one
\* discharge of each obligation by each warrant.
Key(d) ==
  IF d.kind \in {"verdict", "alignment"} THEN [kind |-> d.kind, by |-> d.by]
  ELSE [d EXCEPT !.by = "any"]

Put(n, d) == [m \in DOMAIN journal \cup {n} |-> IF m = n THEN d ELSE journal[m]]

\* Slip: the sequence number is read again under the transaction, the key is not.
AppendAlways(r) ==
  LET d == CHOOSE x \in desk[r].draft : TRUE
      n == Max(DOMAIN journal \cup {-1}) + 1
  IN
  /\ desk[r].pc = "append"
  /\ IF n < MaxDecisions
     THEN journal' = Put(n, d)
     ELSE UNCHANGED journal
  /\ desk' = [desk EXCEPT ![r] = Away]

\* The key decides first; then the bound, and the UNIQUE sequence refuses the
\* command that read its number while another was appending.
AppendOnce(r) ==
  LET d == CHOOSE x \in desk[r].draft : TRUE
      n == desk[r].seq
  IN
  /\ desk[r].pc = "append"
  /\ IF /\ \A m \in DOMAIN journal : Key(journal[m]) # Key(d)
        /\ n < MaxDecisions /\ n \notin DOMAIN journal
     THEN journal' = Put(n, d)
     ELSE UNCHANGED journal
  /\ desk' = [desk EXCEPT ![r] = Away]

ReviewStep == \E r \in Reviewers : Build(r) \/ ReadSequence(r) \/ AppendOnce(r)

ReviewNext ==
  \/ ReviewStep /\ UNCHANGED loopVars
  \/ LoopNext /\ UNCHANGED reviewVars

ReviewSpec == ReviewInit /\ [][ReviewNext]_<<loopVars, reviewVars>>
-----------------------------------------------------------------------------
\* export(): the decisions in the order of their decision_ids, which are hashes:
\* any order.  build_successor walks it, and refuses a warrant that comes before a
\* verdict it names; of alignment decisions the last counts.
Decisions == {journal[n] : n \in DOMAIN journal}
Exports == SetToSeqs(Decisions)

Unsupported(e) ==
  {i \in DOMAIN e : /\ e[i].kind = "warrant"
                    /\ ~(e[i].support \subseteq {e[j] : j \in 1..i - 1})}

ReviewTypeOK ==
  /\ DOMAIN journal = 0..Cardinality(Decisions) - 1
  /\ Cardinality(Decisions) <= MaxDecisions
  /\ \A r \in Reviewers : desk[r].pc \in {"away", "number", "append"}

(***************************************************************************)
(* Every warrant stands on an approval of the alignment that came before   *)
(* it, a human one also on an accepting and attested verdict of somebody   *)
(* who is not a source; every discharge on a warrant granted before it:    *)
(* also when the commands read the journal while others were appending.    *)
(***************************************************************************)
WarrantsEarned ==
  \A n \in DOMAIN journal :
    LET before == {journal[m] : m \in 0..n - 1}
        d == journal[n]
    IN
    /\ d.kind = "warrant" =>
         /\ \E a \in before : a.kind = "alignment" /\ a.approve
         /\ d.basis = "human_review" =>
              \E v \in d.support \cap before :
                v.kind = "verdict" /\ v.accept /\ v.checked /\ v.by \notin Sources
    /\ d.kind = "discharge" =>
         \E w \in before :
           w.kind = "warrant" /\ w.basis = d.basis /\ w.terms = d.terms /\ w.support = d.support

(***************************************************************************)
(* Asking again grants nothing (decisions.py:477-580): whoever asks,       *)
(* whenever, and whatever verdicts were added since, there is one warrant  *)
(* of each basis and terms, one discharge of an obligation by it, and one  *)
(* verdict of each reviewer, which stays what it was.  That a later        *)
(* request names the same verdict in its support, and so has the same key, *)
(* is not said of the key but of how the support is chosen.                *)
(***************************************************************************)
SameGrant(d, e) ==
  /\ d.kind = e.kind /\ d.kind \in {"verdict", "warrant", "discharge"}
  /\ d.kind = "verdict" => d.by = e.by
  /\ d.kind \in {"warrant", "discharge"} => d.basis = e.basis /\ d.terms = e.terms
  /\ d.kind = "discharge" => d.obligation = e.obligation

GrantedOnce ==
  \A m, n \in DOMAIN journal : m # n => ~SameGrant(journal[m], journal[n])

(***************************************************************************)
(* The refusal of build_successor says what it found missing: "every       *)
(* supporting review verdict a warrant names is in the journal"            *)
(* (projection.py:311).  A warrant whose verdict is in the journal would   *)
(* then be projected; the order of the hashes decides instead.             *)
(***************************************************************************)
SupportProjected ==
  \A e \in Exports : \A i \in Unsupported(e) : ~(e[i].support \subseteq Decisions)
=============================================================================
