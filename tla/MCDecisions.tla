----------------------------- MODULE MCDecisions -----------------------------
(***************************************************************************)
(* The stores of what humans decided, each alone: a behaviour is a         *)
(* behaviour of one of them, chosen at the start.  The review journal with *)
(* two reviewers beside one process that advances a run of one round, the  *)
(* rights and content store with three processes, and over its decisions   *)
(* the candidates of one source with two.                                  *)
(***************************************************************************)
EXTENDS ReviewJournal, SourceErasure, CandidateLifecycle

CONSTANTS a, b, p1, c1, g1, k1, k2, o1, o2, o3, q1, q2

\* The openers and the terms may be permuted, the reviewers and the parties exchanged.  Only
\* one part takes steps, so the group need not be the product of the four: a transposition of
\* openers, which leaves one of them in its place, goes with both exchanges, and these
\* twelve permutations do for each part what all forty-eight would.
MCOther == (a :> b) @@ (b :> a) @@ (q1 :> q2) @@ (q2 :> q1)
MCOdd(p) == Cardinality({o \in Openers : p[o] = o}) = 1
MCSymmetry ==
  {p @@ [x \in DOMAIN MCOther |-> IF MCOdd(p) THEN MCOther[x] ELSE x] @@ t :
     p \in Permutations(Openers), t \in Permutations(Terms)}

VARIABLE part

decisionVars == <<loopVars, reviewVars, erasureVars, candidateVars>>

Init ==
  /\ part \in {"review", "erasure", "candidates"}
  /\ ReviewInit /\ ErasureInit /\ CandidateInit
  \* The store at rest is the empty one.
  /\ part # "erasure" => erasure = "none"

\* The reviewers come to the desk once the verifier's finding is committed.  Before it no
\* verdict is given (decisions.py:241-248), and the other commands read nothing the loop writes:
\* what they append earlier they can append later, so the journals are the same.
MCReviewNext == ReviewNext /\ (Findings = {} => UNCHANGED reviewVars)

Next ==
  /\ UNCHANGED part
  /\ \/ part = "review" /\ MCReviewNext
     \/ part # "review" /\ UNCHANGED <<loopVars, reviewVars>>
  /\ \/ part = "erasure" /\ ErasureNext
     \/ part # "erasure" /\ UNCHANGED erasureVars
  /\ \/ part = "candidates" /\ CandidateNext
     \/ part # "candidates" /\ UNCHANGED candidateVars

Spec == Init /\ [][Next]_<<part, decisionVars>>
=============================================================================
