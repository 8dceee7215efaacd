----------------------------- MODULE MCCorpusStore -----------------------------
(***************************************************************************)
(* Two documents, three byte strings, runs under three policies: P opens   *)
(* both documents, R closes both, Q closes the first and quarantines the   *)
(* second.                                                                 *)
(***************************************************************************)
EXTENDS CorpusStore

CONSTANTS d1, d2, s1, s2, s3

MCOrder == <<d1, d2>>

\* s1 is plain text; s2 has the same text under some markup; s3 does not parse.
MCText == s1 :> s1 @@ s2 :> s1 @@ s3 :> None

MCGrade ==
  [P |-> d1 :> "open" @@ d2 :> "open",
   Q |-> d1 :> "closed" @@ d2 :> "quarantined",
   R |-> d1 :> "closed" @@ d2 :> "closed"]

Both(x, y) == d1 :> x @@ d2 :> y

\* Two runs over both documents, the second with a new policy and new bytes.
MCRevised ==
  "r1" :> [policy |-> "P", docs |-> Both(s1, s2)]
  @@ "r2" :> [policy |-> "Q", docs |-> Both(s1, s1)]

\* One document at a time, the second with the text of the first; the third run brings
\* the first again and replaces the second by bytes that do not parse.
MCSingles ==
  "r1" :> [policy |-> "P", docs |-> d1 :> s1]
  @@ "r2" :> [policy |-> "P", docs |-> d2 :> s2]
  @@ "r3" :> [policy |-> "R", docs |-> Both(s1, s3)]

MCTwoRuns == {"r1", "r2"}
MCThreeRuns == {"r1", "r2", "r3"}
=============================================================================
