---------------------------- MODULE DecisionProofs ---------------------------
(***************************************************************************)
(* Theorems about the stores of what humans decided, each under its own    *)
(* specification: the review journal beside a loop, the candidates of one  *)
(* source, and the erasure of a source.                                    *)
(***************************************************************************)
EXTENDS ReviewJournal, CandidateLifecycle, SourceErasure, FiniteSetTheorems, SequenceTheorems,
        SumTheorems, TLAPS
(***************************************************************************)
(* What the journal grants is earned and granted once, for any reviewers,  *)
(* sources and obligations, whatever the loop does beside them.  A command *)
(* builds its decision on the journal it read; the number it reads later   *)
(* is appended only if nobody took it, so the journal has only grown.      *)
(***************************************************************************)

Grounds(n) == {journal[m] : m \in 0..n - 1}

\* What a decision stands on is among B; a warrant by a human names the first attested verdict.
Earned(d, B) ==
  /\ d.kind = "verdict" => d.by \notin Sources
  /\ d.kind = "warrant" =>
       /\ d = [kind |-> "warrant", by |-> d.by, basis |-> d.basis, terms |-> d.terms,
               support |-> d.support]
       /\ \E a \in B : a.kind = "alignment" /\ a.approve
       /\ d.basis = "human_review" =>
            /\ Attested # {} /\ d.support = Support
            /\ \E v \in d.support \cap B :
                 v.kind = "verdict" /\ v.accept /\ v.checked /\ v.by \notin Sources
       /\ d.basis # "human_review" => d.support = {}
  /\ d.kind = "discharge" =>
       /\ d = [kind |-> "discharge", by |-> d.by, obligation |-> d.obligation,
               basis |-> d.basis, terms |-> d.terms, support |-> d.support]
       /\ \E w \in B : /\ w.kind = "warrant"
                      /\ w.basis = d.basis /\ w.terms = d.terms /\ w.support = d.support

\* The journal is a sequence from 0 on, no key comes twice, and every decision stands on
\* those before it.
Written(k) ==
  /\ DOMAIN journal = 0..k - 1
  /\ \A m, n \in 0..k - 1 : m # n => Key(journal[m]) # Key(journal[n])
  /\ \A n \in 0..k - 1 : Earned(journal[n], Grounds(n))

\* There is a first attested verdict once there is one.
FirstAttested == Attested # {} => \E n \in Attested : \A m \in Attested : n <= m

\* A decision being made stands on the journal, and on what comes before its number once it
\* has one.
Drafted(k) ==
  \A r \in Reviewers :
    /\ desk[r].pc = "number" => \E d : desk[r].draft = {d} /\ Earned(d, Grounds(k))
    /\ desk[r].pc = "append" =>
         /\ desk[r].seq \in 0..k
         /\ \E d : desk[r].draft = {d} /\ Earned(d, Grounds(desk[r].seq))

Desks ==
  desk = [r \in Reviewers |-> [pc |-> desk[r].pc, draft |-> desk[r].draft, seq |-> desk[r].seq]]

JInv ==
  /\ Desks
  /\ FirstAttested
  /\ \E k \in Nat : Written(k) /\ Drafted(k)
-----------------------------------------------------------------------------
LEMMA EarnedByMore ==
  ASSUME NEW d, NEW B, NEW C, B \subseteq C, Earned(d, B)
  PROVE  Earned(d, C)
  BY DEF Earned

LEMMA GroundsGrow ==
  ASSUME NEW m \in Nat, NEW n \in Nat, m <= n
  PROVE  Grounds(m) \subseteq Grounds(n)
  BY DEF Grounds

LEMMA MinIs ==
  ASSUME NEW S \in SUBSET Nat, NEW n \in S, \A m \in S : n <= m
  PROVE  Min(S) = n
<1> DEFINE P(x) == \A m \in S : x <= m
<1>1. Min(S) = CHOOSE x \in S : P(x)
  BY DEF Min
<1>2. P(n)
  OBVIOUS
<1> HIDE DEF P
<1>3. Min(S) \in S /\ P(Min(S))
  BY <1>1, <1>2
<1>4. Min(S) <= n
  BY <1>3 DEF P
<1>5. n <= Min(S)
  BY <1>3
<1>6. Min(S) \in Nat /\ n \in Nat
  BY <1>3
<1> HIDE DEF P
<1> QED
  BY <1>4, <1>5, <1>6

LEMMA MaxIs ==
  ASSUME NEW S \in SUBSET Int, NEW n \in S, \A m \in S : n >= m
  PROVE  Max(S) = n
<1> DEFINE P(x) == \A m \in S : x >= m
<1>1. Max(S) = CHOOSE x \in S : P(x)
  BY DEF Max
<1>2. P(n)
  OBVIOUS
<1> HIDE DEF P
<1>3. Max(S) \in S /\ P(Max(S))
  BY <1>1, <1>2
<1>4. Max(S) >= n
  BY <1>3 DEF P
<1>5. n >= Max(S)
  BY <1>3
<1>6. Max(S) \in Int /\ n \in Int
  BY <1>3
<1> QED
  BY <1>4, <1>5, <1>6

\* What holds of a decision and its grounds stays when the journal grows by its next number.
LEMMA EarnedLater ==
  ASSUME NEW k \in Nat, NEW e, NEW d, NEW n \in 0..k,
         DOMAIN journal = 0..k - 1, FirstAttested, Earned(d, Grounds(n)),
         journal' = Put(k, e)
  PROVE  Earned(d, Grounds(n))'
<1>1. /\ DOMAIN journal' = 0..k
      /\ \A m \in 0..k - 1 : journal'[m] = journal[m]
      /\ journal'[k] = e
  BY DEF Put
<1>2. Grounds(n)' = Grounds(n)
  BY <1>1 DEF Grounds
<1>3. Attested \in SUBSET Nat /\ Attested' \in SUBSET Nat
  BY <1>1 DEF Attested, Recorded
<1>4. Attested # {} => Attested' # {} /\ Support' = Support
  <2> SUFFICES ASSUME Attested # {}
               PROVE  Attested' # {} /\ Support' = Support
    OBVIOUS
  <2>1. PICK f \in Attested : \A m \in Attested : f <= m
    BY DEF FirstAttested
  <2>2. f \in Attested' /\ journal'[f] = journal[f]
    BY <1>1, <2>1 DEF Attested, Recorded
  <2>3. \A m \in Attested' : f <= m
    BY <1>1, <2>1 DEF Attested, Recorded
  <2>4. Min(Attested) = f
    BY <1>3, <2>1, MinIs
  <2>5. Min(Attested') = f
    BY <1>3, <2>2, <2>3, MinIs
  <2>6. Support' = {journal'[Min(Attested')]}
    BY DEF Support, Min
  <2> QED
    BY <2>2, <2>4, <2>5, <2>6 DEF Support
<1> QED
  BY <1>2, <1>4 DEF Earned

LEMMA FirstStays ==
  ASSUME NEW k \in Nat, NEW e, DOMAIN journal = 0..k - 1, FirstAttested,
         journal' = Put(k, e)
  PROVE  FirstAttested'
<1>1. /\ DOMAIN journal' = 0..k
      /\ \A m \in 0..k - 1 : journal'[m] = journal[m]
  BY DEF Put
<1>2. /\ Attested \subseteq 0..k - 1
      /\ Attested \subseteq Attested'
      /\ Attested' \subseteq Attested \cup {k}
  BY <1>1 DEF Attested, Recorded
<1> SUFFICES ASSUME Attested' # {}
             PROVE  \E n \in Attested' : \A m \in Attested' : n <= m
  BY DEF FirstAttested
<1>3. CASE Attested = {}
  <2>1. Attested' = {k}
    BY <1>2, <1>3
  <2> QED
    BY <2>1
<1>4. CASE Attested # {}
  <2>1. PICK f \in Attested : \A m \in Attested : f <= m
    BY <1>4 DEF FirstAttested
  <2>2. f \in Attested' /\ \A m \in Attested' : f <= m
    BY <1>2, <2>1
  <2> QED
    BY <2>2
<1> QED
  BY <1>3, <1>4

\* Whatever a command builds stands on the journal it read.
LEMMA BuiltIsEarned ==
  ASSUME NEW k \in Nat, Written(k), FirstAttested, NEW r \in Reviewers,
         NEW d \in Verdicts(r) \cup Alignments(r) \cup Warranted(r) \cup Discharges(r)
  PROVE  Earned(d, Grounds(k))
<1>1. Grounds(k) = {journal[m] : m \in DOMAIN journal}
  BY DEF Grounds, Written
<1>2. CASE d \in Verdicts(r)
  BY <1>2 DEF Verdicts, Earned
<1>3. CASE d \in Alignments(r)
  BY <1>3 DEF Alignments, Earned
<1>4. CASE d \in Warranted(r)
  <2>1. PICK t \in Terms, b \in {"human_review", "formal_kernel"} :
          /\ Approved
          /\ b = "human_review" => r \notin Sources /\ Attested # {}
          /\ d = [kind |-> "warrant", by |-> r, basis |-> b, terms |-> t,
                  support |-> IF b = "human_review" THEN Support ELSE {}]
    BY <1>4 DEF Warranted
  <2>2. \E a \in Grounds(k) : a.kind = "alignment" /\ a.approve
    BY <1>1, <2>1 DEF Approved, Recorded
  <2>3. ASSUME b = "human_review"
        PROVE  \E v \in d.support \cap Grounds(k) :
                 v.kind = "verdict" /\ v.accept /\ v.checked /\ v.by \notin Sources
    <3>1. PICK f \in Attested : \A m \in Attested : f <= m
      BY <2>1, <2>3 DEF FirstAttested
    <3>2. Attested \in SUBSET Nat
      BY DEF Attested, Recorded, Written
    <3>3. Min(Attested) = f
      BY <3>1, <3>2, MinIs
    <3>4. journal[f] \in d.support
      BY <2>1, <2>3, <3>3 DEF Support
    <3>5. /\ f \in 0..k - 1 /\ journal[f] \in Grounds(k)
          /\ journal[f].kind = "verdict" /\ journal[f].accept /\ journal[f].checked
      BY <1>1 DEF Attested, Recorded, Written
    <3>6. journal[f].by \notin Sources
      BY <3>5 DEF Written, Earned
    <3> QED
      BY <3>4, <3>5, <3>6
  <2>4. d.kind = "warrant" /\ d.by = r /\ d.basis = b /\ d.terms = t
        /\ d.support = IF b = "human_review" THEN Support ELSE {}
    BY <2>1
  <2> QED
    BY <2>1, <2>2, <2>3, <2>4 DEF Earned
<1>5. CASE d \in Discharges(r)
  <2>1. PICK o \in Obligations : \E n \in Recorded("warrant") :
          d = [kind |-> "discharge", by |-> r, obligation |-> o, basis |-> journal[n].basis,
               terms |-> journal[n].terms, support |-> journal[n].support]
    BY <1>5 DEF Discharges
  <2>2. PICK n \in Recorded("warrant") :
          d = [kind |-> "discharge", by |-> r, obligation |-> o, basis |-> journal[n].basis,
               terms |-> journal[n].terms, support |-> journal[n].support]
    BY <2>1
  <2>3. journal[n] \in Grounds(k) /\ journal[n].kind = "warrant"
    BY <1>1 DEF Recorded
  <2> QED
    BY <2>2, <2>3 DEF Earned
<1> QED
  BY <1>2, <1>3, <1>4, <1>5

-----------------------------------------------------------------------------
LEMMA JStart == ReviewInit => JInv
<1> SUFFICES ASSUME ReviewInit PROVE JInv
  OBVIOUS
<1>1. journal = <<>> /\ desk = [r \in Reviewers |-> Away]
  BY DEF ReviewInit
<1>2. DOMAIN journal = 0..0 - 1
  BY <1>1
<1>3. FirstAttested
  BY <1>2 DEF FirstAttested, Attested, Recorded
<1>4. Written(0)
  BY <1>2 DEF Written
<1>5. \A r \in Reviewers : desk[r].pc = "away"
  BY <1>1 DEF Away
<1>6. Drafted(0)
  BY <1>5 DEF Drafted
<1> QED
  BY <1>1, <1>3, <1>4, <1>6 DEF JInv, Desks, Away

\* Nothing is appended: what is written stays, and so do the grounds of any decision.
LEMMA Unwritten ==
  ASSUME UNCHANGED journal
  PROVE  /\ FirstAttested' <=> FirstAttested
         /\ \A k : Written(k)' <=> Written(k)
         /\ \A d, k : Earned(d, Grounds(k))' <=> Earned(d, Grounds(k))
<1>1. Attested' = Attested /\ Support' = Support
  BY DEF Attested, Support, Recorded
<1>2. \A k : Grounds(k)' = Grounds(k)
  BY DEF Grounds
<1>3. \A d, k : Earned(d, Grounds(k))' <=> Earned(d, Grounds(k))
  BY <1>1, <1>2 DEF Earned
<1>4. \A n : Earned(journal[n], Grounds(n))' <=> Earned(journal[n], Grounds(n))
  BY <1>1, <1>2 DEF Earned
<1> QED
  BY <1>1, <1>3, <1>4 DEF FirstAttested, Written

LEMMA BuildKeeps ==
  ASSUME JInv, NEW r \in Reviewers, Build(r)
  PROVE  JInv'
<1>1. PICK k \in Nat : Written(k) /\ Drafted(k)
  BY DEF JInv
<1>2. PICK d \in Verdicts(r) \cup Alignments(r) \cup Warranted(r) \cup Discharges(r) :
        desk' = [desk EXCEPT ![r] = [pc |-> "number", draft |-> {d}, seq |-> 0]]
  BY DEF Build
<1>3. UNCHANGED journal
  BY DEF Build
<1>4. Earned(d, Grounds(k))
  BY <1>1, BuiltIsEarned DEF JInv
<1>5. Desks'
      /\ desk'[r] = [pc |-> "number", draft |-> {d}, seq |-> 0]
      /\ \A q \in Reviewers : q # r => desk'[q] = desk[q]
  BY <1>2 DEF JInv, Desks
<1>6. Drafted(k)'
  BY <1>1, <1>3, <1>4, <1>5, Unwritten DEF Drafted
<1> QED
  BY <1>1, <1>3, <1>5, <1>6, Unwritten DEF JInv

LEMMA ReadKeeps ==
  ASSUME JInv, NEW r \in Reviewers, ReadSequence(r)
  PROVE  JInv'
<1>1. PICK k \in Nat : Written(k) /\ Drafted(k)
  BY DEF JInv
<1>2. UNCHANGED journal
  BY DEF ReadSequence
<1>3. Max(DOMAIN journal \cup {-1}) = k - 1
  <2>1. DOMAIN journal \cup {-1} = 0..k - 1 \cup {-1}
    BY <1>1 DEF Written
  <2>2. 0..k - 1 \cup {-1} \in SUBSET Int /\ k - 1 \in 0..k - 1 \cup {-1}
        /\ \A m \in 0..k - 1 \cup {-1} : k - 1 >= m
    OBVIOUS
  <2> QED
    BY <2>1, <2>2, MaxIs
<1>4. Desks'
      /\ desk'[r].pc = "append" /\ desk'[r].seq = k - 1 + 1 /\ desk'[r].draft = desk[r].draft
      /\ \A q \in Reviewers : q # r => desk'[q] = desk[q]
  <2>1. desk' = [desk EXCEPT ![r] = [pc |-> "append", draft |-> desk[r].draft, seq |-> k - 1 + 1]]
    BY <1>3 DEF ReadSequence
  <2> QED
    BY <2>1 DEF JInv, Desks
<1>5. \E d : desk[r].draft = {d} /\ Earned(d, Grounds(k))
  BY <1>1 DEF Drafted, ReadSequence
<1>6. Drafted(k)'
  BY <1>1, <1>2, <1>4, <1>5, Unwritten DEF Drafted
<1> QED
  BY <1>1, <1>2, <1>4, <1>6, Unwritten DEF JInv

\* A decision nobody appended before under its key, at the next number.
LEMMA AppendKeeps ==
  ASSUME JInv, NEW k \in Nat, Written(k), Drafted(k), NEW r \in Reviewers,
         NEW d, desk[r].draft = {d}, Earned(d, Grounds(k)),
         \A m \in DOMAIN journal : Key(journal[m]) # Key(d),
         journal' = Put(k, d), desk' = [desk EXCEPT ![r] = Away]
  PROVE  JInv'
<1>1. /\ DOMAIN journal = 0..k - 1
      /\ DOMAIN journal' = 0..k
      /\ \A m \in 0..k - 1 : journal'[m] = journal[m]
      /\ journal'[k] = d
  BY DEF Put, Written
<1>2. \A x : \A n \in 0..k : Earned(x, Grounds(n)) => Earned(x, Grounds(n))'
  BY <1>1, EarnedLater DEF JInv
<1>3. \A n \in 0..k : Grounds(n) \subseteq Grounds(k)
  BY DEF Grounds
<1>4. Written(k + 1)'
  <2>1. \A m, n \in 0..k : m # n => Key(journal'[m]) # Key(journal'[n])
    BY <1>1 DEF Written
  <2>2. \A n \in 0..k : Earned(journal'[n], Grounds(n))
    BY <1>1 DEF Written
  <2>3. \A n \in 0..k : Earned(journal[n], Grounds(n))'
    <3> SUFFICES ASSUME NEW n \in 0..k
                 PROVE  Earned(journal[n], Grounds(n))'
      OBVIOUS
    <3> DEFINE x == journal'[n]
    <3>1. PICK y : y = journal'[n]
      OBVIOUS
    <3>2. Earned(y, Grounds(n))'
      BY <1>2, <2>2, <3>1
    <3> QED
      BY <3>1, <3>2 DEF Earned
  <2>4. DOMAIN journal' = 0..(k + 1) - 1 /\ 0..k = 0..(k + 1) - 1
    BY <1>1
  <2> QED
    BY <2>1, <2>3, <2>4 DEF Written
<1>5. Desks' /\ desk'[r] = Away
      /\ \A q \in Reviewers : q # r => desk'[q] = desk[q]
  BY DEF JInv, Desks, Away
<1>6. Drafted(k + 1)'
  <2> SUFFICES ASSUME NEW q \in Reviewers, q # r
               PROVE  /\ desk[q].pc = "number" =>
                           \E x : desk[q].draft = {x} /\ Earned(x, Grounds(k + 1))'
                      /\ desk[q].pc = "append" =>
                           /\ desk[q].seq \in 0..k + 1
                           /\ \E x : desk[q].draft = {x} /\ Earned(x, Grounds(desk[q].seq))'
    BY <1>5 DEF Drafted, Away
  <2>1. ASSUME desk[q].pc = "number"
        PROVE  \E x : desk[q].draft = {x} /\ Earned(x, Grounds(k + 1))'
    <3>1. PICK x : desk[q].draft = {x} /\ Earned(x, Grounds(k))
      BY <2>1 DEF Drafted
    <3>2. Earned(x, Grounds(k))'
      BY <1>2, <3>1
    <3>3. Grounds(k)' \subseteq Grounds(k + 1)'
      BY DEF Grounds
    <3>4. Earned(x, Grounds(k + 1))'
      BY <3>2, <3>3 DEF Earned
    <3> QED
      BY <3>1, <3>4
  <2>2. ASSUME desk[q].pc = "append"
        PROVE  /\ desk[q].seq \in 0..k + 1
               /\ \E x : desk[q].draft = {x} /\ Earned(x, Grounds(desk[q].seq))'
    <3>1. PICK n : n = desk[q].seq
      OBVIOUS
    <3>2. n \in 0..k
      BY <2>2, <3>1 DEF Drafted
    <3>3. PICK x : desk[q].draft = {x} /\ Earned(x, Grounds(n))
      BY <2>2, <3>1 DEF Drafted
    <3>4. Earned(x, Grounds(n))'
      BY <1>2, <3>2, <3>3
    <3> QED
      BY <3>1, <3>2, <3>3, <3>4
  <2> QED
    BY <2>1, <2>2
<1>7. FirstAttested'
  BY <1>1, FirstStays DEF JInv
<1> QED
  BY <1>4, <1>5, <1>6, <1>7 DEF JInv

LEMMA DecideKeeps ==
  ASSUME JInv, NEW r \in Reviewers, AppendOnce(r)
  PROVE  JInv'
<1>1. PICK k \in Nat : Written(k) /\ Drafted(k)
  BY DEF JInv
<1>2. desk[r].seq \in 0..k
  BY <1>1 DEF AppendOnce, Drafted
<1>3. PICK n : n = desk[r].seq
  OBVIOUS
<1>4. PICK d : desk[r].draft = {d} /\ Earned(d, Grounds(n))
  BY <1>1, <1>3 DEF AppendOnce, Drafted
<1>5. d = CHOOSE x \in desk[r].draft : TRUE
  BY <1>4
<1>6. desk' = [desk EXCEPT ![r] = Away]
  BY DEF AppendOnce
<1>7. CASE journal' = Put(n, d) /\ n \notin DOMAIN journal
           /\ \A m \in DOMAIN journal : Key(journal[m]) # Key(d)
  <2>1. n = k
    BY <1>1, <1>2, <1>3, <1>7 DEF Written
  <2> QED
    BY <1>1, <1>4, <1>6, <1>7, <2>1, AppendKeeps
<1>8. CASE UNCHANGED journal
  <2>1. Desks' /\ desk'[r] = Away
        /\ \A q \in Reviewers : q # r => desk'[q] = desk[q]
    BY <1>6 DEF JInv, Desks, Away
  <2>2. Drafted(k)'
    BY <1>1, <1>8, <2>1, Unwritten DEF Drafted, Away
  <2> QED
    BY <1>1, <1>8, <2>1, <2>2, Unwritten DEF JInv
<1> QED
  BY <1>3, <1>5, <1>7, <1>8 DEF AppendOnce

LEMMA JStep == JInv /\ [ReviewNext]_<<loopVars, reviewVars>> => JInv'
<1> SUFFICES ASSUME JInv, [ReviewNext]_<<loopVars, reviewVars>>
             PROVE  JInv'
  OBVIOUS
<1>1. CASE UNCHANGED reviewVars
  <2>1. UNCHANGED journal /\ UNCHANGED desk
    BY <1>1 DEF reviewVars
  <2>2. \A k : Drafted(k)' <=> Drafted(k)
    BY <2>1, Unwritten DEF Drafted
  <2> QED
    BY <2>1, <2>2, Unwritten DEF JInv, Desks
<1>2. CASE ReviewStep
  BY <1>2, BuildKeeps, ReadKeeps, DecideKeeps DEF ReviewStep
<1> QED
  BY <1>1, <1>2 DEF ReviewNext

LEMMA JAlways == ReviewSpec => []JInv
  BY JStart, JStep, PTL DEF ReviewSpec
-----------------------------------------------------------------------------
(***************************************************************************)
(* Whatever reviewers, runs and number of commands: a warrant stands on an *)
(* approval and, a human one, on the attested verdict of somebody who is   *)
(* no source; a discharge on a warrant.                                    *)
(***************************************************************************)
THEOREM WarrantsAreEarned == ReviewSpec => []WarrantsEarned
<1>1. JInv => WarrantsEarned
  <2> SUFFICES ASSUME NEW k \in Nat, Written(k) PROVE WarrantsEarned
    BY DEF JInv
  <2>1. \A n \in DOMAIN journal : Earned(journal[n], Grounds(n))
    BY DEF Written
  <2> QED
    BY <2>1 DEF WarrantsEarned, Earned, Grounds
<1> QED
  BY <1>1, JAlways, PTL

(***************************************************************************)
(* Two grants that ask for the same have one key: a human warrant names    *)
(* the first attested verdict, which is the same whenever it is asked for, *)
(* and a discharge stands on a warrant that is already decided so.         *)
(* Therefore one warrant of each basis, kind, scope and finding, one       *)
(* discharge of an obligation by it, and one verdict of each reviewer.     *)
(***************************************************************************)
THEOREM GrantsAreOnce == ReviewSpec => []GrantedOnce
<1>1. JInv => GrantedOnce
  <2> SUFFICES ASSUME NEW k \in Nat, Written(k),
                      NEW m \in DOMAIN journal, NEW n \in DOMAIN journal,
                      m # n, SameGrant(journal[m], journal[n])
               PROVE  FALSE
    BY DEF JInv, GrantedOnce
  <2> DEFINE d == journal[m]
             e == journal[n]
  <2>1. Key(d) # Key(e) /\ Earned(d, Grounds(m)) /\ Earned(e, Grounds(n))
    BY DEF Written
  <2>2. \A i \in DOMAIN journal : \A w \in Grounds(i) :
          \E j \in DOMAIN journal : w = journal[j] /\ Earned(w, Grounds(j))
    <3> SUFFICES ASSUME NEW i \in DOMAIN journal, NEW w \in Grounds(i)
                 PROVE  \E j \in DOMAIN journal : w = journal[j] /\ Earned(w, Grounds(j))
      OBVIOUS
    <3>1. DOMAIN journal = 0..k - 1
      BY DEF Written
    <3>2. PICK j \in 0..i - 1 : w = journal[j]
      BY DEF Grounds
    <3>3. j \in 0..k - 1
      BY <3>1, <3>2
    <3>4. PICK x : x = journal[j]
      OBVIOUS
    <3>5. Earned(x, Grounds(j))
      BY <3>3, <3>4 DEF Written
    <3> QED
      BY <3>1, <3>2, <3>3, <3>4, <3>5
  <2> HIDE DEF d, e
  <2>3. SameGrant(d, e)
    BY DEF d, e
  <2>4. CASE d.kind = "warrant"
    <3>1. d.support = e.support /\ d.terms = e.terms /\ d.basis = e.basis /\ e.kind = "warrant"
      BY <2>1, <2>3, <2>4 DEF Earned, SameGrant
    <3>2. /\ Key(d) = [kind |-> "warrant", by |-> "any", basis |-> d.basis, terms |-> d.terms,
                       support |-> d.support]
          /\ Key(e) = [kind |-> "warrant", by |-> "any", basis |-> e.basis, terms |-> e.terms,
                       support |-> e.support]
      BY <2>1, <2>4, <3>1 DEF Earned, Key
    <3> QED
      BY <2>1, <3>1, <3>2
  <2>5. CASE d.kind = "discharge"
    <3>1. /\ e.kind = "discharge" /\ d.obligation = e.obligation
          /\ d.terms = e.terms /\ d.basis = e.basis
      BY <2>3, <2>5 DEF SameGrant
    <3>2. PICK v \in Grounds(m) :
            v.kind = "warrant" /\ v.basis = d.basis /\ v.support = d.support
      BY <2>1, <2>5 DEF Earned
    <3>3. PICK w \in Grounds(n) :
            w.kind = "warrant" /\ w.basis = e.basis /\ w.support = e.support
      BY <2>1, <3>1 DEF Earned
    <3>4. v.basis = "human_review" => v.support = Support
      BY <2>2, <3>2 DEF Earned
    <3>5. v.basis # "human_review" => v.support = {}
      BY <2>2, <3>2 DEF Earned
    <3>6. w.basis = "human_review" => w.support = Support
      BY <2>2, <3>3 DEF Earned
    <3>7. w.basis # "human_review" => w.support = {}
      BY <2>2, <3>3 DEF Earned
    <3>8. d.support = e.support
      BY <3>1, <3>2, <3>3, <3>4, <3>5, <3>6, <3>7
    <3>9. /\ Key(d) = [kind |-> "discharge", by |-> "any", obligation |-> d.obligation,
                       basis |-> d.basis, terms |-> d.terms, support |-> d.support]
          /\ Key(e) = [kind |-> "discharge", by |-> "any", obligation |-> e.obligation,
                       basis |-> e.basis, terms |-> e.terms, support |-> e.support]
      BY <2>1, <2>5, <3>1 DEF Earned, Key
    <3> QED
      BY <2>1, <3>1, <3>8, <3>9
  <2>6. CASE d.kind = "verdict"
    BY <2>1, <2>3, <2>6 DEF Key, SameGrant
  <2> QED
    BY <2>3, <2>4, <2>5, <2>6 DEF SameGrant
<1> QED
  BY <1>1, JAlways, PTL
-----------------------------------------------------------------------------
(***************************************************************************)
(* CandidatesAccounted holds of the candidates of one source, for any      *)
(* processes, bodies, parses, deaths and changes of the rights.            *)
(*                                                                         *)
(* A process that somebody was beside knows little: only that its checks   *)
(* were true of a beginning of the records, which stays (Checked), and     *)
(* that a publication under way has a journal row, a record or a witness   *)
(* that its row was taken (Traced).  A process that nobody was beside      *)
(* knows what its own steps have left (AloneKnows), because nobody else is *)
(* inside (Companions).                                                    *)
(***************************************************************************)

\* A process between the check before an append and the append.
Waiting(p) == doings[p].at \in {"numbering", "inserting"}

\* What a process may be on its way to, and with which bytes in its hands.
AimsOf(p) ==
  /\ Waiting(p) => doings[p].goal \in {"closing", "opened", "erased", "removed", "out"}
  /\ doings[p].at \in {"removing", "unlinking"} =>
       doings[p].goal \in {"clearing", "undone", "refused", "opened", "erased", "removed", "out"}
  /\ doings[p].at \in {"declaring", "making", "writing", "rechecking"} =>
       doings[p].body \in Bodies

Aims == \A p \in Parties : AimsOf(p)

Wellformed ==
  /\ DOMAIN doings = Parties
  /\ \E S : rows \in Seq(S)

Companions ==
  \A p, q \in Parties : p # q /\ Inside(p) /\ Inside(q) => p \in company

CheckedOf(p) ==
  /\ Waiting(p) => doings[p].seen \in 0..Len(rows) /\ Founded(doings[p])
  /\ At(p, "inserting") =>
       /\ doings[p].number \in 0..Len(rows)
       /\ doings[p].row \notin ToSet(SubSeq(rows, 1, doings[p].number))

\* What a check has to have found before an append of the record.
Sound(row) ==
  /\ row.kind = "acquisition" => Acquired(rows) = {}
  /\ row.kind \in {"invalidation", "parse"} => row.of \subseteq ActiveIn(rows)

Checked == ~unfounded /\ \A p \in Parties : CheckedOf(p)

\* A process that has begun a publication and not taken its journal row back.
Publishing(p) ==
  \/ doings[p].at \in {"making", "writing", "rechecking", "undone", "refused"}
  \/ Waiting(p) /\ doings[p].goal = "closing"
  \/ doings[p].at \in {"removing", "unlinking"} /\ doings[p].goal \in {"undone", "refused"}

Known == pendingBody # {} \/ Acquired(rows) # {} \/ uncovered

TracedOf(p) ==
  /\ Publishing(p) => Known
  /\ Waiting(p) /\ doings[p].goal = "closing" => doings[p].row.kind = "acquisition"
  /\ At(p, "closing") => Acquired(rows) # {}

Traced == (Left => Known) /\ \A p \in Parties : TracedOf(p)

\* An invalidation of all that is active.
InvalidatesAll(row) == row.kind = "invalidation" /\ row.of = ActiveIn(rows)

Knows(p) ==
  /\ At(p, "clearing") => (Left => Acquired(rows) # {})
  /\ doings[p].at \in {"undone", "refused"} => ~Left
  /\ At(p, "unlinking") => content = {}
  /\ At(p, "reconciling") => pendingBody = {}
  /\ Waiting(p) /\ doings[p].goal = "opened" =>
       pendingBody = {} /\ InvalidatesAll(doings[p].row)
  /\ Waiting(p) /\ doings[p].goal = "erased" => InvalidatesAll(doings[p].row)
  /\ doings[p].at \in {"removing", "unlinking"} =>
       /\ doings[p].goal = "opened" => pendingBody = {} /\ ActiveAcquired = {}
       /\ doings[p].goal = "erased" => ActiveIn(rows) = {}
  /\ At(p, "opened") =>
       /\ pendingBody = {}
       /\ \A a \in ActiveAcquired : Readable(a)
       /\ Left => ActiveAcquired # {} \/ uncovered
  /\ At(p, "erased") => ActiveIn(rows) = {} /\ ~Left

AloneKnows == \A p \in Parties : Alone(p) => Knows(p)

CandidateInv ==
  Wellformed /\ CandidateTypeOK /\ Aims /\ Companions /\ Checked /\ Traced /\ AloneKnows
-----------------------------------------------------------------------------
\* Every sequence of records extends the one before it.
Extends(s, t) ==
  /\ Len(s) \in Nat /\ Len(t) \in Nat /\ Len(s) <= Len(t)
  /\ ToSet(s) \subseteq ToSet(t)
  /\ \A n \in 0..Len(s) : SubSeq(t, 1, n) = SubSeq(s, 1, n)

\* What an append does to a sequence.
LEMMA AppendExtends ==
  ASSUME NEW S, NEW s \in Seq(S), NEW e
  PROVE  /\ Append(s, e) \in Seq(S \cup {e}) /\ Len(Append(s, e)) = Len(s) + 1
         /\ ToSet(Append(s, e)) = ToSet(s) \cup {e}
         /\ Extends(s, Append(s, e))
<1> DEFINE T == S \cup {e}
           t == Append(s, e)
<1>1. s \in Seq(T)
  OBVIOUS
<1>2. t \in Seq(T) /\ Len(t) = Len(s) + 1 /\ Len(s) \in Nat
  BY <1>1
<1>3. \A i \in 1..Len(s) : t[i] = s[i]
  BY <1>1
<1>4. t[Len(s) + 1] = e
  BY <1>1
<1>5. DOMAIN t = 1..(Len(s) + 1) /\ DOMAIN s = 1..Len(s)
  BY <1>1, <1>2
<1>6. ToSet(t) = ToSet(s) \cup {e}
  <2>1. ToSet(t) \subseteq ToSet(s) \cup {e}
    BY <1>2, <1>3, <1>4, <1>5 DEF ToSet
  <2>2. ToSet(s) \subseteq ToSet(t)
    BY <1>2, <1>3, <1>5 DEF ToSet
  <2>3. e \in ToSet(t)
    BY <1>2, <1>4, <1>5 DEF ToSet
  <2> QED BY <2>1, <2>2, <2>3
<1>7. ASSUME NEW n \in 0..Len(s)
      PROVE  SubSeq(t, 1, n) = SubSeq(s, 1, n)
  BY <1>1, <1>2, <1>3
<1> QED BY <1>2, <1>6, <1>7 DEF Extends

\* The whole of a sequence is its longest beginning, and a beginning says nothing more.
LEMMA Beginnings ==
  ASSUME NEW S, NEW s \in Seq(S)
  PROVE  /\ SubSeq(s, 1, Len(s)) = s
         /\ \A n \in 0..Len(s) : ToSet(SubSeq(s, 1, n)) \subseteq ToSet(s)
         /\ Extends(s, s)
<1>1. SubSeq(s, 1, Len(s)) = s
  OBVIOUS
<1>2. ASSUME NEW n \in 0..Len(s)
      PROVE  ToSet(SubSeq(s, 1, n)) \subseteq ToSet(s)
  <2>1. DOMAIN SubSeq(s, 1, n) = 1..n /\ \A i \in 1..n : SubSeq(s, 1, n)[i] = s[i]
    OBVIOUS
  <2> QED BY <2>1 DEF ToSet
<1> QED BY <1>1, <1>2 DEF Extends

\* What a longer sequence that begins with another does to it.
LEMMA PrefixExtends ==
  ASSUME NEW S, NEW s \in Seq(S), NEW T, NEW t \in Seq(T), IsStrictPrefix(s, t)
  PROVE  Extends(s, t)
<1>1. Len(s) \in Nat /\ Len(t) \in Nat /\ Len(s) <= Len(t)
  BY DEF IsStrictPrefix, IsPrefix
<1>2. \A i \in 1..Len(s) : s[i] = t[i]
  BY DEF IsStrictPrefix, IsPrefix
<1>3. ToSet(s) \subseteq ToSet(t)
  BY <1>1, <1>2 DEF ToSet
<1>4. ASSUME NEW n \in 0..Len(s)
      PROVE  SubSeq(t, 1, n) = SubSeq(s, 1, n)
  BY <1>1, <1>2
<1> QED BY <1>1, <1>3, <1>4 DEF Extends
-----------------------------------------------------------------------------
\* Records are only added, by InsertRow and ImportCandidates (workspace.py:246, 479).
LEMMA RowsStay ==
  ASSUME NEW p \in Parties, CandidateStep(p), ~InsertRow(p), ~ImportCandidates(p)
  PROVE  rows' = rows /\ unfounded' = unfounded
  BY DEF CandidateStep, bounds4B, OpenCandidates, ReconcilePending, FinishPublication,
       ReconcileSource, RenameSource, UnlinkSource, NumberRow, BeginAcquire, Answered,
       BeginPublication, MakeSource, WriteSource, Recheck, BeginParse, Parsed,
       SynchronizeRights, InvalidateCandidates, LeaveCandidates, PartyDies

LEMMA RowsGrow ==
  ASSUME Wellformed, CandidateNext
  PROVE  Extends(rows, rows') /\ \E S : rows' \in Seq(S)
<1> PICK S : rows \in Seq(S)
  BY DEF Wellformed
<1>1. Extends(rows, rows)
  BY Beginnings
<1>2. CASE DecideRight
  BY <1>1, <1>2 DEF DecideRight
<1>3. ASSUME NEW p \in Parties, CandidateStep(p)
      PROVE  Extends(rows, rows') /\ \E T : rows' \in Seq(T)
  <2>1. CASE InsertRow(p)
    <3>1. CASE rows' = Append(rows, doings[p].row)
      BY <3>1, AppendExtends
    <3>2. CASE rows' = rows
      BY <1>1, <3>2
    <3> QED BY <2>1, <3>1, <3>2 DEF InsertRow
  <2>2. CASE ImportCandidates(p)
    <3> PICK b \in Bodies : \E package \in Packages(Row("acquisition", b, {})) :
               IsStrictPrefix(rows, package) /\ rows' = package
      BY <2>2 DEF ImportCandidates
    <3> PICK package \in Packages(Row("acquisition", b, {})) :
               IsStrictPrefix(rows, package) /\ rows' = package
      OBVIOUS
    <3>1. \E T : package \in Seq(T)
      <4>1. ASSUME NEW x, package = <<x>>
            PROVE  \E T : package \in Seq(T)
        <5>1. package \in Seq({x})
          BY <4>1
        <5> QED BY <5>1
      <4>2. ASSUME NEW x, NEW y, package = <<x, y>>
            PROVE  \E T : package \in Seq(T)
        <5>1. package \in Seq({x, y})
          BY <4>2
        <5> QED BY <5>1
      <4>3. (\E x : package = <<x>>) \/ (\E x, y : package = <<x, y>>)
        BY DEF Packages
      <4> QED BY <4>1, <4>2, <4>3
    <3> QED BY <3>1, PrefixExtends
  <2> QED BY <1>1, <1>3, <2>1, <2>2, RowsStay
<1> QED BY <1>2, <1>3 DEF CandidateNext

\* A step of a process moves that process, which is inside or comes in.
LEMMA OneMoves ==
  ASSUME Wellformed, NEW p \in Parties, CandidateStep(p)
  PROVE  /\ DOMAIN doings' = Parties
         /\ \A q \in Parties \ {p} : doings'[q] = doings[q]
         /\ Inside(p) \/ OpenCandidates(p)
         /\ ~OpenCandidates(p) => company' = company
<1>1. CASE OpenCandidates(p)
  BY <1>1 DEF OpenCandidates, Inside, Does, MoveTo, At, Wellformed, bounds4B
<1>2. CASE ReconcilePending(p)
  BY <1>2 DEF ReconcilePending, Removal, Does, MoveTo, At, Inside, Wellformed, bounds4B
<1>3. CASE FinishPublication(p)
  BY <1>3 DEF FinishPublication, Appending, Does, MoveTo, At, Inside, Wellformed,
       bounds4B
<1>4. CASE ReconcileSource(p)
  BY <1>4 DEF ReconcileSource, Removal, Appending, Does, MoveTo, At, Inside,
       Wellformed, bounds4B
<1>5. CASE RenameSource(p)
  BY <1>5 DEF RenameSource, Does, MoveTo, At, Inside, Wellformed, bounds4B
<1>6. CASE UnlinkSource(p)
  BY <1>6 DEF UnlinkSource, Does, MoveTo, At, Inside, Wellformed, bounds4B
<1>7. CASE NumberRow(p)
  BY <1>7 DEF NumberRow, AfterAppend, Removal, Does, MoveTo, At, Inside, Wellformed,
       bounds4B
<1>8. CASE InsertRow(p)
  BY <1>8 DEF InsertRow, AfterAppend, AppendRaises, Removal, Does, MoveTo, At,
       Inside, Wellformed, bounds4B
<1>9. CASE BeginAcquire(p)
  BY <1>9 DEF BeginAcquire, Does, MoveTo, At, Inside, Wellformed, bounds4B
<1>10. CASE Answered(p)
  BY <1>10 DEF Answered, Appending, Does, MoveTo, At, Inside, Wellformed, bounds4B
<1>11. CASE BeginPublication(p)
  BY <1>11 DEF BeginPublication, Does, MoveTo, At, Inside, Wellformed, bounds4B
<1>12. CASE MakeSource(p)
  BY <1>12 DEF MakeSource, Removal, Does, MoveTo, At, Inside, Wellformed, bounds4B
<1>13. CASE WriteSource(p)
  BY <1>13 DEF WriteSource, Removal, Does, MoveTo, At, Inside, Wellformed, bounds4B
<1>14. CASE Recheck(p)
  BY <1>14 DEF Recheck, Removal, Appending, Does, MoveTo, At, Inside, Wellformed,
       bounds4B
<1>15. CASE BeginParse(p)
  BY <1>15 DEF BeginParse, Removal, Does, MoveTo, At, Inside, Wellformed, bounds4B
<1>16. CASE Parsed(p)
  BY <1>16 DEF Parsed, Removal, Appending, Does, MoveTo, At, Inside, Wellformed, bounds4B
<1>17. CASE SynchronizeRights(p)
  BY <1>17 DEF SynchronizeRights, Removal, Appending, Does, MoveTo, At, Inside,
       Wellformed, bounds4B
<1>18. CASE InvalidateCandidates(p)
  BY <1>18 DEF InvalidateCandidates, Appending, Does, MoveTo, At, Inside,
       Wellformed, bounds4B
<1>19. CASE ImportCandidates(p)
  BY <1>19 DEF ImportCandidates, Does, MoveTo, At, Inside, Wellformed, bounds4B
<1>20. CASE LeaveCandidates(p)
  BY <1>20 DEF LeaveCandidates, Does, MoveTo, At, Inside, Wellformed, bounds4B
<1>21. CASE PartyDies(p)
  BY <1>21 DEF PartyDies, Inside, Does, MoveTo, At, Wellformed, bounds4B
<1> QED
  BY <1>1, <1>2, <1>3, <1>4, <1>5, <1>6, <1>7, <1>8, <1>9, <1>10, <1>11, <1>12, <1>13,
       <1>14, <1>15, <1>16, <1>17, <1>18, <1>19, <1>20, <1>21 DEF CandidateStep

\* A process inside that nobody was beside is alone inside (service.py:53-57).
LEMMA CompanionsKept ==
  ASSUME Wellformed, Companions, CandidateNext
  PROVE  Companions'
<1>1. CASE DecideRight
  BY <1>1 DEF DecideRight, Companions, Inside, At
<1>2. ASSUME NEW p \in Parties, CandidateStep(p)
      PROVE  Companions'
  <2>1. CASE OpenCandidates(p)
    BY <1>2, <2>1, OneMoves DEF OpenCandidates, Companions, Inside, At, MoveTo, Does, Wellformed
  <2>2. CASE ~OpenCandidates(p)
    BY <1>2, <2>2, OneMoves DEF Companions, Inside, At
  <2> QED BY <2>1, <2>2
<1> QED BY <1>1, <1>2 DEF CandidateNext

\* Nobody inside whom nobody was beside sees another process move.
LEMMA NobodyBeside ==
  ASSUME Wellformed, Companions, NEW p \in Parties, CandidateStep(p),
         NEW q \in Parties, q # p, q \notin company'
  PROVE  doings'[q].at = "out"
<1>1. CASE OpenCandidates(p)
  BY <1>1, OneMoves DEF OpenCandidates, Inside, At
<1>2. CASE ~OpenCandidates(p)
  BY <1>2, OneMoves DEF Companions, Inside, At
<1> QED BY <1>1, <1>2

\* Nobody waits for an append or removes a directory without one of the code's ways on from
\* there (service.py:230-350, 622-686).
LEMMA AimsKept ==
  ASSUME Wellformed, Aims, CandidateNext
  PROVE  Aims'
<1>1. CASE DecideRight
  BY <1>1 DEF DecideRight, Aims, AimsOf, Waiting
<1>2. ASSUME NEW p \in Parties, CandidateStep(p)
      PROVE  Aims'
  <2>1. ASSUME NEW q \in Parties \ {p}
        PROVE  AimsOf(q)'
    BY <1>2, <2>1, OneMoves DEF Aims, AimsOf, Waiting
  <2>2. AimsOf(p)'
    <3> USE DEF Aims, AimsOf, Waiting, Wellformed
    <3>1. CASE OpenCandidates(p)
      BY <3>1 DEF OpenCandidates, Inside, Does, MoveTo, At
    <3>2. CASE ReconcilePending(p)
      BY <3>2 DEF ReconcilePending, Removal, Does, MoveTo, At
    <3>3. CASE FinishPublication(p)
      BY <3>3 DEF FinishPublication, Appending, Does, MoveTo, At
    <3>4. CASE ReconcileSource(p)
      BY <3>4 DEF ReconcileSource, Removal, Appending, Does, MoveTo, At
    <3>5. CASE RenameSource(p)
      BY <3>5 DEF RenameSource, Does, At
    <3>6. CASE UnlinkSource(p)
      BY <3>6 DEF UnlinkSource, Does, MoveTo, At
    <3>7. CASE NumberRow(p)
      BY <3>7 DEF NumberRow, AfterAppend, Removal, Does, MoveTo, At
    <3>8. CASE InsertRow(p)
      BY <3>8 DEF InsertRow, AfterAppend, AppendRaises, Removal, Does, MoveTo, At
    <3>9. CASE BeginAcquire(p)
      BY <3>9 DEF BeginAcquire, Does, MoveTo, At
    <3>10. CASE Answered(p)
      BY <3>10 DEF Answered, Appending, Does, MoveTo, At
    <3>11. CASE BeginPublication(p)
      BY <3>11 DEF BeginPublication, Does, MoveTo, At
    <3>12. CASE MakeSource(p)
      BY <3>12 DEF MakeSource, Removal, Does, MoveTo, At
    <3>13. CASE WriteSource(p)
      BY <3>13 DEF WriteSource, Removal, Does, MoveTo, At
    <3>14. CASE Recheck(p)
      BY <3>14 DEF Recheck, Removal, Appending, Does, MoveTo, At
    <3>15. CASE BeginParse(p)
      BY <3>15 DEF BeginParse, Removal, Does, MoveTo, At
    <3>16. CASE Parsed(p)
      BY <3>16 DEF Parsed, Removal, Appending, Does, MoveTo, At
    <3>17. CASE SynchronizeRights(p)
      BY <3>17 DEF SynchronizeRights, Removal, Appending, Does, MoveTo, At
    <3>18. CASE InvalidateCandidates(p)
      BY <3>18 DEF InvalidateCandidates, Appending, Does, MoveTo, At
    <3>19. CASE ImportCandidates(p)
      BY <3>19 DEF ImportCandidates, Does, MoveTo, At
    <3>20. CASE LeaveCandidates(p)
      BY <3>20 DEF LeaveCandidates, Does, MoveTo, At
    <3>21. CASE PartyDies(p)
      BY <3>21 DEF PartyDies, Inside, Does, MoveTo, At
    <3> QED
      BY <1>2, <3>1, <3>2, <3>3, <3>4, <3>5, <3>6, <3>7, <3>8, <3>9, <3>10, <3>11, <3>12,
           <3>13, <3>14, <3>15, <3>16, <3>17, <3>18, <3>19, <3>20, <3>21 DEF CandidateStep
  <2> QED BY <2>1, <2>2 DEF Aims
<1> QED BY <1>1, <1>2 DEF CandidateNext

\* A check stays true of the records that it saw, whatever is added.
LEMMA CheckStays ==
  ASSUME NEW p \in Parties, Extends(rows, rows'), doings'[p] = doings[p], CheckedOf(p)
  PROVE  CheckedOf(p)'
<1>1. \A n \in 0..Len(rows) : n \in 0..Len(rows') /\ SubSeq(rows', 1, n) = SubSeq(rows, 1, n)
  BY DEF Extends
<1>2. ASSUME Waiting(p)
      PROVE  doings[p].seen \in 0..Len(rows') /\ Founded(doings[p])'
  <2>1. SubSeq(rows', 1, doings[p].seen) = SubSeq(rows, 1, doings[p].seen)
    BY <1>1, <1>2 DEF CheckedOf
  <2> QED BY <1>1, <1>2, <2>1 DEF CheckedOf, Founded
<1>3. ASSUME At(p, "inserting")
      PROVE  /\ doings[p].number \in 0..Len(rows')
             /\ doings[p].row \notin ToSet(SubSeq(rows', 1, doings[p].number))
  BY <1>1, <1>3 DEF CheckedOf
<1> QED BY <1>2, <1>3 DEF CheckedOf, Waiting, At, Founded

\* Every append is of a record whose check was true of the records that it saw, and its number
\* tells whether they are still all (workspace.py:210-258, 295).
LEMMA CheckedKept ==
  ASSUME Wellformed, Aims, Checked, CandidateNext
  PROVE  Checked'
<1>1. Extends(rows, rows')
  BY RowsGrow
<1>2. CASE DecideRight
  BY <1>1, <1>2, CheckStays DEF DecideRight, Checked
<1>3. ASSUME NEW p \in Parties, CandidateStep(p)
      PROVE  Checked'
  <2>1. ASSUME NEW q \in Parties \ {p}
        PROVE  CheckedOf(q)'
    BY <1>1, <1>3, <2>1, OneMoves, CheckStays DEF Checked
  <2>2. CASE doings'[p].at \notin {"numbering", "inserting"} /\ ~InsertRow(p)
    <3>1. unfounded' = unfounded
      BY <1>3, <2>2, RowsStay DEF ImportCandidates
    <3>2. CheckedOf(p)'
      BY <2>2 DEF CheckedOf, Waiting, At
    <3> QED BY <2>1, <3>1, <3>2 DEF Checked
  <2>3. CASE doings'[p].at \in {"numbering", "inserting"} \/ InsertRow(p)
    <3> PICK S : rows \in Seq(S)
      BY DEF Wellformed
    <3>1. SubSeq(rows, 1, Len(rows)) = rows /\ Len(rows) \in Nat
      BY Beginnings
    <3>2. ASSUME doings'[p].at = "numbering", doings'[p].seen = Len(rows), rows' = rows,
                 Sound(doings'[p].row)
          PROVE  CheckedOf(p)'
      <4>3. SubSeq(rows', 1, doings'[p].seen) = rows
        BY <3>1, <3>2
      <4>4. Founded(doings[p])'
        BY <3>2, <4>3 DEF Founded, Sound
      <4> QED BY <3>1, <3>2, <4>4 DEF CheckedOf, Waiting, At
    <3>3. CASE NumberRow(p)
      <4>1. CASE doings[p].row \in ToSet(rows)
        BY <2>3, <3>3, <4>1 DEF NumberRow, AfterAppend, Removal, MoveTo, Does, At, Wellformed,
                                InsertRow, Aims, AimsOf, Waiting
      <4>2. CASE doings[p].row \notin ToSet(rows)
        <5>1. /\ doings'[p].row = doings[p].row /\ doings'[p].seen = doings[p].seen
              /\ doings'[p].number = Len(rows) /\ doings'[p].at = "inserting"
              /\ rows' = rows /\ unfounded' = unfounded
          BY <3>3, <4>2 DEF NumberRow, Does, Wellformed
        <5>2. CheckedOf(p)
          BY DEF Checked
        <5>3. doings[p].seen \in 0..Len(rows) /\ Founded(doings[p])
          BY <3>3, <5>2 DEF CheckedOf, Waiting, NumberRow, At
        <5>4. Founded(doings[p])'
          BY <5>1, <5>3 DEF Founded
        <5>5. SubSeq(rows', 1, doings'[p].number) = rows
          BY <3>1, <5>1
        <5>6. /\ doings'[p].seen \in 0..Len(rows') /\ doings'[p].number \in 0..Len(rows')
              /\ doings'[p].row \notin ToSet(SubSeq(rows', 1, doings'[p].number))
          <6>1. Len(rows) \in 0..Len(rows)
            BY <3>1
          <6> QED BY <4>2, <5>1, <5>3, <5>5, <6>1
        <5>7. CheckedOf(p)'
          BY <5>4, <5>6 DEF CheckedOf
        <5> QED BY <2>1, <5>1, <5>7 DEF Checked
      <4> QED BY <4>1, <4>2
    <3>4. CASE InsertRow(p)
      <4>1. CheckedOf(p)
        BY DEF Checked
      <4>2. Founded(doings[p])
        BY <3>4, <4>1 DEF CheckedOf, Waiting, InsertRow, At
      <4>3. ~unfounded'
        BY <3>4, <4>2 DEF InsertRow, Checked
      <4>4. doings'[p].at \notin {"numbering", "inserting"}
        BY <3>4 DEF InsertRow, AfterAppend, AppendRaises, Removal, MoveTo, Does, At, Wellformed,
                    Aims, AimsOf, Waiting
      <4> QED BY <2>1, <4>3, <4>4 DEF Checked, CheckedOf, Waiting, At
    <3>5. CASE ~NumberRow(p) /\ ~InsertRow(p)
      <4>1. /\ ~ImportCandidates(p)
            /\ \/ FinishPublication(p) \/ ReconcileSource(p) \/ Answered(p) \/ Recheck(p)
               \/ Parsed(p) \/ SynchronizeRights(p) \/ InvalidateCandidates(p)
        <5> USE DEF Wellformed, Does, MoveTo, At, Removal, Aims, AimsOf
        <5>1. CASE OpenCandidates(p)
          BY <2>3, <3>5, <5>1 DEF OpenCandidates
        <5>2. CASE ReconcilePending(p)
          BY <2>3, <3>5, <5>2 DEF ReconcilePending
        <5>3. CASE RenameSource(p)
          BY <2>3, <3>5, <5>3 DEF RenameSource
        <5>4. CASE UnlinkSource(p)
          BY <2>3, <3>5, <5>4 DEF UnlinkSource
        <5>5. CASE BeginAcquire(p)
          BY <2>3, <3>5, <5>5 DEF BeginAcquire
        <5>6. CASE BeginPublication(p)
          BY <2>3, <3>5, <5>6 DEF BeginPublication
        <5>7. CASE MakeSource(p)
          BY <2>3, <3>5, <5>7 DEF MakeSource
        <5>8. CASE WriteSource(p)
          BY <2>3, <3>5, <5>8 DEF WriteSource
        <5>9. CASE BeginParse(p)
          BY <2>3, <3>5, <5>9 DEF BeginParse
        <5>10. CASE ImportCandidates(p)
          BY <2>3, <3>5, <5>10 DEF ImportCandidates
        <5>11. CASE LeaveCandidates(p)
          BY <2>3, <3>5, <5>11 DEF LeaveCandidates
        <5>12. CASE PartyDies(p)
          BY <2>3, <3>5, <5>12 DEF PartyDies
        <5> QED BY <1>3, <3>5, <5>1, <5>2, <5>3, <5>4, <5>5, <5>6, <5>7, <5>8, <5>9,
              <5>10, <5>11, <5>12 DEF CandidateStep
      <4>2. rows' = rows /\ unfounded' = unfounded
        BY <1>3, <3>5, <4>1, RowsStay
      <4>3. /\ doings'[p].at = "numbering" /\ doings'[p].seen = Len(rows)
            /\ Sound(doings'[p].row)
        <5> USE DEF Wellformed, Does, MoveTo, At, Appending, Removal, Row, Sound
        <5>1. CASE FinishPublication(p)
          BY <2>3, <3>5, <5>1 DEF FinishPublication
        <5>2. CASE ReconcileSource(p)
          BY <2>3, <3>5, <5>2 DEF ReconcileSource
        <5>3. CASE Answered(p)
          BY <2>3, <3>5, <5>3 DEF Answered
        <5>4. CASE Recheck(p)
          BY <2>3, <3>5, <5>4 DEF Recheck
        <5>5. CASE Parsed(p)
          BY <2>3, <3>5, <5>5 DEF Parsed
        <5>6. CASE SynchronizeRights(p)
          BY <2>3, <3>5, <5>6 DEF SynchronizeRights
        <5>7. CASE InvalidateCandidates(p)
          BY <2>3, <3>5, <5>7 DEF InvalidateCandidates
        <5> QED BY <4>1, <5>1, <5>2, <5>3, <5>4, <5>5, <5>6, <5>7
      <4> QED BY <2>1, <3>2, <4>2, <4>3 DEF Checked
    <3> QED BY <3>3, <3>4, <3>5
  <2> QED BY <2>2, <2>3
<1> QED BY <1>2, <1>3 DEF CandidateNext

\* Acquisitions are never taken back.
LEMMA AcquiredStay ==
  ASSUME Wellformed, CandidateNext, Acquired(rows) # {}
  PROVE  Acquired(rows') # {}
  BY RowsGrow DEF Extends, Acquired

\* Only finish_publication takes away by what the bytes of a source are known.
LEMMA KnownStays ==
  ASSUME Wellformed, NEW p \in Parties, CandidateStep(p), ~FinishPublication(p), Known
  PROVE  Known'
<1>1. Acquired(rows) # {} => Acquired(rows') # {}
  BY AcquiredStay DEF CandidateNext
<1>2. uncovered' = uncovered /\ (pendingBody # {} => pendingBody' # {})
  BY DEF CandidateStep, OpenCandidates, ReconcilePending, ReconcileSource, RenameSource,
       UnlinkSource, NumberRow, InsertRow, BeginAcquire, Answered, BeginPublication, MakeSource,
       WriteSource, Recheck, BeginParse, Parsed, SynchronizeRights, InvalidateCandidates,
       ImportCandidates, LeaveCandidates, PartyDies
<1> QED BY <1>1, <1>2 DEF Known

\* Bytes have a record, a journal row, or a witness that the row was taken: the row comes
\* before the bytes and goes after the record or after their removal (service.py:260-330, 625-640).
LEMMA TracedKept ==
  ASSUME Wellformed, Aims, Companions, Traced, AloneKnows, CandidateNext
  PROVE  Traced'
<1>1. CASE DecideRight
  BY <1>1 DEF DecideRight, Traced, TracedOf, Left, Known, Publishing, Waiting, At
<1>2. ASSUME NEW p \in Parties, FinishPublication(p)
      PROVE  Traced'
  <2>1. CandidateStep(p) /\ Inside(p)
    BY <1>2 DEF CandidateStep, FinishPublication, Inside, At
  <2>2. rows' = rows /\ content' = content /\ deleting' = deleting
    BY <1>2 DEF FinishPublication
  <2>3. TracedOf(p)'
    BY <1>2 DEF FinishPublication, TracedOf, Publishing, Waiting, At, MoveTo, Does, Appending,
                Wellformed
  <2>4. CASE At(p, "closing") \/ ~Alone(p)
    <3>1. Known'
      BY <1>2, <2>2, <2>4 DEF FinishPublication, Traced, TracedOf, Known, Alone
    <3>2. ASSUME NEW q \in Parties \ {p}
          PROVE  TracedOf(q)'
      BY <2>1, <2>2, <3>1, <3>2, OneMoves DEF Traced, TracedOf, Waiting, At
    <3> QED BY <2>3, <3>1, <3>2 DEF Traced
  <2>5. CASE ~At(p, "closing") /\ Alone(p)
    <3>1. Left => Acquired(rows) # {}
      BY <1>2, <2>5 DEF FinishPublication, AloneKnows, Knows, At
    <3>2. Left' => Known'
      BY <2>2, <3>1 DEF Left, Known
    <3>3. ASSUME NEW q \in Parties \ {p}
          PROVE  TracedOf(q)'
      <4>1. doings'[q] = doings[q] /\ doings[q].at = "out"
        BY <2>1, <2>5, OneMoves DEF Companions, Alone, Inside, At
      <4> QED BY <4>1 DEF TracedOf, Publishing, Waiting, At
    <3> QED BY <2>3, <3>2, <3>3 DEF Traced
  <2> QED BY <2>4, <2>5
<1>3. ASSUME NEW p \in Parties, CandidateStep(p), ~FinishPublication(p)
      PROVE  Traced'
  <2>1. Known => Known'
    BY <1>3, KnownStays
  <2>2. Acquired(rows) # {} => Acquired(rows') # {}
    BY AcquiredStay
  <2>3. ASSUME NEW q \in Parties \ {p}
        PROVE  TracedOf(q)'
    BY <1>3, <2>1, <2>2, <2>3, OneMoves DEF Traced, TracedOf, Publishing, Waiting, At
  <2>4. Left' => Known'
    <3>1. CASE MakeSource(p) \/ WriteSource(p)
      BY <2>1, <3>1 DEF MakeSource, WriteSource, At, Traced, TracedOf, Publishing
    <3>2. CASE ~MakeSource(p) /\ ~WriteSource(p)
      <4>1. Left' => Left
        BY <1>3, <3>2 DEF Left, CandidateStep, OpenCandidates, ReconcilePending,
             ReconcileSource,
             RenameSource, UnlinkSource, NumberRow, InsertRow, BeginAcquire, Answered,
             BeginPublication, Recheck, BeginParse, Parsed, SynchronizeRights,
                  InvalidateCandidates,
             ImportCandidates, LeaveCandidates, PartyDies
      <4> QED BY <2>1, <4>1 DEF Traced
    <3> QED BY <3>1, <3>2
  <2>5. TracedOf(p) /\ AimsOf(p)
    BY DEF Traced, Aims
  <2>6. TracedOf(p)'
    <3>1. CASE BeginPublication(p)
      <4>1. doings'[p].at = "out" \/ (doings'[p].at = "making" /\ pendingBody' # {})
        <5>1. CASE pendingBody \subseteq {doings[p].body}
          BY <3>1, <5>1 DEF BeginPublication, Does, Wellformed
        <5>2. CASE ~(pendingBody \subseteq {doings[p].body})
          BY <3>1, <5>2 DEF BeginPublication, MoveTo, Does, Wellformed
        <5> QED BY <5>1, <5>2
      <4> QED BY <4>1 DEF Known, TracedOf, Publishing, Waiting, At
    <3>2. CASE NumberRow(p)
      <4>1. CASE doings[p].row \in ToSet(rows)
        <5>1. doings[p].goal = "closing" => Acquired(rows') # {}
          BY <2>2, <2>5, <3>2, <4>1 DEF NumberRow, TracedOf, Waiting, At, Acquired
        <5> QED BY <2>1, <2>5, <3>2, <4>1, <5>1
              DEF NumberRow, AfterAppend, Removal, MoveTo, Does, At, Wellformed, AimsOf,
                  TracedOf, Publishing, Waiting
      <4>2. CASE doings[p].row \notin ToSet(rows)
        BY <2>1, <2>5, <3>2, <4>2
          DEF NumberRow, Does, At, Wellformed, TracedOf, Publishing, Waiting
      <4> QED BY <4>1, <4>2
    <3>3. CASE InsertRow(p)
      <4>1. CASE doings[p].number = Len(rows) /\ Len(rows) < RecordCeiling
        <5>1. doings[p].goal = "closing" => Acquired(rows') # {}
          <6> PICK S : rows \in Seq(S)
            BY DEF Wellformed
          <6>0. rows' = Append(rows, doings[p].row)
            BY <3>3, <4>1 DEF InsertRow
          <6>1. ToSet(rows') = ToSet(rows) \cup {doings[p].row}
            BY <6>0, AppendExtends
          <6> QED BY <2>5, <3>3, <6>1 DEF InsertRow, TracedOf, Waiting, At, Acquired
        <5>2. UNCHANGED <<pendingBody, content>> /\ AfterAppend(p)
          BY <3>3, <4>1 DEF InsertRow
        <5>3. doings'[p] \in {Removal(doings[p].goal), [at |-> doings[p].goal]}
          BY <5>2 DEF AfterAppend, MoveTo, Does, Wellformed
        <5>4. At(p, "inserting")
          BY <3>3 DEF InsertRow
        <5> QED BY <2>1, <2>5, <5>1, <5>2, <5>3, <5>4
              DEF AfterAppend, MoveTo, Does, Removal, At, AimsOf, TracedOf, Publishing, Waiting,
                  Wellformed
      <4>2. CASE ~(doings[p].number = Len(rows) /\ Len(rows) < RecordCeiling)
        BY <2>1, <2>5, <3>3, <4>2
          DEF InsertRow, AppendRaises, Removal, MoveTo, Does, At, Wellformed, TracedOf,
              Publishing, Waiting
      <4> QED BY <4>1, <4>2
    <3>4. CASE ~BeginPublication(p) /\ ~NumberRow(p) /\ ~InsertRow(p)
      <4> USE DEF Wellformed, Does, MoveTo, At, Removal, Appending, Row, AimsOf, TracedOf,
                  Publishing, Waiting
      <4>1. CASE OpenCandidates(p)
        BY <2>1, <2>5, <4>1 DEF OpenCandidates
      <4>2. CASE ReconcilePending(p)
        BY <2>1, <2>5, <4>2 DEF ReconcilePending
      <4>3. CASE ReconcileSource(p)
        BY <2>1, <2>5, <4>3 DEF ReconcileSource
      <4>4. CASE RenameSource(p)
        BY <2>1, <2>5, <4>4 DEF RenameSource
      <4>5. CASE UnlinkSource(p)
        BY <2>1, <2>5, <4>5 DEF UnlinkSource
      <4>6. CASE BeginAcquire(p)
        BY <2>1, <2>5, <4>6 DEF BeginAcquire
      <4>7. CASE Answered(p)
        BY <2>1, <2>5, <4>7 DEF Answered
      <4>8. CASE MakeSource(p)
        BY <2>1, <2>5, <4>8 DEF MakeSource
      <4>9. CASE WriteSource(p)
        BY <2>1, <2>5, <4>9 DEF WriteSource
      <4>10. CASE Recheck(p)
        BY <2>1, <2>5, <4>10 DEF Recheck
      <4>11. CASE BeginParse(p)
        BY <2>1, <2>5, <4>11 DEF BeginParse
      <4>12. CASE Parsed(p)
        BY <2>1, <2>5, <4>12 DEF Parsed
      <4>13. CASE SynchronizeRights(p)
        BY <2>1, <2>5, <4>13 DEF SynchronizeRights
      <4>14. CASE InvalidateCandidates(p)
        BY <2>1, <2>5, <4>14 DEF InvalidateCandidates
      <4>15. CASE ImportCandidates(p)
        BY <2>1, <2>5, <4>15 DEF ImportCandidates
      <4>16. CASE LeaveCandidates(p)
        BY <2>1, <2>5, <4>16 DEF LeaveCandidates
      <4>17. CASE PartyDies(p)
        BY <2>1, <2>5, <4>17 DEF PartyDies
      <4> QED BY <1>3, <3>4, <4>1, <4>2, <4>3, <4>4, <4>5, <4>6, <4>7, <4>8, <4>9, <4>10, <4>11,
           <4>12, <4>13, <4>14, <4>15, <4>16, <4>17 DEF CandidateStep
    <3> QED BY <3>1, <3>2, <3>3, <3>4
  <2> QED BY <2>3, <2>4, <2>6 DEF Traced
<1> QED BY <1>1, <1>2, <1>3 DEF CandidateNext

\* Processes stay processes, and records a sequence.
LEMMA WellformedKept ==
  ASSUME Wellformed, CandidateNext
  PROVE  Wellformed'
<1>1. DOMAIN doings' = Parties
  BY OneMoves DEF CandidateNext, DecideRight, Wellformed
<1> QED BY <1>1, RowsGrow DEF Wellformed

\* A record that invalidates all that is active leaves nothing active (service.py:512, 664).
LEMMA NothingActive ==
  ASSUME NEW row, InvalidatesAll(row), ToSet(rows') = ToSet(rows) \cup {row}
  PROVE  ActiveIn(rows') = {}
<1> SUFFICES ASSUME NEW r \in ActiveIn(rows')
             PROVE  FALSE
  OBVIOUS
<1>1. r \in ToSet(rows') /\ r.kind # "invalidation" /\ row \in ToSet(rows') /\ r \notin row.of
  BY DEF ActiveIn, InvalidatesAll
<1>2. r \in ActiveIn(rows)
  BY <1>1 DEF ActiveIn, InvalidatesAll
<1> QED BY <1>1, <1>2 DEF InvalidatesAll

\* What a process knows that nobody was beside is left by its own steps (service.py:622-686).
LEMMA AloneKnowsKept ==
  ASSUME Wellformed, Aims, Companions, Traced, AloneKnows, CandidateNext
  PROVE  AloneKnows'
<1>1. CASE DecideRight
  BY <1>1 DEF DecideRight, AloneKnows, Alone, Knows, Waiting, At, InvalidatesAll, Left,
              ActiveAcquired, Readable
<1>2. ASSUME NEW p \in Parties, CandidateStep(p)
      PROVE  AloneKnows'
  <2>1. ASSUME NEW q \in Parties \ {p}, Alone(q)'
        PROVE  Knows(q)'
    <3>1. doings'[q].at = "out"
      BY <1>2, <2>1, NobodyBeside DEF Alone
    <3> QED BY <3>1 DEF Knows, Waiting, At
  <2>2. ASSUME Alone(p)'
        PROVE  Knows(p)'
    <3>1. CASE doings'[p].at \in {"out", "opening"}
      BY <3>1 DEF Knows, Waiting, At
    <3>2. CASE doings'[p].at \notin {"out", "opening"}
      <4>1. ~OpenCandidates(p) /\ ~ImportCandidates(p) /\ ~PartyDies(p) /\ ~LeaveCandidates(p)
        BY <3>2 DEF OpenCandidates, ImportCandidates, PartyDies, LeaveCandidates, MoveTo, Does,
                    Wellformed
      <4>2. Knows(p) /\ AimsOf(p) /\ (Left => Known)
        BY <1>2, <2>2, <4>1, OneMoves DEF AloneKnows, Alone, Aims, Traced
      <4>3. CASE NumberRow(p) \/ InsertRow(p)
        <5> USE DEF Does, MoveTo, At, Removal, Wellformed, AimsOf, Waiting, Knows
        <5>1. CASE doings'[p].at = "inserting"
          BY <4>2, <4>3, <5>1 DEF NumberRow, InsertRow, AfterAppend, AppendRaises,
                                  InvalidatesAll
        <5>2. CASE /\ ToSet(rows') = ToSet(rows) \cup {doings[p].row}
                   /\ doings'[p].at \notin {"inserting", "out"}
                   /\ doings'[p] # Removal("undone")
          <6>1. Waiting(p) /\ pendingBody' = pendingBody /\ AfterAppend(p)
            <7>1. CASE NumberRow(p)
              BY <5>2, <7>1 DEF NumberRow
            <7>2. CASE InsertRow(p)
              BY <5>2, <7>2 DEF InsertRow, AppendRaises
            <7> QED BY <4>3, <7>1, <7>2
          <6>2. doings[p].goal \in {"opened", "erased"} => ActiveIn(rows') = {}
            BY <4>2, <5>2, <6>1, NothingActive
          <6>3. doings'[p] = Removal(doings[p].goal) \/ doings'[p].at \in {"closing", "out"}
            BY <4>2, <6>1 DEF AfterAppend
          <6>4. (ActiveIn(rows') = {}) => ActiveAcquired' = {}
            BY DEF ActiveAcquired
          <6> QED BY <4>2, <6>1, <6>2, <6>3, <6>4
        <5>3. CASE doings'[p] = Removal("undone") \/ doings'[p].at = "out"
          BY <5>3
        <5>4. \/ doings'[p].at = "inserting" \/ ToSet(rows') = ToSet(rows) \cup {doings[p].row}
              \/ doings'[p] = Removal("undone") \/ doings'[p].at = "out"
          <6>1. CASE NumberRow(p)
            BY <6>1 DEF NumberRow
          <6>2. CASE InsertRow(p)
            <7> PICK S : rows \in Seq(S)
              BY DEF Wellformed
            <7>1. ToSet(Append(rows, doings[p].row)) = ToSet(rows) \cup {doings[p].row}
              BY AppendExtends
            <7>2. CASE rows' = Append(rows, doings[p].row)
              BY <7>1, <7>2
            <7>3. CASE AppendRaises(p)
              BY <3>2, <6>2, <7>3 DEF AppendRaises
            <7> QED BY <6>2, <7>2, <7>3 DEF InsertRow
          <6> QED BY <4>3, <6>1, <6>2
        <5> QED BY <5>1, <5>2, <5>3, <5>4
      <4>4. CASE ~NumberRow(p) /\ ~InsertRow(p)
        <5> USE DEF Does, MoveTo, At, Removal, Appending, Row, Wellformed, AimsOf, Waiting,
             Knows,
                    InvalidatesAll, Left, Known, ActiveAcquired, Readable
        <5>1. CASE ReconcilePending(p)
          BY <4>2, <5>1 DEF ReconcilePending
        <5>2. CASE FinishPublication(p)
          BY <4>2, <5>2 DEF FinishPublication
        <5>3. CASE ReconcileSource(p)
          BY <4>2, <5>3 DEF ReconcileSource
        <5>4. CASE RenameSource(p)
          BY <4>2, <5>4 DEF RenameSource
        <5>5. CASE UnlinkSource(p)
          BY <4>2, <5>5 DEF UnlinkSource
        <5>6. CASE BeginAcquire(p)
          BY <4>2, <5>6 DEF BeginAcquire
        <5>7. CASE Answered(p)
          BY <4>2, <5>7 DEF Answered
        <5>8. CASE BeginPublication(p)
          BY <4>2, <5>8 DEF BeginPublication
        <5>9. CASE MakeSource(p)
          BY <4>2, <5>9 DEF MakeSource
        <5>10. CASE WriteSource(p)
          BY <4>2, <5>10 DEF WriteSource
        <5>11. CASE Recheck(p)
          BY <4>2, <5>11 DEF Recheck
        <5>12. CASE BeginParse(p)
          BY <4>2, <5>12 DEF BeginParse
        <5>13. CASE Parsed(p)
          BY <4>2, <5>13 DEF Parsed
        <5>14. CASE SynchronizeRights(p)
          BY <4>2, <5>14 DEF SynchronizeRights
        <5>15. CASE InvalidateCandidates(p)
          BY <4>2, <5>15 DEF InvalidateCandidates
        <5> QED BY <1>2, <4>1, <4>4, <5>1, <5>2, <5>3, <5>4, <5>5, <5>6, <5>7, <5>8, <5>9,
             <5>10,
             <5>11, <5>12, <5>13, <5>14, <5>15 DEF CandidateStep
      <4> QED BY <4>3, <4>4
    <3> QED BY <3>1, <3>2
  <2> QED BY <2>1, <2>2 DEF AloneKnows
<1> QED BY <1>1, <1>2 DEF CandidateNext

\* No record is there twice, and their number stays below the ceiling (workspace.py:297-300).
LEMMA RowsFit ==
  ASSUME Wellformed, Len(rows) <= RecordCeiling,
         \A i, j \in DOMAIN rows : rows[i] = rows[j] => i = j, Checked, CandidateNext
  PROVE  /\ Len(rows') <= RecordCeiling
         /\ \A i, j \in DOMAIN rows' : rows'[i] = rows'[j] => i = j
<1> PICK S : rows \in Seq(S)
  BY DEF Wellformed
<1>1. CASE rows' = rows
  BY <1>1
<1>2. ASSUME NEW p \in Parties, InsertRow(p), rows' # rows
      PROVE  /\ Len(rows') <= RecordCeiling
             /\ \A i, j \in DOMAIN rows' : rows'[i] = rows'[j] => i = j
  <2> DEFINE row == doings[p].row
  <2>1. /\ rows' = Append(rows, row) /\ Len(rows) < RecordCeiling
        /\ doings[p].number = Len(rows) /\ At(p, "inserting")
    BY <1>2 DEF InsertRow
  <2>2. row \notin ToSet(rows)
    BY <2>1, Beginnings DEF Checked, CheckedOf
  <2>3. Len(rows) \in Nat /\ RecordCeiling \in Nat /\ Len(rows') = Len(rows) + 1
    BY <2>1, CeilingAssumption, AppendExtends
  <2> HIDE DEF row
  <2>4. /\ DOMAIN rows = 1..Len(rows) /\ DOMAIN rows' = 1..(Len(rows) + 1)
        /\ \A i \in 1..Len(rows) : rows'[i] = rows[i]
        /\ rows'[Len(rows) + 1] = row
    <3>1. rows \in Seq(S \cup {row})
      OBVIOUS
    <3> QED BY <2>1, <3>1
  <2>5. \A i \in 1..Len(rows) : rows[i] # row
    BY <2>2, <2>4 DEF ToSet
  <2> QED BY <2>1, <2>3, <2>4, <2>5
<1>3. ASSUME NEW p \in Parties, ImportCandidates(p)
      PROVE  /\ Len(rows') <= RecordCeiling
             /\ \A i, j \in DOMAIN rows' : rows'[i] = rows'[j] => i = j
  <2>1. (\E x : rows' = <<x>>) \/ (\E x, y : x # y /\ rows' = <<x, y>>)
    BY <1>3 DEF ImportCandidates, Packages, Row
  <2>2. RecordCeiling \in Nat /\ RecordCeiling >= 2
    BY CeilingAssumption
  <2>3. ASSUME NEW x, rows' = <<x>>
        PROVE  Len(rows') = 1 /\ DOMAIN rows' = {1}
    BY <2>3
  <2>4. ASSUME NEW x, NEW y, x # y, rows' = <<x, y>>
        PROVE  Len(rows') = 2 /\ DOMAIN rows' = {1, 2} /\ rows'[1] # rows'[2]
    BY <2>4
  <2>5. CASE \E x : rows' = <<x>>
    BY <2>2, <2>3, <2>5
  <2>6. CASE \E x, y : x # y /\ rows' = <<x, y>>
    BY <2>2, <2>4, <2>6
  <2> QED BY <2>1, <2>5, <2>6
<1>4. CASE DecideRight
  BY <1>1, <1>4 DEF DecideRight
<1> QED BY <1>1, <1>2, <1>3, <1>4, RowsStay DEF CandidateNext

\* Every step keeps the types.
LEMMA TypeKept ==
  ASSUME Wellformed, CandidateTypeOK, Aims, Checked, CandidateNext
  PROVE  CandidateTypeOK'
<1> USE DEF CandidateTypeOK
<1>1. /\ Len(rows') <= RecordCeiling
      /\ \A i, j \in DOMAIN rows' : rows'[i] = rows'[j] => i = j
  BY RowsFit
<1>2. CASE DecideRight
  <2>1. permits' \subseteq Uses4B
    BY <1>2 DEF DecideRight
  <2>2. UNCHANGED <<pendingBody, content, deleting, company, uncovered, unfounded>>
    BY <1>2 DEF DecideRight
  <2> QED BY <1>1, <2>1, <2>2
<1>3. ASSUME NEW p \in Parties, CandidateStep(p)
      PROVE  CandidateTypeOK'
  <2>1. permits' = permits
    BY <1>3 DEF CandidateStep, OpenCandidates, ReconcilePending, FinishPublication,
         ReconcileSource, RenameSource, UnlinkSource, NumberRow, InsertRow, BeginAcquire,
         Answered, BeginPublication, MakeSource, WriteSource, Recheck, BeginParse, Parsed,
         SynchronizeRights, InvalidateCandidates, ImportCandidates, LeaveCandidates, PartyDies
  <2>2. pendingBody' \in {{}} \cup {{b} : b \in Bodies}
    <3>1. pendingBody' \in {pendingBody, {}} \/ BeginPublication(p)
      BY <1>3 DEF CandidateStep, OpenCandidates, ReconcilePending, FinishPublication,
           ReconcileSource, RenameSource, UnlinkSource, NumberRow, InsertRow, BeginAcquire,
           Answered, MakeSource, WriteSource, Recheck, BeginParse, Parsed, SynchronizeRights,
           InvalidateCandidates, ImportCandidates, LeaveCandidates, PartyDies
    <3>2. CASE BeginPublication(p)
      BY <3>2 DEF BeginPublication, At, Aims, AimsOf
    <3> QED BY <3>1, <3>2
  <2>3. content' \in {{}} \cup {{c} : c \in [by : Parties, body : {{}} \cup {{b} : b \in
       Bodies}]}
    <3>1. content' \in {content, {}} \/ MakeSource(p) \/ WriteSource(p)
      BY <1>3 DEF CandidateStep, OpenCandidates, ReconcilePending, FinishPublication,
           ReconcileSource, RenameSource, UnlinkSource, NumberRow, InsertRow, BeginAcquire,
           Answered, BeginPublication, Recheck, BeginParse, Parsed, SynchronizeRights,
           InvalidateCandidates, ImportCandidates, LeaveCandidates, PartyDies
    <3>2. CASE MakeSource(p)
      BY <3>2 DEF MakeSource, CandidateTypeOK
    <3>3. CASE WriteSource(p)
      BY <3>3 DEF WriteSource, At, Aims, AimsOf, CandidateTypeOK
    <3> QED BY <3>1, <3>2, <3>3
  <2>4. deleting' \in BOOLEAN
    <3>1. deleting' = deleting \/ RenameSource(p) \/ UnlinkSource(p)
      BY <1>3 DEF CandidateStep, OpenCandidates, ReconcilePending, FinishPublication,
           ReconcileSource, NumberRow, InsertRow, BeginAcquire, Answered, BeginPublication,
           MakeSource, WriteSource, Recheck, BeginParse, Parsed, SynchronizeRights,
           InvalidateCandidates, ImportCandidates, LeaveCandidates, PartyDies
    <3>2. deleting' \in BOOLEAN \/ deleting' = deleting
      BY <3>1 DEF RenameSource, UnlinkSource
    <3> QED BY <3>2
  <2>5. company' \subseteq Parties
    <3>1. CASE OpenCandidates(p)
      BY <3>1 DEF OpenCandidates
    <3> QED BY <1>3, <3>1, OneMoves
  <2>6. uncovered' \in BOOLEAN
    <3>1. uncovered' = uncovered \/ FinishPublication(p)
      BY <1>3 DEF CandidateStep, OpenCandidates, ReconcilePending, ReconcileSource,
           RenameSource, UnlinkSource, NumberRow, InsertRow, BeginAcquire, Answered,
           BeginPublication, MakeSource, WriteSource, Recheck, BeginParse, Parsed,
           SynchronizeRights, InvalidateCandidates, ImportCandidates, LeaveCandidates, PartyDies
    <3>2. uncovered' \in BOOLEAN \/ uncovered' = uncovered
      BY <3>1 DEF FinishPublication
    <3> QED BY <3>2
  <2>7. unfounded' \in BOOLEAN
    <3>1. unfounded' = unfounded \/ InsertRow(p)
      BY <1>3, RowsStay DEF ImportCandidates
    <3>2. unfounded' \in BOOLEAN \/ unfounded' = unfounded
      BY <3>1 DEF InsertRow
    <3> QED BY <3>2
  <2> QED BY <1>1, <2>1, <2>2, <2>3, <2>4, <2>5, <2>6, <2>7
<1> QED BY <1>2, <1>3 DEF CandidateNext
-----------------------------------------------------------------------------
\* The store begins empty, with nobody inside.
LEMMA CandidatesBegin ==
  ASSUME CandidateInit
  PROVE  CandidateInv
<1> USE DEF CandidateInit
<1>1. rows \in Seq({}) /\ Len(rows) = 0 /\ ToSet(rows) = {} /\ DOMAIN rows = {}
  BY DEF ToSet
<1>2. DOMAIN doings = Parties /\ \A p \in Parties : doings[p].at = "out"
  OBVIOUS
<1>3. CandidateTypeOK
  <2>1. Len(rows) <= RecordCeiling /\ \A i, j \in DOMAIN rows : rows[i] = rows[j] => i = j
    BY <1>1, CeilingAssumption
  <2> QED BY <2>1 DEF CandidateTypeOK
<1>4. Wellformed /\ Aims /\ Companions /\ Checked
  BY <1>1, <1>2 DEF Wellformed, Aims, AimsOf, Companions, Inside, At, Checked, CheckedOf,
       Waiting
<1>5. Traced /\ AloneKnows
  BY <1>2 DEF Traced, TracedOf, Left, Publishing, AloneKnows, Knows, Waiting, At
<1> QED BY <1>3, <1>4, <1>5 DEF CandidateInv

\* Every step keeps the invariant.
LEMMA CandidatesGoOn ==
  ASSUME CandidateInv, [CandidateNext]_candidateVars
  PROVE  CandidateInv'
<1>1. CASE CandidateNext
  BY <1>1, WellformedKept, TypeKept, AimsKept, CompanionsKept, CheckedKept, TracedKept,
     AloneKnowsKept DEF CandidateInv
<1>2. CASE UNCHANGED candidateVars
  <2>1. UNCHANGED <<rows, pendingBody, content, deleting, permits, doings, company, uncovered,
                    unfounded>>
    BY <1>2 DEF candidateVars
  <2>2. Wellformed' /\ CandidateTypeOK' /\ Aims' /\ Companions'
    BY <2>1 DEF CandidateInv, Wellformed, CandidateTypeOK, Aims, AimsOf, Waiting, Companions,
                Inside, At
  <2>3. Checked'
    BY <2>1 DEF CandidateInv, Checked, CheckedOf, Waiting, At, Founded
  <2>4. Traced' /\ AloneKnows'
    BY <2>1 DEF CandidateInv, Traced, TracedOf, Left, Known, Publishing, AloneKnows, Alone,
         Knows,
                InvalidatesAll, ActiveAcquired, Readable, Waiting, At
  <2> QED BY <2>2, <2>3, <2>4 DEF CandidateInv
<1> QED BY <1>1, <1>2

\* What was to be shown follows from what the processes know and from the traces.
LEMMA AccountedFor ==
  ASSUME CandidateInv
  PROVE  CandidatesAccounted
<1>1. NeverUntraced
  BY DEF CandidateInv, Traced, Known, NeverUntraced
<1>2. OpenedWhole /\ ErasedWhole
  BY DEF CandidateInv, AloneKnows, Knows, OpenedWhole, ErasedWhole
<1> QED BY <1>1, <1>2 DEF CandidateInv, Checked, CandidatesAccounted

\* Retained bytes always have a record or a journal row by which the next open finds them,
\* or lost it to an open beside their publication; who opened or synchronized alone sees
\* the records and the bytes agree; and no record contradicts the check it came from, over
\* any interleaving and any deaths (phase4b/service.py and workspace.py).
THEOREM CandidatesAreAccounted == CandidateSpec => []CandidatesAccounted
<1>1. CandidateInit => CandidateInv
  BY CandidatesBegin
<1>2. CandidateInv /\ [CandidateNext]_candidateVars => CandidateInv'
  BY CandidatesGoOn
<1>3. CandidateInv => CandidatesAccounted
  BY AccountedFor
<1> QED BY <1>1, <1>2, <1>3, PTL DEF CandidateSpec
-----------------------------------------------------------------------------
(***************************************************************************)
(* The erasure of a source.  A store is calm as long as no wedge happened  *)
(* and nobody stores bytes beside a source that has its row already: who   *)
(* does ends in a wedge, and what was calm before is what a later open     *)
(* relies on.                                                              *)
(***************************************************************************)
Collected == {"provenance", "card"}
Proposed == (Asked \cap (Rights \cup Lifecycle)) \cup Collected \cup {"completion"}
States ==
  [at : {"closed", "reconcile", "verifying", "idle", "over", "make", "quote", "write"}]
    \cup [at : {"card"}, sequence : Nat]
    \cup [at : {"begin", "rename", "remove", "verify", "failed"}, instant : Nat]
    \cup [at : {"build"}, kind : Proposed, previous : Nat, instant : Nat]
    \cup [at : {"append", "failed"}, kind : Proposed, previous : Nat, instant : Nat, sequence : Nat]

Recording(o, set) == opener[o].at \in {"build", "append"} /\ opener[o].kind \in set
Intaking(o) == opener[o].at = "write" \/ Recording(o, {"provenance"})
Removing(o) ==
  opener[o].at \in {"begin", "rename", "remove", "verify", "failed"} \/ Recording(o, {"completion"})
Quoting == {o \in Openers : Recording(o, {"card"})}

RightsRow == [kind : Rights \cup Lifecycle \cup Collected, previous : Nat, instant : Nat]
Given == {"requested", "removing", "incomplete", "completed"}

ErasureShape ==
  /\ audit \in Seq(RightsRow) /\ Len(audit) <= MaxRows
  /\ opener \in [Openers -> States]
  /\ erasure \in {"none", "active"} \cup Given
  /\ object \subseteq {"active", "deleting"} /\ (bytes => "active" \in object)
  /\ cards \in Nat /\ retained \in BOOLEAN /\ bytes \in BOOLEAN
  /\ drafts \subseteq Openers
  /\ IsFiniteSet(Quoting)

\* What the records say of the source's row.
RowAgrees ==
  /\ Cardinality(Kinds({"provenance"})) = (IF erasure = "none" THEN 0 ELSE 1)
  /\ Cardinality(Kinds({"completion"})) = (IF erasure = "completed" THEN 1 ELSE 0)
  /\ erasure \in Given => Kinds({"request"}) # {}
  /\ erasure = "completed" => ~retained
  /\ erasure = "none" => Kinds({"card"}) = {} /\ cards = 0
  /\ erasure \in {"none", "active"} => "deleting" \notin object

\* What somebody who came this far knows of it.
Reached ==
  \A o \in Openers :
    /\ Removing(o) => erasure \in Given
    /\ opener[o].at \in {"quote", "card"} \/ Recording(o, Lifecycle \cup {"card"}) => erasure # "none"
    /\ Recording(o, Lifecycle \ {"completion"}) =>
         /\ opener[o].previous <= Len(audit)
         /\ \A i \in Kinds(Lifecycle) :
              i <= opener[o].previous => audit[i].instant <= opener[o].instant

\* Bytes and row of one that is taken in.
TakenIn ==
  "intakes_collided" \notin wedges =>
    /\ erasure = "active" => bytes /\ retained
    /\ erasure = "none" =>
         \A o \in Openers : Recording(o, {"provenance"}) =>
           bytes /\ \A q \in Openers : Recording(q, {"provenance"}) => q = o

AskedFor ==
  erasure = "requested" /\ wedges \cap {"asked_again_late", "intakes_collided"} = {} =>
    object = {"active"} /\ ~BeingRemoved

Regained ==
  erasure = "completed" /\ bytes /\ "died_storing" \notin wedges =>
    \E o \in Openers : Recording(o, {"provenance"})

Calm == wedges = {} /\ (erasure # "none" => \A o \in Openers : ~Intaking(o))

\* A calm store with the source in it.
Present ==
  /\ "active" \in object =>
       object = {"active"} /\ bytes /\ cards = Cardinality(Kinds({"card"})) + Cardinality(Quoting)
  /\ erasure \in {"active", "requested"} => object = {"active"}
  /\ erasure = "completed" => object = {}
  /\ "deleting" \in object => erasure = "removing"
  /\ erasure = "removing" => ~OnHold
  /\ \A o \in Openers : Recording(o, {"completion"}) =>
       object = {} /\ (erasure = "removing" => opener[o].previous = LastAt(Kinds(Lifecycle)))

\* A calm store without the source, and with it.
CalmInv ==
  Calm =>
    /\ drafts = {o \in Openers : opener[o].at = "write"}
    /\ Chained
    /\ erasure = "none" /\ object # {} => \E o \in Openers : Intaking(o)
    /\ erasure # "none" => Present

EInv ==
  ErasureShape /\ RowAgrees /\ Reached /\ TakenIn /\ AskedFor /\ Regained /\ CalmInv
-----------------------------------------------------------------------------
LEMMA LastFacts ==
  ASSUME NEW n \in Nat, NEW T, T \subseteq 1..n
  PROVE  /\ T = {} => LastAt(T) = 0
         /\ T # {} => LastAt(T) \in T /\ \A j \in T : j <= LastAt(T)
         /\ LastAt(T) \in 0..n
<1>1. CASE T = {}
  BY <1>1 DEF LastAt
<1>2. CASE T # {}
  <2> DEFINE U == {m \in Nat : \A j \in T : j <= m}
  <2>1. n \in U
    OBVIOUS
  <2>2. PICK m \in U : \A k \in U : m <= k
    BY <2>1, LeastNumber
  <2>3. m \in T
    <3>1. SUFFICES ASSUME m \notin T PROVE FALSE
      OBVIOUS
    <3>2. m \in Nat /\ \A j \in T : j <= m /\ j # m
      BY <3>1
    <3>3. m # 0
      <4> PICK j \in T : TRUE
        BY <1>2
      <4>1. j \in 1..n /\ j <= m
        BY <3>2
      <4> QED
        BY <4>1
    <3>4. m - 1 \in U
      BY <3>2, <3>3
    <3> QED
      BY <2>2, <3>4, <3>2
  <2>4. LastAt(T) \in T /\ \A j \in T : j <= LastAt(T)
    BY <2>3, <1>2 DEF LastAt
  <2>5. LastAt(T) \in 1..n
    BY <2>4
  <2> QED
    BY <2>4, <2>5, <1>2
<1> QED
  BY <1>1, <1>2

LEMMA KindsFacts ==
  ASSUME audit \in Seq(RightsRow)
  PROVE  /\ \A set : Kinds(set) \subseteq 1..Len(audit) /\ IsFiniteSet(Kinds(set))
         /\ Len(audit) \in Nat
         /\ \A i \in DOMAIN audit : audit[i] \in RightsRow
<1>1. Len(audit) \in Nat /\ DOMAIN audit = 1..Len(audit) /\ \A i \in DOMAIN audit : audit[i] \in RightsRow
  OBVIOUS
<1>2. \A set : Kinds(set) \subseteq 1..Len(audit)
  BY <1>1 DEF Kinds
<1>3. IsFiniteSet(1..Len(audit))
  BY <1>1, FS_Interval
<1> QED
  BY <1>1, <1>2, <1>3, FS_Subset

\* What one record more changes.
LEMMA OneRow ==
  ASSUME audit \in Seq(RightsRow), NEW r \in RightsRow, audit' = Append(audit, r)
  PROVE  /\ audit' \in Seq(RightsRow) /\ Len(audit') = Len(audit) + 1
         /\ \A set : Kinds(set)' = IF r.kind \in set THEN Kinds(set) \cup {Len(audit) + 1}
                                    ELSE Kinds(set)
         /\ \A i \in DOMAIN audit : audit'[i] = audit[i]
         /\ audit'[Len(audit) + 1] = r
<1>1. /\ audit' \in Seq(RightsRow) /\ Len(audit') = Len(audit) + 1 /\ Len(audit) \in Nat
      /\ DOMAIN audit = 1..Len(audit) /\ DOMAIN audit' = 1..(Len(audit) + 1)
      /\ \A i \in DOMAIN audit : audit'[i] = audit[i]
      /\ audit'[Len(audit) + 1] = r
  OBVIOUS
<1>2. DOMAIN audit' = DOMAIN audit \cup {Len(audit) + 1} /\ Len(audit) + 1 \notin DOMAIN audit
  BY <1>1
<1>3. ASSUME NEW set
      PROVE  {i \in DOMAIN audit' : audit'[i].kind \in set}
               = IF r.kind \in set THEN {i \in DOMAIN audit : audit[i].kind \in set} \cup {Len(audit) + 1}
                 ELSE {i \in DOMAIN audit : audit[i].kind \in set}
  <2> HIDE DEF RightsRow
  <2> QED
    BY <1>1, <1>2
<1> QED
  BY <1>1, <1>3 DEF Kinds

LEMMA OneCounted ==
  ASSUME audit \in Seq(RightsRow), NEW r \in RightsRow, audit' = Append(audit, r), NEW set
  PROVE  /\ Cardinality(Kinds(set)) \in Nat
         /\ Cardinality(Kinds(set)') = Cardinality(Kinds(set)) + (IF r.kind \in set THEN 1 ELSE 0)
<1>1. IsFiniteSet(Kinds(set)) /\ Len(audit) + 1 \notin Kinds(set)
  BY KindsFacts
<1>2. Cardinality(Kinds(set)) \in Nat
  BY <1>1, FS_CardinalityType
<1>3. Cardinality(Kinds(set) \cup {Len(audit) + 1}) = Cardinality(Kinds(set)) + 1
  BY <1>1, FS_AddElement
<1>4. Kinds(set)' = IF r.kind \in set THEN Kinds(set) \cup {Len(audit) + 1} ELSE Kinds(set)
  BY OneRow
<1> QED
  BY <1>2, <1>3, <1>4
-----------------------------------------------------------------------------
LEMMA Proceeds ==
  ASSUME opener \in [Openers -> States], NEW o \in Openers, NEW at, Proceed(o, at),
         \/ opener[o].at \in {"begin", "rename", "remove", "verify"}
              /\ at \in {"rename", "remove", "verify", "failed"}
         \/ opener[o].at = "append" /\ at = "failed"
  PROVE  \E state \in States : Goes(o, state) /\ state.at = at
<1> DEFINE state == [opener[o] EXCEPT !.at = at]
<1>1. Goes(o, state)
  BY DEF Proceed, Goes
<1>2. CASE opener[o].at \in {"begin", "rename", "remove", "verify"}
  <2>1. opener[o] \in [at : {"begin", "rename", "remove", "verify", "failed"}, instant : Nat]
    BY <1>2 DEF States
  <2>2. state \in [at : {"begin", "rename", "remove", "verify", "failed"}, instant : Nat] /\ state.at = at
    BY <1>2, <2>1
  <2> QED
    BY <1>1, <2>2 DEF States
<1>3. CASE opener[o].at = "append"
  <2>1. opener[o] \in [at : {"append", "failed"}, kind : Proposed, previous : Nat, instant : Nat,
                        sequence : Nat]
    BY <1>3 DEF States
  <2>2. state \in [at : {"append", "failed"}, kind : Proposed, previous : Nat, instant : Nat,
                    sequence : Nat] /\ state.at = at
    BY <1>3, <2>1
  <2> QED
    BY <1>1, <2>2 DEF States
<1> QED
  BY <1>2, <1>3

\* A step is one of somebody.
Turn(o) ==
  \/ OpenStore(o) \/ VerifyDurableIntegrity(o) \/ CloseStore(o)
  \/ BeginAppend(o) \/ NumberRecord(o) \/ AppendDecided(o)
  \/ BeginIntake(o) \/ MakeObject(o) \/ PublishSource(o) \/ AppendProvenance(o)
  \/ BeginCard(o) \/ QuoteSource(o) \/ PutCard(o) \/ AppendCard(o)
  \/ CompleteDeletion(o) \/ BeginRemoval(o) \/ RenameObject(o) \/ RemoveTree(o)
  \/ RemovalFails(o) \/ VerifySourceAbsent(o) \/ AppendDeletionCompletion(o)
  \/ RecordDeletionFailure(o) \/ OpenerDies(o)

LEMMA Turns == [ErasureNext]_erasureVars <=> (UNCHANGED erasureVars \/ \E o \in Openers : Turn(o))
BY DEF ErasureNext, Turn

\* Where a process goes next is a place with all that is read there.
LEMMA PlacesStep ==
  ASSUME ErasureShape, RowAgrees, NEW o \in Openers, Turn(o)
  PROVE  \E state \in States : Goes(o, state)
<1> USE DEF ErasureShape
<1>2. ASSUME NEW at \in {"closed", "reconcile", "verifying", "idle", "over", "make", "quote", "write"}
      PROVE  [at |-> at] \in States
  BY DEF States
<1>3. ASSUME NEW n \in Nat PROVE [at |-> "card", sequence |-> n] \in States
  BY DEF States
<1>4. ASSUME NEW n \in Nat PROVE [at |-> "begin", instant |-> n] \in States
  BY DEF States
<1>5. ASSUME NEW k \in Proposed, NEW n \in Nat, NEW m \in Nat
      PROVE  [at |-> "build", kind |-> k, previous |-> n, instant |-> m] \in States
  BY DEF States
<1>6. ASSUME NEW k \in Proposed, NEW n \in Nat, NEW m \in Nat, NEW q \in Nat
      PROVE  [at |-> "append", kind |-> k, previous |-> n, instant |-> m, sequence |-> q] \in States
  BY DEF States
<1>7. \A set : LastAt(Kinds(set)) \in 0..Len(audit) /\ Len(audit) \in Nat
  BY KindsFacts, LastFacts
<1>8. \A q \in Openers : opener[q].at = "build" =>
        opener[q].kind \in Proposed /\ opener[q].previous \in Nat /\ opener[q].instant \in Nat
  BY DEF States
<1>9. \A q \in Openers : opener[q].at = "card" => opener[q].sequence \in Nat
  BY DEF States
<1>10. \A q \in Openers : opener[q].at = "verify" => opener[q].instant \in Nat
  BY DEF States
<1>11. CASE OpenStore(o) \/ VerifyDurableIntegrity(o) \/ CloseStore(o) \/ BeginIntake(o)
            \/ MakeObject(o) \/ OpenerDies(o)
  BY <1>2, <1>11 DEF OpenStore, VerifyDurableIntegrity, CloseStore, BeginIntake, MakeObject,
     OpenerDies
<1>12. Rest(o) => \E state \in States : Goes(o, state)
  BY <1>2 DEF Rest
<1>13. CASE AppendDecided(o) \/ AppendProvenance(o) \/ AppendCard(o) \/ RecordDeletionFailure(o)
  BY <1>12, <1>13 DEF AppendDecided, AppendProvenance, AppendCard, RecordDeletionFailure
<1>14. CASE PublishSource(o)
  BY <1>5, <1>12, <1>14 DEF PublishSource, Builds, Proposed, Collected
<1>15. CASE NumberRecord(o)
  BY <1>6, <1>7, <1>8, <1>15 DEF NumberRecord
<1>16. CASE BeginAppend(o)
  <2>1. /\ \A kind \in Asked \cap Rights : kind \in Proposed
        /\ \A kind \in Asked \cap Lifecycle : kind \in Proposed
    BY DEF Proposed
  <2>2. LastAt(Kinds(Lifecycle)) \in Nat
    BY <1>7
  <2>3. CASE \E kind \in Asked \cap Rights : Builds(o, kind, 0, 0)
    BY <1>5, <2>1, <2>3 DEF Builds
  <2>4. CASE \E kind \in Asked \cap Lifecycle, moment \in Moments :
               Builds(o, kind, LastAt(Kinds(Lifecycle)), moment)
    BY <1>5, <2>1, <2>2, <2>4, ErasureAssumption DEF Builds
  <2> QED
    BY <1>16, <2>3, <2>4 DEF BeginAppend
<1>17. CASE BeginCard(o) \/ QuoteSource(o)
  BY <1>2, <1>3, <1>7, <1>12, <1>17 DEF BeginCard, QuoteSource
<1>18. CASE PutCard(o)
  BY <1>6, <1>9, <1>12, <1>18 DEF PutCard, Proposed, Collected
<1>19. CASE CompleteDeletion(o)
  <2>1. erasure \in Awaiting => audit[LastAt(Kinds({"request"}))].instant \in Nat
    <3>1. erasure \in Awaiting => Kinds({"request"}) # {}
      BY DEF RowAgrees, Awaiting, Given
    <3>2. Kinds({"request"}) # {} => LastAt(Kinds({"request"})) \in DOMAIN audit
      BY KindsFacts, LastFacts DEF Kinds
    <3> QED
      BY <3>1, <3>2, KindsFacts DEF RightsRow
  <2> QED
    BY <1>4, <1>12, <1>19, <2>1 DEF CompleteDeletion
<1>20. CASE BeginRemoval(o) \/ RenameObject(o) \/ RemoveTree(o) \/ RemovalFails(o)
  BY <1>12, <1>20, Proceeds DEF BeginRemoval, RenameObject, RemoveTree, RemovalFails
<1>21. CASE VerifySourceAbsent(o)
  BY <1>5, <1>7, <1>10, <1>21, Proceeds DEF VerifySourceAbsent, Builds, Proposed
<1>22. CASE AppendDeletionCompletion(o)
  BY <1>12, <1>22, Proceeds DEF AppendDeletionCompletion
<1> QED
  BY <1>11, <1>13, <1>14, <1>15, <1>16, <1>17, <1>18, <1>19, <1>20, <1>21, <1>22 DEF Turn

\* Nobody else moves.
LEMMA OthersStay ==
  ASSUME ErasureShape, RowAgrees, NEW o \in Openers, Turn(o)
  PROVE  /\ opener' \in [Openers -> States]
         /\ \A q \in Openers : q # o => opener'[q] = opener[q]
<1>1. PICK state \in States : Goes(o, state)
  BY PlacesStep
<1> QED
  BY <1>1 DEF ErasureShape, Goes

\* A transaction that accepts a record adds one.
LEMMA Accepted ==
  ASSUME ErasureShape, NEW o \in Openers, opener[o].at = "append", AppendWith(o), Fits(o)
  PROVE  /\ \E r \in RightsRow : audit' = Append(audit, r) /\ r.kind = opener[o].kind
                            /\ r.previous = opener[o].previous /\ r.instant = opener[o].instant
         /\ Len(audit') <= MaxRows
<1>1. opener[o].kind \in Proposed /\ opener[o].previous \in Nat /\ opener[o].instant \in Nat
  BY DEF ErasureShape, States
<1>2. Proposed \subseteq Rights \cup Lifecycle \cup Collected
  BY DEF Proposed, Lifecycle
<1> DEFINE r == [kind |-> opener[o].kind, previous |-> opener[o].previous,
                 instant |-> opener[o].instant]
<1>3. r \in RightsRow /\ audit' = Append(audit, r)
  BY <1>1, <1>2 DEF RightsRow, AppendWith
<1>4. Len(audit') = Len(audit) + 1 /\ Len(audit) \in Nat
  BY <1>3 DEF ErasureShape
<1>5. Len(audit') <= MaxRows
  BY <1>4, ErasureAssumption DEF Fits
<1> QED
  BY <1>3, <1>5

\* Who has the last record of his chain at hand goes to this transaction.
LEMMA AuditStep ==
  ASSUME ErasureShape, NEW o \in Openers, Turn(o)
  PROVE  \/ audit' = audit
         \/ /\ opener[o].at = "append" /\ AppendWith(o) /\ Fits(o)
            /\ AppendDecided(o) \/ AppendProvenance(o) \/ AppendCard(o) \/ AppendDeletionCompletion(o)
BY DEF Turn, OpenStore, VerifyDurableIntegrity, CloseStore, BeginAppend, NumberRecord, AppendDecided,
       BeginIntake, MakeObject, PublishSource, AppendProvenance, BeginCard, QuoteSource, PutCard, AppendCard,
       CompleteDeletion, BeginRemoval, RenameObject, RemoveTree, RemovalFails, VerifySourceAbsent,
       AppendDeletionCompletion, RecordDeletionFailure, OpenerDies

LEMMA Emptied ==
  ASSUME EmptyObject
  PROVE  object' \subseteq {"active", "deleting"} /\ (bytes' => "active" \in object')
         /\ cards' \in Nat /\ bytes' \in BOOLEAN
BY DEF EmptyObject

LEMMA ShapeStep ==
  ASSUME ErasureShape, RowAgrees, NEW o \in Openers, Turn(o)
  PROVE  ErasureShape'
<1>1. audit' \in Seq(RightsRow) /\ Len(audit') <= MaxRows
  <2>1. CASE audit' = audit
    BY <2>1 DEF ErasureShape
  <2>2. CASE audit' # audit
    BY <2>2, AuditStep, Accepted, OneRow DEF ErasureShape
  <2> QED
    BY <2>1, <2>2
<1>2. erasure' \in {"none", "active"} \cup Given
  BY DEF ErasureShape, Given, Ask, Turn, OpenStore, VerifyDurableIntegrity, CloseStore, BeginAppend,
     NumberRecord, AppendDecided, BeginIntake, MakeObject, PublishSource, AppendProvenance,
     BeginCard, QuoteSource, PutCard, AppendCard, CompleteDeletion, BeginRemoval, RenameObject, RemoveTree,
     RemovalFails, VerifySourceAbsent, AppendDeletionCompletion, RecordDeletionFailure, OpenerDies
<1>3. /\ object' \subseteq {"active", "deleting"} /\ (bytes' => "active" \in object')
      /\ cards' \in Nat /\ retained' \in BOOLEAN /\ bytes' \in BOOLEAN
      /\ drafts' \subseteq Openers
  <2>1. CASE UNCHANGED <<object, bytes, cards, retained, drafts>>
    BY <2>1 DEF ErasureShape
  <2>2. CASE MakeObject(o)
    BY <2>2 DEF ErasureShape, MakeObject, EmptyObject, contentVars
  <2>3. CASE PublishSource(o)
    <3>1. CASE EmptyObject
      BY <2>3, <3>1, Emptied DEF PublishSource, ErasureShape
    <3>2. CASE ~EmptyObject
      <4>1. "active" \in object /\ bytes' = TRUE /\ UNCHANGED <<object, cards, retained>>
            /\ drafts' = drafts \ {o}
        BY <2>3, <3>2 DEF PublishSource
      <4> QED
        BY <4>1 DEF ErasureShape
    <3> QED
      BY <3>1, <3>2
  <2>4. CASE AppendProvenance(o)
    <3>1. CASE EmptyObject
      BY <2>4, <3>1, Emptied DEF AppendProvenance, ErasureShape
    <3>2. CASE ~EmptyObject
      <4>1. retained' = TRUE /\ UNCHANGED <<object, bytes, cards, drafts>>
        BY <2>4, <3>2 DEF AppendProvenance
      <4> QED
        BY <4>1 DEF ErasureShape
    <3> QED
      BY <3>1, <3>2
  <2>5. CASE PutCard(o)
    BY <2>5 DEF ErasureShape, PutCard, EmptyObject, contentVars
  <2>6. CASE AppendCard(o)
    BY <2>6 DEF ErasureShape, AppendCard, EmptyObject, contentVars
  <2>7. CASE RenameObject(o)
    <3>1. retained' = retained /\ drafts' = drafts
      BY <2>7 DEF RenameObject
    <3>2. \/ object' = {"deleting"} /\ bytes' = FALSE /\ cards' = 0
          \/ UNCHANGED <<object, bytes, cards>>
      BY <2>7 DEF RenameObject
    <3>3. ASSUME object' = {"deleting"}, bytes' = FALSE, cards' = 0
          PROVE  object' \subseteq {"active", "deleting"} /\ (bytes' => "active" \in object')
                 /\ cards' \in Nat /\ bytes' \in BOOLEAN
      BY <3>3
    <3>4. ASSUME UNCHANGED <<object, bytes, cards>>
          PROVE  object' \subseteq {"active", "deleting"} /\ (bytes' => "active" \in object')
                 /\ cards' \in Nat /\ bytes' \in BOOLEAN
      BY <3>4 DEF ErasureShape
    <3>5. drafts' \subseteq Openers /\ retained' \in BOOLEAN
      BY <3>1 DEF ErasureShape
    <3> QED
      BY <3>2, <3>3, <3>4, <3>5
  <2>8. CASE RemoveTree(o)
    BY <2>8 DEF ErasureShape, RemoveTree, EmptyObject, contentVars
  <2>9. CASE AppendDeletionCompletion(o)
    BY <2>9 DEF ErasureShape, AppendDeletionCompletion, EmptyObject, contentVars
  <2>10. CASE RecordDeletionFailure(o)
    BY <2>10 DEF ErasureShape, RecordDeletionFailure, EmptyObject, contentVars
  <2> QED
    BY <2>1, <2>2, <2>3, <2>4, <2>5, <2>6, <2>7, <2>8, <2>9, <2>10
       DEF Turn, OpenStore, VerifyDurableIntegrity, CloseStore, BeginAppend,
       NumberRecord, AppendDecided, BeginIntake, BeginCard, QuoteSource, CompleteDeletion, BeginRemoval,
       RemovalFails, VerifySourceAbsent, OpenerDies, contentVars
<1>4. IsFiniteSet(Quoting')
  <2>1. Quoting' \subseteq Quoting \cup {o}
    BY OthersStay DEF Quoting, Recording
  <2>2. IsFiniteSet(Quoting \cup {o})
    BY FS_AddElement DEF ErasureShape
  <2> QED
    BY <2>1, <2>2, FS_Subset
<1> QED
  BY <1>1, <1>2, <1>3, <1>4, OthersStay DEF ErasureShape

-----------------------------------------------------------------------------
LEMMA KindsStay == ASSUME audit' = audit PROVE \A set : Kinds(set)' = Kinds(set)
BY DEF Kinds

\* What the record that is accepted adds.
LEMMA NoRow ==
  ASSUME ErasureShape, NEW o, AppendWith(o)
  PROVE  audit' # audit
<1>1. Len(audit') = Len(audit) + 1 /\ Len(audit) \in Nat
  BY DEF AppendWith, ErasureShape
<1> QED
  BY <1>1

LEMMA AcceptedKinds ==
  ASSUME ErasureShape, NEW o \in Openers, opener[o].at = "append", AppendWith(o), Fits(o)
  PROVE  /\ opener[o].kind \in Proposed
         /\ \A set : /\ Kinds(set) \subseteq Kinds(set)'
                     /\ opener[o].kind \notin set => Kinds(set)' = Kinds(set)
                     /\ Cardinality(Kinds(set)) \in Nat
                     /\ Cardinality(Kinds(set)') =
                          Cardinality(Kinds(set)) + (IF opener[o].kind \in set THEN 1 ELSE 0)
                     /\ opener[o].kind \in set => Kinds(set)' # {}
<1>1. PICK r \in RightsRow : audit' = Append(audit, r) /\ r.kind = opener[o].kind
  BY Accepted
<1>2. opener[o].kind \in Proposed
  BY DEF ErasureShape, States
<1>3. ASSUME NEW set
      PROVE  Kinds(set)' = IF r.kind \in set THEN Kinds(set) \cup {Len(audit) + 1} ELSE Kinds(set)
  BY <1>1, OneRow DEF ErasureShape
<1>4. ASSUME NEW set
      PROVE  /\ Cardinality(Kinds(set)) \in Nat
             /\ Cardinality(Kinds(set)') = Cardinality(Kinds(set)) + (IF r.kind \in set THEN 1 ELSE 0)
  BY <1>1, OneCounted DEF ErasureShape
<1> QED
  BY <1>1, <1>2, <1>3, <1>4

LEMMA RowStep ==
  ASSUME ErasureShape, RowAgrees, Reached, NEW o \in Openers, Turn(o)
  PROVE  RowAgrees'
<1> DEFINE Count(set) == Cardinality(Kinds(set))
<1>1. CASE /\ opener[o].at = "append" /\ AppendWith(o) /\ Fits(o)
           /\ AppendDecided(o) \/ AppendProvenance(o) \/ AppendCard(o) \/ AppendDeletionCompletion(o)
  <2>1. \A set : /\ Kinds(set) \subseteq Kinds(set)'
                 /\ opener[o].kind \notin set => Kinds(set)' = Kinds(set)
                 /\ Count(set) \in Nat
                 /\ Cardinality(Kinds(set)') = Count(set) + (IF opener[o].kind \in set THEN 1 ELSE 0)
                 /\ opener[o].kind \in set => Kinds(set)' # {}
    BY <1>1, AcceptedKinds
  <2>2. CASE AppendDecided(o)
    <3>1. /\ opener[o].kind \in Asked /\ opener[o].kind \notin {"provenance", "card", "completion"}
          /\ UNCHANGED <<retained, object, cards>>
      BY <2>2, ErasureAssumption DEF AppendDecided, contentVars, Rights, Lifecycle
    <3>2. opener[o].kind = "request" => erasure # "none" /\ erasure # "completed" /\ erasure' = "requested"
      <4>1. opener[o].kind = "request" => Recording(o, Lifecycle \cup {"card"})
        BY <1>1 DEF Recording, Lifecycle
      <4>2. opener[o].kind = "request" => erasure # "none"
        BY <4>1 DEF Reached
      <4> QED
        BY <1>1, <2>2, <4>2, NoRow DEF AppendDecided, Ask, Lifecycle, Sealed
    <3>3. opener[o].kind # "request" => erasure' = erasure
      BY <1>1, <2>2 DEF AppendDecided, Ask
    <3> HIDE DEF Count
    <3> QED
      BY <2>1, <3>1, <3>2, <3>3 DEF RowAgrees, Given, Count
  <2>3. CASE AppendProvenance(o)
    <3>1. CASE erasure = "none"
      <4>1. opener[o].kind = "provenance" /\ erasure' = "active" /\ UNCHANGED <<object, cards>>
        BY <1>1, <2>3, <3>1 DEF AppendProvenance
      <4> QED
        BY <2>1, <3>1, <4>1 DEF RowAgrees, Given
    <3>2. CASE erasure # "none"
      <4>1. UNCHANGED <<audit, erasure, retained>> /\ EmptyObject
        BY <1>1, <2>3, <3>2 DEF AppendProvenance
      <4> QED
        BY <3>2, <4>1, KindsStay DEF RowAgrees, EmptyObject
    <3> QED
      BY <3>1, <3>2
  <2>4. CASE AppendCard(o)
    <3>1. opener[o].kind = "card" /\ UNCHANGED <<erasure, retained, object>> /\ erasure # "none"
      BY <1>1, <2>4 DEF AppendCard, Reached, Recording
    <3> QED
      BY <2>1, <3>1 DEF RowAgrees
  <2>5. CASE AppendDeletionCompletion(o)
    <3>1. CASE erasure = "removing" /\ Kinds({"completion"}) = {} /\ erasure' = "completed" /\ ~retained'
      <4>1. opener[o].kind = "completion"
        BY <2>5 DEF AppendDeletionCompletion
      <4> QED
        BY <2>1, <3>1, <4>1 DEF RowAgrees, Given
    <3>2. CASE UNCHANGED <<audit, erasure, retained>>
      BY <2>5, <3>2, KindsStay DEF RowAgrees, AppendDeletionCompletion, contentVars
    <3> QED
      BY <2>5, <3>1, <3>2 DEF AppendDeletionCompletion
  <2> QED
    BY <1>1, <2>2, <2>3, <2>4, <2>5
<1>2. CASE audit' = audit
  <2>1. \A set : Kinds(set)' = Kinds(set)
    BY <1>2, KindsStay
  <2>2. /\ (erasure' = "none") <=> (erasure = "none")
        /\ (erasure' = "completed") <=> (erasure = "completed")
        /\ erasure' \in Given => erasure \in Given
        /\ erasure' \in {"none", "active"} => erasure \in {"none", "active"}
    BY <1>2, NoRow DEF Given, Awaiting, Turn,
       OpenStore, VerifyDurableIntegrity, CloseStore, BeginAppend, NumberRecord, AppendDecided,
       BeginIntake, MakeObject, PublishSource, AppendProvenance, BeginCard, QuoteSource, PutCard, AppendCard,
       CompleteDeletion, BeginRemoval, RenameObject, RemoveTree, RemovalFails, VerifySourceAbsent,
       AppendDeletionCompletion, RecordDeletionFailure, OpenerDies
  <2>3. erasure = "completed" => retained' = retained
    BY <1>2, NoRow DEF Turn,
       OpenStore, VerifyDurableIntegrity, CloseStore, BeginAppend, NumberRecord, AppendDecided,
       BeginIntake, MakeObject, PublishSource, AppendProvenance, BeginCard, QuoteSource, PutCard, AppendCard,
       CompleteDeletion, BeginRemoval, RenameObject, RemoveTree, RemovalFails, VerifySourceAbsent,
       AppendDeletionCompletion, RecordDeletionFailure, OpenerDies
  <2>4. erasure = "none" => cards' \in {0, cards}
    <3>1. ~RenameObject(o) => cards' \in {0, cards} \/ PutCard(o) \/ AppendCard(o)
      BY DEF EmptyObject, contentVars, Turn,
         OpenStore, VerifyDurableIntegrity, CloseStore, BeginAppend, NumberRecord, AppendDecided,
         BeginIntake, MakeObject, PublishSource, AppendProvenance, BeginCard, QuoteSource, PutCard, AppendCard,
         CompleteDeletion, BeginRemoval, RenameObject, RemoveTree, RemovalFails, VerifySourceAbsent,
         AppendDeletionCompletion, RecordDeletionFailure, OpenerDies
    <3>2. RenameObject(o) => cards' \in {0, cards}
      BY DEF RenameObject
    <3>3. PutCard(o) \/ AppendCard(o) => erasure # "none"
      BY DEF Reached, Recording, PutCard, AppendCard
    <3> QED
      BY <3>1, <3>2, <3>3
  <2>5. erasure \in {"none", "active"} => object' \subseteq object \cup {"active"}
    <3>1. RenameObject(o) => erasure \in Given
      BY DEF Reached, Removing, RenameObject
    <3>2. ~RenameObject(o) => object' \subseteq object \cup {"active"}
      BY DEF EmptyObject, contentVars, Turn,
         OpenStore, VerifyDurableIntegrity, CloseStore, BeginAppend, NumberRecord, AppendDecided,
         BeginIntake, MakeObject, PublishSource, AppendProvenance, BeginCard, QuoteSource, PutCard, AppendCard,
         CompleteDeletion, BeginRemoval, RenameObject, RemoveTree, RemovalFails, VerifySourceAbsent,
         AppendDeletionCompletion, RecordDeletionFailure, OpenerDies
    <3> QED
      BY <3>1, <3>2 DEF Given
  <2> QED
    BY <2>1, <2>2, <2>3, <2>4, <2>5 DEF RowAgrees
<1> QED
  BY <1>1, <1>2, AuditStep
-----------------------------------------------------------------------------
\* A source that is given up stays so, one that is there does not become unknown.
LEMMA ErasureGoesOn ==
  ASSUME NEW o \in Openers, Turn(o), Reached, ErasureShape
  PROVE  /\ erasure \in Given => erasure' \in Given
         /\ erasure # "none" => erasure' # "none"
  BY DEF Given, Awaiting, Sealed, Ask, Turn,
     OpenStore, VerifyDurableIntegrity, CloseStore, BeginAppend, NumberRecord, AppendDecided,
     BeginIntake, MakeObject, PublishSource, AppendProvenance, BeginCard, QuoteSource, PutCard, AppendCard,
     CompleteDeletion, BeginRemoval, RenameObject, RemoveTree, RemovalFails, VerifySourceAbsent,
     AppendDeletionCompletion, RecordDeletionFailure, OpenerDies

\* What o does next, as far as others rely on it.
LEMMA NextPlace ==
  ASSUME ErasureShape, RowAgrees, NEW o \in Openers, Turn(o)
  PROVE  /\ Removing(o)' => Removing(o) \/ erasure \in Given
         /\ opener'[o].at \in {"quote", "card"} => erasure # "none" \/ opener[o].at = "quote"
         /\ Recording(o, {"card"})' => opener[o].at = "card" \/ Recording(o, {"card"})
         /\ Recording(o, Lifecycle)' =>
               \/ Recording(o, {"completion"})' /\ Removing(o)
               \/ opener[o].at = "build" /\ audit' = audit /\ opener[o].kind \in Lifecycle
                    /\ opener'[o].kind = opener[o].kind
                    /\ opener'[o].previous = opener[o].previous
                    /\ opener'[o].instant = opener[o].instant
               \/ audit' = audit /\ erasure # "none"
                    /\ opener'[o].previous = LastAt(Kinds(Lifecycle))
                    /\ \A i \in Kinds(Lifecycle) : audit[i].instant <= opener'[o].instant
<1>1. /\ \A x : (Goes(o, x) => opener'[o] = x)
      /\ opener \in [Openers -> States]
  BY DEF Goes, ErasureShape
<1>2. ASSUME NEW at, Proceed(o, at),
             \/ opener[o].at \in {"begin", "rename", "remove", "verify"}
                  /\ at \in {"rename", "remove", "verify", "failed"}
             \/ opener[o].at = "append" /\ at = "failed"
      PROVE  opener'[o].at = at
  BY <1>1, <1>2, Proceeds
<1>3. CASE OpenStore(o) \/ VerifyDurableIntegrity(o) \/ CloseStore(o) \/ BeginIntake(o)
            \/ MakeObject(o) \/ OpenerDies(o)
  BY <1>1, <1>3 DEF Removing, Recording, OpenStore, VerifyDurableIntegrity, CloseStore, BeginIntake, MakeObject,
     OpenerDies
<1>4. Rest(o) => opener'[o].at \in {"verifying", "idle"}
  BY <1>1 DEF Rest
<1>5. CASE AppendDecided(o) \/ AppendProvenance(o) \/ AppendCard(o) \/ RecordDeletionFailure(o)
  BY <1>4, <1>5 DEF Removing, Recording, AppendDecided, AppendProvenance, AppendCard, RecordDeletionFailure
<1>6. CASE PublishSource(o)
  BY <1>1, <1>4, <1>6 DEF Removing, Recording, PublishSource, Builds, Lifecycle
<1>7. CASE NumberRecord(o)
  BY <1>1, <1>7 DEF Removing, Recording, NumberRecord
<1>8. CASE BeginAppend(o)
  <2>1. CASE \E kind \in Asked \cap Rights : Builds(o, kind, 0, 0)
    BY <1>1, <2>1 DEF Removing, Recording, Builds, Rights, Lifecycle
  <2>2. CASE /\ erasure # "none"
             /\ \E kind \in Asked \cap Lifecycle, moment \in Moments :
                  /\ \A i \in Kinds(Lifecycle) : audit[i].instant <= moment
                  /\ Builds(o, kind, LastAt(Kinds(Lifecycle)), moment)
    <3>1. PICK kind \in Asked \cap Lifecycle, moment \in Moments :
            /\ \A i \in Kinds(Lifecycle) : audit[i].instant <= moment
            /\ Builds(o, kind, LastAt(Kinds(Lifecycle)), moment)
      BY <2>2
    <3>2. opener'[o] = [at |-> "build", kind |-> kind, previous |-> LastAt(Kinds(Lifecycle)),
                        instant |-> moment]
      BY <1>1, <3>1 DEF Builds
    <3>3. kind \notin {"completion", "card"}
      BY ErasureAssumption DEF Lifecycle
    <3>4. audit' = audit
      BY <1>8 DEF BeginAppend
    <3> QED
      BY <2>2, <3>1, <3>2, <3>3, <3>4 DEF Removing, Recording
  <2> QED
    BY <1>8, <2>1, <2>2 DEF BeginAppend
<1>9. CASE BeginCard(o) \/ QuoteSource(o)
  BY <1>1, <1>4, <1>9 DEF Removing, Recording, BeginCard, QuoteSource
<1>10. CASE PutCard(o)
  BY <1>1, <1>4, <1>10 DEF Removing, Recording, PutCard, Lifecycle
<1>11. CASE CompleteDeletion(o)
  BY <1>1, <1>4, <1>11 DEF Removing, Recording, CompleteDeletion, Awaiting, Given
<1>12. CASE BeginRemoval(o) \/ RenameObject(o) \/ RemoveTree(o) \/ RemovalFails(o)
  BY <1>2, <1>4, <1>12 DEF Removing, Recording, BeginRemoval, RenameObject, RemoveTree, RemovalFails
<1>13. CASE VerifySourceAbsent(o)
  BY <1>1, <1>2, <1>13 DEF Removing, Recording, VerifySourceAbsent, Builds
<1>14. CASE AppendDeletionCompletion(o)
  BY <1>2, <1>4, <1>14 DEF Removing, Recording, AppendDeletionCompletion
<1> QED
  BY <1>3, <1>5, <1>6, <1>7, <1>8, <1>9, <1>10, <1>11, <1>12, <1>13, <1>14 DEF Turn

\* The lifecycle up to n is what it was.
LEMMA EarlierActions ==
  ASSUME ErasureShape, NEW o \in Openers, Turn(o)
  PROVE  /\ Len(audit) \in Nat /\ Len(audit') \in Nat /\ Len(audit) <= Len(audit')
         /\ \A i \in Kinds(Lifecycle)' : i <= Len(audit) =>
               i \in Kinds(Lifecycle) /\ audit'[i] = audit[i]
<1>1. CASE audit' = audit
  BY <1>1, KindsStay DEF ErasureShape
<1>2. CASE audit' # audit
  <2>1. PICK r \in RightsRow : audit' = Append(audit, r)
    BY <1>2, AuditStep, Accepted
  <2>2. /\ Len(audit') = Len(audit) + 1 /\ Len(audit) \in Nat
        /\ \A i \in DOMAIN audit : audit'[i] = audit[i]
        /\ Kinds(Lifecycle)' = IF r.kind \in Lifecycle THEN Kinds(Lifecycle) \cup {Len(audit) + 1}
                               ELSE Kinds(Lifecycle)
    BY <2>1, OneRow DEF ErasureShape
  <2>3. \A i \in Kinds(Lifecycle) : i \in DOMAIN audit
    BY DEF Kinds
  <2> QED
    BY <2>2, <2>3
<1> QED
  BY <1>1, <1>2

LEMMA ReachedStep ==
  ASSUME ErasureShape, RowAgrees, Reached, NEW o \in Openers, Turn(o)
  PROVE  Reached'
<1> SUFFICES ASSUME NEW q \in Openers
             PROVE  /\ Removing(q)' => erasure' \in Given
                    /\ (opener'[q].at \in {"quote", "card"} \/ Recording(q, Lifecycle \cup {"card"})') =>
                         erasure' # "none"
                    /\ Recording(q, Lifecycle \ {"completion"})' =>
                         /\ opener'[q].previous <= Len(audit')
                         /\ \A i \in Kinds(Lifecycle)' :
                              i <= opener'[q].previous => audit'[i].instant <= opener'[q].instant
  BY DEF Reached
<1>1. /\ erasure \in Given => erasure' \in Given
      /\ erasure # "none" => erasure' # "none"
  BY ErasureGoesOn
<1>2. /\ Len(audit) \in Nat /\ Len(audit') \in Nat /\ Len(audit) <= Len(audit')
      /\ \A i \in Kinds(Lifecycle)' : i <= Len(audit) => i \in Kinds(Lifecycle) /\ audit'[i] = audit[i]
  BY EarlierActions
<1>3. /\ opener[q].at \in {"build", "append"} => opener[q].previous \in Nat
      /\ opener'[q].at \in {"build", "append"} => opener'[q].previous \in Nat
  BY OthersStay DEF ErasureShape, States
<1>4. /\ Removing(q) => erasure \in Given
      /\ opener[q].at \in {"quote", "card"} \/ Recording(q, Lifecycle \cup {"card"}) => erasure # "none"
      /\ Recording(q, Lifecycle \ {"completion"}) =>
           /\ opener[q].previous <= Len(audit)
           /\ \A i \in Kinds(Lifecycle) :
                i <= opener[q].previous => audit[i].instant <= opener[q].instant
  BY DEF Reached
<1>5. /\ Kinds(Lifecycle)' \subseteq Nat
      /\ LastAt(Kinds(Lifecycle)) \in 0..Len(audit)
      /\ \A i \in Kinds(Lifecycle) : i <= LastAt(Kinds(Lifecycle))
  <2>1. Kinds(Lifecycle) \subseteq 1..Len(audit)
    BY KindsFacts DEF ErasureShape
  <2>2. Kinds(Lifecycle)' \subseteq 1..Len(audit')
    BY ShapeStep DEF ErasureShape, Kinds
  <2> QED
    BY <2>1, <2>2, <1>2, LastFacts
<1>6. CASE q # o
  <2>1. opener'[q] = opener[q]
    BY <1>6, OthersStay
  <2>2. /\ Removing(q)' = Removing(q)
        /\ \A set : Recording(q, set)' = Recording(q, set)
    BY <2>1 DEF Removing, Recording
  <2>3. Recording(q, Lifecycle \ {"completion"}) => opener[q].previous \in Nat
    BY <1>3 DEF Recording
  <2> QED
    BY <1>1, <1>2, <1>4, <1>5, <2>1, <2>2, <2>3
<1>7. CASE q = o
  <2>1. Removing(o)' => Removing(o) \/ erasure \in Given
    BY NextPlace
  <2>2. opener'[o].at \in {"quote", "card"} => erasure # "none"
    BY NextPlace, <1>4, <1>7
  <2>3. Recording(o, {"card"})' => opener[o].at = "card" \/ Recording(o, {"card"})
    BY NextPlace
  <2>4. Recording(o, {"card"}) => Recording(o, Lifecycle \cup {"card"})
    BY DEF Recording
  <2>5. Recording(o, Lifecycle)' =>
          \/ Recording(o, {"completion"})' /\ Removing(o)
          \/ opener[o].at = "build" /\ audit' = audit /\ opener[o].kind \in Lifecycle
               /\ opener'[o].kind = opener[o].kind
               /\ opener'[o].previous = opener[o].previous
               /\ opener'[o].instant = opener[o].instant
          \/ audit' = audit /\ erasure # "none"
               /\ opener'[o].previous = LastAt(Kinds(Lifecycle))
               /\ \A i \in Kinds(Lifecycle) : audit[i].instant <= opener'[o].instant
    BY NextPlace
  <2>6. /\ Recording(o, Lifecycle \cup {"card"})' <=> Recording(o, Lifecycle)' \/ Recording(o, {"card"})'
        /\ Recording(o, Lifecycle \ {"completion"})' <=> Recording(o, Lifecycle)' /\ ~Recording(o, {"completion"})'
        /\ opener[o].at = "build" /\ opener[o].kind \in Lifecycle => Recording(o, Lifecycle \cup {"card"})
        /\ opener[o].at = "build" /\ opener[o].kind \in Lifecycle /\ opener'[o].kind = opener[o].kind
              /\ Recording(o, Lifecycle \ {"completion"})' => Recording(o, Lifecycle \ {"completion"})
    BY DEF Recording, Lifecycle
  <2>7. Recording(o, Lifecycle)' => erasure # "none"
    BY <2>5, <2>6, <1>4, <1>7 DEF Given
  <2>8. Recording(o, Lifecycle \ {"completion"})' =>
          /\ audit' = audit
          /\ opener'[o].previous <= Len(audit)
          /\ \A i \in Kinds(Lifecycle) : i <= opener'[o].previous => audit[i].instant <= opener'[o].instant
    BY <2>5, <2>6, <1>4, <1>5, <1>7, <1>2
  <2>9. audit' = audit => Kinds(Lifecycle)' = Kinds(Lifecycle)
    BY KindsStay
  <2> QED
    BY <1>1, <1>4, <1>7, <2>1, <2>2, <2>3, <2>4, <2>6, <2>7, <2>8, <2>9
<1> QED
  BY <1>6, <1>7
-----------------------------------------------------------------------------
LEMMA WedgesStay ==
  ASSUME NEW o \in Openers, Turn(o)
  PROVE  wedges \subseteq wedges'
  BY DEF Turn,
     OpenStore, VerifyDurableIntegrity, CloseStore, BeginAppend, NumberRecord, AppendDecided,
     BeginIntake, MakeObject, PublishSource, AppendProvenance, BeginCard, QuoteSource, PutCard, AppendCard,
     CompleteDeletion, BeginRemoval, RenameObject, RemoveTree, RemovalFails, VerifySourceAbsent,
     AppendDeletionCompletion, RecordDeletionFailure, OpenerDies

\* Who stores the bytes of a source: from the publication to the record.
LEMMA IntakeSteps ==
  ASSUME ErasureShape, RowAgrees, NEW o \in Openers, Turn(o)
  PROVE  /\ Recording(o, {"provenance"})' =>
              \/ Recording(o, {"provenance"}) /\ UNCHANGED <<bytes, erasure, object, wedges>>
              \/ /\ PublishSource(o) /\ ~bytes /\ bytes' /\ "active" \in object
                 /\ UNCHANGED <<erasure, object, wedges>>
         /\ Recording(o, {"provenance"}) /\ ~Recording(o, {"provenance"})' =>
              AppendProvenance(o) \/ (OpenerDies(o) /\ "died_storing" \in wedges')
<1>1. /\ \A x : (Goes(o, x) => opener'[o] = x)
      /\ opener \in [Openers -> States]
  BY DEF Goes, ErasureShape
<1>2. Rest(o) => opener'[o].at \in {"verifying", "idle"}
  BY <1>1 DEF Rest
<1>3. CASE OpenStore(o) \/ VerifyDurableIntegrity(o) \/ CloseStore(o) \/ BeginIntake(o)
            \/ MakeObject(o) \/ BeginCard(o) \/ QuoteSource(o)
  BY <1>1, <1>2, <1>3 DEF Recording, OpenStore, VerifyDurableIntegrity, CloseStore, BeginIntake, MakeObject,
     BeginCard, QuoteSource, MayAct
<1>4. CASE OpenerDies(o)
  BY <1>1, <1>4 DEF Recording, OpenerDies, Storing
<1>5. CASE AppendDecided(o) \/ AppendProvenance(o) \/ AppendCard(o) \/ RecordDeletionFailure(o)
  BY <1>2, <1>5, ErasureAssumption DEF Recording, AppendDecided, AppendProvenance, AppendCard,
     RecordDeletionFailure, Rights, Lifecycle
<1>6. CASE PublishSource(o)
  <2>1. CASE "active" \in object /\ ~bytes
    <3>1. /\ bytes' = TRUE /\ UNCHANGED <<erasure, object, wedges>> /\ opener[o].at = "write"
      BY <1>6, <2>1 DEF PublishSource
    <3> QED
      BY <1>6, <2>1, <3>1 DEF Recording
  <2>2. CASE ~("active" \in object /\ ~bytes)
    BY <1>2, <1>6, <2>2 DEF Recording, PublishSource
  <2> QED
    BY <2>1, <2>2
<1>7. CASE NumberRecord(o)
  BY <1>1, <1>7 DEF Recording, NumberRecord, contentVars
<1>8. CASE BeginAppend(o)
  <2>1. PICK kind \in Asked, n \in Nat, m \in Nat : Builds(o, kind, n, m)
    <3>1. LastAt(Kinds(Lifecycle)) \in Nat
      BY KindsFacts, LastFacts DEF ErasureShape
    <3> QED
      BY <1>8, <3>1, ErasureAssumption DEF BeginAppend
  <2>2. opener'[o] = [at |-> "build", kind |-> kind, previous |-> n, instant |-> m]
    BY <1>1, <2>1 DEF Builds
  <2>3. kind # "provenance"
    BY ErasureAssumption DEF Rights, Lifecycle
  <2> QED
    BY <1>8, <2>2, <2>3 DEF Recording, BeginAppend, MayAct
<1>9. CASE PutCard(o)
  BY <1>1, <1>2, <1>9 DEF Recording, PutCard
<1>10. CASE CompleteDeletion(o)
  BY <1>1, <1>2, <1>10 DEF Recording, CompleteDeletion, MayAct
<1>11. CASE BeginRemoval(o) \/ RenameObject(o) \/ RemoveTree(o) \/ RemovalFails(o)
  BY <1>1, <1>2, <1>11, Proceeds DEF Recording, BeginRemoval, RenameObject, RemoveTree, RemovalFails
<1>12. CASE VerifySourceAbsent(o)
  BY <1>1, <1>12, Proceeds DEF Recording, VerifySourceAbsent, Builds
<1>13. CASE AppendDeletionCompletion(o)
  BY <1>1, <1>2, <1>13, Proceeds DEF Recording, AppendDeletionCompletion
<1> QED
  BY <1>3, <1>4, <1>5, <1>6, <1>7, <1>8, <1>9, <1>10, <1>11, <1>12, <1>13 DEF Turn

\* Bytes disappear with a removal, a collision or a refused record.
LEMMA BytesStay ==
  ASSUME ErasureShape, NEW o \in Openers, Turn(o), bytes, ~bytes'
  PROVE  \/ RenameObject(o) \/ "intakes_collided" \in wedges'
         \/ AppendProvenance(o) /\ erasure = "none" /\ erasure' = "none"
<1>1. CASE PublishSource(o)
  BY <1>1 DEF PublishSource
<1>2. CASE AppendProvenance(o)
  BY <1>2 DEF AppendProvenance
<1> QED
  BY <1>1, <1>2 DEF contentVars, Turn,
     OpenStore, VerifyDurableIntegrity, CloseStore, BeginAppend, NumberRecord, AppendDecided,
     BeginIntake, MakeObject, PublishSource, AppendProvenance, BeginCard, QuoteSource, PutCard, AppendCard,
     CompleteDeletion, BeginRemoval, RenameObject, RemoveTree, RemovalFails, VerifySourceAbsent,
     AppendDeletionCompletion, RecordDeletionFailure, OpenerDies

LEMMA TakenInStep ==
  ASSUME ErasureShape, RowAgrees, Reached, TakenIn, NEW o \in Openers, Turn(o)
  PROVE  TakenIn'
<1> SUFFICES ASSUME "intakes_collided" \notin wedges'
             PROVE  /\ erasure' = "active" => bytes' /\ retained'
                    /\ erasure' = "none" =>
                         \A p \in Openers : Recording(p, {"provenance"})' =>
                           bytes' /\ \A q \in Openers : Recording(q, {"provenance"})' => q = p
  BY DEF TakenIn
<1>1. /\ erasure = "active" => bytes /\ retained
      /\ erasure = "none" =>
           \A p \in Openers : Recording(p, {"provenance"}) =>
             bytes /\ \A q \in Openers : Recording(q, {"provenance"}) => q = p
  BY WedgesStay DEF TakenIn
<1>2. RenameObject(o) => erasure \in Given
  BY DEF Reached, Removing, RenameObject
<1>3. erasure' = "none" => erasure = "none"
  BY ErasureGoesOn
<1>4. erasure' = "active" => erasure = "active" \/ (AppendProvenance(o) /\ erasure = "none")
  BY DEF Ask, Turn,
     OpenStore, VerifyDurableIntegrity, CloseStore, BeginAppend, NumberRecord, AppendDecided,
     BeginIntake, MakeObject, PublishSource, AppendProvenance, BeginCard, QuoteSource, PutCard, AppendCard,
     CompleteDeletion, BeginRemoval, RenameObject, RemoveTree, RemovalFails, VerifySourceAbsent,
     AppendDeletionCompletion, RecordDeletionFailure, OpenerDies
<1>5. CASE erasure' = "active"
  <2>1. CASE erasure = "active"
    <3>1. bytes'
      BY <1>1, <1>2, <2>1, BytesStay DEF Given
    <3>2. retained'
      <4>1. retained' = retained \/ erasure' \in {"completed", "incomplete"} \/ retained' = TRUE
        BY DEF Turn,
           OpenStore, VerifyDurableIntegrity, CloseStore, BeginAppend, NumberRecord, AppendDecided,
         BeginIntake, MakeObject, PublishSource, AppendProvenance, BeginCard, QuoteSource, PutCard, AppendCard,
         CompleteDeletion, BeginRemoval, RenameObject, RemoveTree, RemovalFails, VerifySourceAbsent,
         AppendDeletionCompletion, RecordDeletionFailure, OpenerDies
      <4> QED
        BY <4>1, <1>1, <1>5, <2>1
    <3> QED
      BY <3>1, <3>2, <1>5
  <2>2. CASE AppendProvenance(o) /\ erasure = "none"
    <3>1. Recording(o, {"provenance"})
      BY <2>2 DEF AppendProvenance, Recording
    <3>2. bytes
      BY <1>1, <2>2, <3>1
    <3>3. bytes' = bytes /\ retained' = TRUE
      BY <1>5, <2>2 DEF AppendProvenance
    <3> QED
      BY <1>5, <3>2, <3>3
  <2> QED
    BY <1>4, <1>5, <2>1, <2>2
<1>6. CASE erasure' = "none"
  <2>1. erasure = "none"
    BY <1>3, <1>6
  <2>2. \A q \in Openers : q # o => (Recording(q, {"provenance"})' <=> Recording(q, {"provenance"}))
    BY OthersStay DEF Recording
  <2>3. CASE Recording(o, {"provenance"})'
    <3>1. CASE Recording(o, {"provenance"}) /\ UNCHANGED <<bytes, erasure, object, wedges>>
      BY <1>1, <1>6, <2>1, <2>2, <3>1
    <3>2. CASE ~bytes /\ bytes'
      <4>1. \A q \in Openers : Recording(q, {"provenance"})' => q = o
        BY <1>1, <2>1, <2>2, <3>2
      <4> QED
        BY <1>6, <3>2, <4>1
    <3> QED
      BY <2>3, <3>1, <3>2, IntakeSteps
  <2>4. CASE ~Recording(o, {"provenance"})'
    <3>1. ASSUME NEW p \in Openers, Recording(p, {"provenance"})'
          PROVE  bytes' /\ \A q \in Openers : Recording(q, {"provenance"})' => q = p
      <4>1. p # o /\ Recording(p, {"provenance"})
        BY <2>2, <2>4, <3>1
      <4>2. bytes /\ ~Recording(o, {"provenance"})
        BY <1>1, <2>1, <4>1
      <4>3. ~AppendProvenance(o) /\ ~RenameObject(o)
        BY <1>2, <2>1, <4>2 DEF AppendProvenance, Recording, Given
      <4> QED
        BY <1>1, <2>1, <2>2, <2>4, <4>1, <4>2, <4>3, BytesStay
    <3> QED
      BY <1>6, <3>1
  <2> QED
    BY <2>3, <2>4
<1> QED
  BY <1>5, <1>6

LEMMA Drafts ==
  ASSUME ErasureShape, NEW o \in Openers, BeginAppend(o)
  PROVE  \E kind \in Asked, n \in Nat, m \in Nat :
           opener'[o] = [at |-> "build", kind |-> kind, previous |-> n, instant |-> m]
<1>1. LastAt(Kinds(Lifecycle)) \in Nat
  BY KindsFacts, LastFacts DEF ErasureShape
<1>2. PICK kind \in Asked, n \in Nat, m \in Nat : Builds(o, kind, n, m)
  BY <1>1, ErasureAssumption DEF BeginAppend
<1> QED
  BY <1>2 DEF Builds, Goes, ErasureShape

LEMMA RemoversStep ==
  ASSUME ErasureShape, RowAgrees, NEW o \in Openers, Turn(o), BeingRemoved'
  PROVE  BeingRemoved \/ (BeginRemoval(o) /\ erasure' = "removing")
<1>1. PICK q \in Openers : opener'[q].at \in {"rename", "remove"}
  BY DEF BeingRemoved
<1>2. CASE q # o
  BY <1>1, <1>2, OthersStay DEF BeingRemoved
<1>3. CASE q = o
  <2>1. /\ \A x : (Goes(o, x) => opener'[o] = x)
        /\ opener \in [Openers -> States]
    BY DEF Goes, ErasureShape
  <2>2. Rest(o) => opener'[o].at \in {"verifying", "idle"}
    BY <2>1 DEF Rest
  <2>3. CASE OpenStore(o) \/ VerifyDurableIntegrity(o) \/ CloseStore(o) \/ BeginIntake(o)
              \/ MakeObject(o) \/ BeginCard(o) \/ QuoteSource(o) \/ OpenerDies(o) \/ AppendDecided(o)
              \/ AppendProvenance(o) \/ AppendCard(o) \/ RecordDeletionFailure(o)
              \/ PublishSource(o) \/ NumberRecord(o) \/ PutCard(o) \/ CompleteDeletion(o)
    BY <1>1, <1>3, <2>1, <2>2, <2>3 DEF OpenStore, VerifyDurableIntegrity, CloseStore, BeginIntake,
       MakeObject, BeginCard, QuoteSource, OpenerDies, AppendDecided, AppendProvenance, AppendCard,
       RecordDeletionFailure, PublishSource, Builds, NumberRecord, PutCard, CompleteDeletion
  <2>4. CASE BeginAppend(o)
    <3>1. PICK kind \in Asked, n \in Nat, m \in Nat :
            opener'[o] = [at |-> "build", kind |-> kind, previous |-> n, instant |-> m]
      BY <2>4, Drafts
    <3>2. opener'[o].at = "build"
      BY <3>1
    <3> QED
      BY <1>1, <1>3, <3>2
  <2>5. CASE BeginRemoval(o)
    BY <1>1, <1>3, <2>2, <2>5 DEF BeginRemoval
  <2>6. CASE RenameObject(o) \/ RemoveTree(o) \/ RemovalFails(o)
    BY <2>6 DEF RenameObject, RemoveTree, RemovalFails, BeingRemoved
  <2>7. CASE VerifySourceAbsent(o)
    BY <1>1, <1>3, <2>1, <2>7, Proceeds DEF VerifySourceAbsent, Builds
  <2>8. CASE AppendDeletionCompletion(o)
    BY <1>1, <1>3, <2>1, <2>2, <2>8, Proceeds DEF AppendDeletionCompletion
  <2> QED
    BY <2>3, <2>4, <2>5, <2>6, <2>7, <2>8 DEF Turn
<1> QED
  BY <1>2, <1>3

LEMMA AskedForStep ==
  ASSUME ErasureShape, RowAgrees, AskedFor, NEW o \in Openers, Turn(o)
  PROVE  AskedFor'
<1> SUFFICES ASSUME erasure' = "requested",
                    wedges' \cap {"asked_again_late", "intakes_collided"} = {}
             PROVE  object' = {"active"} /\ ~BeingRemoved'
  BY DEF AskedFor
<1>1. wedges \cap {"asked_again_late", "intakes_collided"} = {}
  BY WedgesStay
<1>2. ~BeginRemoval(o) \/ erasure' = erasure
  BY DEF BeginRemoval
<1>3. CASE audit' # audit /\ AppendDecided(o) /\ opener[o].kind = "request"
  <2>1. object = {"active"} /\ ~BeingRemoved /\ UNCHANGED object
    BY <1>3 DEF AppendDecided, contentVars
  <2>2. ~BeginRemoval(o)
    BY <1>3 DEF BeginRemoval
  <2> QED
    BY <2>1, <2>2, RemoversStep
<1>4. CASE ~(audit' # audit /\ AppendDecided(o) /\ opener[o].kind = "request")
  <2>1. erasure = "requested"
    BY <1>4, NoRow DEF Ask, Turn,
       OpenStore, VerifyDurableIntegrity, CloseStore, BeginAppend, NumberRecord, AppendDecided,
       BeginIntake, MakeObject, PublishSource, AppendProvenance, BeginCard, QuoteSource, PutCard, AppendCard,
       CompleteDeletion, BeginRemoval, RenameObject, RemoveTree, RemovalFails, VerifySourceAbsent,
       AppendDeletionCompletion, RecordDeletionFailure, OpenerDies
  <2>2. object = {"active"} /\ ~BeingRemoved
    BY <1>1, <2>1 DEF AskedFor
  <2>3. ~RenameObject(o) /\ ~RemoveTree(o)
    BY <2>2 DEF BeingRemoved, RenameObject, RemoveTree
  <2>4. object' = {"active"}
    BY <2>1, <2>2, <2>3 DEF contentVars, Turn,
       OpenStore, VerifyDurableIntegrity, CloseStore, BeginAppend, NumberRecord, AppendDecided,
       BeginIntake, MakeObject, PublishSource, AppendProvenance, BeginCard, QuoteSource, PutCard, AppendCard,
       CompleteDeletion, BeginRemoval, RenameObject, RemoveTree, RemovalFails, VerifySourceAbsent,
       AppendDeletionCompletion, RecordDeletionFailure, OpenerDies
  <2> QED
    BY <2>2, <2>4, RemoversStep
<1> QED
  BY <1>3, <1>4

LEMMA RegainedStep ==
  ASSUME ErasureShape, RowAgrees, Regained, NEW o \in Openers, Turn(o)
  PROVE  Regained'
<1> SUFFICES ASSUME erasure' = "completed", bytes', "died_storing" \notin wedges'
             PROVE  \E p \in Openers : Recording(p, {"provenance"})'
  BY DEF Regained
<1>1. "died_storing" \notin wedges
  BY WedgesStay
<1>2. erasure = "completed" \/ (object = {} /\ bytes' = bytes)
  BY DEF contentVars, Ask, Turn,
     OpenStore, VerifyDurableIntegrity, CloseStore, BeginAppend, NumberRecord, AppendDecided,
     BeginIntake, MakeObject, PublishSource, AppendProvenance, BeginCard, QuoteSource, PutCard, AppendCard,
     CompleteDeletion, BeginRemoval, RenameObject, RemoveTree, RemovalFails, VerifySourceAbsent,
     AppendDeletionCompletion, RecordDeletionFailure, OpenerDies
<1>3. erasure = "completed"
  BY <1>2 DEF ErasureShape
<1>4. CASE bytes
  <2>1. PICK p \in Openers : Recording(p, {"provenance"})
    BY <1>1, <1>3, <1>4 DEF Regained
  <2>2. CASE p # o
    BY <2>1, <2>2, OthersStay DEF Recording
  <2>3. CASE p = o
    <3>1. ~AppendProvenance(o)
      BY <1>3 DEF AppendProvenance, EmptyObject
    <3> QED
      BY <2>1, <2>3, <3>1, IntakeSteps
  <2> QED
    BY <2>2, <2>3
<1>5. CASE ~bytes
  <2>1. PublishSource(o)
    BY <1>5 DEF contentVars, EmptyObject, Turn,
       OpenStore, VerifyDurableIntegrity, CloseStore, BeginAppend, NumberRecord, AppendDecided,
       BeginIntake, MakeObject, PublishSource, AppendProvenance, BeginCard, QuoteSource, PutCard, AppendCard,
       CompleteDeletion, BeginRemoval, RenameObject, RemoveTree, RemovalFails, VerifySourceAbsent,
       AppendDeletionCompletion, RecordDeletionFailure, OpenerDies
  <2>2. "active" \in object /\ Builds(o, "provenance", 0, 0)
    BY <1>5, <2>1 DEF PublishSource, EmptyObject
  <2> QED
    BY <2>2 DEF Builds, Goes, Recording, ErasureShape
<1> QED
  BY <1>4, <1>5
-----------------------------------------------------------------------------
\* Who writes a card has it recorded or refused, or dies.
LEMMA QuotingSteps ==
  ASSUME ErasureShape, RowAgrees, NEW o \in Openers, Turn(o)
  PROVE  \/ Quoting' = Quoting /\ ~AppendCard(o) /\ (PutCard(o) => UNCHANGED cards)
         \/ PutCard(o) /\ o \notin Quoting /\ Quoting' = Quoting \cup {o} /\ cards' = cards + 1
         \/ AppendCard(o) /\ o \in Quoting /\ Quoting' = Quoting \ {o}
         \/ "died_storing" \in wedges'
<1>1. /\ \A x : (Goes(o, x) => opener'[o] = x)
      /\ opener \in [Openers -> States]
  BY DEF Goes, ErasureShape
<1>2. Rest(o) => opener'[o].at \in {"verifying", "idle"}
  BY <1>1 DEF Rest
<1>3. \A q \in Openers : q # o => (Recording(q, {"card"})' <=> Recording(q, {"card"}))
  BY OthersStay DEF Recording
<1>4. ASSUME Recording(o, {"card"})' <=> Recording(o, {"card"}) PROVE Quoting' = Quoting
  BY <1>3, <1>4 DEF Quoting
<1>5. CASE OpenStore(o) \/ VerifyDurableIntegrity(o) \/ CloseStore(o) \/ BeginIntake(o)
            \/ MakeObject(o) \/ BeginCard(o) \/ QuoteSource(o)
  BY <1>1, <1>2, <1>4, <1>5 DEF Recording, OpenStore, VerifyDurableIntegrity, CloseStore, BeginIntake, MakeObject,
     BeginCard, QuoteSource, MayAct, AppendCard, PutCard
<1>6. CASE OpenerDies(o)
  <2>1. opener'[o].at = "over" /\ opener[o].at # "over"
    BY <1>1, <1>6 DEF OpenerDies
  <2>2. CASE Recording(o, {"card"})
    BY <1>6, <2>2 DEF OpenerDies, Storing, Recording
  <2>3. CASE ~Recording(o, {"card"})
    <3>1. Quoting' = Quoting
      BY <1>4, <2>1, <2>3 DEF Recording
    <3>2. ~AppendCard(o)
      BY <2>3 DEF AppendCard, Recording
    <3> QED
      BY <1>6, <3>1, <3>2 DEF OpenerDies, contentVars
  <2> QED
    BY <2>2, <2>3
<1>7. CASE AppendDecided(o) \/ AppendProvenance(o) \/ RecordDeletionFailure(o)
  BY <1>2, <1>4, <1>7, ErasureAssumption DEF Recording, AppendDecided, AppendProvenance, AppendCard,
     RecordDeletionFailure, Rights, Lifecycle, PutCard
<1>8. CASE PublishSource(o)
  BY <1>1, <1>2, <1>4, <1>8 DEF Recording, PublishSource, Builds, AppendCard, PutCard
<1>9. CASE NumberRecord(o)
  BY <1>1, <1>4, <1>9 DEF Recording, NumberRecord, AppendCard, PutCard
<1>10. CASE BeginAppend(o)
  <2>1. PICK kind \in Asked, n \in Nat, m \in Nat :
          opener'[o] = [at |-> "build", kind |-> kind, previous |-> n, instant |-> m]
    BY <1>10, Drafts
  <2>2. kind # "card" /\ opener'[o].kind = kind
    BY <2>1, ErasureAssumption DEF Rights, Lifecycle
  <2>3. opener[o].at = "idle"
    BY <1>10 DEF BeginAppend, MayAct
  <2> QED
    BY <1>4, <2>2, <2>3 DEF Recording, AppendCard, PutCard
<1>11. CASE PutCard(o)
  <2>1. opener[o].at = "card"
    BY <1>11 DEF PutCard
  <2>2. CASE bytes
    <3>1. cards' = cards + 1 /\ opener'[o].at = "append" /\ opener'[o].kind = "card"
      BY <1>1, <1>11, <2>2 DEF PutCard
    <3>2. o \notin Quoting /\ Quoting' = Quoting \cup {o}
      BY <1>3, <2>1, <3>1 DEF Quoting, Recording
    <3> QED
      BY <1>11, <3>1, <3>2
  <2>3. CASE ~bytes
    <3>1. UNCHANGED cards /\ opener'[o].at \in {"verifying", "idle"}
      BY <1>2, <1>11, <2>3 DEF PutCard
    <3> QED
      BY <1>4, <2>1, <3>1 DEF Recording, AppendCard
  <2> QED
    BY <2>2, <2>3
<1>12. CASE AppendCard(o)
  <2>1. Recording(o, {"card"}) /\ opener'[o].at \in {"verifying", "idle"}
    BY <1>2, <1>12 DEF AppendCard, Recording
  <2>2. o \in Quoting /\ Quoting' = Quoting \ {o}
    BY <1>3, <2>1 DEF Quoting, Recording
  <2> QED
    BY <1>12, <2>2
<1>13. CASE CompleteDeletion(o)
  BY <1>1, <1>2, <1>4, <1>13 DEF Recording, CompleteDeletion, MayAct, AppendCard, PutCard
<1>14. CASE BeginRemoval(o) \/ RenameObject(o) \/ RemoveTree(o) \/ RemovalFails(o)
  <2>1. opener[o].at \in {"begin", "rename", "remove"}
    BY <1>14 DEF BeginRemoval, RenameObject, RemoveTree, RemovalFails
  <2>2. opener'[o].at \in {"rename", "remove", "verify", "failed", "verifying", "idle"}
    BY <1>1, <1>2, <1>14, Proceeds DEF BeginRemoval, RenameObject, RemoveTree, RemovalFails
  <2> QED
    BY <1>4, <2>1, <2>2 DEF Recording, AppendCard, PutCard
<1>15. CASE VerifySourceAbsent(o)
  <2>1. opener[o].at = "verify"
    BY <1>15 DEF VerifySourceAbsent
  <2>2. opener'[o].at = "failed" \/ (opener'[o].at = "build" /\ opener'[o].kind = "completion")
    BY <1>1, <1>15, Proceeds DEF VerifySourceAbsent, Builds
  <2> QED
    BY <1>4, <2>1, <2>2 DEF Recording, AppendCard, PutCard
<1>16. CASE AppendDeletionCompletion(o)
  <2>1. opener[o].at = "append" /\ opener[o].kind = "completion"
    BY <1>16 DEF AppendDeletionCompletion
  <2>2. opener'[o].at \in {"failed", "verifying", "idle"}
    BY <1>1, <1>2, <1>16, Proceeds DEF AppendDeletionCompletion
  <2> QED
    BY <1>4, <2>1, <2>2 DEF Recording, AppendCard, PutCard
<1> QED
  BY <1>5, <1>6, <1>7, <1>8, <1>9, <1>10, <1>11, <1>12, <1>13, <1>14, <1>15, <1>16 DEF Turn

\* Who comes to store a source, and who ends it.
LEMMA WriterSteps ==
  ASSUME ErasureShape, RowAgrees, NEW o \in Openers, Turn(o)
  PROVE  /\ opener'[o].at = "write" => MakeObject(o)
         /\ MakeObject(o) => opener'[o].at = "write"
         /\ opener[o].at = "write" =>
              \/ PublishSource(o) /\ Recording(o, {"provenance"})'
              \/ wedges' # {}
<1>1. /\ \A x : (Goes(o, x) => opener'[o] = x)
      /\ opener \in [Openers -> States]
  BY DEF Goes, ErasureShape
<1>2. Rest(o) => opener'[o].at \in {"verifying", "idle"}
  BY <1>1 DEF Rest
<1>3. MakeObject(o) => opener'[o].at = "write"
  BY <1>1 DEF MakeObject
<1>4. opener'[o].at = "write" => MakeObject(o)
  <2>1. CASE OpenStore(o) \/ VerifyDurableIntegrity(o) \/ CloseStore(o) \/ BeginIntake(o)
              \/ BeginCard(o) \/ QuoteSource(o) \/ OpenerDies(o) \/ AppendDecided(o)
              \/ AppendProvenance(o) \/ AppendCard(o) \/ RecordDeletionFailure(o)
              \/ PublishSource(o) \/ NumberRecord(o) \/ PutCard(o) \/ CompleteDeletion(o)
    BY <1>1, <1>2, <2>1 DEF OpenStore, VerifyDurableIntegrity, CloseStore, BeginIntake,
       MakeObject, BeginCard, QuoteSource, OpenerDies, AppendDecided, AppendProvenance, AppendCard,
       RecordDeletionFailure, PublishSource, Builds, NumberRecord, PutCard, CompleteDeletion
  <2>2. CASE BeginAppend(o)
    <3>1. PICK kind \in Asked, n \in Nat, m \in Nat :
            opener'[o] = [at |-> "build", kind |-> kind, previous |-> n, instant |-> m]
      BY <2>2, Drafts
    <3> QED
      BY <3>1
  <2>3. CASE BeginRemoval(o) \/ RenameObject(o) \/ RemoveTree(o) \/ RemovalFails(o)
    BY <1>1, <1>2, <2>3, Proceeds DEF BeginRemoval, RenameObject, RemoveTree, RemovalFails
  <2>4. CASE VerifySourceAbsent(o)
    BY <1>1, <2>4, Proceeds DEF VerifySourceAbsent, Builds
  <2>5. CASE AppendDeletionCompletion(o)
    BY <1>1, <1>2, <2>5, Proceeds DEF AppendDeletionCompletion
  <2> QED
    BY <2>1, <2>2, <2>3, <2>4, <2>5 DEF Turn
<1>5. ASSUME opener[o].at = "write"
      PROVE  \/ PublishSource(o) /\ Recording(o, {"provenance"})'
             \/ wedges' # {}
  <2>1. PublishSource(o) \/ OpenerDies(o)
    BY <1>5 DEF MayAct, Turn,
       OpenStore, VerifyDurableIntegrity, CloseStore, BeginAppend, NumberRecord, AppendDecided,
       BeginIntake, MakeObject, PublishSource, AppendProvenance, BeginCard, QuoteSource, PutCard, AppendCard,
       CompleteDeletion, BeginRemoval, RenameObject, RemoveTree, RemovalFails, VerifySourceAbsent,
       AppendDeletionCompletion, RecordDeletionFailure, OpenerDies
  <2>2. CASE PublishSource(o)
    BY <1>1, <2>2 DEF PublishSource, Builds, Recording
  <2>3. CASE OpenerDies(o)
    BY <1>5, <2>3 DEF OpenerDies, Storing
  <2> QED
    BY <2>1, <2>2, <2>3
<1> QED
  BY <1>3, <1>4, <1>5

\* What was restless stays so.
LEMMA CalmBefore ==
  ASSUME ErasureShape, RowAgrees, Reached, NEW o \in Openers, Turn(o), Calm'
  PROVE  Calm /\ wedges' = {}
<1>1. wedges = {} /\ wedges' = {}
  BY WedgesStay DEF Calm
<1>2. SUFFICES ASSUME erasure # "none", NEW p \in Openers, Intaking(p) PROVE FALSE
  BY <1>1 DEF Calm
<1>3. erasure' # "none" /\ ~Intaking(p)'
  BY <1>2, ErasureGoesOn DEF Calm
<1>4. p = o
  BY <1>2, <1>3, OthersStay DEF Intaking, Recording
<1>5. CASE opener[o].at = "write"
  BY <1>1, <1>3, <1>4, <1>5, WriterSteps DEF Intaking
<1>6. CASE Recording(o, {"provenance"})
  <2>1. AppendProvenance(o)
    BY <1>1, <1>3, <1>4, <1>6, IntakeSteps DEF Intaking
  <2> QED
    BY <1>1, <1>2, <2>1 DEF AppendProvenance
<1> QED
  BY <1>2, <1>4, <1>5, <1>6 DEF Intaking
-----------------------------------------------------------------------------
Earlier(set, i) == {j \in Kinds(set) : j < i}

\* A chain with one more record that follows the last action.
LEMMA ChainGrows ==
  ASSUME ErasureShape, Chained, NEW r \in RightsRow, audit' = Append(audit, r),
         r.kind \in Lifecycle =>
           /\ r.previous = LastAt(Kinds(Lifecycle))
           /\ \A j \in Kinds(Lifecycle) : audit[j].instant <= r.instant
           /\ r.kind = "completion" =>
                /\ LastAt(Kinds({"request"})) > LastAt(Kinds({"completion"}))
                /\ LastAt(Kinds({"hold"})) <= LastAt(Kinds({"release"}))
  PROVE  Chained'
<1> DEFINE n == Len(audit) + 1
<1>1. /\ \A set : Kinds(set)' = IF r.kind \in set THEN Kinds(set) \cup {n} ELSE Kinds(set)
      /\ \A i \in DOMAIN audit : audit'[i] = audit[i]
      /\ audit'[n] = r
  BY OneRow DEF ErasureShape
<1>2. \A set : Kinds(set) \subseteq 1..Len(audit)
  BY KindsFacts DEF ErasureShape
<1>3. Len(audit) \in Nat /\ DOMAIN audit = 1..Len(audit)
  BY DEF ErasureShape
<1> HIDE DEF n
<1>4. n \in Nat /\ \A i \in 1..Len(audit) : i < n /\ ~(n < i)
  BY <1>3 DEF n
<1>5. /\ \A set : \A i \in 1..Len(audit) : Earlier(set, i)' = Earlier(set, i)
      /\ \A set, m : m = n => Earlier(set, m)' = Kinds(set)
  <2>1. ASSUME NEW set, NEW i \in 1..Len(audit) PROVE Earlier(set, i)' = Earlier(set, i)
    BY <1>1, <1>4 DEF Earlier
  <2>2. ASSUME NEW set, NEW m, m = n PROVE Earlier(set, m)' = Kinds(set)
    BY <1>1, <1>2, <1>4, <2>2 DEF Earlier
  <2> QED
    BY <2>1, <2>2
<1> SUFFICES ASSUME NEW i \in Kinds(Lifecycle)'
             PROVE  /\ audit'[i].previous = LastAt(Earlier(Lifecycle, i)')
                    /\ \A j \in Kinds(Lifecycle)' : j < i => audit'[j].instant <= audit'[i].instant
                    /\ audit'[i].kind = "completion" =>
                         /\ LastAt(Earlier({"request"}, i)') > LastAt(Earlier({"completion"}, i)')
                         /\ LastAt(Earlier({"hold"}, i)') <= LastAt(Earlier({"release"}, i)')
  BY DEF Chained, Earlier
<1>6. CASE i \in Kinds(Lifecycle)
  <2>1. i \in 1..Len(audit) /\ audit'[i] = audit[i]
    BY <1>1, <1>2, <1>3, <1>6
  <2>2. /\ audit[i].previous = LastAt(Earlier(Lifecycle, i))
        /\ \A j \in Kinds(Lifecycle) : j < i => audit[j].instant <= audit[i].instant
        /\ audit[i].kind = "completion" =>
             /\ LastAt(Earlier({"request"}, i)) > LastAt(Earlier({"completion"}, i))
             /\ LastAt(Earlier({"hold"}, i)) <= LastAt(Earlier({"release"}, i))
    BY <1>6 DEF Chained, Earlier
  <2>3. ASSUME NEW j \in Kinds(Lifecycle)', j < i PROVE j \in Kinds(Lifecycle) /\ audit'[j] = audit[j]
    BY <1>1, <1>2, <1>3, <1>4, <2>1, <2>3
  <2>4. /\ Earlier(Lifecycle, i)' = Earlier(Lifecycle, i)
        /\ Earlier({"request"}, i)' = Earlier({"request"}, i)
        /\ Earlier({"completion"}, i)' = Earlier({"completion"}, i)
        /\ Earlier({"hold"}, i)' = Earlier({"hold"}, i)
        /\ Earlier({"release"}, i)' = Earlier({"release"}, i)
    BY <1>5, <2>1
  <2> QED
    BY <2>1, <2>2, <2>3, <2>4
<1>7. CASE i = n /\ r.kind \in Lifecycle
  <2>1. ASSUME NEW j \in Kinds(Lifecycle)', j < i PROVE j \in Kinds(Lifecycle) /\ audit'[j] = audit[j]
    BY <1>1, <1>2, <1>3, <1>4, <1>7, <2>1
  <2>2. /\ Earlier(Lifecycle, i)' = Kinds(Lifecycle)
        /\ Earlier({"request"}, i)' = Kinds({"request"})
        /\ Earlier({"completion"}, i)' = Kinds({"completion"})
        /\ Earlier({"hold"}, i)' = Kinds({"hold"})
        /\ Earlier({"release"}, i)' = Kinds({"release"})
    BY <1>5, <1>7
  <2>3. audit'[i] = r
    BY <1>1, <1>7
  <2> QED
    BY <1>7, <2>1, <2>2, <2>3
<1> QED
  BY <1>1, <1>6, <1>7

LEMMA ChainedStep ==
  ASSUME ErasureShape, RowAgrees, Reached, CalmInv, NEW o \in Openers, Turn(o), Calm, wedges' = {}
  PROVE  Chained'
<1>1. Chained
  BY DEF CalmInv
<1>2. CASE audit' = audit
  BY <1>1, <1>2, KindsStay DEF Chained
<1>3. CASE audit' # audit
  <2>1. /\ opener[o].at = "append" /\ Fits(o) /\ AppendWith(o)
        /\ AppendDecided(o) \/ AppendProvenance(o) \/ AppendCard(o) \/ AppendDeletionCompletion(o)
    BY <1>3, AuditStep
  <2>2. PICK r \in RightsRow : audit' = Append(audit, r) /\ r.kind = opener[o].kind
                         /\ r.previous = opener[o].previous /\ r.instant = opener[o].instant
    BY <2>1, Accepted
  <2>3. /\ Kinds(Lifecycle) \subseteq 1..Len(audit) /\ Len(audit) \in Nat
        /\ \A set : /\ LastAt(Kinds(set)) \in 0..Len(audit)
                    /\ Kinds(set) = {} => LastAt(Kinds(set)) = 0
                    /\ Kinds(set) # {} => LastAt(Kinds(set)) \in Kinds(set)
                    /\ \A j \in Kinds(set) : j <= LastAt(Kinds(set)) /\ j \in 1..Len(audit)
                    /\ \A j \in Kinds(set) : audit[j].instant \in Nat
    <3>1. ASSUME NEW set
          PROVE /\ LastAt(Kinds(set)) \in 0..Len(audit)
                /\ Kinds(set) = {} => LastAt(Kinds(set)) = 0
                /\ Kinds(set) # {} => LastAt(Kinds(set)) \in Kinds(set)
                /\ \A j \in Kinds(set) : j <= LastAt(Kinds(set)) /\ j \in 1..Len(audit)
      BY KindsFacts, LastFacts DEF ErasureShape
    <3>2. ASSUME NEW set, NEW j \in Kinds(set) PROVE audit[j].instant \in Nat
      BY KindsFacts DEF ErasureShape, Kinds, RightsRow
    <3> QED
      BY <3>1, <3>2, KindsFacts DEF ErasureShape
  <2>4. CASE AppendProvenance(o) \/ AppendCard(o)
    <3>1. r.kind \notin Lifecycle
      BY <2>2, <2>4 DEF AppendProvenance, AppendCard, Lifecycle
    <3> QED
      BY <1>1, <2>2, <3>1, ChainGrows
  <2>5. CASE AppendDecided(o) /\ r.kind \notin Lifecycle
    BY <1>1, <2>2, <2>5, ChainGrows
  <2>6. CASE AppendDecided(o) /\ r.kind \in Lifecycle
    <3>1. r.kind # "completion"
      BY <2>2, <2>6, ErasureAssumption DEF AppendDecided
    <3>2. opener[o].previous = LastAt(Kinds(Lifecycle))
      BY <1>3, <2>2, <2>6 DEF AppendDecided
    <3>3. Recording(o, Lifecycle \ {"completion"})
      BY <2>1, <2>2, <2>6, <3>1 DEF Recording
    <3>4. \A j \in Kinds(Lifecycle) : audit[j].instant <= r.instant
      BY <2>2, <2>3, <3>2, <3>3 DEF Reached
    <3> QED
      BY <1>1, <2>2, <3>1, <3>2, <3>4, ChainGrows
  <2>7. CASE AppendDeletionCompletion(o)
    <3>1. /\ r.kind = "completion" /\ erasure = "removing" /\ Kinds({"completion"}) = {}
          /\ ~\E i \in Kinds(Lifecycle) : audit[i].instant > opener[o].instant
      BY <1>3, <2>2, <2>7 DEF AppendDeletionCompletion
    <3>2. Recording(o, {"completion"})
      BY <2>1, <2>2, <3>1 DEF Recording
    <3>3. opener[o].previous = LastAt(Kinds(Lifecycle)) /\ ~OnHold
      BY <3>1, <3>2 DEF CalmInv, Present
    <3>4. \A j \in Kinds(Lifecycle) : audit[j].instant <= r.instant
      <4>1. r.instant \in Nat
        BY DEF RightsRow
      <4> QED
        BY <2>2, <2>3, <3>1, <4>1
    <3>5. LastAt(Kinds({"request"})) > LastAt(Kinds({"completion"}))
      <4>1. Kinds({"request"}) # {}
        BY <3>1 DEF RowAgrees, Given
      <4> QED
        BY <2>3, <3>1, <4>1
    <3>6. LastAt(Kinds({"hold"})) <= LastAt(Kinds({"release"}))
      <4>1. LastAt(Kinds({"hold"})) \in Nat /\ LastAt(Kinds({"release"})) \in Nat
        BY <2>3
      <4> QED
        BY <3>3, <4>1 DEF OnHold
    <3> QED
      BY <1>1, <2>2, <3>3, <3>4, <3>5, <3>6, ChainGrows
  <2> QED
    BY <2>1, <2>4, <2>5, <2>6, <2>7
<1> QED
  BY <1>2, <1>3

LEMMA DraftsStep ==
  ASSUME ErasureShape, RowAgrees, CalmInv, NEW o \in Openers, Turn(o), Calm, wedges' = {}
  PROVE  drafts' = {p \in Openers : opener'[p].at = "write"}
<1>1. drafts = {p \in Openers : opener[p].at = "write"}
  BY DEF CalmInv
<1>2. \A p \in Openers : p # o => opener'[p] = opener[p]
  BY OthersStay
<1>3. CASE MakeObject(o)
  <2>1. drafts' = drafts \cup {o} /\ opener'[o].at = "write"
    BY <1>3, WriterSteps DEF MakeObject
  <2> QED
    BY <1>1, <1>2, <2>1
<1>4. CASE PublishSource(o)
  <2>1. drafts' = drafts \ {o} /\ opener'[o].at # "write"
    BY <1>4, WriterSteps DEF PublishSource, MakeObject
  <2> QED
    BY <1>1, <1>2, <2>1
<1>5. CASE ~MakeObject(o) /\ ~PublishSource(o)
  <2>1. drafts' = drafts
    BY <1>5 DEF contentVars, Turn,
       OpenStore, VerifyDurableIntegrity, CloseStore, BeginAppend, NumberRecord, AppendDecided,
       BeginIntake, MakeObject, PublishSource, AppendProvenance, BeginCard, QuoteSource, PutCard, AppendCard,
       CompleteDeletion, BeginRemoval, RenameObject, RemoveTree, RemovalFails, VerifySourceAbsent,
       AppendDeletionCompletion, RecordDeletionFailure, OpenerDies
  <2>2. opener'[o].at # "write" /\ opener[o].at # "write"
    BY <1>5, WriterSteps
  <2> QED
    BY <1>1, <1>2, <2>1, <2>2
<1> QED
  BY <1>3, <1>4, <1>5

LEMMA BareStep ==
  ASSUME ErasureShape, RowAgrees, Reached, CalmInv, NEW o \in Openers, Turn(o), Calm, wedges' = {},
         erasure' = "none", object' # {}
  PROVE  \E p \in Openers : Intaking(p)'
<1>1. erasure = "none"
  BY ErasureGoesOn
<1>2. CASE MakeObject(o)
  BY <1>2, WriterSteps DEF Intaking
<1>3. CASE ~MakeObject(o)
  <2>1. ~AppendProvenance(o)
    BY <1>1 DEF AppendProvenance, EmptyObject
  <2>2. ~RenameObject(o)
    BY <1>1 DEF Reached, Removing, RenameObject, Given
  <2>3. object' \subseteq object
    BY <1>3, <2>1, <2>2 DEF contentVars, EmptyObject, Turn,
       OpenStore, VerifyDurableIntegrity, CloseStore, BeginAppend, NumberRecord, AppendDecided,
       BeginIntake, MakeObject, PublishSource, AppendProvenance, BeginCard, QuoteSource, PutCard, AppendCard,
       CompleteDeletion, BeginRemoval, RenameObject, RemoveTree, RemovalFails, VerifySourceAbsent,
       AppendDeletionCompletion, RecordDeletionFailure, OpenerDies
  <2>4. PICK p \in Openers : Intaking(p)
    BY <1>1, <2>3 DEF CalmInv
  <2>5. CASE p # o
    BY <2>4, <2>5, OthersStay DEF Intaking, Recording
  <2>6. CASE p = o /\ opener[o].at = "write"
    BY <2>6, WriterSteps DEF Intaking
  <2>7. CASE p = o /\ Recording(o, {"provenance"})
    BY <2>1, <2>7, IntakeSteps DEF Intaking
  <2> QED
    BY <2>4, <2>5, <2>6, <2>7 DEF Intaking
<1> QED
  BY <1>2, <1>3
-----------------------------------------------------------------------------
LEMMA CompletionSteps ==
  ASSUME ErasureShape, RowAgrees, NEW o \in Openers, Turn(o), Recording(o, {"completion"})'
  PROVE  \/ NumberRecord(o) /\ Recording(o, {"completion"}) /\ opener'[o].previous = opener[o].previous
         \/ VerifySourceAbsent(o) /\ object = {} /\ opener'[o].previous = LastAt(Kinds(Lifecycle))
<1>1. /\ \A x : (Goes(o, x) => opener'[o] = x)
      /\ opener \in [Openers -> States]
  BY DEF Goes, ErasureShape
<1>2. Rest(o) => opener'[o].at \in {"verifying", "idle"}
  BY <1>1 DEF Rest
<1>3. opener'[o].at \in {"build", "append"} /\ opener'[o].kind = "completion"
  BY DEF Recording
<1>4. CASE OpenStore(o) \/ VerifyDurableIntegrity(o) \/ CloseStore(o) \/ BeginIntake(o)
            \/ BeginCard(o) \/ QuoteSource(o) \/ OpenerDies(o) \/ AppendDecided(o) \/ MakeObject(o)
            \/ AppendProvenance(o) \/ AppendCard(o) \/ RecordDeletionFailure(o)
            \/ PublishSource(o) \/ PutCard(o) \/ CompleteDeletion(o)
  BY <1>1, <1>2, <1>3, <1>4 DEF OpenStore, VerifyDurableIntegrity, CloseStore, BeginIntake,
     MakeObject, BeginCard, QuoteSource, OpenerDies, AppendDecided, AppendProvenance, AppendCard,
     RecordDeletionFailure, PublishSource, Builds, PutCard, CompleteDeletion
<1>5. CASE BeginAppend(o)
  <2>1. PICK kind \in Asked, n \in Nat, m \in Nat :
          opener'[o] = [at |-> "build", kind |-> kind, previous |-> n, instant |-> m]
    BY <1>5, Drafts
  <2>2. opener'[o].kind = kind /\ kind # "completion"
    BY <2>1, ErasureAssumption
  <2> QED
    BY <1>3, <2>2
<1>6. CASE BeginRemoval(o) \/ RenameObject(o) \/ RemoveTree(o) \/ RemovalFails(o)
  BY <1>1, <1>2, <1>3, <1>6, Proceeds DEF BeginRemoval, RenameObject, RemoveTree, RemovalFails
<1>7. CASE VerifySourceAbsent(o)
  <2>1. CASE object = {} /\ drafts = {}
    BY <1>1, <1>7, <2>1 DEF VerifySourceAbsent, Builds
  <2>2. CASE ~(object = {} /\ drafts = {})
    <3>1. opener'[o].at = "failed"
      BY <1>1, <1>7, <2>2, Proceeds DEF VerifySourceAbsent
    <3> QED
      BY <1>3, <3>1
  <2> QED
    BY <2>1, <2>2
<1>8. CASE AppendDeletionCompletion(o)
  <2>1. opener'[o].at \in {"failed", "verifying", "idle"}
    BY <1>1, <1>2, <1>8, Proceeds DEF AppendDeletionCompletion
  <2> QED
    BY <1>3, <2>1
<1>9. CASE NumberRecord(o)
  BY <1>1, <1>3, <1>9 DEF NumberRecord, Recording
<1> QED
  BY <1>4, <1>5, <1>6, <1>7, <1>8, <1>9 DEF Turn

LEMMA FirstPresent ==
  ASSUME ErasureShape, RowAgrees, Reached, TakenIn, CalmInv, NEW o \in Openers, Turn(o),
         Calm, wedges' = {}, erasure = "none", erasure' # "none"
  PROVE  Present'
<1>1. AppendProvenance(o) /\ erasure' = "active" /\ audit' # audit
  <2>1. \/ AppendProvenance(o) /\ erasure' = "active"
        \/ AppendDecided(o) /\ opener[o].kind = "request"
    BY DEF Ask, Awaiting, Turn,
       OpenStore, VerifyDurableIntegrity, CloseStore, BeginAppend, NumberRecord, AppendDecided,
       BeginIntake, MakeObject, PublishSource, AppendProvenance, BeginCard, QuoteSource, PutCard, AppendCard,
       CompleteDeletion, BeginRemoval, RenameObject, RemoveTree, RemovalFails, VerifySourceAbsent,
       AppendDeletionCompletion, RecordDeletionFailure, OpenerDies
  <2>2. ~(AppendDecided(o) /\ opener[o].kind = "request")
    BY DEF AppendDecided, Reached, Recording, Lifecycle
  <2>3. AppendProvenance(o) /\ erasure' = "active" => AppendWith(o)
    BY DEF AppendProvenance
  <2> QED
    BY <2>1, <2>2, <2>3, NoRow
<1>2. /\ Recording(o, {"provenance"}) /\ AppendWith(o) /\ Fits(o) /\ opener[o].at = "append"
      /\ UNCHANGED <<object, bytes, cards>>
  BY <1>1 DEF AppendProvenance, Recording
<1>3. bytes /\ object = {"active"}
  <2>1. bytes
    BY <1>2 DEF TakenIn, Calm
  <2> QED
    BY <2>1 DEF ErasureShape, RowAgrees
<1>4. Kinds({"card"}) = {} /\ cards = 0
  BY DEF RowAgrees
<1>5. Kinds({"card"})' = {}
  BY <1>1, <1>2, <1>4, AcceptedKinds DEF Recording
<1>6. Quoting' = {}
  <2>1. \A q \in Openers : ~Recording(q, {"card"}) /\ opener[q].at # "card"
    BY DEF Reached, Recording
  <2>2. ~Recording(o, {"card"})'
    BY <2>1, NextPlace
  <2>3. \A q \in Openers : q # o => ~Recording(q, {"card"})'
    BY <2>1, OthersStay DEF Recording
  <2> QED
    BY <2>2, <2>3 DEF Quoting
<1>7. \A q \in Openers : ~Recording(q, {"completion"})'
  <2>1. Reached'
    BY ReachedStep
  <2> QED
    BY <1>1, <2>1 DEF Reached, Removing, Given
<1>8. Cardinality(Kinds({"card"})') = 0 /\ Cardinality(Quoting') = 0
  BY <1>5, <1>6, FS_EmptySet
<1> QED
  BY <1>1, <1>2, <1>3, <1>4, <1>7, <1>8 DEF Present

LEMMA CardsCounted ==
  ASSUME ErasureShape, RowAgrees, NEW o \in Openers, Turn(o), wedges' = {}, ~EmptyObject, ~RenameObject(o),
         cards = Cardinality(Kinds({"card"})) + Cardinality(Quoting)
  PROVE  cards' = Cardinality(Kinds({"card"})') + Cardinality(Quoting')
<1> DEFINE n == Cardinality(Kinds({"card"}))
           m == Cardinality(Quoting)
<1>1. n \in Nat /\ m \in Nat
  BY KindsFacts, FS_CardinalityType DEF ErasureShape
<1>2. CASE PutCard(o) /\ o \notin Quoting /\ Quoting' = Quoting \cup {o} /\ cards' = cards + 1
  <2>1. Cardinality(Quoting') = m + 1
    BY <1>2, FS_AddElement DEF ErasureShape
  <2>2. Kinds({"card"})' = Kinds({"card"})
    BY <1>2, KindsStay DEF PutCard
  <2> QED
    BY <1>1, <1>2, <2>1, <2>2
<1>3. CASE AppendCard(o) /\ o \in Quoting /\ Quoting' = Quoting \ {o}
  <2>1. Cardinality(Quoting') = m - 1 /\ m > 0
    <3>1. Cardinality(Quoting') = m - 1 /\ Cardinality(Quoting') \in Nat
      BY <1>3, FS_RemoveElement, FS_CardinalityType DEF ErasureShape
    <3> QED
      BY <1>1, <3>1
  <2>2. CASE Fits(o)
    <3>1. AppendWith(o) /\ UNCHANGED cards /\ opener[o].at = "append" /\ opener[o].kind = "card"
      BY <1>3, <2>2 DEF AppendCard
    <3>2. Cardinality(Kinds({"card"})') = n + 1
      BY <2>2, <3>1, AcceptedKinds
    <3> QED
      BY <1>1, <2>1, <3>1, <3>2
  <2>3. CASE ~Fits(o)
    <3>1. cards' = (IF cards > 0 THEN cards - 1 ELSE 0) /\ audit' = audit
      BY <1>3, <2>3 DEF AppendCard
    <3>2. Kinds({"card"})' = Kinds({"card"})
      BY <3>1, KindsStay
    <3> QED
      BY <1>1, <2>1, <3>1, <3>2
  <2> QED
    BY <2>2, <2>3
<1>4. CASE Quoting' = Quoting /\ ~AppendCard(o) /\ (PutCard(o) => UNCHANGED cards)
  <2>1. cards' = cards
    BY <1>4 DEF contentVars, Turn,
       OpenStore, VerifyDurableIntegrity, CloseStore, BeginAppend, NumberRecord, AppendDecided,
       BeginIntake, MakeObject, PublishSource, AppendProvenance, BeginCard, QuoteSource, PutCard, AppendCard,
       CompleteDeletion, BeginRemoval, RenameObject, RemoveTree, RemovalFails, VerifySourceAbsent,
       AppendDeletionCompletion, RecordDeletionFailure, OpenerDies
  <2>2. CASE audit' = audit
    BY <1>4, <2>1, <2>2, KindsStay
  <2>3. CASE audit' # audit
    <3>1. /\ opener[o].at = "append" /\ AppendWith(o) /\ Fits(o)
          /\ AppendDecided(o) \/ AppendProvenance(o) \/ AppendDeletionCompletion(o)
      BY <1>4, <2>3, AuditStep
    <3>2. opener[o].kind # "card"
      BY <3>1, ErasureAssumption DEF AppendDecided, AppendProvenance, AppendDeletionCompletion, Rights, Lifecycle
    <3>3. Kinds({"card"})' = Kinds({"card"})
      BY <3>1, <3>2, AcceptedKinds
    <3> QED
      BY <1>4, <2>1, <3>3
  <2> QED
    BY <2>2, <2>3
<1> QED
  BY <1>2, <1>3, <1>4, QuotingSteps

\* While the directory goes, nothing of the lifecycle is appended.
LEMMA LifecycleRests ==
  ASSUME ErasureShape, NEW o \in Openers, Turn(o), erasure' = "removing",
         NEW set, set \subseteq Lifecycle
  PROVE  Kinds(set)' = Kinds(set)
<1>1. CASE audit' = audit
  BY <1>1, KindsStay
<1>2. CASE audit' # audit
  <2>1. /\ opener[o].at = "append" /\ AppendWith(o) /\ Fits(o)
        /\ AppendDecided(o) \/ AppendProvenance(o) \/ AppendCard(o) \/ AppendDeletionCompletion(o)
    BY <1>2, AuditStep
  <2>2. ~AppendDeletionCompletion(o)
    BY <1>2 DEF AppendDeletionCompletion
  <2>3. AppendProvenance(o) \/ AppendCard(o) => opener[o].kind \notin Lifecycle
    BY DEF AppendProvenance, AppendCard, Lifecycle
  <2>4. AppendDecided(o) => opener[o].kind \notin Lifecycle
    BY <1>2 DEF AppendDecided, Sealed, Ask
  <2> QED
    BY <2>1, <2>2, <2>3, <2>4, AcceptedKinds
<1> QED
  BY <1>1, <1>2

\* A source in a calm store only loses its directories.
LEMMA ObjectSteps ==
  ASSUME ErasureShape, NEW o \in Openers, Turn(o), Calm, Calm', erasure # "none", erasure' # "none",
         wedges' = {}
  PROVE  /\ ~MakeObject(o) /\ ~PublishSource(o) /\ ~AppendProvenance(o)
         /\ \/ object' \subseteq object /\ bytes' = bytes
            \/ RenameObject(o) /\ "active" \in object /\ object' = {"deleting"}
         /\ object' # object => RenameObject(o) \/ RemoveTree(o)
<1>1. ~MakeObject(o)
  <2>1. opener'[o].at = "write" => Intaking(o)'
    BY DEF Intaking
  <2>2. MakeObject(o) => opener'[o].at = "write"
    BY DEF MakeObject, Goes, ErasureShape
  <2> QED
    BY <2>1, <2>2 DEF Calm
<1>2. ~PublishSource(o) /\ ~AppendProvenance(o)
  BY DEF Calm, Intaking, Recording, PublishSource, AppendProvenance
<1>3. \/ UNCHANGED <<object, bytes>> \/ RenameObject(o) \/ RemoveTree(o)
  BY <1>1, <1>2 DEF contentVars, Turn,
     OpenStore, VerifyDurableIntegrity, CloseStore, BeginAppend, NumberRecord, AppendDecided,
     BeginIntake, MakeObject, PublishSource, AppendProvenance, BeginCard, QuoteSource, PutCard, AppendCard,
     CompleteDeletion, BeginRemoval, RenameObject, RemoveTree, RemovalFails, VerifySourceAbsent,
     AppendDeletionCompletion, RecordDeletionFailure, OpenerDies
<1> QED
  BY <1>1, <1>2, <1>3 DEF RenameObject, RemoveTree

LEMMA PresentStep ==
  ASSUME ErasureShape, RowAgrees, Reached, AskedFor, NEW o \in Openers, Turn(o),
         Calm, Calm', wedges' = {}, erasure # "none", Present
  PROVE  Present'
<1>1. erasure' # "none"
  BY ErasureGoesOn
<1>2. /\ ~MakeObject(o) /\ ~PublishSource(o) /\ ~AppendProvenance(o)
      /\ \/ object' \subseteq object /\ bytes' = bytes
         \/ RenameObject(o) /\ "active" \in object /\ object' = {"deleting"}
      /\ object' # object => RenameObject(o) \/ RemoveTree(o)
  BY <1>1, ObjectSteps
<1>3. /\ erasure' = "active" => erasure = "active"
      /\ erasure' = "removing" => erasure = "removing" \/ (BeginRemoval(o) /\ erasure = "requested" /\ ~OnHold)
      /\ erasure' = "completed" => erasure = "completed" \/ object = {}
      /\ erasure = "removing" /\ "deleting" \in object => erasure' = "removing"
  <2>1. CASE AppendDecided(o)
    BY <2>1 DEF AppendDecided, Ask, Sealed
  <2>2. CASE BeginRemoval(o)
    BY <2>2 DEF BeginRemoval, Awaiting
  <2>3. CASE AppendDeletionCompletion(o)
    BY <2>3 DEF AppendDeletionCompletion
  <2>4. CASE RecordDeletionFailure(o)
    BY <2>4 DEF RecordDeletionFailure
  <2>5. CASE ~(AppendDecided(o) \/ BeginRemoval(o) \/ AppendDeletionCompletion(o) \/ RecordDeletionFailure(o))
    BY <1>2, <2>5 DEF Turn,
       OpenStore, VerifyDurableIntegrity, CloseStore, BeginAppend, NumberRecord, AppendDecided,
       BeginIntake, MakeObject, PublishSource, AppendProvenance, BeginCard, QuoteSource, PutCard, AppendCard,
       CompleteDeletion, BeginRemoval, RenameObject, RemoveTree, RemovalFails, VerifySourceAbsent,
       AppendDeletionCompletion, RecordDeletionFailure, OpenerDies
  <2> QED
    BY <2>1, <2>2, <2>3, <2>4, <2>5
<1>4. "active" \in object' =>
        object' = {"active"} /\ bytes' /\ cards' = Cardinality(Kinds({"card"})') + Cardinality(Quoting')
  <2> SUFFICES ASSUME "active" \in object'
               PROVE object' = {"active"} /\ bytes' /\ cards' = Cardinality(Kinds({"card"})') + Cardinality(Quoting')
    OBVIOUS
  <2>1. object' \subseteq object /\ bytes' = bytes /\ ~EmptyObject /\ ~RenameObject(o)
    BY <1>2 DEF EmptyObject, RenameObject
  <2>2. object = {"active"} /\ bytes /\ cards = Cardinality(Kinds({"card"})) + Cardinality(Quoting)
    BY <2>1 DEF Present
  <2>3. cards' = Cardinality(Kinds({"card"})') + Cardinality(Quoting')
    BY <2>1, <2>2, CardsCounted
  <2> QED
    BY <2>1, <2>2, <2>3
<1>5. erasure' \in {"active", "requested"} => object' = {"active"}
  <2>1. CASE erasure' = "requested"
    <3>1. AskedFor'
      BY AskedForStep
    <3> QED
      BY <2>1, <3>1 DEF AskedFor
  <2>2. CASE erasure' = "active"
    <3>1. erasure = "active"
      BY <1>3, <2>2
    <3>2. ~Removing(o)
      BY <3>1 DEF Reached, Given
    <3>3. object' = object
      BY <1>2, <3>2 DEF Removing, RenameObject, RemoveTree
    <3> QED
      BY <3>1, <3>3 DEF Present
  <2> QED
    BY <2>1, <2>2
<1>6. object = {} => object' = {}
  BY <1>2
<1>7. erasure' = "completed" => object' = {}
  BY <1>3, <1>6 DEF Present
<1>8. "deleting" \in object' => erasure' = "removing"
  <2>1. CASE "deleting" \in object
    BY <1>3, <2>1 DEF Present
  <2>2. CASE "deleting" \in object' /\ "deleting" \notin object
    BY <1>2, <2>2 DEF RenameObject
  <2> QED
    BY <2>1, <2>2
<1>9. erasure' = "removing" => ~OnHold'
  <2> SUFFICES ASSUME erasure' = "removing" PROVE ~OnHold'
    OBVIOUS
  <2>1. ~OnHold
    BY <1>3 DEF Present
  <2>2. Kinds({"hold"})' = Kinds({"hold"}) /\ Kinds({"release"})' = Kinds({"release"})
    BY LifecycleRests DEF Lifecycle
  <2> QED
    BY <2>1, <2>2 DEF OnHold
<1>10. ASSUME NEW q \in Openers, Recording(q, {"completion"})'
       PROVE  object' = {} /\ (erasure' = "removing" => opener'[q].previous = LastAt(Kinds(Lifecycle)'))
  <2>1. erasure' = "removing" => Kinds(Lifecycle)' = Kinds(Lifecycle)
    BY LifecycleRests
  <2>2. CASE q # o \/ NumberRecord(o)
    <3>1. Recording(q, {"completion"}) /\ opener'[q].previous = opener[q].previous
      <4>1. CASE q # o
        BY <1>10, <4>1, OthersStay DEF Recording
      <4>2. CASE q = o /\ NumberRecord(o)
        BY <1>10, <4>2, CompletionSteps DEF NumberRecord, VerifySourceAbsent
      <4> QED
        BY <2>2, <4>1, <4>2
    <3>2. object = {} /\ (erasure = "removing" => opener[q].previous = LastAt(Kinds(Lifecycle)))
      BY <3>1 DEF Present
    <3>3. erasure' = "removing" => erasure = "removing"
      BY <1>3, <3>2 DEF Present
    <3> QED
      BY <1>6, <2>1, <3>1, <3>2, <3>3
  <2>3. CASE q = o /\ ~NumberRecord(o)
    <3>1. object = {} /\ opener'[o].previous = LastAt(Kinds(Lifecycle))
      BY <1>10, <2>3, CompletionSteps
    <3> QED
      BY <1>6, <2>1, <2>3, <3>1
  <2> QED
    BY <2>2, <2>3
<1> QED
  BY <1>4, <1>5, <1>7, <1>8, <1>9, <1>10 DEF Present

LEMMA CalmStep ==
  ASSUME ErasureShape, RowAgrees, Reached, TakenIn, AskedFor, CalmInv, NEW o \in Openers, Turn(o)
  PROVE  CalmInv'
<1> SUFFICES ASSUME Calm'
             PROVE  /\ drafts' = {p \in Openers : opener'[p].at = "write"}
                    /\ Chained'
                    /\ erasure' = "none" /\ object' # {} => \E p \in Openers : Intaking(p)'
                    /\ erasure' # "none" => Present'
  BY DEF CalmInv
<1>1. Calm /\ wedges' = {}
  BY CalmBefore
<1>2. drafts' = {p \in Openers : opener'[p].at = "write"}
  BY <1>1, DraftsStep
<1>3. Chained'
  BY <1>1, ChainedStep
<1>4. erasure' = "none" /\ object' # {} => \E p \in Openers : Intaking(p)'
  BY <1>1, BareStep
<1>5. CASE erasure = "none"
  BY <1>1, <1>2, <1>3, <1>4, <1>5, FirstPresent
<1>6. CASE erasure # "none"
  <2>1. Present
    BY <1>1, <1>6 DEF CalmInv
  <2> QED
    BY <1>1, <1>2, <1>3, <1>4, <1>6, <2>1, PresentStep
<1> QED
  BY <1>5, <1>6

LEMMA ErasureStep == EInv /\ [ErasureNext]_erasureVars => EInv'
<1>1. ASSUME EInv, NEW o \in Openers, Turn(o) PROVE EInv'
  BY <1>1, ShapeStep, RowStep, ReachedStep, TakenInStep, AskedForStep, RegainedStep, CalmStep DEF EInv
<1>2. ASSUME EInv, UNCHANGED erasureVars PROVE EInv'
  <2> USE <1>2 DEF erasureVars, EInv
  <2>1. \A set : Kinds(set)' = Kinds(set)
    BY KindsStay
  <2>2. \A set : \A p \in Openers : (Recording(p, set)' <=> Recording(p, set))
    BY DEF Recording
  <2>3. Quoting' = Quoting
    BY DEF Quoting, Recording
  <2>4. ErasureShape' /\ RowAgrees'
    BY <2>1, <2>3 DEF ErasureShape, RowAgrees
  <2>5. Reached' /\ TakenIn'
    BY <2>1, <2>2 DEF Reached, TakenIn, Removing
  <2>6. AskedFor' /\ Regained'
    BY <2>2 DEF AskedFor, Regained, BeingRemoved
  <2>7. CalmInv'
    BY <2>1, <2>2, <2>3 DEF CalmInv, Present, Calm, Intaking, Chained, OnHold
  <2> QED
    BY <2>4, <2>5, <2>6, <2>7
<1> QED
  BY <1>1, <1>2, Turns

\* What the store holds at the start, and that it fits.
LEMMA FirstRecords ==
  ASSUME ErasureInit
  PROVE  /\ audit \in Seq(RightsRow) /\ Len(audit) <= MaxRows
         /\ Kinds({"provenance"}) = (IF erasure = "none" THEN {} ELSE {2})
         /\ Kinds({"request"}) = (IF erasure = "requested" THEN {3} ELSE {})
         /\ Kinds(Lifecycle) = Kinds({"request"})
         /\ Kinds({"completion"}) = {} /\ Kinds({"card"}) = {}
         /\ erasure = "requested" => audit[3].kind = "request" /\ audit[3].previous = 0
<1> DEFINE row(kind, moment) == [kind |-> kind, previous |-> 0, instant |-> moment]
           a == row("allowed", 0)
           p == row("provenance", 0)
           r == row("request", 1)
<1>0. MaxRows \in Nat /\ MaxRows >= 3
  BY ErasureAssumption
<1>1. /\ a \in RightsRow /\ p \in RightsRow /\ r \in RightsRow
      /\ a.kind = "allowed" /\ p.kind = "provenance" /\ r.kind = "request" /\ r.previous = 0
  BY DEF RightsRow, Rights, Lifecycle, Collected
<1>2. PICK taken \in BOOLEAN, asked \in BOOLEAN :
        /\ audit = <<a>> \o (IF taken THEN <<p>> ELSE << >>) \o (IF asked THEN <<r>> ELSE << >>)
        /\ asked => taken
        /\ erasure = IF asked THEN "requested" ELSE IF taken THEN "active" ELSE "none"
  BY DEF ErasureInit
<1> HIDE DEF row, a, p, r
<1>3. CASE ~taken
  <2>1. audit = <<a>> \o << >> \o << >> /\ erasure = "none"
    BY <1>2, <1>3
  <2>2. audit \in Seq(RightsRow) /\ Len(audit) = 1 /\ DOMAIN audit = {1} /\ audit[1] = a
    BY <1>1, <2>1
  <2> QED
    BY <1>0, <1>1, <2>1, <2>2 DEF Kinds, Lifecycle
<1>4. CASE taken /\ ~asked
  <2>1. audit = <<a>> \o <<p>> \o << >> /\ erasure = "active"
    BY <1>2, <1>4
  <2>2. audit \in Seq(RightsRow) /\ Len(audit) = 2 /\ DOMAIN audit = {1, 2} /\ audit[1] = a /\ audit[2] = p
    BY <1>1, <2>1
  <2>3. Kinds({"provenance"}) = {2} /\ Kinds({"request"}) = {}
    BY <1>1, <2>2 DEF Kinds
  <2>4. Kinds(Lifecycle) = {} /\ Kinds({"completion"}) = {} /\ Kinds({"card"}) = {}
    BY <1>1, <2>2 DEF Kinds, Lifecycle
  <2> QED
    BY <1>0, <2>1, <2>2, <2>3, <2>4
<1>5. CASE taken /\ asked
  <2>1. audit = <<a>> \o <<p>> \o <<r>> /\ erasure = "requested"
    BY <1>2, <1>5
  <2>2. /\ audit \in Seq(RightsRow) /\ Len(audit) = 3 /\ DOMAIN audit = {1, 2, 3}
        /\ audit[1] = a /\ audit[2] = p /\ audit[3] = r
    <3> DEFINE b == <<a>> \o <<p>>
               c == <<r>>
    <3>1. b \in Seq(RightsRow) /\ Len(b) = 2 /\ b[1] = a /\ b[2] = p
      BY <1>1
    <3>2. c \in Seq(RightsRow) /\ Len(c) = 1 /\ c[1] = r
      BY <1>1
    <3>3. audit = b \o c
      BY <2>1
    <3> HIDE DEF b, c
    <3>4. /\ audit \in Seq(RightsRow) /\ Len(audit) = Len(b) + Len(c)
          /\ \A i \in 1..Len(b) + Len(c) : audit[i] = IF i <= Len(b) THEN b[i] ELSE c[i - Len(b)]
      BY <3>1, <3>2, <3>3, ConcatProperties
    <3>5. Len(audit) = 3 /\ audit[1] = b[1] /\ audit[2] = b[2] /\ audit[3] = c[1]
      BY <3>1, <3>2, <3>4
    <3>6. audit \in Seq(RightsRow) /\ Len(audit) = 3
      BY <3>4, <3>5
    <3>7. DOMAIN audit = {1, 2, 3}
      <4>1. DOMAIN audit = 1..Len(audit)
        BY <3>6
      <4> QED
        BY <3>6, <4>1
    <3> QED
      BY <3>1, <3>2, <3>5, <3>6, <3>7
  <2>3. Kinds({"provenance"}) = {2} /\ Kinds({"request"}) = {3}
    BY <1>1, <2>2 DEF Kinds
  <2>4. Kinds(Lifecycle) = {3} /\ Kinds({"completion"}) = {} /\ Kinds({"card"}) = {}
    BY <1>1, <2>2 DEF Kinds, Lifecycle
  <2> QED
    BY <1>0, <1>1, <2>1, <2>2, <2>3, <2>4
<1> QED
  BY <1>2, <1>3, <1>4, <1>5

LEMMA ErasureStarts == ErasureInit => EInv
<1> SUFFICES ASSUME ErasureInit PROVE EInv
  OBVIOUS
<1>1. /\ audit \in Seq(RightsRow) /\ Len(audit) <= MaxRows
      /\ Kinds({"provenance"}) = (IF erasure = "none" THEN {} ELSE {2})
      /\ Kinds({"request"}) = (IF erasure = "requested" THEN {3} ELSE {})
      /\ Kinds(Lifecycle) = Kinds({"request"})
      /\ Kinds({"completion"}) = {} /\ Kinds({"card"}) = {}
      /\ erasure = "requested" => audit[3].kind = "request" /\ audit[3].previous = 0
  BY FirstRecords
<1>2. /\ erasure \in {"none", "active", "requested"}
      /\ erasure = "none" => object = {} /\ ~bytes /\ ~retained
      /\ erasure # "none" => object = {"active"} /\ bytes /\ retained
      /\ cards = 0 /\ drafts = {} /\ wedges = {}
      /\ opener = [q \in Openers |-> [at |-> "closed"]]
  BY DEF ErasureInit
<1>3. bytes \in BOOLEAN /\ retained \in BOOLEAN
  BY DEF ErasureInit
<1>4. /\ \A q \in Openers : opener[q].at = "closed"
      /\ opener \in [Openers -> States]
  BY <1>2 DEF States
<1>5. /\ Quoting = {} /\ ~BeingRemoved
      /\ \A q \in Openers : ~Intaking(q) /\ ~Removing(q)
      /\ \A set : \A q \in Openers : ~Recording(q, set)
  BY <1>4 DEF Quoting, BeingRemoved, Intaking, Removing, Recording
<1>6. /\ Cardinality({}) = 0 /\ IsFiniteSet({}) /\ Cardinality({2}) = 1
  BY FS_EmptySet, FS_Singleton
<1>7. ErasureShape
  BY <1>1, <1>2, <1>3, <1>4, <1>5, <1>6 DEF ErasureShape, Given
<1>8. RowAgrees
  BY <1>1, <1>2, <1>6 DEF RowAgrees, Given
<1>9. Reached /\ AskedFor /\ Regained
  BY <1>2, <1>4, <1>5 DEF Reached, AskedFor, Regained
<1>10. TakenIn
  BY <1>2, <1>5 DEF TakenIn
<1>11. Chained
  <2> SUFFICES ASSUME NEW i \in Kinds(Lifecycle)
               PROVE  /\ audit[i].previous = LastAt(Earlier(Lifecycle, i))
                      /\ \A j \in Kinds(Lifecycle) : ~(j < i)
                      /\ audit[i].kind # "completion"
    BY DEF Chained, Earlier
  <2>1. i = 3 /\ Kinds(Lifecycle) = {3} /\ audit[i].kind = "request" /\ audit[i].previous = 0
    BY <1>1
  <2>2. Earlier(Lifecycle, i) = {}
    BY <2>1 DEF Earlier
  <2>3. LastAt({}) = 0
    BY DEF LastAt
  <2> QED
    BY <2>1, <2>2, <2>3
<1>12. CalmInv
  <2>1. drafts = {q \in Openers : opener[q].at = "write"}
    BY <1>2, <1>4
  <2>0. Cardinality(Kinds({"card"})) = 0 /\ Cardinality(Quoting) = 0
    BY <1>1, <1>5, <1>6, Zenon
  <2>2. cards = Cardinality(Kinds({"card"})) + Cardinality(Quoting)
    BY <1>2, <2>0
  <2> QED
    BY <1>2, <1>5, <1>11, <2>1, <2>2 DEF CalmInv, Present
<1> QED
  BY <1>7, <1>8, <1>9, <1>10, <1>12 DEF EInv

LEMMA ErasureReopens == EInv => StoreReopens
<1> SUFFICES ASSUME EInv, \A o \in Openers : opener[o].at \in {"closed", "over"}, wedges = {}
             PROVE  Intact
  BY DEF StoreReopens
<1>1. /\ Quoting = {} /\ \A q \in Openers : ~Intaking(q)
      /\ {o \in Openers : opener[o].at = "write"} = {}
  BY DEF Quoting, Intaking, Recording
<1>2. /\ drafts = {} /\ Chained /\ (erasure = "none" => object = {})
      /\ erasure # "none" => Present
  BY <1>1 DEF EInv, CalmInv, Calm
<1>3. Cardinality(Quoting) = 0 /\ Cardinality(Kinds({"card"})) \in Nat
  BY <1>1, FS_EmptySet, KindsFacts, FS_CardinalityType DEF EInv, ErasureShape
<1>4. /\ Cardinality(Kinds({"provenance"})) = (IF erasure = "none" THEN 0 ELSE 1)
      /\ Cardinality(Kinds({"completion"})) = (IF erasure = "completed" THEN 1 ELSE 0)
      /\ erasure \in Awaiting \cup {"incomplete", "completed"} => Kinds({"request"}) # {}
  BY DEF EInv, RowAgrees, Awaiting, Given
<1>5. erasure \in {"active", "requested"} => object = {"active"}
  BY <1>2 DEF Present
<1>6. erasure = "active" => retained
  BY DEF EInv, TakenIn
<1>7. erasure = "completed" => object = {} /\ ~retained
  BY <1>2 DEF Present, EInv, RowAgrees
<1>8. "active" \in object =>
        object = {"active"} /\ erasure # "none" /\ bytes /\ cards = Cardinality(Kinds({"card"}))
  <2> SUFFICES ASSUME "active" \in object
               PROVE  object = {"active"} /\ erasure # "none" /\ bytes /\ cards = Cardinality(Kinds({"card"}))
    OBVIOUS
  <2>1. erasure # "none"
    BY <1>2
  <2> QED
    BY <1>2, <1>3, <2>1 DEF Present
<1>9. "deleting" \in object => object = {"deleting"} /\ erasure = "removing"
  <2> SUFFICES ASSUME "deleting" \in object PROVE object = {"deleting"} /\ erasure = "removing"
    OBVIOUS
  <2>1. erasure = "removing"
    BY <1>2 DEF Present
  <2>2. "active" \notin object
    BY <1>8
  <2> QED
    BY <2>1, <2>2 DEF EInv, ErasureShape
<1> QED
  BY <1>2, <1>4, <1>5, <1>6, <1>7, <1>8, <1>9 DEF Intact

LEMMA ErasureIsHonest == EInv => ErasureHonest
<1> SUFFICES ASSUME EInv PROVE ErasureHonest
  OBVIOUS
<1>1. erasure = "active" /\ "intakes_collided" \notin wedges => bytes /\ retained
  BY DEF EInv, TakenIn
<1>2. Cardinality(Kinds({"completion"})) = (IF erasure = "completed" THEN 1 ELSE 0)
  BY DEF EInv, RowAgrees
<1>3. erasure = "completed" => ~retained /\ ~Permitted
  BY DEF EInv, RowAgrees, Permitted
<1>4. erasure = "completed" /\ bytes =>
        "died_storing" \in wedges \/ \E o \in Openers : Storing(o)
  BY DEF EInv, Regained, Recording, Storing
<1>5. erasure \in {"active", "requested"} /\ object = {} =>
        wedges \cap {"asked_again_late", "intakes_collided"} # {}
  BY <1>1 DEF EInv, AskedFor, ErasureShape
<1> QED
  BY <1>1, <1>2, <1>3, <1>4, <1>5 DEF ErasureHonest

\* Whatever the rights asked for, however many open the store and in whatever order they act,
\* fail and die (phase4a/service.py:312, service.py:330, workspace.py:242, workspace.py:348):
\* a store that none of the named wedges met opens again, an active source has its bytes, and a
\* completion is the only one and leaves no right to use what was deleted.
THEOREM ErasureIsSound == ErasureSpec => []ErasureSound
<1>1. EInv => ErasureSound
  <2>1. EInv => ErasureTypeOK
    <3> SUFFICES ASSUME EInv PROVE ErasureTypeOK
      OBVIOUS
    <3>1. \A i \in DOMAIN audit :
            audit[i].kind \in Rights \cup Lifecycle \cup {"provenance", "card"}
      BY KindsFacts DEF EInv, ErasureShape, RightsRow, Collected
    <3>2. erasure \in {"none", "active", "incomplete", "completed"} \cup Awaiting
      BY DEF EInv, ErasureShape, Given, Awaiting
    <3> QED
      BY <3>1, <3>2 DEF EInv, ErasureShape, ErasureTypeOK
  <2> QED
    BY <2>1, ErasureReopens, ErasureIsHonest DEF ErasureSound
<1> QED
  BY <1>1, ErasureStarts, ErasureStep, PTL DEF ErasureSpec
=============================================================================
