------------------------------ MODULE SumTheorems ------------------------------
(***************************************************************************)
(* What the sums of Sums are proved to do when a term is added.  The       *)
(* proofs are by the least counterexample: that < is well-founded on the   *)
(* naturals is all they take from induction.                               *)
(***************************************************************************)
EXTENDS Sums, Integers, Sequences, FiniteSetTheorems, WellFoundedInduction, TLAPS
-----------------------------------------------------------------------------
\* Every non-empty set of naturals has a least element.
LEMMA LeastNumber ==
  ASSUME NEW T, T \subseteq Nat, T # {}
  PROVE  \E n \in T : \A m \in T : n <= m
<1> DEFINE R == {pair \in Nat \X Nat : pair[1] < pair[2]}
<1>1. R = OpToRel(<, Nat)
  BY Zenon DEF OpToRel
<1>2. IsWellFoundedOn(R, Nat)
  BY <1>1, NatLessThanWellFounded, Zenon
<1>3. \A y, x \in Nat : y < x => <<y, x>> \in R
  OBVIOUS
<1> HIDE DEF R
<1>4. PICK x \in T : \A y \in T : ~ (<<y, x>> \in R)
  BY <1>2, WFMin
<1>5. ASSUME NEW m \in T PROVE x <= m
  <2>1. x \in Nat /\ m \in Nat /\ ~ (m < x)
    BY <1>3, <1>4
  <2> QED
    BY <2>1
<1> QED
  BY <1>5

\* What holds at 0 and is passed on by every number holds of them all.
LEMMA Inductively ==
  ASSUME NEW S, 0 \in S, \A n \in Nat : n \in S => n + 1 \in S
  PROVE  Nat \subseteq S
<1> SUFFICES ASSUME Nat \ S # {} PROVE FALSE
  OBVIOUS
<1>1. PICK n \in Nat \ S : \A m \in Nat \ S : n <= m
  BY LeastNumber
<1>2. n - 1 \in Nat /\ n - 1 \in S
  BY <1>1
<1> QED
  BY <1>1, <1>2
-----------------------------------------------------------------------------
\* The partial sums of s.
Partial(f, s, n) ==
  f = [i \in 0..n |-> IF i = 0 THEN 0 ELSE f[i - 1] + s[i]]

LEMMA PartialExists ==
  ASSUME NEW s
  PROVE  \A n \in Nat : \E f : Partial(f, s, n)
<1> DEFINE S == {n \in Nat : \E f : Partial(f, s, n)}
<1>1. 0 \in S
  <2>1. Partial([i \in 0..0 |-> 0], s, 0)
    BY DEF Partial
  <2> QED
    BY <2>1
<1>2. ASSUME NEW n \in Nat, n \in S PROVE n + 1 \in S
  <2>1. PICK f : Partial(f, s, n)
    BY <1>2
  <2> DEFINE g == [i \in 0..n + 1 |-> IF i = n + 1 THEN f[n] + s[n + 1] ELSE f[i]]
  <2>2. \A i \in 0..n : g[i] = f[i]
    OBVIOUS
  <2>3. ASSUME NEW i \in 0..n + 1 PROVE g[i] = IF i = 0 THEN 0 ELSE g[i - 1] + s[i]
    <3>1. CASE i = n + 1
      BY <3>1
    <3>2. CASE i \in 0..n
      <4>1. f[i] = IF i = 0 THEN 0 ELSE f[i - 1] + s[i]
        BY <2>1, <3>2 DEF Partial
      <4>2. i # 0 => i - 1 \in 0..n
        BY <3>2
      <4> HIDE DEF g
      <4> QED
        BY <2>2, <3>2, <4>1, <4>2
    <3> QED
      BY <3>1, <3>2
  <2>4. g = [i \in 0..n + 1 |-> IF i = 0 THEN 0 ELSE g[i - 1] + s[i]]
    <3>1. g = [i \in 0..n + 1 |-> g[i]]
      OBVIOUS
    <3> HIDE DEF g
    <3> QED
      BY <2>3, <3>1
  <2> HIDE DEF g
  <2>5. Partial(g, s, n + 1)
    BY <2>4 DEF Partial
  <2> QED
    BY <2>5
<1> HIDE DEF S
<1>3. Nat \subseteq S
  BY <1>1, <1>2, Inductively
<1> QED
  BY <1>3 DEF S

LEMMA TallyIs ==
  ASSUME NEW s, Len(s) \in Nat
  PROVE  \E f : Partial(f, s, Len(s)) /\ Tally(s) = f[Len(s)]
<1> DEFINE P(f) == f = [n \in 0..Len(s) |-> IF n = 0 THEN 0 ELSE f[n - 1] + s[n]]
<1>1. \E f : P(f)
  BY PartialExists DEF Partial
<1>2. P(CHOOSE f : P(f))
  BY <1>1
<1> QED
  BY <1>2 DEF Tally, Partial

LEMMA TallyOfNone == ASSUME NEW s, Len(s) = 0 PROVE Tally(s) = 0
  BY TallyIs DEF Partial

\* One more term.
LEMMA TallyGrows ==
  ASSUME NEW s, NEW t, Len(s) \in Nat, Len(t) = Len(s) + 1,
         \A i \in 1..Len(s) : t[i] = s[i]
  PROVE  Tally(t) = Tally(s) + t[Len(t)]
<1>1. PICK n \in Nat : n = Len(s)
  OBVIOUS
<1>2. PICK f : Partial(f, s, n) /\ Tally(s) = f[n]
  BY <1>1, TallyIs
<1>3. PICK g : Partial(g, t, n + 1) /\ Tally(t) = g[n + 1]
  BY <1>1, TallyIs
<1> DEFINE S == {i \in Nat : i <= n => f[i] = g[i]}
<1>4. g[n] = f[n]
  <2>1. 0 \in S
    BY <1>2, <1>3 DEF Partial
  <2>2. ASSUME NEW i \in Nat, i \in S PROVE i + 1 \in S
    <3>1. CASE i + 1 <= n
      <4>1. f[i + 1] = f[i] + s[i + 1]
        BY <1>2, <3>1 DEF Partial
      <4>2. g[i + 1] = g[i] + t[i + 1]
        BY <1>3, <3>1 DEF Partial
      <4>3. t[i + 1] = s[i + 1]
        BY <1>1, <3>1
      <4> QED
        BY <2>2, <3>1, <4>1, <4>2, <4>3
    <3> QED
      BY <3>1
  <2> HIDE DEF S
  <2>3. Nat \subseteq S
    BY <2>1, <2>2, Inductively
  <2> QED
    BY <2>3 DEF S
<1>5. g[n + 1] = g[n] + t[n + 1]
  BY <1>3 DEF Partial
<1> QED
  BY <1>1, <1>2, <1>3, <1>4, <1>5

\* The sum of naturals is one.
LEMMA TallyType ==
  ASSUME NEW s, Len(s) \in Nat, \A i \in 1..Len(s) : s[i] \in Nat
  PROVE  Tally(s) \in Nat
<1>1. PICK n \in Nat : n = Len(s)
  OBVIOUS
<1>2. PICK f : Partial(f, s, n) /\ Tally(s) = f[n]
  BY <1>1, TallyIs
<1> DEFINE S == {i \in Nat : i <= n => f[i] \in Nat}
<1>3. 0 \in S
  BY <1>2 DEF Partial
<1>4. ASSUME NEW i \in Nat, i \in S PROVE i + 1 \in S
  <2>1. CASE i + 1 <= n
    <3>1. f[i + 1] = f[i] + s[i + 1]
      BY <1>2, <2>1 DEF Partial
    <3> QED
      BY <1>1, <1>4, <2>1, <3>1
  <2> QED
    BY <2>1
<1> HIDE DEF S
<1>5. Nat \subseteq S
  BY <1>3, <1>4, Inductively
<1> QED
  BY <1>2, <1>5 DEF S
-----------------------------------------------------------------------------
\* The element a sum takes first.
Taken(T) == CHOOSE x \in T : TRUE

\* Sums over the subsets of S with at most n elements.
Small(S, n) == {T \in SUBSET S : Cardinality(T) <= n}

SumsUp(h, f, D) ==
  h = [T \in D |-> IF T = {} THEN 0 ELSE f[Taken(T)] + h[T \ {Taken(T)}]]

LEMMA NotEmpty == ASSUME NEW T, NEW n \in Nat, Cardinality(T) = n + 1 PROVE T # {}
  BY FS_EmptySet

LEMMA Smaller ==
  ASSUME NEW S, IsFiniteSet(S), NEW T \in SUBSET S, T # {}
  PROVE  /\ Taken(T) \in T /\ T \ {Taken(T)} \in SUBSET S
         /\ Cardinality(T) \in Nat /\ Cardinality(T \ {Taken(T)}) = Cardinality(T) - 1
<1>1. Taken(T) \in T
  BY DEF Taken
<1>2. IsFiniteSet(T)
  BY FS_Subset
<1> QED
  BY <1>1, <1>2, FS_RemoveElement, FS_CardinalityType

LEMMA OverExists ==
  ASSUME NEW S, IsFiniteSet(S), NEW f
  PROVE  \A n \in Nat : \E h : SumsUp(h, f, Small(S, n))
<1> DEFINE N == {n \in Nat : \E h : SumsUp(h, f, Small(S, n))}
<1>0. \A T \in SUBSET S : /\ Cardinality(T) \in Nat /\ (Cardinality(T) = 0 <=> T = {})
  BY FS_Subset, FS_CardinalityType, FS_EmptySet
<1>1. 0 \in N
  <2>1. Small(S, 0) = {{}}
    BY <1>0 DEF Small
  <2>2. SumsUp([T \in {{}} |-> 0], f, Small(S, 0))
    BY <2>1 DEF SumsUp
  <2> QED
    BY <2>2
<1>2. ASSUME NEW n \in Nat, n \in N PROVE n + 1 \in N
  <2>1. PICK h : SumsUp(h, f, Small(S, n))
    BY <1>2
  <2> DEFINE g == [T \in Small(S, n + 1) |->
                     IF T = {} THEN 0 ELSE f[Taken(T)] + h[T \ {Taken(T)}]]
  <2>2. \A T \in Small(S, n) : T \in Small(S, n + 1) /\ g[T] = h[T]
    <3>1. ASSUME NEW T \in Small(S, n) PROVE T \in Small(S, n + 1)
      BY <1>0, <3>1 DEF Small
    <3>2. ASSUME NEW T \in Small(S, n)
          PROVE  h[T] = IF T = {} THEN 0 ELSE f[Taken(T)] + h[T \ {Taken(T)}]
      BY <2>1 DEF SumsUp
    <3> QED
      BY <3>1, <3>2
  <2>3. \A T \in Small(S, n + 1) : T # {} => T \ {Taken(T)} \in Small(S, n)
    BY Smaller DEF Small
  <2>4. ASSUME NEW T \in Small(S, n + 1)
        PROVE  g[T] = IF T = {} THEN 0 ELSE f[Taken(T)] + g[T \ {Taken(T)}]
    BY <2>2, <2>3
  <2>5. g = [T \in Small(S, n + 1) |-> g[T]]
    OBVIOUS
  <2> HIDE DEF g
  <2>6. g = [T \in Small(S, n + 1) |-> IF T = {} THEN 0 ELSE f[Taken(T)] + g[T \ {Taken(T)}]]
    BY <2>4, <2>5
  <2>7. SumsUp(g, f, Small(S, n + 1))
    BY <2>6 DEF SumsUp
  <2> QED
    BY <2>7
<1> HIDE DEF N
<1>3. Nat \subseteq N
  BY <1>1, <1>2, Inductively
<1> QED
  BY <1>3 DEF N

LEMMA SumOverIs ==
  ASSUME NEW f, IsFiniteSet(DOMAIN f)
  PROVE  \E h : SumsUp(h, f, SUBSET DOMAIN f) /\ SumOver(f) = h[DOMAIN f]
<1> DEFINE S == DOMAIN f
           P(h) == h = [T \in SUBSET DOMAIN f |->
                          IF T = {} THEN 0 ELSE f[CHOOSE x \in T : TRUE] + h[T \ {CHOOSE x \in T : TRUE}]]
<1>1. PICK n \in Nat : n = Cardinality(S)
  BY FS_CardinalityType
<1>2. Small(S, n) = SUBSET S
  BY <1>1, FS_Subset DEF Small
<1>3. PICK k : SumsUp(k, f, SUBSET S)
  <2>1. \A m \in Nat : \E h : SumsUp(h, f, Small(S, m))
    BY OverExists, Zenon
  <2> QED
    BY <1>1, <1>2, <2>1, Zenon
<1>5. P(k)
  BY <1>3 DEF SumsUp, Taken
<1>4. P(CHOOSE h : P(h))
  BY <1>5
<1> QED
  BY <1>4 DEF SumOver, SumsUp, Taken

\* One term more by c.
LEMMA SumOverAdds ==
  ASSUME NEW f, NEW g, NEW S, IsFiniteSet(S), f \in [S -> Int], g \in [S -> Int],
         NEW b \in S, NEW c \in Int, g[b] = f[b] + c,
         \A x \in S : x # b => g[x] = f[x]
  PROVE  SumOver(g) = SumOver(f) + c
<1>1. DOMAIN f = S /\ DOMAIN g = S
  OBVIOUS
<1>2. PICK h : SumsUp(h, f, SUBSET S) /\ SumOver(f) = h[S]
  BY <1>1, SumOverIs
<1>3. PICK k : SumsUp(k, g, SUBSET S) /\ SumOver(g) = k[S]
  BY <1>1, SumOverIs
<1> DEFINE Q(T) == h[T] \in Int /\ k[T] = h[T] + (IF b \in T THEN c ELSE 0)
           N == {n \in Nat : \A T \in SUBSET S : Cardinality(T) = n => Q(T)}
<1>4. 0 \in N
  <2>1. \A T \in SUBSET S : Cardinality(T) = 0 => T = {}
    BY FS_Subset, FS_EmptySet
  <2>2. h[{}] = 0 /\ k[{}] = 0
    BY <1>2, <1>3 DEF SumsUp
  <2>3. Q({})
    BY <2>2
  <2> QED
    BY <2>1, <2>3
<1>5. ASSUME NEW n \in Nat, n \in N PROVE n + 1 \in N
  <2> SUFFICES ASSUME NEW T \in SUBSET S, Cardinality(T) = n + 1 PROVE Q(T)
    OBVIOUS
  <2>1. T # {}
    BY NotEmpty
  <2>2. PICK x, U : x = Taken(T) /\ U = T \ {x}
    OBVIOUS
  <2>3. x \in T /\ U \in SUBSET S /\ Cardinality(U) = n
    BY <2>1, <2>2, Smaller
  <2>4. Q(U)
    BY <1>5, <2>3
  <2>5. h[T] = f[x] + h[U] /\ k[T] = g[x] + k[U]
    BY <1>2, <1>3, <2>1, <2>2 DEF SumsUp
  <2>6. f[x] \in Int /\ g[x] = f[x] + (IF x = b THEN c ELSE 0)
    BY <2>3
  <2>7. b \in T <=> x = b \/ b \in U
    BY <2>2, <2>3
  <2>8. x = b => b \notin U
    BY <2>2
  <2> QED
    BY <2>4, <2>5, <2>6, <2>7, <2>8
<1> HIDE DEF N
<1>6. Nat \subseteq N
  BY <1>4, <1>5, Inductively
<1>7. Cardinality(S) \in Nat
  BY FS_CardinalityType
<1> QED
  BY <1>2, <1>3, <1>6, <1>7 DEF N

\* The sum of nothing but zeros.
LEMMA SumOverZeros ==
  ASSUME NEW f, NEW S, IsFiniteSet(S), f \in [S -> Int], \A x \in S : f[x] = 0
  PROVE  SumOver(f) = 0
<1>1. DOMAIN f = S
  OBVIOUS
<1>2. PICK h : SumsUp(h, f, SUBSET S) /\ SumOver(f) = h[S]
  BY <1>1, SumOverIs
<1> DEFINE N == {n \in Nat : \A T \in SUBSET S : Cardinality(T) = n => h[T] = 0}
<1>3. 0 \in N
  <2>1. \A T \in SUBSET S : Cardinality(T) = 0 => T = {}
    BY FS_Subset, FS_EmptySet
  <2> QED
    BY <1>2, <2>1 DEF SumsUp
<1>4. ASSUME NEW n \in Nat, n \in N PROVE n + 1 \in N
  <2> SUFFICES ASSUME NEW T \in SUBSET S, Cardinality(T) = n + 1 PROVE h[T] = 0
    OBVIOUS
  <2>1. T # {}
    BY FS_EmptySet
  <2>2. PICK x, U : x = Taken(T) /\ U = T \ {x}
    OBVIOUS
  <2>3. x \in T /\ U \in SUBSET S /\ Cardinality(U) = n
    BY <2>1, <2>2, Smaller
  <2>4. h[U] = 0 /\ f[x] = 0
    BY <1>4, <2>3
  <2>5. h[T] = f[x] + h[U]
    BY <1>2, <2>1, <2>2 DEF SumsUp
  <2> QED
    BY <2>4, <2>5
<1> HIDE DEF N
<1>5. Nat \subseteq N
  BY <1>3, <1>4, Inductively
<1>6. Cardinality(S) \in Nat
  BY FS_CardinalityType
<1> QED
  BY <1>2, <1>5, <1>6 DEF N
=============================================================================
