------------------------------ MODULE ExactGraph ------------------------------
(***************************************************************************)
(* exact_graph/: a graph is replayed as a candidate under the four         *)
(* readings of Graffiti 322.  One side is a sum of fractions, the other    *)
(* the distance spectrum: the number of its values, from a minimal         *)
(* polynomial or a proposed decomposition, or its extent, from brackets of *)
(* the largest and the smallest root.  All of it is exact or refused.      *)
(*                                                                         *)
(* Vertices, rows and coefficients are counted from 1.  A polynomial is    *)
(* the sequence of its coefficients, the highest first, a fraction is in   *)
(* lowest terms, a bracket of one point is an exact root.  Polynomials     *)
(* that are divided are monic, and so are their factors up to the sign.    *)
(***************************************************************************)
EXTENDS Integers, SequencesExt

CONSTANTS
  Witnesses,              \* graphs: [order, edges], an edge a set of two vertices
  Decompositions,         \* what an operator may supply, true or not
  ExtentValues,           \* fractions an extent may be compared with
  Unsupplied,             \* no decomposition
  Unanswered,                \* an exact answer that was refused
  SeedCycle,              \* 5: how soon the third seed repeats
  MaxHalves,              \* as far as the eigenvalues are looked for, in halves
  MAX_DENSE_ORDER, MAX_ROOT_ENUMERATION, MAX_ISOLATION_STEPS, MAX_REFINEMENT_STEPS

VARIABLES
  witness,                \* the graph that was read
  answer                  \* what its replay or comparison gave

graphVars == <<witness, answer>>
-----------------------------------------------------------------------------
(* Fractions. *)

RECURSIVE Gcd(_, _)
Gcd(m, n) == IF n = 0 THEN m ELSE Gcd(n, m % n)
Size(n) == IF n < 0 THEN -n ELSE n

Fraction(n, d) ==
  LET g == Gcd(Size(n), Size(d)) * (IF d < 0 THEN -1 ELSE 1) IN <<n \div g, d \div g>>
Integral(n) == <<n, 1>>
Plus(p, q) == Fraction(p[1] * q[2] + q[1] * p[2], p[2] * q[2])
Multiplied(p, q) == Fraction(p[1] * q[1], p[2] * q[2])
Minus(p, q) == Plus(p, <<-q[1], q[2]>>)
Divided(p, q) == Multiplied(p, Fraction(q[2], q[1]))
Below(p, q) == p[1] * q[2] < q[1] * p[2]
Half(p, q) == Multiplied(Plus(p, q), <<1, 2>>)
Lowest(S) == CHOOSE p \in S : \A q \in S : ~Below(q, p)
Highest(S) == CHOOSE p \in S : \A q \in S : ~Below(p, q)

(* Vectors and matrices of integers. *)

Dot(u, v) == FoldLeftDomain(LAMBDA sum, i : sum + u[i] * v[i], 0, u)
Image(m, v) == [i \in DOMAIN m |-> Dot(m[i], v)]
Unit(i, n) == [j \in 1..n |-> IF i = j THEN 1 ELSE 0]

(* Elimination: rows with their pivots, each zero at the pivots before it. *)

Reduced(row, echelon) ==
  LET Subtract(r, e) ==
        [i \in DOMAIN r |-> Minus(r[i], Multiplied(r[e.pivot], e.row[i]))]
  IN  FoldLeft(Subtract, row, echelon)
Support(row, n) == {i \in 1..n : row[i][1] # 0}
Echelon(row, n) ==
  LET pivot == Min(Support(row, n))
  IN  [pivot |-> pivot, row |-> [i \in DOMAIN row |-> Divided(row[i], row[pivot])]]

FullRank(vectors, n) ==
  LET Include(echelon, v) ==
        LET row == Reduced([i \in 1..n |-> Integral(v[i])], echelon)
        IN  IF Support(row, n) = {} THEN echelon ELSE Append(echelon, Echelon(row, n))
  IN  Len(FoldLeft(Include, <<>>, vectors)) = n
-----------------------------------------------------------------------------
(* Polynomials. *)

Trim(poly) ==
  LET kept == {i \in DOMAIN poly : poly[i] # 0}
  IN  IF kept = {} THEN <<0>> ELSE SubSeq(poly, Min(kept), Len(poly))
Degree(poly) == IF poly = <<0>> THEN -1 ELSE Len(poly) - 1
Derivative(poly) ==
  Trim([i \in 1..(Len(poly) - 1) |-> poly[i] * (Len(poly) - i)])
Primitive(poly) ==
  LET content == FoldLeft(LAMBDA g, c : Gcd(g, Size(c)), 0, poly)
  IN  IF content = 0 THEN <<0>> ELSE [i \in DOMAIN poly |-> poly[i] \div content]
Negative(poly) == [i \in DOMAIN poly |-> -poly[i]]

\* The first n coefficients of a product.
Convolved(u, w, n) ==
  [k \in 1..n |->
     MapThenSumSet(LAMBDA i : u[i] * w[k + 1 - i],
                   {i \in DOMAIN u : k + 1 - i \in DOMAIN w})]
PolyTimes(a, b) == Trim(Convolved(a, b, Len(a) + Len(b) - 1))

\* _pseudo_remainder: deg a - deg b + 1 times the leading term is taken away.
PseudoRemainder(a, b) ==
  LET Cancel(work, k) ==
        Tail([j \in DOMAIN work |->
                b[1] * work[j] - work[1] * (IF j \in DOMAIN b THEN b[j] ELSE 0)])
  IN  IF Degree(a) < Degree(b) THEN a
      ELSE Trim(FoldLeft(Cancel, a, [k \in 1..(Degree(a) - Degree(b) + 1) |-> k]))

\* _poly_gcd
PolyGcd[a \in Seq(Int), b \in Seq(Int)] ==
  IF b = <<0>> THEN Primitive(a) ELSE PolyGcd[b, Primitive(PseudoRemainder(a, b))]

\* _monic_integer of _poly_div_exact.
MonicQuotient(a, b) ==
  LET Divide(state, k) ==
        LET factor == state.work[1] * b[1]
        IN  [quotient |-> Append(state.quotient, factor * b[1]),
             work |-> Tail([j \in DOMAIN state.work |->
                              state.work[j] - factor * (IF j \in DOMAIN b THEN b[j] ELSE 0)])]
  IN  FoldLeft(Divide, [quotient |-> <<>>, work |-> a],
               [k \in 1..(Len(a) - Len(b) + 1) |-> k]).quotient

PolyLcm[a \in Seq(Int), b \in Seq(Int)] == MonicQuotient(PolyTimes(a, b), PolyGcd[a, b])
RepeatedPart(poly) == PolyGcd[poly, Derivative(poly)]
DistinctRootCount(poly) == Degree(poly) - Degree(RepeatedPart(poly))
SquarefreePart(poly) == MonicQuotient(poly, RepeatedPart(poly))

\* _evaluate, up to a power of the denominator: only its sign is looked at.
ValueAt(poly, point) ==
  LET Horner(v, c) == [value |-> v.value * point[1] + c * v.power,
                       power |-> v.power * point[2]]
  IN  FoldLeft(Horner, [value |-> 0, power |-> 1], poly).value
RootAt(poly, point) == ValueAt(poly, point) = 0

\* _rational_roots of a monic polynomial, whose rational roots are whole.
RationalRoots(poly) ==
  LET stripped == IF Last(poly) = 0 THEN Front(poly) ELSE poly
      last == Size(Last(stripped))
      zero == IF Last(poly) = 0 THEN {Integral(0)} ELSE {}
  IN  IF Degree(stripped) < 1 THEN zero
      ELSE IF last > MAX_ROOT_ENUMERATION THEN Unanswered
      ELSE zero \cup {Integral(k) : k \in
             {n \in -last..last : n # 0 /\ last % Size(n) = 0 /\ RootAt(stripped, Integral(n))}}

Deflated(poly, roots) ==
  FoldSet(LAMBDA r, p : MonicQuotient(p, <<1, -r[1]>>), poly, roots)
-----------------------------------------------------------------------------
(* Graphs, their distances, and the left-hand side. *)

Neighbours(g, v) == {w \in 1..g.order : {v, w} \in g.edges}
TriangleFree(g) ==
  \A u \in 1..g.order, v \in 1..g.order :
    v \in Neighbours(g, u) => Neighbours(g, u) \cap Neighbours(g, v) = {}

\* bfs_distances, -1 where the search does not come.
DistancesFrom(g, source) ==
  LET Advance(search, step) ==
        LET next == UNION {Neighbours(g, u) : u \in search.frontier} \ search.reached
        IN  [reached |-> search.reached \cup next, frontier |-> next,
             distance |-> [v \in 1..g.order |->
                             IF v \in next THEN step ELSE search.distance[v]]]
      start == [reached |-> {source}, frontier |-> {source},
                distance |-> [v \in 1..g.order |-> IF v = source THEN 0 ELSE -1]]
  IN  FoldLeft(Advance, start, [step \in 1..g.order |-> step]).distance
Connected(g) == \A v \in 1..g.order : DistancesFrom(g, 1)[v] # -1
DistanceMatrix(g) == [v \in 1..g.order |-> DistancesFrom(g, v)]

EvenReadings == {"even_includes_v", "even_excludes_v"}
RangeReadings == {"range_distinct_count", "range_extent"}

EvenCount(m, v, reading) ==
  Cardinality({w \in DOMAIN m : m[v][w] % 2 = 0})
    - (IF reading = "even_excludes_v" THEN 1 ELSE 0)
InverseEven(m, reading) ==
  IF \E v \in DOMAIN m : EvenCount(m, v, reading) = 0 THEN Unanswered
  ELSE FoldLeftDomain(LAMBDA sum, v : Plus(sum, Fraction(1, EvenCount(m, v, reading))),
                      Integral(0), m)

RayleighExtentBound(m) ==
  Fraction(MapThenSumSet(LAMBDA v : FoldLeft(LAMBDA a, b : a + b, 0, m[v]), DOMAIN m), Len(m))
-----------------------------------------------------------------------------
(* The characteristic and the minimal polynomial. *)

\* Samuelson-Berkowitz: the trailing blocks, each bordered by a row and a column.
CharacteristicPolynomial(m) ==
  LET n == Len(m)
      Border(poly, size) ==
        LET k == n + 1 - size
            sub == [i \in 1..(size - 1) |-> [j \in 1..(size - 1) |-> m[k + i][k + j]]]
            r == [j \in 1..(size - 1) |-> m[k][k + j]]
            s == [i \in 1..(size - 1) |-> m[k + i][k]]
            Extend(v, i) == [row |-> Append(v.row, -Dot(r, v.w)), w |-> Image(sub, v.w)]
        IN  Convolved(FoldLeft(Extend, [row |-> <<1, -m[k][k]>>, w |-> s],
                               [i \in 1..(size - 1) |-> i]).row,
                      poly, size + 1)
  IN  FoldLeft(Border, <<1>>, [size \in 1..n |-> size])

SeedVectors(n) ==
  <<[i \in 1..n |-> 1], Unit(1, n), [i \in 1..n |-> 1 + ((i - 1) % SeedCycle)],
    [i \in 1..n |-> IF i % 2 = 1 THEN 1 ELSE -1], Unit(n, n)>>

\* A row is an iterate of the seed beside its combination of the iterates; the first
\* iterate that reduces to nothing gives the annihilator.
KrylovAnnihilator(m, seed) ==
  LET n == Len(m)
      Iterate(state, step) ==
        LET row == Reduced([i \in 1..(2 * n + 1) |->
                              Integral(IF i <= n THEN state.current[i]
                                    ELSE IF i = n + step THEN 1 ELSE 0)],
                           state.echelon)
        IN  IF state.combination # <<>> THEN state
            ELSE IF Support(row, n) = {}
                 THEN [state EXCEPT !.combination = SubSeq(row, n + 1, n + step)]
                 ELSE [state EXCEPT !.echelon = Append(@, Echelon(row, n)),
                                    !.current = Image(m, @)]
      last == FoldLeft(Iterate, [echelon |-> <<>>, current |-> seed, combination |-> <<>>],
                       [step \in 1..(n + 1) |-> step])
  IN  Reverse([i \in DOMAIN last.combination |-> last.combination[i][1]])

\* poly(m) v = 0
Kills(m, poly, v) ==
  LET Apply(acc, c) ==
        LET image == Image(m, acc) IN [i \in DOMAIN m |-> image[i] + c * v[i]]
      zero == [i \in DOMAIN m |-> 0]
  IN  FoldLeft(Apply, zero, poly) = zero

\* Slip: the candidate is confirmed on the seeds, "evidence and not proof".
AnnihilatesSeeds(m, poly) == \A seed \in ToSet(SeedVectors(Len(m))) : Kills(m, poly, seed)

Annihilates(m, poly) == \A i \in DOMAIN m : Kills(m, poly, Unit(i, Len(m)))

\* The candidate is confirmed on every unit vector and by the number of its roots.
Confirmed(m, poly) ==
  IF Annihilates(m, poly) /\ DistinctRootCount(poly) = Degree(poly) THEN poly ELSE Unanswered

MinimalPolynomial(m) ==
  IF Len(m) > MAX_DENSE_ORDER THEN Unanswered
  ELSE Confirmed(m, FoldLeft(LAMBDA poly, seed : PolyLcm[poly, KrylovAnnihilator(m, seed)],
                             <<1>>, SeedVectors(Len(m))))
-----------------------------------------------------------------------------
(* The extent: Sturm chains and brackets. *)

SturmChain[a \in Seq(Int), b \in Seq(Int)] ==
  LET flipped == b[1] < 0 /\ (Degree(a) - Degree(b)) % 2 = 0
      remainder == Primitive(PseudoRemainder(a, b))
  IN  IF Degree(b) <= 0 THEN <<a, b>>
      ELSE <<a>> \o SturmChain[b, IF flipped THEN remainder ELSE Negative(remainder)]

SignVariations(chain, point) ==
  LET values == SelectSeq([i \in DOMAIN chain |-> ValueAt(chain[i], point)],
                          LAMBDA v : v # 0)
  IN  Cardinality({i \in 1..(Len(values) - 1) : (values[i] > 0) # (values[i + 1] > 0)})

CountIn(chain, lo, hi) ==
  IF RootAt(chain[1], lo) \/ RootAt(chain[1], hi) THEN Unanswered
  ELSE SignVariations(chain, lo) - SignVariations(chain, hi)

RootBound(poly) == Integral(1 + Max({Size(c) : c \in ToSet(Tail(poly))}))

Chains == Seq(Seq(Int))
Brackets == Seq(Seq(Int))
HalfOf(bracket, mid, upper) ==
  IF upper THEN <<mid, bracket[2]>> ELSE <<bracket[1], mid>>

IsolateExtreme[chain \in Chains, bracket \in Brackets, largest \in BOOLEAN, steps \in Nat] ==
  LET mid == Half(bracket[1], bracket[2])
      Isolate(count, upper) ==
        IF steps = 0 \/ count = Unanswered THEN Unanswered
        ELSE IF count <= 1 THEN bracket
        ELSE IF upper = Unanswered THEN Unanswered
        ELSE IsolateExtreme[
               chain, HalfOf(bracket, mid, IF largest THEN upper >= 1 ELSE count = upper),
               largest, steps - 1]
  IN  Isolate(CountIn(chain, bracket[1], bracket[2]), CountIn(chain, mid, bracket[2]))

\* The largest or the smallest root of the irrational part, whose roots are real, and of
\* the rational roots.
Extreme(chain, bound, roots, largest) ==
  LET low == <<-bound[1], bound[2]>>
      rational == IF largest THEN Highest(roots) ELSE Lowest(roots)
      Hull(bracket) ==
        IF bracket = Unanswered \/ roots = {} THEN bracket
        ELSE IF largest THEN <<Highest({bracket[1], rational}), bracket[2]>>
        ELSE <<bracket[1], Lowest({bracket[2], rational})>>
  IN  IF /\ roots # {}
         /\ 0 = CountIn(chain, IF largest THEN rational ELSE low,
                               IF largest THEN bound ELSE rational)
      THEN <<rational, rational>>
      ELSE Hull(IsolateExtreme[chain, <<low, bound>>, largest, MAX_ISOLATION_STEPS])

Refine(chain, bracket, largest) ==
  LET mid == Half(bracket[1], bracket[2])
      Chosen(count) == IF count = Unanswered THEN Unanswered
                       ELSE HalfOf(bracket, mid, largest = (count >= 1))
  IN  IF bracket[1] = bracket[2] THEN bracket
      ELSE Chosen(CountIn(chain, IF largest THEN mid ELSE bracket[1],
                                 IF largest THEN bracket[2] ELSE mid))

Bounds == {Unanswered} \cup Brackets
Compared[chain \in Chains, top, bottom \in Bounds, value \in Seq(Int), steps \in Nat] ==
  IF top = Unanswered \/ bottom = Unanswered THEN "undecided"
  ELSE IF ~Below(value, Minus(top[2], bottom[1])) THEN "less"
  ELSE IF ~Below(Minus(top[1], bottom[2]), value) THEN "greater"
  ELSE IF steps = 1 THEN "undecided"
  ELSE Compared[chain, Refine(chain, top, TRUE), Refine(chain, bottom, FALSE), value, steps - 1]

\* Two exact ends may be the extent.
Between(chain, top, bottom, value) ==
  IF /\ top # Unanswered /\ bottom # Unanswered
     /\ top[1] = top[2] /\ bottom[1] = bottom[2] /\ Minus(top[1], bottom[1]) = value
  THEN "equal"
  ELSE Compared[chain, top, bottom, value, MAX_REFINEMENT_STEPS]

SpreadVersus(irrational, chain, roots, value) ==
  LET End(largest) ==
        IF Degree(irrational) < 1
        THEN [end \in 1..2 |-> IF largest THEN Highest(roots) ELSE Lowest(roots)]
        ELSE Extreme(chain, RootBound(irrational), roots, largest)
  IN  Between(chain, End(TRUE), End(FALSE), value)

ExtentVersus(poly, value) ==
  LET radical == SquarefreePart(poly)
      found == RationalRoots(radical)
      roots == IF found = Unanswered THEN {} ELSE found
      irrational == Deflated(radical, roots)
  IN  SpreadVersus(irrational, SturmChain[irrational, Primitive(Derivative(irrational))],
                   roots, value)
-----------------------------------------------------------------------------
(* Supplied decompositions: [scalars, quotients], blocks with their vectors. *)

ClaimedOrder(d) ==
  FoldLeft(LAMBDA sum, b : sum + b.dimension, 0, d.scalars)
    + FoldLeft(LAMBDA sum, b : sum + Len(b.matrix) * b.multiplicity, 0, d.quotients)

BasisVectors(d) ==
  FlattenSeq([b \in DOMAIN d.scalars |-> d.scalars[b].vectors])
    \o FlattenSeq([b \in DOMAIN d.quotients |-> FlattenSeq(d.quotients[b].copies)])

\* The dimensions are those of the graph, and the vectors as many as they say.
Fits(d, n) ==
  /\ ClaimedOrder(d) = n
  /\ \A b \in ToSet(d.scalars) : b.dimension >= 1 /\ Len(b.vectors) = b.dimension
  /\ \A b \in ToSet(d.quotients) :
       /\ b.multiplicity >= 1 /\ Len(b.copies) = b.multiplicity
       /\ \A copy \in ToSet(b.copies) : Len(copy) = Len(b.matrix)
  /\ \A v \in ToSet(BasisVectors(d)) : Len(v) = n /\ \E i \in 1..n : v[i] # 0

ActsAsClaimed(m, d) ==
  /\ \A b \in ToSet(d.scalars), v \in UNION {ToSet(b.vectors) : b \in ToSet(d.scalars)} :
       v \in ToSet(b.vectors) => Image(m, v) = [i \in DOMAIN v |-> b.eigenvalue * v[i]]
  /\ \A b \in ToSet(d.quotients) : \A copy \in ToSet(b.copies), j \in DOMAIN b.matrix :
       Image(m, copy[j]) =
         [i \in DOMAIN m |-> MapThenSumSet(LAMBDA r : b.matrix[r][j] * copy[r][i],
                                           DOMAIN b.matrix)]

\* decomposition_root_polynomial: every block once.
RootPolynomial(d) ==
  LET scalar == FoldLeft(LAMBDA p, b : PolyTimes(p, <<1, -b.eigenvalue>>), <<1>>, d.scalars)
  IN  FoldLeft(LAMBDA p, b : PolyTimes(p, CharacteristicPolynomial(b.matrix)),
               scalar, d.quotients)

\* verify_decomposition; the roots of the polynomial are then those of the graph.
Verified(m, d) == Fits(d, Len(m)) /\ ActsAsClaimed(m, d) /\ FullRank(BasisVectors(d), Len(m))
-----------------------------------------------------------------------------
(* The replay of a candidate. *)

Dense(g, d) == d # Unsupplied \/ g.order <= MAX_DENSE_ORDER

\* What holds the roots of the spectrum: _distinct_count and _extent_polynomial.
SpectrumPolynomial(m, d) ==
  IF d = Unsupplied THEN MinimalPolynomial(m)
  ELSE IF Verified(m, d) THEN RootPolynomial(d) ELSE Unanswered

ReadingVerdict(m, poly, value, range) ==
  IF value = Unanswered THEN "not_evaluated"
  ELSE IF range = "range_extent" /\ Len(m) >= 2 /\ ~Below(RayleighExtentBound(m), value)
       THEN "does_not_refute"
  ELSE IF poly = Unanswered THEN "not_evaluated"
  ELSE IF range = "range_distinct_count"
       THEN IF Below(Integral(DistinctRootCount(poly)), value) THEN "refutes"
            ELSE "does_not_refute"
  ELSE [less |-> "refutes", undecided |-> "not_evaluated", equal |-> "does_not_refute",
        greater |-> "does_not_refute"][ExtentVersus(poly, value)]

\* replay_candidate: a wrong decomposition or an unconfirmed polynomial ends it.
ReplayedWith(m, dense, poly) ==
  IF dense /\ poly = Unanswered THEN Unanswered
  ELSE [count |-> IF dense THEN DistinctRootCount(poly) ELSE Unanswered,
        verdicts |-> [even \in EvenReadings |-> [range \in RangeReadings |->
                        ReadingVerdict(m, poly, InverseEven(m, even), range)]]]
ReplayedMatrix(m, dense, d) ==
  ReplayedWith(m, dense, IF dense THEN SpectrumPolynomial(m, d) ELSE Unanswered)
ReplayedGraph(g, d) ==
  IF Connected(g) THEN ReplayedMatrix(DistanceMatrix(g), Dense(g, d), d)
  ELSE [count |-> Unanswered,
        verdicts |-> [even \in EvenReadings |-> [range \in RangeReadings |-> "not_evaluated"]]]

NotAsked == [asked |-> "nothing"]

GraphInit == witness \in Witnesses /\ answer = NotAsked

ReplayWitness ==
  /\ answer = NotAsked
  /\ \E d \in Decompositions \cup {Unsupplied} :
       answer' = [asked |-> "replay", given |-> d, result |-> ReplayedGraph(witness, d),
                  triangleFree |-> TriangleFree(witness)]
  /\ UNCHANGED witness

\* spectral_extent_vs of the minimal polynomial.
CompareExtent ==
  /\ answer = NotAsked
  /\ Connected(witness)
  /\ \E poly \in {MinimalPolynomial(DistanceMatrix(witness))}, value \in ExtentValues :
       answer' = [asked |-> "extent", value |-> value,
                  result |-> IF poly = Unanswered THEN poly ELSE ExtentVersus(poly, value)]
  /\ UNCHANGED witness

GraphNext == ReplayWitness \/ CompareExtent

GraphSpec == GraphInit /\ [][GraphNext]_graphVars
-----------------------------------------------------------------------------
(* What the answers are held against. *)

\* The rank of rows of residues.
ResidueRank(rows, p) ==
  LET InverseOf(a) == CHOOSE b \in 1..(p - 1) : (a * b) % p = 1
      Subtract(r, e) == [i \in DOMAIN r |-> (r[i] - r[e.pivot] * e.row[i]) % p]
      Include(echelon, r) ==
        LET row == FoldLeft(Subtract, [i \in DOMAIN r |-> r[i] % p], echelon)
            pivots == {i \in DOMAIN row : row[i] # 0}
        IN  IF pivots = {} THEN echelon
            ELSE Append(echelon, [pivot |-> Min(pivots),
                                  row |-> [i \in DOMAIN row |->
                                             (row[i] * InverseOf(row[Min(pivots)])) % p]])
  IN  Len(FoldLeft(Include, <<>>, rows))

\* A symmetric matrix has as many eigenvalues as it has independent powers.
EigenvalueCount(m) ==
  LET n == Len(m)
      p == 101
      TimesM(a) == [i \in 1..n |-> [j \in 1..n |->
                        MapThenSumSet(LAMBDA k : a[i][k] * m[k][j], 1..n) % p]]
      powers == FoldLeft(LAMBDA s, k : Append(s, TimesM(Last(s))),
                         <<[i \in 1..n |-> Unit(i, n)]>>, [k \in 1..(n - 1) |-> k])
  IN  ResidueRank([k \in 1..n |-> FlattenSeq(powers[k])], p)

RECURSIVE Determinant(_)
Determinant(m) ==
  LET Minor(j) == [i \in 1..(Len(m) - 1) |-> [c \in 1..(Len(m) - 1) |->
                     m[i + 1][IF c < j THEN c ELSE c + 1]]]
  IN  IF m = <<>> THEN 1
      ELSE MapThenSumSet(LAMBDA j : (IF j % 2 = 1 THEN 1 ELSE -1) * m[1][j]
                                      * Determinant(Minor(j)),
                         DOMAIN m)

PositiveDefinite(m) ==
  \A k \in DOMAIN m : Determinant([i \in 1..k |-> [j \in 1..k |-> m[i][j]]]) > 0

\* Every eigenvalue of a + b m is positive.
AllPositive(a, b, m) ==
  PositiveDefinite([i \in DOMAIN m |-> [j \in DOMAIN m |->
                      b * m[i][j] + (IF i = j THEN a ELSE 0)]])

\* With the eigenvalues below c and above c - v the extent is below v; with one at c or
\* above and one at c - v or below it reaches v.
ExtentIsBelow(m, v) ==
  \E k \in 0..MaxHalves : /\ AllPositive(v[2] * k, -2 * v[2], m)
                          /\ AllPositive(2 * v[1] - v[2] * k, 2 * v[2], m)
ExtentReaches(m, v) ==
  \E k \in 0..MaxHalves : /\ ~AllPositive(v[2] * k, -2 * v[2], m)
                          /\ ~AllPositive(2 * v[1] - v[2] * k, 2 * v[2], m)
-----------------------------------------------------------------------------
(* Properties. *)

Verdicts == {"refutes", "does_not_refute", "not_evaluated"}

\* What was asked, and an answer that is exact or a refusal (replay.py, spectrum.py).
GraphTypeOK ==
  /\ \A edge \in witness.edges : edge \subseteq 1..witness.order /\ Cardinality(edge) = 2
  /\ answer.asked \in {"nothing", "replay", "extent"}
  /\ answer.asked = "replay" /\ answer.result # Unanswered =>
       answer.result.verdicts \in [EvenReadings -> [RangeReadings -> Verdicts]]
  /\ answer.asked = "extent" =>
       answer.result \in {Unanswered, "less", "equal", "greater", "undecided"}

\* An answer has its shape; the count of a replay is the number of eigenvalues, whichever
\* decomposition was supplied, and no verdict on the extent is wrong.  One that is accepted
\* gives what the graph alone gives, where that is confirmed (verify_decomposition,
\* minimal_polynomial, spectral_extent_vs, replay_candidate).
SpectraExact ==
  LET m == DistanceMatrix(witness)
      Agrees(below, value) ==
        IF below THEN ~ExtentReaches(m, value) ELSE ~ExtentIsBelow(m, value)
  IN  /\ GraphTypeOK
      /\ answer.asked = "replay" /\ answer.result # Unanswered =>
           /\ answer.result.count \in {Unanswered, EigenvalueCount(m)}
           /\ \A even \in EvenReadings :
                answer.result.verdicts[even]["range_extent"] # "not_evaluated" =>
                  Agrees(answer.result.verdicts[even]["range_extent"] = "refutes",
                         InverseEven(m, even))
           /\ Dense(witness, Unsupplied) =>
                ReplayedGraph(witness, Unsupplied) \in {Unanswered, answer.result}
      /\ answer.asked = "extent" /\ answer.result \notin {Unanswered, "undecided"} =>
           Agrees(answer.result = "less", answer.value)
=============================================================================
