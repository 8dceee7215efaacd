---------------------------------- MODULE Sums ----------------------------------
(***************************************************************************)
(* Sums over a sequence and over a function, as recursive functions.       *)
(***************************************************************************)
LOCAL INSTANCE Integers
LOCAL INSTANCE Sequences

Tally(s) ==
  LET sum[n \in 0..Len(s)] == IF n = 0 THEN 0 ELSE sum[n - 1] + s[n]
  IN  sum[Len(s)]

\* Over the domain of f, one element after another in the order CHOOSE gives.
SumOver(f) ==
  LET sum[T \in SUBSET DOMAIN f] ==
        IF T = {} THEN 0 ELSE LET x == CHOOSE x \in T : TRUE IN f[x] + sum[T \ {x}]
  IN  sum[DOMAIN f]
=============================================================================
