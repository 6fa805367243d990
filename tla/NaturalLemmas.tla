---------------------------- MODULE NaturalLemmas ----------------------------
(***************************************************************************)
(* Induction over numbers, stated about sets and functions, for the loops  *)
(* over options that the other modules write as recursive functions.       *)
(***************************************************************************)
EXTENDS Naturals, WellFoundedInduction, TLAPS

(***************************************************************************)
(* A set of natural numbers that is not empty has a least member.          *)
(***************************************************************************)
LEMMA LeastNatural ==
    ASSUME NEW S \in SUBSET Nat, S # {}
    PROVE  \E m \in S : \A n \in S : m <= n
<1> DEFINE Less(a, b) == a < b
<1>1. IsWellFoundedOn(OpToRel(Less, Nat), Nat)
    BY NatLessThanWellFounded
<1>2. PICK m \in S : \A n \in S : ~(<<n, m>> \in OpToRel(Less, Nat))
    BY <1>1, WFMin
<1>3. \A n \in S : ~(n < m)
    BY <1>2 DEF OpToRel
<1> QED
    BY <1>3

(***************************************************************************)
(* Of some positions of a sequence one is the last.                        *)
(***************************************************************************)
LEMMA LastPosition ==
    ASSUME NEW n \in Nat, NEW K \in SUBSET (1..n), K # {}
    PROVE  \E m \in K : \A j \in K : j <= m
<1> DEFINE Left == {n - k : k \in K}
<1>1. Left \in SUBSET Nat /\ Left # {}
    <2>1. ASSUME NEW k \in K PROVE n - k \in Nat
        <3>1. k \in 1..n
            OBVIOUS
        <3> QED
            BY <3>1
    <2>2. Left \in SUBSET Nat
        BY <2>1
    <2>3. PICK k \in K : TRUE
        OBVIOUS
    <2>4. n - k \in Left
        OBVIOUS
    <2> QED
        BY <2>2, <2>4
<1>2. PICK least \in Left : \A l \in Left : least <= l
    BY <1>1, LeastNatural
<1>3. PICK m \in K : least = n - m
    OBVIOUS
<1>4. ASSUME NEW j \in K PROVE j <= m
    <2>1. least <= n - j
        BY <1>2
    <2> QED
        BY <1>3, <2>1
<1> QED
    BY <1>4

(***************************************************************************)
(* Induction up to n: what holds of 0, and of each number if it holds of   *)
(* the one before, holds of all.                                           *)
(***************************************************************************)
LEMMA InductionUpTo ==
    ASSUME NEW n \in Nat, NEW S, 0 \in S,
           \A k \in 1..n : k - 1 \in S => k \in S
    PROVE  n \in S /\ \A k \in 0..n : k \in S
<1> DEFINE Bad == {k \in 0..n : k \notin S}
<1>1. SUFFICES ASSUME Bad # {} PROVE FALSE
    <2>1. n \in 0..n
        OBVIOUS
    <2> QED
        BY <2>1
<1>2. Bad \in SUBSET Nat /\ \A k \in Bad : k \in 0..n /\ k \notin S
    OBVIOUS
<1>3. \A k \in 0..n : k \notin Bad => k \in S
    OBVIOUS
<1> HIDE DEF Bad
<1>4. PICK m \in Bad : \A k \in Bad : m <= k
    BY <1>1, <1>2, LeastNatural
<1>5. m \in 1..n /\ m - 1 \in 0..n /\ ~(m <= m - 1)
    BY <1>2
<1>6. m - 1 \notin Bad
    BY <1>4, <1>5
<1> QED
    BY <1>2, <1>3, <1>5, <1>6

\* step[k] takes the values of a loop in D from one turn to the next.
Stepwise(step, n, D) == step \in [1..n -> [D -> D]]

\* f[k] is the value after k turns.
Iterates(f, step, first, n, D) ==
    /\ f \in [0..n -> D] /\ f[0] = first
    /\ \A k \in 1..n : f[k] = step[k][f[k - 1]]

(***************************************************************************)
(* Each loop of n turns has its values.                                    *)
(***************************************************************************)
LEMMA IterationExists ==
    ASSUME NEW n \in Nat, NEW D, NEW first \in D, NEW step, Stepwise(step, n, D)
    PROVE  \E f : Iterates(f, step, first, n, D)
<1> DEFINE S == {m \in 0..n : \E f : Iterates(f, step, first, m, D)}
<1>0. ASSUME NEW m \in 0..n, NEW f, Iterates(f, step, first, m, D)
      PROVE  m \in S
    BY <1>0
<1>1. 0 \in S
    <2>1. Iterates([k \in 0..0 |-> first], step, first, 0, D)
        BY DEF Iterates
    <2> HIDE DEF S
    <2> QED
        BY <1>0, <2>1
<1>2. ASSUME NEW m \in 1..n, m - 1 \in S
      PROVE  m \in S
    <2>1. PICK f : Iterates(f, step, first, m - 1, D)
        BY <1>2
    <2>2. m - 1 \in 0..(m - 1) /\ f[m - 1] \in D
        BY <2>1 DEF Iterates
    <2>3. step[m] \in [D -> D] /\ step[m][f[m - 1]] \in D
        BY <2>2 DEF Stepwise
    <2> DEFINE g == [k \in 0..m |-> IF k = m THEN step[m][f[m - 1]] ELSE f[k]]
    <2>4. g \in [0..m -> D] /\ g[0] = first
        BY <2>1, <2>3 DEF Iterates
    <2>5. ASSUME NEW k \in 1..m
          PROVE  g[k] = step[k][g[k - 1]]
        <3>1. g[k - 1] = f[k - 1]
            OBVIOUS
        <3>2. CASE k = m
            BY <3>1, <3>2
        <3>3. CASE k # m
            BY <2>1, <3>1, <3>3 DEF Iterates
        <3> QED
            BY <3>2, <3>3
    <2>6. Iterates(g, step, first, m, D)
        BY <2>4, <2>5 DEF Iterates
    <2> HIDE DEF S, g
    <2> QED
        BY <1>0, <2>6
<1> HIDE DEF S
<1>3. n \in S
    BY <1>1, <1>2, InductionUpTo
<1> QED
    BY <1>3 DEF S
=============================================================================
