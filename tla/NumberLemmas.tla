---------------------------- MODULE NumberLemmas ----------------------------
(***************************************************************************)
(* The least-number principle for sets of positions, which the proofs use  *)
(* where the code searches for the first or the last record of a kind, and *)
(* what follows from it for functions defined by recursion on a number,    *)
(* which stand for loops over a buffer.                                    *)
(***************************************************************************)
EXTENDS Integers, WellFoundedInduction, TLAPS

\* A forward search of a non-empty set of positions finds a first one.
LEMMA LeastExists ==
  ASSUME NEW S \in SUBSET Nat, S # {}
  PROVE  \E m \in S : \A x \in S : m <= x
<1> DEFINE R == OpToRel(<, Nat)
<1>1. IsWellFoundedOn(R, Nat) BY Zenon, NatLessThanWellFounded
<1>2. ASSUME NEW x \in Nat, NEW y \in Nat, x < y PROVE <<x, y>> \in R
  BY Zenon, <1>2 DEF OpToRel
<1> HIDE DEF R
<1>3. PICK m \in S : \A x \in S : <<x, m>> \notin R
  BY Zenon, <1>1, WFMin
<1>4. ASSUME NEW x \in S PROVE m <= x
  <2>1. m \in Nat /\ x \in Nat BY Zenon
  <2>2. ~(x < m) BY Zenon, <1>2, <1>3, <2>1
  <2> QED BY <2>1, <2>2
<1> QED BY Zenon, <1>3, <1>4

\* A backward search of a non-empty set of positions up to n finds a last one.
LEMMA GreatestExists ==
  ASSUME NEW n \in Nat, NEW S \in SUBSET (0..n), S # {}
  PROVE  \E m \in S : \A x \in S : x <= m
<1> DEFINE B == {b \in Nat : \A x \in S : x <= b}
<1>1. PICK b \in B : \A c \in B : b <= c
  <2>1. n \in B /\ B \in SUBSET Nat OBVIOUS
  <2> QED BY Zenon, <2>1, LeastExists
<1>2. b \in S
  <2> SUFFICES ASSUME b \notin S PROVE FALSE BY Zenon
  <2>1. \A x \in S : x <= b - 1 /\ x \in Nat BY <1>1
  <2>2. PICK x \in S : TRUE BY Zenon
  <2>3. b - 1 \in Nat BY <1>1, <2>1, <2>2
  <2>4. b - 1 \in B BY Zenon, <2>1, <2>3
  <2> QED BY <1>1, <2>4
<1> QED BY Zenon, <1>1, <1>2

-----------------------------------------------------------------------------
(* A loop that starts from x and computes its n-th value from the one before. *)

Approximates(S, x, F, n, g) ==
    g \in [0..n -> S] /\ g[0] = x /\ \A i \in 0..(n - 1) : g[i + 1] = F[<<i, g[i]>>]

\* Any number of turns can be made.
LEMMA ApproximationExists ==
  ASSUME NEW S, NEW x \in S, NEW F \in [Nat \X S -> S], NEW n \in Nat
  PROVE  \E g : Approximates(S, x, F, n, g)
<1> DEFINE P(k) == \E g : Approximates(S, x, F, k, g)
           B == {k \in Nat : ~P(k)}
<1> SUFFICES ASSUME ~P(n) PROVE FALSE BY Zenon
<1>1. PICK m \in B : \A k \in B : m <= k
  <2>1. n \in B /\ B \in SUBSET Nat BY Zenon
  <2> HIDE DEF B
  <2> QED BY Zenon, <2>1, LeastExists
<1>2. m \in Nat /\ ~P(m) BY Zenon, <1>1
<1>3. m # 0
  <2>1. Approximates(S, x, F, 0, [i \in 0..0 |-> x]) BY DEF Approximates
  <2> QED BY Zenon, <1>2, <2>1
<1>4. m - 1 \in Nat /\ ~(m <= m - 1) BY <1>2, <1>3
<1>5. PICK g : Approximates(S, x, F, m - 1, g) BY Zenon, <1>1, <1>4
<1> DEFINE h == [i \in 0..m |-> IF i = m THEN F[<<m - 1, g[m - 1]>>] ELSE g[i]]
<1>6. g \in [0..(m - 1) -> S] /\ g[0] = x /\ \A i \in 0..(m - 2) : g[i + 1] = F[<<i, g[i]>>]
  BY <1>4, <1>5 DEF Approximates
<1>7. h \in [0..m -> S]
  <2>1. m - 1 \in 0..(m - 1) /\ \A i \in 0..m : i = m \/ i \in 0..(m - 1) BY <1>2, <1>3
  <2>2. F[<<m - 1, g[m - 1]>>] \in S BY Zenon, <1>4, <1>6, <2>1
  <2>3. \A i \in 0..m : (IF i = m THEN F[<<m - 1, g[m - 1]>>] ELSE g[i]) \in S BY Zenon, <1>6, <2>1, <2>2
  <2> QED BY Zenon, <2>3
<1>8. h[0] = x BY <1>2, <1>3, <1>6
<1>9. ASSUME NEW i \in 0..(m - 1) PROVE h[i + 1] = F[<<i, h[i]>>]
  <2>1. i \in 0..m /\ i + 1 \in 0..m /\ i # m BY <1>2
  <2>2. h[i] = g[i] BY Zenon, <2>1
  <2>3. CASE i = m - 1
    <3>1. i + 1 = m BY <1>2, <2>3
    <3> QED BY Zenon, <2>1, <2>2, <2>3, <3>1
  <2>4. CASE i # m - 1
    <3>1. i + 1 # m /\ i \in 0..(m - 2) BY <1>2, <2>4
    <3> QED BY Zenon, <1>6, <2>1, <2>2, <3>1
  <2> QED BY Zenon, <2>3, <2>4
<1> QED
  <2> HIDE DEF h
  <2>1. Approximates(S, x, F, m, h) BY Zenon, <1>7, <1>8, <1>9 DEF Approximates
  <2> QED BY Zenon, <1>2, <2>1

\* Two runs of the loop agree as far as both go.
LEMMA ApproximationsAgree ==
  ASSUME NEW S, NEW x, NEW F, NEW n \in Nat, NEW k \in Nat, NEW g, NEW h,
         Approximates(S, x, F, n, g), Approximates(S, x, F, k, h),
         NEW i \in Nat, i <= n, i <= k
  PROVE  g[i] = h[i]
<1> DEFINE B == {j \in Nat : j <= n /\ j <= k /\ g[j] # h[j]}
<1> SUFFICES ASSUME g[i] # h[i] PROVE FALSE BY Zenon
<1>1. PICK m \in B : \A j \in B : m <= j
  <2>1. i \in B /\ B \in SUBSET Nat BY Zenon
  <2> HIDE DEF B
  <2> QED BY Zenon, <2>1, LeastExists
<1>2. m \in Nat /\ m <= n /\ m <= k /\ g[m] # h[m] BY Zenon, <1>1
<1>3. m # 0 BY Zenon, <1>2 DEF Approximates
<1>4. /\ m - 1 \in 0..(n - 1) /\ m - 1 \in 0..(k - 1) /\ m - 1 \in Nat /\ (m - 1) + 1 = m
      /\ m - 1 <= n /\ m - 1 <= k /\ ~(m <= m - 1)
  BY <1>2, <1>3
<1>5. g[m - 1] = h[m - 1] BY Zenon, <1>1, <1>4
<1>6. g[(m - 1) + 1] = F[<<m - 1, g[m - 1]>>] /\ h[(m - 1) + 1] = F[<<m - 1, h[m - 1]>>]
  BY Zenon, <1>4 DEF Approximates
<1> QED BY Zenon, <1>2, <1>4, <1>5, <1>6

IsTurn(S, F) == F \in [Nat \X S -> S]
IsLoop(S, x, F, f) ==
    f \in [Nat -> S] /\ f[0] = x /\ \A n \in Nat : f[n + 1] = F[<<n, f[n]>>]

\* The values of all turns form a function, as a recursive definition says.
LEMMA RecursionExists ==
  ASSUME NEW S, NEW x \in S, NEW F, IsTurn(S, F)
  PROVE  \E f : IsLoop(S, x, F, f)
<1> DEFINE G(n) == CHOOSE g : Approximates(S, x, F, n, g)
           f == [n \in Nat |-> G(n)[n]]
<1>1. ASSUME NEW n \in Nat PROVE Approximates(S, x, F, n, G(n))
  BY Zenon, ApproximationExists DEF IsTurn
<1> HIDE DEF G
<1>2. ASSUME NEW n \in Nat PROVE G(n)[n] \in S
  <2>1. n \in 0..n OBVIOUS
  <2> QED BY Zenon, <1>1, <2>1 DEF Approximates
<1>3. f \in [Nat -> S] BY Zenon, <1>2
<1>4. f[0] = x
  <2>1. 0 \in Nat OBVIOUS
  <2> QED BY Zenon, <1>1, <2>1 DEF Approximates
<1>5. ASSUME NEW n \in Nat PROVE f[n + 1] = F[<<n, f[n]>>]
  <2>1. n + 1 \in Nat /\ n \in 0..((n + 1) - 1) /\ n <= n + 1 /\ n <= n OBVIOUS
  <2>2. G(n + 1)[n + 1] = F[<<n, G(n + 1)[n]>>] BY Zenon, <1>1, <2>1 DEF Approximates
  <2>3. G(n + 1)[n] = G(n)[n]
    <3>1. PICK k \in Nat : k = n + 1 BY Zenon, <2>1
    <3>2. PICK g, h : g = G(n) /\ h = G(k) BY Zenon
    <3>3. Approximates(S, x, F, n, g) /\ Approximates(S, x, F, k, h) /\ n <= k /\ n <= n
      BY Zenon, <1>1, <2>1, <3>1, <3>2
    <3>4. g[n] = h[n] BY <3>3, ApproximationsAgree
    <3> QED BY Zenon, <3>1, <3>2, <3>4
  <2> QED BY Zenon, <2>1, <2>2, <2>3
<1> QED
  <2> HIDE DEF f
  <2>1. IsLoop(S, x, F, f) BY Zenon, <1>3, <1>4, <1>5 DEF IsLoop
  <2> QED BY Zenon, <2>1
=============================================================================
