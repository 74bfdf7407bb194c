------------------------------ MODULE NatProofs ------------------------------
(***************************************************************************)
(* Least elements, induction and recursion over the naturals, for sets and  *)
(* functions in place of operators: what the proofs about loops rest on.    *)
(***************************************************************************)
EXTENDS Integers, FiniteSetsExt, FiniteSetTheorems, WellFoundedInduction, TLAPS

\* Every set of naturals that is not empty has a least element.
LEMMA Least ==
  ASSUME NEW S, S \subseteq Nat, S # {}
  PROVE  \E m \in S : \A k \in S : m <= k
<1> DEFINE T == {0 .. k : k \in S}
<1> HIDE DEF T
<1>1. T \subseteq FiniteSubsetsOf(Nat) /\ T # {}
  <2>1. \A k \in S : 0 .. k \subseteq Nat /\ IsFiniteSet(0 .. k)
    BY FS_Interval
  <2> QED BY <2>1 DEF T, FiniteSubsetsOf
<1>2. PICK x \in T : \A y \in T : ~ (<<y, x>> \in StrictSubsetOrdering(Nat))
  <2> HIDE DEF StrictSubsetOrdering, FiniteSubsetsOf, IsWellFoundedOn
  <2> QED BY <1>1, FS_StrictSubsetOrderingWellFounded, WFMin
<1>3. PICK m \in S : x = 0 .. m
  BY DEF T
<1>4. ASSUME NEW k \in S, k < m PROVE FALSE
  <2>1. 0 .. k \in T /\ 0 .. k \in SUBSET Nat /\ 0 .. m \in SUBSET Nat
    BY DEF T
  <2>2. 0 .. k \subseteq 0 .. m /\ 0 .. k # 0 .. m
    <3>1. m \in 0 .. m /\ m \notin 0 .. k
      BY <1>4
    <3> QED BY <1>4, <3>1
  <2>3. <<0 .. k, 0 .. m>> \in StrictSubsetOrdering(Nat)
    BY <2>1, <2>2 DEF StrictSubsetOrdering
  <2> QED BY <1>2, <1>3, <2>1, <2>3
<1> QED BY <1>4

\* Induction over the naturals for a set in place of a predicate.
LEMMA Induct ==
  ASSUME NEW S, 0 \in S, \A n \in Nat : n \in S => n + 1 \in S
  PROVE  Nat \subseteq S
<1>1. SUFFICES ASSUME Nat \ S # {} PROVE FALSE
  OBVIOUS
<1>2. PICK m \in Nat \ S : \A k \in Nat \ S : m <= k
  <2> DEFINE T == Nat \ S
  <2>1. T \subseteq Nat /\ T # {}
    BY <1>1
  <2> HIDE DEF T
  <2>2. \E m \in T : \A k \in T : m <= k
    BY <2>1, Least
  <2> QED BY <2>2 DEF T
<1>3. m # 0 /\ m - 1 \in Nat
  BY <1>2
<1>4. m - 1 \in S
  BY <1>2, <1>3
<1> QED BY <1>2, <1>3, <1>4

LEMMA MinIs ==
  ASSUME NEW S, S \subseteq Nat, S # {}
  PROVE  Min(S) \in S /\ \A k \in S : Min(S) <= k
BY Least DEF Min

LEMMA MaxIs ==
  ASSUME NEW n \in Nat, NEW S, S \subseteq 1 .. n, S # {}
  PROVE  Max(S) \in S /\ \A k \in S : Max(S) >= k
<1> DEFINE T == {n - k : k \in S}
<1>1. T \subseteq Nat /\ T # {}
  <2>1. \A k \in S : n - k \in Nat
    OBVIOUS
  <2> QED BY <2>1
<1> HIDE DEF T
<1>2. PICK m \in T : \A k \in T : m <= k
  BY <1>1, Least
<1>3. PICK k \in S : m = n - k
  BY DEF T
<1>4. ASSUME NEW j \in S PROVE k >= j
  <2>1. n - j \in T
    BY DEF T
  <2>2. n - k <= n - j
    BY <2>1, <1>2, <1>3
  <2>3. j \in 1 .. n /\ k \in 1 .. n
    OBVIOUS
  <2> QED BY <2>2, <2>3
<1> QED BY <1>4 DEF Max

Recurses(f, base, N, step) ==
    /\ f[0] = base
    /\ \A i \in 1 .. N : f[i] = step[<<f[i - 1], i - 1>>]

\* A function defined by recursion over the first naturals exists.
LEMMA Recursion ==
  ASSUME NEW S, NEW base \in S, NEW N \in Nat, NEW step \in [S \X (0 .. N - 1) -> S]
  PROVE  \E f \in [0 .. N -> S] : Recurses(f, base, N, step)
<1> DEFINE Right(f, k) == /\ f \in [0 .. k -> S] /\ f[0] = base
                          /\ \A i \in 1 .. k : f[i] = step[<<f[i - 1], i - 1>>]
           T == {k \in Nat : k <= N => \E f : Right(f, k)}
<1>1. 0 \in T
  <2> DEFINE f == [i \in 0 .. 0 |-> base]
  <2>1. Right(f, 0)
    OBVIOUS
  <2> QED BY <2>1
<1>2. ASSUME NEW k \in Nat, k \in T PROVE k + 1 \in T
  <2>1. SUFFICES ASSUME k + 1 <= N PROVE \E f : Right(f, k + 1)
    OBVIOUS
  <2>2. PICK f : Right(f, k)
    BY <2>1, <1>2
  <2> DEFINE g == [i \in 0 .. k + 1 |-> IF i = k + 1 THEN step[<<f[k], k>>] ELSE f[i]]
  <2>3. f[k] \in S /\ <<f[k], k>> \in S \X (0 .. N - 1)
    BY <2>1, <2>2
  <2>4. g \in [0 .. k + 1 -> S] /\ g[0] = base
    BY <2>2, <2>3
  <2>5. ASSUME NEW i \in 1 .. k + 1 PROVE g[i] = step[<<g[i - 1], i - 1>>]
    <3>1. CASE i = k + 1
      <4>1. i - 1 = k /\ g[k] = f[k] /\ g[i] = step[<<f[k], k>>]
        BY <3>1
      <4> QED BY <4>1
    <3>2. CASE i # k + 1
      <4>1. i \in 1 .. k /\ g[i] = f[i] /\ g[i - 1] = f[i - 1]
        BY <3>2
      <4> QED BY <4>1, <2>2
    <3> QED BY <3>1, <3>2
  <2> QED BY <2>4, <2>5
<1> HIDE DEF T
<1>3. N \in T
  BY <1>1, <1>2, Induct
<1> QED BY <1>3 DEF T, Recurses

\* The same where what the values are depends on how far the loop is.
Passes(m, N, P, step) ==
    /\ m \in P[0]
    /\ \A n \in 0 .. N - 1 : \A r \in P[n] : step[<<r, n>>] \in P[n + 1]

Iterates(f, m, N, P, step) ==
    /\ f = [i \in 0 .. N |-> f[i]] /\ f[0] = m
    /\ \A i \in 0 .. N : f[i] \in P[i]
    /\ \A i \in 0 .. N - 1 : f[i + 1] = step[<<f[i], i>>]

LEMMA Iteration ==
  ASSUME NEW N \in Nat, NEW P, NEW step, NEW m, Passes(m, N, P, step)
  PROVE  \E f : Iterates(f, m, N, P, step)
<1> DEFINE T == {k \in Nat : k <= N => \E f : Iterates(f, m, k, P, step)}
<1>1. 0 \in T
  <2> DEFINE f == [i \in 0 .. 0 |-> m]
  <2>1. Iterates(f, m, 0, P, step)
    BY DEF Iterates, Passes
  <2> QED BY <2>1
<1>2. ASSUME NEW k \in Nat, k \in T PROVE k + 1 \in T
  <2>1. SUFFICES ASSUME k + 1 <= N PROVE \E f : Iterates(f, m, k + 1, P, step)
    OBVIOUS
  <2>2. PICK f : Iterates(f, m, k, P, step)
    BY <2>1, <1>2
  <2>3. PICK v : v = step[<<f[k], k>>]
    OBVIOUS
  <2> DEFINE g == [i \in 0 .. k + 1 |-> IF i = k + 1 THEN v ELSE f[i]]
  <2>4. f[k] \in P[k] /\ k \in 0 .. N - 1
    BY <2>1, <2>2 DEF Iterates
  <2>5. v \in P[k + 1]
    BY <2>3, <2>4 DEF Passes
  <2>6. g[0] = m /\ g[k + 1] = v /\ \A i \in 0 .. k : g[i] = f[i]
    BY <2>2 DEF Iterates
  <2>7. g = [i \in 0 .. k + 1 |-> g[i]]
    OBVIOUS
  <2> HIDE DEF g
  <2>8. ASSUME NEW i \in 0 .. k + 1 PROVE g[i] \in P[i]
    <3>1. i = k + 1 \/ i \in 0 .. k
      OBVIOUS
    <3> QED BY <3>1, <2>2, <2>5, <2>6 DEF Iterates
  <2>9. ASSUME NEW i \in 0 .. (k + 1) - 1 PROVE g[i + 1] = step[<<g[i], i>>]
    <3>1. CASE i = k
      BY <3>1, <2>3, <2>6
    <3>2. CASE i # k
      <4>1. i \in 0 .. k - 1 /\ i \in 0 .. k /\ i + 1 \in 0 .. k
        BY <3>2
      <4> QED BY <4>1, <2>2, <2>6 DEF Iterates
    <3> QED BY <3>1, <3>2
  <2>10. Iterates(g, m, k + 1, P, step)
    BY <2>6, <2>7, <2>8, <2>9 DEF Iterates
  <2> QED BY <2>10
<1> HIDE DEF T
<1>3. N \in T
  BY <1>1, <1>2, Induct
<1> QED BY <1>3 DEF T

\* What every such loop comes to.
LEMMA IterationEnds ==
  ASSUME NEW N \in Nat, NEW P, NEW step, NEW m, Passes(m, N, P, step),
         NEW g, g[0] = m,
         \A i \in 0 .. N - 1 : g[i] \in P[i] => g[i + 1] = step[<<g[i], i>>]
  PROVE  g[N] \in P[N]
<1> DEFINE T == {k \in Nat : k <= N => g[k] \in P[k]}
<1>1. 0 \in T
  BY DEF Passes
<1>2. ASSUME NEW k \in Nat, k \in T PROVE k + 1 \in T
  <2>1. SUFFICES ASSUME k + 1 <= N PROVE g[k + 1] \in P[k + 1]
    OBVIOUS
  <2>2. k \in 0 .. N - 1 /\ g[k] \in P[k]
    BY <1>2, <2>1
  <2> QED BY <2>2 DEF Passes
<1> HIDE DEF T
<1>3. N \in T
  BY <1>1, <1>2, Induct
<1> QED BY <1>3 DEF T

=============================================================================
