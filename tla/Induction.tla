------------------------------ MODULE Induction ------------------------------
(***************************************************************************)
(* Induction over 0 .. N, from the least number at which it would fail,    *)
(* and over the parts of a finite set, and what follows for the community  *)
(* modules' sums of functions.                                             *)
(***************************************************************************)
EXTENDS Integers, FiniteSets, Functions, WellFoundedInduction, FiniteSetTheorems, TLAPS

\* Every set of natural numbers that is not empty has a least element.
LEMMA LeastNumber ==
  ASSUME NEW S \in SUBSET Nat, S # {}
  PROVE  \E x \in S : \A y \in S : x <= y
PROOF
<1> DEFINE R == {ss \in Nat \X Nat : ss[1] < ss[2]}
<1>1. IsWellFoundedOn(R, Nat)
  BY NatLessThanWellFounded DEF OpToRel
<1>2. PICK x \in S : \A y \in S : ~(<<y, x>> \in R)
  <2> HIDE DEF R
  <2> QED BY <1>1, WFMin
<1>3. ASSUME NEW y \in S
      PROVE  x <= y
  <2>1. x \in Nat /\ y \in Nat
    OBVIOUS
  <2>2. ~(y < x)
    BY <1>2, <2>1
  <2> QED BY <2>1, <2>2
<1> QED BY <1>3

\* What holds of 0, and of k if it holds of k - 1, holds up to N.
LEMMA UpTo ==
  ASSUME NEW N \in Nat, NEW S, 0 \in S, \A k \in 1 .. N : k - 1 \in S => k \in S
  PROVE  \A k \in 0 .. N : k \in S
PROOF
<1> DEFINE D == {k \in 0 .. N : k \notin S}
<1> SUFFICES ASSUME D # {} PROVE FALSE
  OBVIOUS
<1>1. D \in SUBSET Nat
  OBVIOUS
<1>2. PICK x \in D : \A y \in D : x <= y
  <2> HIDE DEF D
  <2> QED BY <1>1, LeastNumber
<1>3. x \in 1 .. N /\ x - 1 \in 0 .. N
  OBVIOUS
<1>4. x - 1 \in S
  BY <1>2, <1>3
<1> QED BY <1>3, <1>4

\* What holds of the empty set, and of a set if it holds of it without any one of
\* its elements, holds of every part of a finite set.
LEMMA FiniteInduction ==
  ASSUME NEW S, IsFiniteSet(S), NEW P, {} \in P,
         \A s \in SUBSET S : s # {} /\ (\A x \in s : s \ {x} \in P) => s \in P
  PROVE  \A s \in SUBSET S : s \in P
PROOF
<1> DEFINE N == Cardinality(S)
           K == {n \in Nat : \A s \in SUBSET S : Cardinality(s) = n => s \in P}
<1>1. \A s \in SUBSET S : IsFiniteSet(s) /\ Cardinality(s) \in 0 .. N
  <2> SUFFICES ASSUME NEW s \in SUBSET S PROVE IsFiniteSet(s) /\ Cardinality(s) \in 0 .. N
    OBVIOUS
  <2>1. IsFiniteSet(s) /\ Cardinality(s) <= N
    BY FS_Subset
  <2>2. Cardinality(s) \in Nat /\ N \in Nat
    BY <2>1, FS_CardinalityType
  <2> QED BY <2>1, <2>2
<1>2. 0 \in K
  BY <1>1, FS_EmptySet
<1>3. ASSUME NEW k \in 1 .. N, k - 1 \in K PROVE k \in K
  <2>1. ASSUME NEW s \in SUBSET S, Cardinality(s) = k PROVE s \in P
    <3>1. s # {}
      BY <2>1, FS_EmptySet
    <3>2. ASSUME NEW x \in s PROVE s \ {x} \in P
      <4>1. Cardinality(s \ {x}) = k - 1
        BY <1>1, <2>1, FS_RemoveElement
      <4>2. s \ {x} \in SUBSET S
        OBVIOUS
      <4> QED BY <1>3, <4>1, <4>2
    <3> QED BY <3>1, <3>2
  <2>2. k \in Nat
    OBVIOUS
  <2> QED BY <2>1, <2>2
<1>4. N \in Nat
  BY FS_CardinalityType
<1>5. \A k \in 0 .. N : k \in K
  <2> HIDE DEF K, N
  <2> QED BY <1>2, <1>3, <1>4, UpTo
<1>6. ASSUME NEW s \in SUBSET S PROVE s \in P
  <2>1. Cardinality(s) \in K
    BY <1>1, <1>5
  <2> QED BY <2>1
<1> QED BY <1>6

-----------------------------------------------------------------------------
(* Sums.                                                                   *)

\* g is the recursive function behind SumFunctionOnSet(f, S).
Rest(s) == s \ {CHOOSE x \in s : TRUE}

Adds(g, f, S) ==
  g = [s \in SUBSET S |-> IF s = {} THEN 0 ELSE f[CHOOSE x \in s : TRUE] + g[Rest(s)]]

LEMMA RestSmaller ==
  ASSUME NEW s, s # {}
  PROVE  (CHOOSE x \in s : TRUE) \in s /\ Rest(s) \subseteq s
BY DEF Rest

LEMMA SumIs ==
  ASSUME NEW f, NEW S
  PROVE  SumFunctionOnSet(f, S) = (CHOOSE g : Adds(g, f, S))[S]
BY DEF SumFunctionOnSet, FoldFunctionOnSet, MapThenFoldSet, Adds, Rest

LEMMA AddsExists ==
  ASSUME NEW f, NEW S, IsFiniteSet(S)
  PROVE  \E g : Adds(g, f, S)
PROOF
<1> DEFINE N == Cardinality(S)
           T(n) == {s \in SUBSET S : Cardinality(s) <= n}
           Step(g, s) == IF s = {} THEN 0 ELSE f[CHOOSE x \in s : TRUE] + g[Rest(s)]
           Part(g, n) == g = [s \in T(n) |-> Step(g, s)]
           K == {n \in Nat : \E g : Part(g, n)}
<1>1. \A s \in SUBSET S : IsFiniteSet(s) /\ Cardinality(s) \in Nat /\ Cardinality(s) <= N
  BY FS_Subset, FS_CardinalityType
<1>2. \A s \in SUBSET S : s # {} => Rest(s) \in SUBSET S
                            /\ Cardinality(Rest(s)) = Cardinality(s) - 1
  <2> SUFFICES ASSUME NEW s \in SUBSET S, s # {}
               PROVE  Rest(s) \in SUBSET S /\ Cardinality(Rest(s)) = Cardinality(s) - 1
    OBVIOUS
  <2> DEFINE c == CHOOSE x \in s : TRUE
  <2>1. c \in s
    OBVIOUS
  <2> HIDE DEF c
  <2>2. Cardinality(s \ {c}) = Cardinality(s) - 1
    BY <1>1, <2>1, FS_RemoveElement
  <2> QED BY <2>2 DEF Rest, c
<1>3. 0 \in K
  <2> DEFINE g == [s \in T(0) |-> 0]
  <2>1. \A s \in T(0) : s = {}
    <3> SUFFICES ASSUME NEW s \in T(0) PROVE s = {}
      OBVIOUS
    <3>1. s \in SUBSET S /\ Cardinality(s) = 0
      BY <1>1
    <3> QED BY <1>1, <3>1, FS_EmptySet
  <2>2. \A s \in T(0) : Step(g, s) = 0
    BY <2>1
  <2>3. Part(g, 0)
    <3> HIDE DEF T, Step
    <3> QED BY <2>2
  <2> QED BY <2>3
<1>4. ASSUME NEW k \in 1 .. N, k - 1 \in K PROVE k \in K
  <2>1. PICK g : Part(g, k - 1)
    BY <1>4
  <2> DEFINE h == [s \in T(k) |-> Step(g, s)]
  <2>2. ASSUME NEW s \in T(k), s # {} PROVE h[Rest(s)] = g[Rest(s)]
    <3>1. s \in SUBSET S /\ Cardinality(s) <= k
      BY <2>2
    <3>2. Rest(s) \in SUBSET S /\ Cardinality(Rest(s)) = Cardinality(s) - 1
      BY <1>2, <2>2, <3>1
    <3>3. Cardinality(Rest(s)) <= k - 1 /\ Cardinality(Rest(s)) <= k
      BY <1>1, <3>1, <3>2
    <3>4. Rest(s) \in T(k) /\ Rest(s) \in T(k - 1)
      BY <3>2, <3>3
    <3>5. h[Rest(s)] = Step(g, Rest(s)) /\ g[Rest(s)] = Step(g, Rest(s))
      <4> HIDE DEF T, Step
      <4> QED BY <2>1, <3>4
    <3> QED BY <3>5
  <2>3. \A s \in T(k) : Step(g, s) = Step(h, s)
    <3> HIDE DEF T, h
    <3> QED BY <2>2
  <2>4. Part(h, k) /\ h = [s \in T(k) |-> Step(h, s)] /\ k \in Nat
    <3> HIDE DEF T, Step
    <3> QED BY <2>3
  <2> QED BY <2>4
<1>5. N \in Nat
  BY FS_CardinalityType
<1>6. N \in K
  <2> HIDE DEF K, N
  <2>1. \A k \in 0 .. N : k \in K
    BY <1>3, <1>4, <1>5, UpTo
  <2> QED BY <1>5, <2>1
<1>7. PICK g : Part(g, N)
  BY <1>6
<1>8. T(N) = SUBSET S
  BY <1>1
<1>9. Adds(g, f, S)
  <2>1. g = [s \in SUBSET S |-> Step(g, s)]
    <3> HIDE DEF T, Step
    <3> QED BY <1>7, <1>8
  <2> QED BY <2>1 DEF Adds
<1> QED BY <1>9

\* Sums over a part do not depend on the set the recursion started from.
LEMMA AddsAgree ==
  ASSUME NEW f, NEW g, NEW h, NEW S, NEW T, IsFiniteSet(T), T \subseteq S,
         Adds(g, f, S), Adds(h, f, T)
  PROVE  \A s \in SUBSET T : g[s] = h[s]
PROOF
<1> DEFINE P == {s \in SUBSET T : g[s] = h[s]}
<1>1. \A s \in SUBSET T :
        /\ g[s] = IF s = {} THEN 0 ELSE f[CHOOSE x \in s : TRUE] + g[Rest(s)]
        /\ h[s] = IF s = {} THEN 0 ELSE f[CHOOSE x \in s : TRUE] + h[Rest(s)]
  <2>1. SUBSET T \subseteq SUBSET S
    OBVIOUS
  <2> QED BY <2>1 DEF Adds
<1>2. {} \in P
  BY <1>1
<1>3. ASSUME NEW s \in SUBSET T, s # {}, \A x \in s : s \ {x} \in P
      PROVE  s \in P
  <2>1. Rest(s) \in P
    BY <1>3 DEF Rest
  <2> QED BY <1>1, <1>3, <2>1
<1>4. \A s \in SUBSET T : s \in P
  <2> HIDE DEF P
  <2> QED BY <1>2, <1>3, FiniteInduction
<1> QED BY <1>4

\* A sum takes its elements one by one.
LEMMA SumRule ==
  ASSUME NEW f, NEW S, IsFiniteSet(S)
  PROVE  SumFunctionOnSet(f, S)
           = IF S = {} THEN 0
             ELSE f[CHOOSE x \in S : TRUE] + SumFunctionOnSet(f, Rest(S))
PROOF
<1> DEFINE g == CHOOSE a : Adds(a, f, S)
           h == CHOOSE a : Adds(a, f, Rest(S))
<1>1. Adds(g, f, S)
  BY AddsExists
<1>2. Rest(S) \subseteq S /\ IsFiniteSet(Rest(S))
  BY FS_Subset DEF Rest
<1>3. Adds(h, f, Rest(S))
  BY <1>2, AddsExists
<1>4. SumFunctionOnSet(f, S) = g[S] /\ SumFunctionOnSet(f, Rest(S)) = h[Rest(S)]
  BY SumIs
<1> HIDE DEF g, h
<1>5. g[Rest(S)] = h[Rest(S)]
  <2>1. \A s \in SUBSET Rest(S) : g[s] = h[s]
    BY <1>1, <1>2, <1>3, AddsAgree
  <2> QED BY <2>1
<1>6. g[S] = IF S = {} THEN 0 ELSE f[CHOOSE x \in S : TRUE] + g[Rest(S)]
  BY <1>1 DEF Adds
<1> QED BY <1>4, <1>5, <1>6

\* The sum of natural numbers is one.
LEMMA SumNat ==
  ASSUME NEW f, NEW S, IsFiniteSet(S), \A x \in S : f[x] \in Nat
  PROVE  \A s \in SUBSET S : SumFunctionOnSet(f, s) \in Nat
PROOF
<1> DEFINE P == {s \in SUBSET S : SumFunctionOnSet(f, s) \in Nat}
<1>1. \A s \in SUBSET S : IsFiniteSet(s)
  BY FS_Subset
<1>2. {} \in P
  <2>1. SumFunctionOnSet(f, {}) = 0
    BY FS_EmptySet, SumRule
  <2> QED BY <2>1
<1>3. ASSUME NEW s \in SUBSET S, s # {}, \A x \in s : s \ {x} \in P
      PROVE  s \in P
  <2>1. (CHOOSE x \in s : TRUE) \in s
    BY <1>3
  <2>2. SumFunctionOnSet(f, Rest(s)) \in Nat
    BY <1>3, <2>1 DEF Rest
  <2>3. SumFunctionOnSet(f, s) = f[CHOOSE x \in s : TRUE] + SumFunctionOnSet(f, Rest(s))
    BY <1>1, <1>3, SumRule
  <2> QED BY <2>1, <2>2, <2>3
<1>4. \A s \in SUBSET S : s \in P
  <2> HIDE DEF P
  <2> QED BY <1>2, <1>3, FiniteInduction
<1> QED BY <1>4

\* Any element may be taken first.
LEMMA SumTake ==
  ASSUME NEW f, NEW S, IsFiniteSet(S), \A x \in S : f[x] \in Nat
  PROVE  /\ SumFunctionOnSet(f, S) \in Nat
         /\ \A x \in S : SumFunctionOnSet(f, S) = f[x] + SumFunctionOnSet(f, S \ {x})
PROOF
<1> DEFINE Sum(s) == SumFunctionOnSet(f, s)
           P == {s \in SUBSET S : \A x \in s : Sum(s) = f[x] + Sum(s \ {x})}
<1>1. \A s \in SUBSET S : IsFiniteSet(s) /\ Sum(s) \in Nat
  BY SumNat, FS_Subset
<1>2. {} \in P
  OBVIOUS
<1>3. ASSUME NEW s \in SUBSET S, s # {}, \A x \in s : s \ {x} \in P
      PROVE  s \in P
  <2> DEFINE c == CHOOSE x \in s : TRUE
  <2>1. c \in s
    BY <1>3
  <2>2. Sum(s) = f[c] + Sum(s \ {c})
    BY <1>1, <1>3, SumRule DEF Rest
  <2> HIDE DEF c, Sum
  <2>3. ASSUME NEW x \in s, x # c PROVE Sum(s) = f[x] + Sum(s \ {x})
    <3>1. s \ {c} \in P /\ s \ {x} \in P /\ x \in s \ {c} /\ c \in s \ {x}
      BY <1>3, <2>1, <2>3
    <3>2. Sum(s \ {c}) = f[x] + Sum((s \ {c}) \ {x})
      BY <3>1
    <3>3. Sum(s \ {x}) = f[c] + Sum((s \ {c}) \ {x})
      <4>1. (s \ {c}) \ {x} = (s \ {x}) \ {c}
        OBVIOUS
      <4> QED BY <3>1, <4>1
    <3>4. /\ Sum((s \ {c}) \ {x}) \in Nat /\ Sum(s \ {c}) \in Nat /\ Sum(s \ {x}) \in Nat
          /\ f[x] \in Nat /\ f[c] \in Nat
      BY <1>1, <2>1
    <3> QED BY <2>2, <3>2, <3>3, <3>4
  <2> QED BY <2>2, <2>3
<1>4. \A s \in SUBSET S : s \in P
  <2> HIDE DEF P
  <2> QED BY <1>2, <1>3, FiniteInduction
<1>5. S \in P
  BY <1>4
<1> QED BY <1>1, <1>5

\* Functions that agree on a set have the same sum over it.
LEMMA SumSame ==
  ASSUME NEW f, NEW g, NEW S, IsFiniteSet(S), \A x \in S : f[x] = g[x]
  PROVE  SumFunctionOnSet(f, S) = SumFunctionOnSet(g, S)
PROOF
<1> DEFINE P == {s \in SUBSET S : SumFunctionOnSet(f, s) = SumFunctionOnSet(g, s)}
<1>1. \A s \in SUBSET S : IsFiniteSet(s)
  BY FS_Subset
<1>2. {} \in P
  BY FS_EmptySet, SumRule
<1>3. ASSUME NEW s \in SUBSET S, s # {}, \A x \in s : s \ {x} \in P
      PROVE  s \in P
  <2>1. (CHOOSE x \in s : TRUE) \in s
    BY <1>3
  <2>2. SumFunctionOnSet(f, Rest(s)) = SumFunctionOnSet(g, Rest(s))
    BY <1>3, <2>1 DEF Rest
  <2>3. /\ SumFunctionOnSet(f, s) = f[CHOOSE x \in s : TRUE] + SumFunctionOnSet(f, Rest(s))
        /\ SumFunctionOnSet(g, s) = g[CHOOSE x \in s : TRUE] + SumFunctionOnSet(g, Rest(s))
    BY <1>1, <1>3, SumRule
  <2> QED BY <2>1, <2>2, <2>3
<1>4. \A s \in SUBSET S : s \in P
  <2> HIDE DEF P
  <2> QED BY <1>2, <1>3, FiniteInduction
<1> QED BY <1>4

\* If the functions differ at one element, so do the sums.
LEMMA SumChange ==
  ASSUME NEW S, IsFiniteSet(S), NEW f \in [S -> Nat], NEW g \in [S -> Nat], NEW x \in S,
         \A y \in S \ {x} : f[y] = g[y]
  PROVE  /\ SumFunction(f) \in Nat /\ SumFunction(g) \in Nat
         /\ SumFunction(g) + f[x] = SumFunction(f) + g[x]
PROOF
<1>1. /\ SumFunction(f) = SumFunctionOnSet(f, S)
      /\ SumFunction(g) = SumFunctionOnSet(g, S)
  BY DEF SumFunction
<1>2. /\ SumFunctionOnSet(f, S) = f[x] + SumFunctionOnSet(f, S \ {x})
      /\ SumFunctionOnSet(g, S) = g[x] + SumFunctionOnSet(g, S \ {x})
      /\ SumFunctionOnSet(f, S) \in Nat /\ SumFunctionOnSet(g, S) \in Nat
  BY SumTake
<1>3. IsFiniteSet(S \ {x})
  BY FS_RemoveElement
<1>4. SumFunctionOnSet(f, S \ {x}) = SumFunctionOnSet(g, S \ {x})
  BY <1>3, SumSame
<1>5. /\ SumFunctionOnSet(f, S \ {x}) \in Nat
      /\ f[x] \in Nat /\ g[x] \in Nat
  BY <1>3, SumTake
<1> QED BY <1>1, <1>2, <1>4, <1>5

LEMMA Shorter ==
  ASSUME NEW m \in Nat \ {0}
  PROVE  m \in 1 .. m /\ (1 .. m) \ {m} = 1 .. m - 1
OBVIOUS

LEMMA FiniteInterval == \A m \in Nat : IsFiniteSet(1 .. m)
BY FS_Interval

\* The sum over 1 .. n + 1 is the one over 1 .. n and the last.
LEMMA SumLast ==
  ASSUME NEW n \in Nat, NEW f \in [1 .. n -> Nat], NEW g \in [1 .. n + 1 -> Nat],
         \A m \in 1 .. n : g[m] = f[m]
  PROVE  /\ SumFunction(f) \in Nat
         /\ SumFunction(g) = SumFunction(f) + g[n + 1]
PROOF
<1>1. IsFiniteSet(1 .. n) /\ IsFiniteSet(1 .. n + 1)
  BY FS_Interval
<1>2. SumFunctionOnSet(g, 1 .. n + 1) = g[n + 1] + SumFunctionOnSet(g, (1 .. n + 1) \ {n + 1})
  BY <1>1, SumTake
<1>3. (1 .. n + 1) \ {n + 1} = 1 .. n
  OBVIOUS
<1>4. SumFunctionOnSet(g, 1 .. n) = SumFunctionOnSet(f, 1 .. n)
  BY <1>1, SumSame
<1>5. SumFunctionOnSet(f, 1 .. n) \in Nat
  BY <1>1, SumTake
<1>6. SumFunction(f) = SumFunctionOnSet(f, 1 .. n) /\ SumFunction(g) = SumFunctionOnSet(g, 1 .. n + 1)
  BY DEF SumFunction
<1>7. g[n + 1] \in Nat
  OBVIOUS
<1>8. SumFunctionOnSet(g, 1 .. n + 1) = g[n + 1] + SumFunctionOnSet(f, 1 .. n)
  BY <1>2, <1>3, <1>4
<1>9. SumFunction(g) = g[n + 1] + SumFunction(f) /\ SumFunction(f) \in Nat
  BY <1>5, <1>6, <1>8
<1> QED BY <1>7, <1>9

\* And the first and the one over the others.
LEMMA SumFirst ==
  ASSUME NEW n \in Nat, NEW f \in [1 .. n -> Nat], NEW g \in [1 .. n + 1 -> Nat],
         \A m \in 1 .. n : g[m + 1] = f[m]
  PROVE  /\ SumFunction(f) \in Nat
         /\ SumFunction(g) = g[1] + SumFunction(f)
PROOF
<1> DEFINE A(m) == SumFunctionOnSet(f, 1 .. m)
           B(m) == SumFunctionOnSet(g, 1 .. m)
           K == {m \in 0 .. n : B(m + 1) = g[1] + A(m)}
<1>1. ASSUME NEW m \in 0 .. n
      PROVE  /\ A(m) \in Nat
             /\ m # 0 => A(m) = f[m] + A(m - 1)
  <2>0. m \in Nat /\ (m # 0 => m \in Nat \ {0}) /\ \A x \in 1 .. m : x \in 1 .. n
    OBVIOUS
  <2>1. IsFiniteSet(1 .. m) /\ \A x \in 1 .. m : f[x] \in Nat
    BY <2>0, FiniteInterval
  <2>2. /\ A(m) \in Nat
        /\ \A x \in 1 .. m : A(m) = f[x] + SumFunctionOnSet(f, (1 .. m) \ {x})
    BY <2>1, SumTake
  <2>3. m # 0 => m \in 1 .. m /\ (1 .. m) \ {m} = 1 .. m - 1
    BY <2>0, Shorter
  <2> QED BY <2>2, <2>3
<1>2. ASSUME NEW m \in 1 .. n + 1
      PROVE  B(m) = g[m] + B(m - 1)
  <2>0. m \in Nat \ {0} /\ \A x \in 1 .. m : x \in 1 .. n + 1
    OBVIOUS
  <2>1. IsFiniteSet(1 .. m) /\ \A x \in 1 .. m : g[x] \in Nat
    BY <2>0, FiniteInterval
  <2>2. \A x \in 1 .. m : B(m) = g[x] + SumFunctionOnSet(g, (1 .. m) \ {x})
    BY <2>1, SumTake
  <2>3. m \in 1 .. m /\ (1 .. m) \ {m} = 1 .. m - 1
    BY <2>0, Shorter
  <2> QED BY <2>2, <2>3
<1>3. A(0) = 0 /\ B(0) = 0
  <2>1. 1 .. 0 = {}
    OBVIOUS
  <2>2. SumFunctionOnSet(f, {}) = 0 /\ SumFunctionOnSet(g, {}) = 0
    BY FS_EmptySet, SumRule
  <2> QED BY <2>1, <2>2
<1> HIDE DEF A, B
<1>4. g[1] \in Nat
  OBVIOUS
<1>5. 0 \in K
  <2>1. B(1) = g[1] + B(0)
    BY <1>2
  <2> QED BY <1>3, <1>4, <2>1
<1>6. ASSUME NEW m \in 1 .. n, m - 1 \in K PROVE m \in K
  <2>1. B(m) = g[1] + A(m - 1)
    BY <1>6
  <2>2. B(m + 1) = g[m + 1] + B(m) /\ g[m + 1] = f[m] /\ f[m] \in Nat
    BY <1>2
  <2>3. A(m) = f[m] + A(m - 1) /\ A(m - 1) \in Nat
    <3>1. m \in 0 .. n /\ m - 1 \in 0 .. n /\ m # 0
      OBVIOUS
    <3> QED BY <1>1, <3>1
  <2>4. B(m + 1) = g[1] + A(m)
    BY <1>4, <2>1, <2>2, <2>3
  <2> QED BY <2>4
<1>7. n \in K
  <2>1. \A m \in 0 .. n : m \in K
    <3> HIDE DEF K
    <3> QED BY <1>5, <1>6, UpTo
  <2> QED BY <2>1
<1>8. SumFunction(f) = A(n) /\ SumFunction(g) = B(n + 1)
  BY DEF SumFunction, A, B
<1> QED BY <1>1, <1>7, <1>8

LEMMA ZeroSum ==
  ASSUME NEW S, IsFiniteSet(S)
  PROVE  SumFunction([x \in S |-> 0]) = 0
PROOF
<1> DEFINE f == [x \in S |-> 0]
           P == {s \in SUBSET S : SumFunctionOnSet(f, s) = 0}
<1>1. \A s \in SUBSET S : IsFiniteSet(s)
  BY FS_Subset
<1>2. {} \in P
  <2>1. SumFunctionOnSet(f, {}) = 0
    BY FS_EmptySet, SumRule
  <2> QED BY <2>1
<1>3. ASSUME NEW s \in SUBSET S, s # {}, \A x \in s : s \ {x} \in P
      PROVE  s \in P
  <2> DEFINE c == CHOOSE x \in s : TRUE
  <2>1. c \in s
    BY <1>3
  <2>2. SumFunctionOnSet(f, s) = f[c] + SumFunctionOnSet(f, s \ {c})
    BY <1>1, <1>3, SumRule DEF Rest
  <2> HIDE DEF c
  <2>3. f[c] = 0 /\ SumFunctionOnSet(f, s \ {c}) = 0
    BY <1>3, <2>1
  <2> HIDE DEF f
  <2> QED BY <2>2, <2>3
<1>4. \A s \in SUBSET S : s \in P
  <2> HIDE DEF P
  <2> QED BY <1>2, <1>3, FiniteInduction
<1>5. SumFunctionOnSet(f, S) = 0 /\ DOMAIN f = S
  BY <1>4
<1> QED BY <1>5 DEF SumFunction

LEMMA EmptySum == \A f : DOMAIN f = {} => SumFunction(f) = 0
PROOF
<1> SUFFICES ASSUME NEW f, DOMAIN f = {} PROVE SumFunction(f) = 0
  OBVIOUS
<1>1. SumFunctionOnSet(f, {}) = 0
  BY FS_EmptySet, SumRule
<1> QED BY <1>1 DEF SumFunction
=============================================================================
