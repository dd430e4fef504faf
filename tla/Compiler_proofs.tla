--------------------------- MODULE Compiler_proofs ---------------------------
(***************************************************************************)
(* What the compiler promises of every program: every file is read once,   *)
(* an accepted one is wired and addressed, exactly the cycles there are    *)
(* are found, and the exit status tells whether there was an error.        *)
(* And what the lexer promises of every text: a block of C++ that is plain *)
(* ends at its own brace.                                                  *)
(***************************************************************************)
EXTENDS Compiler, Lexer, Induction, SequenceTheorems, FiniteSetTheorems, TLAPS

(* Lists.                                                                 *)

\* The elements of a list.
LEMMA ListIs ==
  ASSUME NEW s, IsList(s)
  PROVE  /\ Len(s) \in Nat /\ DOMAIN s = 1 .. Len(s) /\ s \in Seq(ToSet(s))
         /\ \A i \in 1 .. Len(s) : s[i] \in ToSet(s)
BY LenProperties DEF IsList, ToSet

LEMMA ListIn ==
  ASSUME NEW S, NEW s \in Seq(S)
  PROVE  IsList(s) /\ ToSet(s) \subseteq S
PROOF
<1>1. /\ Len(s) \in Nat /\ DOMAIN s = 1 .. Len(s)
      /\ s \in [1 .. Len(s) -> S]
  BY LenProperties
<1>2. s \in [1 .. Len(s) -> ToSet(s)]
  BY <1>1 DEF ToSet
<1>3. s \in Seq(ToSet(s))
  BY <1>1, <1>2, SeqDef
<1>4. ToSet(s) \subseteq S
  BY <1>1 DEF ToSet
<1> QED BY <1>3, <1>4 DEF IsList

LEMMA EmptyList == IsList(<<>>) /\ Len(<<>>) = 0 /\ ToSet(<<>>) = {}
PROOF
<1> DEFINE S == {}
<1>1. S = {}
  OBVIOUS
<1> HIDE DEF S
<1>2. <<>> \in Seq(S) /\ Len(<<>>) = 0
  BY EmptySeq
<1>3. IsList(<<>>) /\ ToSet(<<>>) \subseteq S
  BY <1>2, ListIn
<1> QED BY <1>1, <1>2, <1>3

LEMMA ListAppend ==
  ASSUME NEW s, IsList(s), NEW x
  PROVE  /\ IsList(Append(s, x)) /\ Len(Append(s, x)) = Len(s) + 1
         /\ \A i \in 1 .. Len(s) : Append(s, x)[i] = s[i]
         /\ Append(s, x)[Len(s) + 1] = x
         /\ ToSet(Append(s, x)) = ToSet(s) \cup {x}
PROOF
<1> DEFINE S == ToSet(s) \cup {x}
           t == Append(s, x)
<1>1. s \in Seq(S) /\ Len(s) \in Nat
  BY ListIs, SeqMonotonic
<1>2. /\ t \in Seq(S) /\ Len(t) = Len(s) + 1
      /\ \A i \in 1 .. Len(s) : t[i] = s[i]
      /\ t[Len(s) + 1] = x
  BY <1>1, AppendProperties
<1>3. IsList(t) /\ ToSet(t) \subseteq S
  BY <1>2, ListIn
<1>4. S \subseteq ToSet(t)
  <2>1. DOMAIN t = 1 .. Len(s) + 1 /\ DOMAIN s = 1 .. Len(s)
    BY <1>2, <1>3, ListIs
  <2> HIDE DEF t
  <2>2. \A i \in DOMAIN s : i \in DOMAIN t /\ t[i] = s[i]
    BY <1>1, <1>2, <2>1
  <2>3. Len(s) + 1 \in DOMAIN t
    BY <1>1, <2>1
  <2> QED BY <1>2, <2>2, <2>3 DEF ToSet
<1> QED BY <1>2, <1>3, <1>4

LEMMA ListConcat ==
  ASSUME NEW s, IsList(s), NEW t, IsList(t)
  PROVE  /\ IsList(s \o t) /\ Len(s \o t) = Len(s) + Len(t)
         /\ ToSet(s \o t) \subseteq ToSet(s) \cup ToSet(t)
PROOF
<1> DEFINE S == ToSet(s) \cup ToSet(t)
<1>1. s \in Seq(S) /\ t \in Seq(S)
  BY ListIs, SeqMonotonic
<1>2. s \o t \in Seq(S) /\ Len(s \o t) = Len(s) + Len(t)
  BY <1>1, ConcatProperties
<1> QED BY <1>2, ListIn

\* A list without its last element, and one with its last element replaced.
LEMMA ListFront ==
  ASSUME NEW s, IsList(s), Len(s) > 0
  PROVE  IsList(Front(s)) /\ Len(Front(s)) = Len(s) - 1 /\ ToSet(Front(s)) \subseteq ToSet(s)
PROOF
<1>1. s \in Seq(ToSet(s)) /\ Len(s) \in Nat
  BY ListIs
<1> DEFINE n == Len(s) - 1
           S == ToSet(s)
<1>2. n \in Int /\ 1 \in Int /\ n >= 0
  BY <1>1
<1>3. \A i \in 1 .. n : s[i] \in S
  BY <1>1, ListIs
<1>4. Front(s) = SubSeq(s, 1, n)
  BY DEF Front
<1> HIDE DEF n, S
<1>5. SubSeq(s, 1, n) \in Seq(S) /\ Len(SubSeq(s, 1, n)) = IF 1 <= n THEN n - 1 + 1 ELSE 0
  BY <1>2, <1>3, SubSeqProperties
<1>6. Len(SubSeq(s, 1, n)) = n
  BY <1>2, <1>5
<1>7. IsList(Front(s)) /\ ToSet(Front(s)) \subseteq S
  BY <1>4, <1>5, ListIn
<1> QED BY <1>4, <1>6, <1>7 DEF n, S

LEMMA ListLast ==
  ASSUME NEW s, IsList(s), Len(s) > 0, NEW x
  PROVE  /\ IsList([s EXCEPT ![Len(s)] = x]) /\ Len([s EXCEPT ![Len(s)] = x]) = Len(s)
         /\ ToSet([s EXCEPT ![Len(s)] = x]) \subseteq ToSet(s) \cup {x}
         /\ Last(s) \in ToSet(s)
PROOF
<1> DEFINE S == ToSet(s) \cup {x}
           n == Len(s)
<1>1. s \in Seq(S) /\ n \in Nat /\ s[n] \in ToSet(s) /\ x \in S
  BY ListIs, SeqMonotonic
<1>2. n \in 1 .. Len(s)
  BY <1>1
<1> HIDE DEF S, n
<1>3. [s EXCEPT ![n] = x] \in Seq(S) /\ Len([s EXCEPT ![n] = x]) = Len(s)
  BY <1>1, <1>2, ExceptSeq
<1>4. IsList([s EXCEPT ![n] = x]) /\ ToSet([s EXCEPT ![n] = x]) \subseteq S
  BY <1>3, ListIn
<1> QED BY <1>1, <1>3, <1>4 DEF S, n, Last

LEMMA ListMap ==
  ASSUME NEW n \in Nat, NEW S, NEW f \in [1 .. n -> S]
  PROVE  IsList(f) /\ Len(f) = n /\ ToSet(f) \subseteq S
PROOF
<1>1. f \in Seq(S)
  BY SeqDef
<1>2. Len(f) = n
  BY <1>1, LenProperties
<1> QED BY <1>1, <1>2, ListIn

-----------------------------------------------------------------------------
(* The elements of a list at some of its indices.                         *)

IsTake(f, s, I, N) ==
  f = [n \in 0 .. N |->
         IF n = 0 THEN <<>> ELSE IF n \in I THEN Append(f[n - 1], s[n]) ELSE f[n - 1]]

LEMMA TakeExists == ASSUME NEW s, NEW I, NEW N \in Nat PROVE \E f : IsTake(f, s, I, N)
PROOF
<1> DEFINE StepOf(n, x) == IF n \in I THEN Append(x, s[n]) ELSE x
           P(m) == \E f : f = [n \in 0 .. m |-> IF n = 0 THEN <<>> ELSE StepOf(n, f[n - 1])]
           S == {m \in Nat : P(m)}
<1> HIDE DEF StepOf
<1>1. 0 \in S
  <2> DEFINE f == [n \in 0 .. 0 |-> <<>>]
  <2>1. f = [n \in 0 .. 0 |-> IF n = 0 THEN <<>> ELSE StepOf(n, f[n - 1])]
    OBVIOUS
  <2> QED BY <2>1
<1>2. ASSUME NEW m \in 1 .. N, m - 1 \in S PROVE m \in S
  <2>1. PICK f : f = [n \in 0 .. m - 1 |-> IF n = 0 THEN <<>> ELSE StepOf(n, f[n - 1])]
    BY <1>2
  <2> DEFINE g == [n \in 0 .. m |-> IF n < m THEN f[n] ELSE StepOf(m, f[m - 1])]
  <2>2. ASSUME NEW n \in 0 .. m
        PROVE  g[n] = IF n = 0 THEN <<>> ELSE StepOf(n, g[n - 1])
    <3>1. CASE n = 0
      BY <2>1, <3>1
    <3>2. CASE n \in 1 .. m - 1
      <4>1. f[n] = StepOf(n, f[n - 1])
        BY <2>1, <3>2
      <4>2. g[n] = f[n] /\ g[n - 1] = f[n - 1]
        BY <3>2
      <4> QED BY <3>2, <4>1, <4>2
    <3>3. CASE n = m
      <4>1. g[n] = StepOf(m, f[m - 1]) /\ g[n - 1] = f[m - 1]
        BY <3>3
      <4> QED BY <3>3, <4>1
    <3> QED BY <3>1, <3>2, <3>3
  <2>3. g = [n \in 0 .. m |-> IF n = 0 THEN <<>> ELSE StepOf(n, g[n - 1])]
    <3>1. g = [n \in 0 .. m |-> g[n]]
      OBVIOUS
    <3> HIDE DEF g
    <3>2. \A n \in 0 .. m : g[n] = IF n = 0 THEN <<>> ELSE StepOf(n, g[n - 1])
      BY <2>2
    <3>3. [n \in 0 .. m |-> g[n]]
            = [n \in 0 .. m |-> IF n = 0 THEN <<>> ELSE StepOf(n, g[n - 1])]
      BY <3>2, Zenon
    <3> QED BY <3>1, <3>3, Zenon
  <2> HIDE DEF g
  <2>4. P(m)
    BY <2>3, Zenon
  <2>5. m \in Nat
    OBVIOUS
  <2> HIDE DEF P
  <2> QED BY <2>4, <2>5
<1> HIDE DEF S
<1>3. N \in S
  BY <1>1, <1>2, UpTo
<1> QED BY <1>3, Zenon DEF S, StepOf, IsTake

\* t is what is taken of the first n elements.
Taken(s, I, n, t) ==
  /\ IsList(t) /\ Len(t) = Cardinality({i \in I : i <= n})
  /\ \A k \in 1 .. Len(t) : \E i \in I : i <= n /\ t[k] = s[i]
  /\ \A i \in I : i <= n => \E k \in 1 .. Len(t) : t[k] = s[i]
  /\ \A k, l \in 1 .. Len(t) : k < l => \E i, j \in I : i < j /\ j <= n /\ t[k] = s[i] /\ t[l] = s[j]

LEMMA TakenNone == ASSUME NEW s, NEW I \in SUBSET (Nat \ {0}) PROVE Taken(s, I, 0, <<>>)
PROOF
<1>1. \A i \in I : i \in Nat /\ ~(i <= 0)
  OBVIOUS
<1>2. {i \in I : i <= 0} = {} /\ Cardinality({}) = 0
  BY <1>1, FS_EmptySet
<1> DEFINE t == <<>>
<1>3. IsList(t) /\ Len(t) = 0
  BY EmptyList
<1> HIDE DEF t
<1>4. 1 .. Len(t) = {}
  BY <1>3
<1>5. Taken(s, I, 0, t)
  BY <1>1, <1>2, <1>3, <1>4 DEF Taken
<1> QED BY <1>5 DEF t

LEMMA TakenMore ==
  ASSUME NEW s, NEW I \in SUBSET (Nat \ {0}), NEW n \in Nat \ {0}, NEW t, Taken(s, I, n - 1, t)
  PROVE  Taken(s, I, n, IF n \in I THEN Append(t, s[n]) ELSE t)
PROOF
<1> DEFINE A == {i \in I : i <= n - 1}
           B == {i \in I : i <= n}
<1>0. \A i \in I : i \in Nat
  OBVIOUS
<1>1. IsList(t) /\ Len(t) = Cardinality(A) /\ Len(t) \in Nat
  BY ListIs DEF Taken
<1>2. CASE n \notin I
  <2>1. \A i \in I : i <= n - 1 <=> i <= n
    BY <1>0, <1>2
  <2>2. A = B
    BY <2>1
  <2>3. /\ \A k \in 1 .. Len(t) : \E i \in I : i <= n - 1 /\ t[k] = s[i]
        /\ \A i \in I : i <= n - 1 => \E k \in 1 .. Len(t) : t[k] = s[i]
    BY DEF Taken
  <2>5. /\ \A k \in 1 .. Len(t) : \E i \in I : i <= n /\ t[k] = s[i]
        /\ \A i \in I : i <= n => \E k \in 1 .. Len(t) : t[k] = s[i]
    BY <2>1, <2>3, Zenon
  <2>6. \A k, l \in 1 .. Len(t) : k < l =>
          \E i, j \in I : i < j /\ j <= n - 1 /\ t[k] = s[i] /\ t[l] = s[j]
    BY DEF Taken
  <2>7. \A k, l \in 1 .. Len(t) : k < l =>
          \E i, j \in I : i < j /\ j <= n /\ t[k] = s[i] /\ t[l] = s[j]
    <3> SUFFICES ASSUME NEW k \in 1 .. Len(t), NEW l \in 1 .. Len(t), k < l
                 PROVE  \E i, j \in I : i < j /\ j <= n /\ t[k] = s[i] /\ t[l] = s[j]
      OBVIOUS
    <3>1. PICK i \in I, j \in I : i < j /\ j <= n - 1 /\ t[k] = s[i] /\ t[l] = s[j]
      BY <2>6
    <3> QED BY <2>1, <3>1
  <2> HIDE DEF A, B
  <2>8. Len(t) = Cardinality(B)
    BY <1>1, <2>2
  <2>4. Taken(s, I, n, t)
    BY <1>1, <2>5, <2>7, <2>8 DEF Taken, B
  <2> QED BY <1>2, <2>4
<1>3. CASE n \in I
  <2> DEFINE u == Append(t, s[n])
             L == Len(t)
  <2>1. /\ IsList(u) /\ Len(u) = L + 1 /\ (\A k \in 1 .. L : u[k] = t[k]) /\ u[L + 1] = s[n]
    <3> DEFINE x == s[n]
    <3>1. IsList(t)
      BY <1>1
    <3> HIDE DEF x
    <3>2. /\ IsList(Append(t, x)) /\ Len(Append(t, x)) = L + 1
          /\ (\A k \in 1 .. L : Append(t, x)[k] = t[k]) /\ Append(t, x)[L + 1] = x
      BY <3>1, ListAppend
    <3> QED BY <3>2 DEF x
  <2>2. Cardinality(B) = L + 1
    <3>1. IsFiniteSet(A)
      <4>3. \A i \in I : i <= n - 1 => i \in 0 .. n
        BY <1>0
      <4>1. A \subseteq 0 .. n
        BY <4>3, Zenon
      <4>2. IsFiniteSet(0 .. n)
        <5>1. 0 \in Int /\ n \in Int
          OBVIOUS
        <5> QED BY <5>1, FS_Interval
      <4> QED BY <4>1, <4>2, FS_Subset
    <3>2. n \notin A /\ B = A \cup {n}
      <4>1. \A i \in I : i <= n <=> (i <= n - 1 \/ i = n)
        BY <1>0
      <4>2. ~(n <= n - 1)
        OBVIOUS
      <4> QED BY <1>3, <4>1, <4>2
    <3> HIDE DEF A, B
    <3> QED BY <1>1, <3>1, <3>2, FS_AddElement
  <2>3. /\ \A k \in 1 .. L : \E i \in I : i <= n - 1 /\ t[k] = s[i]
        /\ \A i \in I : i <= n - 1 => \E k \in 1 .. L : t[k] = s[i]
        /\ \A k, l \in 1 .. L : k < l =>
             \E i, j \in I : i < j /\ j <= n - 1 /\ t[k] = s[i] /\ t[l] = s[j]
    BY DEF Taken
  <2> HIDE DEF u, L
  <2>4. L \in Nat
    BY <1>1 DEF L
  <2>5. ASSUME NEW k \in 1 .. L + 1
        PROVE  \E i \in I : i <= n /\ u[k] = s[i]
    <3>1. CASE k \in 1 .. L
      <4>1. PICK i \in I : i <= n - 1 /\ t[k] = s[i]
        BY <2>3, <3>1
      <4>2. i <= n
        BY <1>0, <4>1
      <4> QED BY <2>1, <3>1, <4>1, <4>2
    <3>2. CASE k = L + 1
      BY <1>3, <2>1, <3>2
    <3> QED BY <2>4, <3>1, <3>2
  <2>6. ASSUME NEW i \in I, i <= n
        PROVE  \E k \in 1 .. L + 1 : u[k] = s[i]
    <3>1. CASE i <= n - 1
      <4>1. PICK k \in 1 .. L : t[k] = s[i]
        BY <2>3, <3>1
      <4> QED BY <2>1, <2>4, <4>1
    <3>2. CASE i = n
      BY <2>1, <2>4, <3>2
    <3> QED BY <2>6, <3>1, <3>2
  <2>7. ASSUME NEW k \in 1 .. L + 1, NEW l \in 1 .. L + 1, k < l
        PROVE  \E i, j \in I : i < j /\ j <= n /\ u[k] = s[i] /\ u[l] = s[j]
    <3>1. CASE l \in 1 .. L
      <4>1. k \in 1 .. L
        BY <2>4, <2>7, <3>1
      <4>2. PICK i \in I, j \in I : i < j /\ j <= n - 1 /\ t[k] = s[i] /\ t[l] = s[j]
        BY <2>3, <2>7, <3>1, <4>1
      <4>3. j <= n
        BY <1>0, <4>2
      <4> QED BY <2>1, <3>1, <4>1, <4>2, <4>3
    <3>2. CASE l = L + 1
      <4>1. k \in 1 .. L
        BY <2>4, <2>7, <3>2
      <4>2. PICK i \in I : i <= n - 1 /\ t[k] = s[i]
        BY <2>3, <4>1
      <4>3. i < n /\ n <= n
        BY <1>0, <4>2
      <4> QED BY <1>3, <2>1, <3>2, <4>1, <4>2, <4>3
    <3> QED BY <2>4, <3>1, <3>2
  <2>8. Taken(s, I, n, u)
    BY <2>1, <2>2, <2>5, <2>6, <2>7 DEF Taken
  <2> QED BY <1>3, <2>8 DEF u
<1> QED BY <1>2, <1>3

\* t has the elements of s at the indices I, each once, in their order.
Selection(t, s, I) ==
  /\ IsList(t) /\ Len(t) = Cardinality(I)
  /\ \A k \in 1 .. Len(t) : \E i \in I : t[k] = s[i]
  /\ \A i \in I : \E k \in 1 .. Len(t) : t[k] = s[i]
  /\ \A k, l \in 1 .. Len(t) : k < l => \E i, j \in I : i < j /\ t[k] = s[i] /\ t[l] = s[j]

LEMMA SelectedRight ==
  ASSUME NEW s, Len(s) \in Nat, NEW I \in SUBSET (1 .. Len(s))
  PROVE  Selection(Selected(s, I), s, I)
PROOF
<1> DEFINE N == Len(s)
           take[n \in 0 .. N] ==
             IF n = 0 THEN <<>> ELSE IF n \in I THEN Append(take[n - 1], s[n]) ELSE take[n - 1]
           S == {n \in 0 .. N : Taken(s, I, n, take[n])}
<1>1. Selected(s, I) = take[N]
  BY DEF Selected
<1>2. take = [n \in 0 .. N |->
                IF n = 0 THEN <<>> ELSE IF n \in I THEN Append(take[n - 1], s[n]) ELSE take[n - 1]]
  <2>1. \E f : f = [n \in 0 .. N |->
                IF n = 0 THEN <<>> ELSE IF n \in I THEN Append(f[n - 1], s[n]) ELSE f[n - 1]]
    <3>1. N \in Nat
      OBVIOUS
    <3> HIDE DEF N
    <3>2. \E f : IsTake(f, s, I, N)
      BY <3>1, TakeExists
    <3> QED BY <3>2, Zenon DEF IsTake
  <2> QED BY <2>1, Zenon
<1> HIDE DEF take
<1>3. N \in Nat /\ I \in SUBSET (Nat \ {0}) /\ {i \in I : i <= N} = I
  <2>1. \A i \in I : i \in Nat \ {0} /\ i <= N
    OBVIOUS
  <2> QED BY <2>1
<1> HIDE DEF N
<1>4. /\ take[0] = <<>>
      /\ \A n \in 1 .. N : take[n] = IF n \in I THEN Append(take[n - 1], s[n]) ELSE take[n - 1]
  <2> DEFINE StepOf(n, x) == IF n \in I THEN Append(x, s[n]) ELSE x
  <2>1. take = [n \in 0 .. N |-> IF n = 0 THEN <<>> ELSE StepOf(n, take[n - 1])]
    BY <1>2, Zenon
  <2> HIDE DEF StepOf
  <2>2. N \in Nat
    BY <1>3
  <2>3. take[0] = <<>>
    <3>1. 0 \in 0 .. N
      BY <2>2
    <3> QED BY <2>1, <3>1
  <2>4. ASSUME NEW n \in 1 .. N PROVE take[n] = StepOf(n, take[n - 1])
    <3>1. n \in 0 .. N /\ n # 0
      BY <2>2
    <3> QED BY <2>1, <3>1
  <2> QED BY <2>3, <2>4 DEF StepOf
<1>5. 0 \in S
  BY <1>3, <1>4, TakenNone
<1>6. ASSUME NEW n \in 1 .. N, n - 1 \in S PROVE n \in S
  <2>1. n \in Nat \ {0} /\ Taken(s, I, n - 1, take[n - 1])
    BY <1>6
  <2>2. Taken(s, I, n, IF n \in I THEN Append(take[n - 1], s[n]) ELSE take[n - 1])
    BY <1>3, <2>1, TakenMore
  <2> QED BY <1>3, <1>4, <2>2
<1> HIDE DEF S
<1>7. N \in S
  <2>1. \A n \in 0 .. N : n \in S
    BY <1>3, <1>5, <1>6, UpTo
  <2> QED BY <1>3, <2>1
<1>8. Taken(s, I, N, take[N])
  BY <1>7 DEF S
<1> DEFINE t == Selected(s, I)
<1>9. Taken(s, I, N, t)
  BY <1>1, <1>8
<1> HIDE DEF t
<1>10. /\ IsList(t) /\ Len(t) = Cardinality(I)
       /\ \A k \in 1 .. Len(t) : \E i \in I : t[k] = s[i]
       /\ \A k, l \in 1 .. Len(t) :
            k < l => \E i, j \in I : i < j /\ t[k] = s[i] /\ t[l] = s[j]
  <2>1. IsList(t) /\ Len(t) = Cardinality(I)
    BY <1>3, <1>9 DEF Taken
  <2>2. \A k \in 1 .. Len(t) : \E i \in I : t[k] = s[i]
    BY <1>9 DEF Taken
  <2>3. \A k, l \in 1 .. Len(t) :
          k < l => \E i, j \in I : i < j /\ t[k] = s[i] /\ t[l] = s[j]
    <3>1. \A k, l \in 1 .. Len(t) :
            k < l => \E i, j \in I : i < j /\ j <= N /\ t[k] = s[i] /\ t[l] = s[j]
      BY <1>9 DEF Taken
    <3> QED BY <3>1, Zenon
  <2> QED BY <2>1, <2>2, <2>3
<1>11. \A i \in I : \E k \in 1 .. Len(t) : t[k] = s[i]
  BY <1>3, <1>9 DEF Taken
<1>12. Selection(t, s, I)
  BY <1>10, <1>11 DEF Selection
<1> QED BY <1>12 DEF t

-----------------------------------------------------------------------------
(* Lists of lists.                                                        *)

IsFlatten(f, ss, N) ==
  f = [i \in 1 .. N |-> IF i = 1 THEN ss[i] ELSE f[i - 1] \o ss[i]]

LEMMA FlattenExists == ASSUME NEW ss, NEW N \in Nat PROVE \E f : IsFlatten(f, ss, N)
PROOF
<1> DEFINE StepOf(i, x) == IF i = 1 THEN ss[i] ELSE x \o ss[i]
           P(m) == \E f : f = [i \in 1 .. m |-> StepOf(i, f[i - 1])]
           S == {m \in Nat : P(m)}
<1>0. ASSUME NEW m, NEW f, f = [i \in 1 .. m |-> StepOf(i, f[i - 1])]
      PROVE  IsFlatten(f, ss, m)
  BY <1>0, Zenon DEF IsFlatten
<1>1. 0 \in S
  <2> DEFINE f == [i \in 1 .. 0 |-> ss]
  <2>1. f = [i \in 1 .. 0 |-> StepOf(i, f[i - 1])]
    OBVIOUS
  <2> QED BY <2>1
<1>2. ASSUME NEW m \in 1 .. N, m - 1 \in S PROVE m \in S
  <2>0. ASSUME NEW y, NEW z PROVE StepOf(1, y) = StepOf(1, z)
    OBVIOUS
  <2> HIDE DEF StepOf
  <2>1. PICK f : f = [i \in 1 .. m - 1 |-> StepOf(i, f[i - 1])]
    BY <1>2
  <2> DEFINE g == [i \in 1 .. m |-> IF i < m THEN f[i] ELSE StepOf(m, f[m - 1])]
  <2>2. ASSUME NEW i \in 1 .. m
        PROVE  g[i] = StepOf(i, g[i - 1])
    <3>1. CASE i = 1 /\ i < m
      <4>1. g[i] = f[i] /\ f[i] = StepOf(1, f[0])
        BY <2>1, <3>1
      <4> QED BY <2>0, <3>1, <4>1
    <3>2. CASE i \in 2 .. m - 1
      <4>1. f[i] = StepOf(i, f[i - 1])
        BY <2>1, <3>2
      <4>2. g[i] = f[i] /\ g[i - 1] = f[i - 1]
        BY <3>2
      <4> QED BY <3>2, <4>1, <4>2
    <3>3. CASE i = m /\ m # 1
      <4>1. g[i] = StepOf(m, f[m - 1]) /\ g[i - 1] = f[m - 1]
        BY <3>3
      <4> QED BY <3>3, <4>1
    <3>4. CASE i = m /\ m = 1
      <4>1. g[i] = StepOf(1, f[m - 1])
        BY <3>4
      <4> QED BY <2>0, <3>4, <4>1
    <3> QED BY <3>1, <3>2, <3>3, <3>4
  <2>3. g = [i \in 1 .. m |-> StepOf(i, g[i - 1])]
    <3>1. g = [i \in 1 .. m |-> g[i]]
      OBVIOUS
    <3> HIDE DEF g
    <3>2. \A i \in 1 .. m : g[i] = StepOf(i, g[i - 1])
      BY <2>2
    <3>3. [i \in 1 .. m |-> g[i]] = [i \in 1 .. m |-> StepOf(i, g[i - 1])]
      BY <3>2, Zenon
    <3> QED BY <3>1, <3>3, Zenon
  <2> HIDE DEF g
  <2>4. P(m)
    BY <2>3, Zenon
  <2>5. m \in Nat
    OBVIOUS
  <2> HIDE DEF P
  <2> QED BY <2>4, <2>5
<1> HIDE DEF S
<1>3. N \in S
  BY <1>1, <1>2, UpTo
<1>4. PICK f : f = [i \in 1 .. N |-> StepOf(i, f[i - 1])]
  BY <1>3, Zenon DEF S
<1> QED BY <1>0, <1>4, Zenon

LEMMA FlattenRight ==
  ASSUME NEW S, NEW N \in Nat, NEW ss \in [1 .. N -> Seq(S)]
  PROVE  FlattenSeq(ss) \in Seq(S)
PROOF
<1>1. IsList(ss) /\ Len(ss) = N
  BY ListMap
<1>2. CASE N = 0
  <2>1. ss \in Seq(S)
    <3>1. ss \in [1 .. N -> S]
      BY <1>2
    <3> QED BY <3>1, SeqDef
  <2> QED BY <1>1, <1>2, <2>1 DEF FlattenSeq
<1>3. CASE N # 0
  <2> DEFINE flatten[i \in 1 .. Len(ss)] == IF i = 1 THEN ss[i] ELSE flatten[i - 1] \o ss[i]
             T == {0} \cup {i \in 1 .. N : flatten[i] \in Seq(S)}
  <2>1. FlattenSeq(ss) = flatten[Len(ss)]
    BY <1>1, <1>3 DEF FlattenSeq
  <2>2. IsFlatten(flatten, ss, Len(ss))
    <3>1. Len(ss) \in Nat
      BY <1>1
    <3>2. \E f : IsFlatten(f, ss, Len(ss))
      BY <3>1, FlattenExists
    <3> QED BY <3>2, Zenon DEF IsFlatten
  <2> HIDE DEF flatten
  <2>3. \A i \in 1 .. N : flatten[i] = IF i = 1 THEN ss[i] ELSE flatten[i - 1] \o ss[i]
    <3> DEFINE f == flatten
    <3>1. f = [i \in 1 .. N |-> IF i = 1 THEN ss[i] ELSE f[i - 1] \o ss[i]]
      BY <1>1, <2>2, Zenon DEF IsFlatten
    <3> HIDE DEF f
    <3>2. \A i \in 1 .. N : f[i] = IF i = 1 THEN ss[i] ELSE f[i - 1] \o ss[i]
      BY <3>1
    <3> QED BY <3>2 DEF f
  <2>4. ASSUME NEW i \in 1 .. N, i - 1 \in T
        PROVE  i \in T
    <3>1. ss[i] \in Seq(S)
      OBVIOUS
    <3>2. CASE i = 1
      BY <2>3, <3>1, <3>2
    <3>3. CASE i # 1
      <4>1. flatten[i - 1] \in Seq(S)
        BY <2>4, <3>3
      <4>2. flatten[i - 1] \o ss[i] \in Seq(S)
        BY <3>1, <4>1, ConcatProperties
      <4> QED BY <2>3, <3>3, <4>2
    <3> QED BY <3>2, <3>3
  <2>5. N \in T
    <3>1. 0 \in T
      OBVIOUS
    <3> HIDE DEF T
    <3>2. \A i \in 0 .. N : i \in T
      BY <2>4, <3>1, UpTo
    <3> QED BY <3>2
  <2> QED BY <1>1, <1>3, <2>1, <2>5
<1> QED BY <1>2, <1>3

LEMMA OneElement == ASSUME NEW x PROVE IsList(<<x>>) /\ ToSet(<<x>>) = {x}
PROOF
<1>1. IsList(<<x>>) /\ ToSet(<<x>>) \subseteq {x}
  <2> DEFINE S == {x}
             s == <<x>>
  <2>1. s \in Seq(S)
    OBVIOUS
  <2> HIDE DEF S, s
  <2>2. IsList(s) /\ ToSet(s) \subseteq S
    BY <2>1, ListIn
  <2> QED BY <2>2 DEF S, s
<1>2. x \in ToSet(<<x>>)
  BY DEF ToSet
<1> QED BY <1>1, <1>2

\* A set of indices is finite.
LEMMA Indices ==
  ASSUME NEW s, IsList(s), NEW I \in SUBSET DOMAIN s
  PROVE  IsFiniteSet(I) /\ Cardinality(I) \in Nat
PROOF
<1>1. I \subseteq 1 .. Len(s) /\ Len(s) \in Nat
  BY ListIs
<1>2. IsFiniteSet(1 .. Len(s))
  <2>1. 1 \in Int /\ Len(s) \in Int
    BY <1>1
  <2> QED BY <2>1, FS_Interval
<1>3. IsFiniteSet(I)
  BY <1>1, <1>2, FS_Subset
<1> QED BY <1>3, FS_CardinalityType

-----------------------------------------------------------------------------
(* What the compiler's data look like.                                    *)

InstFields == {"kind", "type", "name", "anonymous", "host", "nin", "nout"}

InstOK(s) ==
  /\ s.kind = "inst" /\ DOMAIN s = InstFields
  /\ s.nin \in Int /\ s.nout \in Int /\ s.host \in BOOLEAN /\ s.anonymous \in BOOLEAN

EndOK(e)  == e.port \in Int /\ DOMAIN e = {"name", "port", "depth"}
ConnOK(s) == s.kind = "conn" /\ EndOK(s.source) /\ EndOK(s.dest)
BodyOK(b) == IsList(b) /\ \A x \in ToSet(b) : InstOK(x) \/ ConnOK(x)

StmtOK(s) ==
  \/ s.kind = "import"
  \/ s.kind = "element" /\ s.nin \in Int /\ s.nout \in Int
  \/ s.kind = "group" /\ BodyOK(s.body)
  \/ InstOK(s) \/ ConnOK(s)

StmtsOK(ss)  == IsList(ss) /\ \A x \in ToSet(ss) : StmtOK(x)
ElemsOK(es)  == \A t \in DOMAIN es : es[t].nin \in Int /\ es[t].nout \in Int
GroupsOK(gs) == \A t \in DOMAIN gs : BodyOK(gs[t].body)

FrameOK(f)   == DOMAIN f = {"inst", "body", "next"} /\ BodyOK(f.body) /\ f.next \in Nat \ {0}
FramesOK(fs) == IsList(fs) /\ \A f \in ToSet(fs) : FrameOK(f)

\* A boundary kernel is called like the boundary, and has no port on its far side.
KernelOK(k) ==
  /\ DOMAIN k = {"name", "type", "special", "host", "nin", "nout", "gid", "base"}
  /\ k.nin \in Nat /\ k.nout \in Nat /\ k.host \in BOOLEAN
  /\ k.special \in {"none"} \cup Sources \cup Sinks \cup Aliases
  /\ k.special # "none" => k.name = Id(k.special)
  /\ k.special \in Sources => k.nin = 0
  /\ k.special \in Sinks => k.nout = 0

KernelsOK(ks) == IsList(ks) /\ \A k \in ToSet(ks) : KernelOK(k)

EdgeOK(e)   == e.sport \in Int /\ e.dport \in Int
EdgesOK(es) == IsList(es) /\ \A e \in ToSet(es) : EdgeOK(e)

StackOK(p, s) == IsList(s) /\ \A x \in ToSet(s) : x \in [file : DOMAIN p.files, next : Nat \ {0}]

Shape ==
  /\ program \in Programs /\ errors \in Nat /\ at \in Nat \ {0}
  /\ StackOK(program, stack) /\ (phase = "parse" => Len(stack) > 0)
  /\ StmtsOK(stmts) /\ ElemsOK(elems) /\ GroupsOK(groups) /\ FramesOK(frames)
  /\ KernelsOK(kernels) /\ EdgesOK(edges)

\* The statements of a chain, and of a body.
LEMMA InstanceOK == ASSUME NEW n, InstForm(n) PROVE InstOK(Instance(n))
BY DEF InstForm, Instance, InstOK, InstFields

LEMMA ConnEndOK == ASSUME NEW n, NodeForm(n) PROVE EndOK(ConnEnd(n))
BY DEF NodeForm, ConnEnd, EndOK

LEMMA DeclBody == ASSUME NEW f, DeclForm(f) PROVE BodyOK(DeclOrChain(f))
PROOF
<1>1. CASE f.form = "inst"
  <2>1. DeclOrChain(f) = <<Instance(f)>> /\ InstForm(f)
    BY <1>1 DEF DeclOrChain, DeclForm
  <2>2. IsList(<<Instance(f)>>) /\ ToSet(<<Instance(f)>>) = {Instance(f)}
    BY OneElement
  <2>3. InstOK(Instance(f))
    BY <2>1, InstanceOK
  <2> QED BY <2>1, <2>2, <2>3 DEF BodyOK
<1>2. CASE f.form = "chain"
  <2> DEFINE ns == f.nodes
             Con(k) == [kind |-> "conn", source |-> ConnEnd(ns[k - 1]),
                        dest |-> ConnEnd(ns[k]), lossy |-> f.lossy[k - 1]]
             Before(k) == IF ns[k].anonymous THEN <<Instance(ns[k])>> ELSE <<>>
             Link(k) == IF k = 1 THEN <<>> ELSE <<Con(k)>>
             S == {Instance(ns[k]) : k \in {j \in DOMAIN ns : ns[j].anonymous}}
                    \cup {Con(k) : k \in DOMAIN ns \ {1}}
             ss == [k \in DOMAIN ns |-> Before(k) \o Link(k)]
  <2>1. IsList(ns) /\ \A k \in DOMAIN ns : NodeForm(ns[k])
    BY <1>2 DEF DeclForm
  <2>2. DeclOrChain(f) = FlattenSeq(ss)
    BY <1>2 DEF DeclOrChain
  <2>3. Len(ns) \in Nat /\ DOMAIN ns = 1 .. Len(ns)
    BY <2>1, ListIs
  <2>4. ASSUME NEW k \in DOMAIN ns
        PROVE  Before(k) \o Link(k) \in Seq(S)
    <3>0. <<>> \in Seq(S)
      OBVIOUS
    <3>1. Before(k) \in Seq(S)
      <4>1. CASE ns[k].anonymous
        <5> DEFINE x == Instance(ns[k])
        <5>1. x \in S
          BY <4>1
        <5> HIDE DEF S, x
        <5>2. <<x>> \in Seq(S)
          BY <5>1
        <5> QED BY <4>1, <5>2 DEF x
      <4>2. CASE ~ns[k].anonymous
        BY <3>0, <4>2
      <4> QED BY <4>1, <4>2
    <3>2. Link(k) \in Seq(S)
      <4>1. CASE k # 1
        <5> DEFINE x == Con(k)
        <5>1. x \in S
          BY <4>1
        <5> HIDE DEF S, x
        <5>2. <<x>> \in Seq(S)
          BY <5>1
        <5> QED BY <4>1, <5>2 DEF x
      <4>2. CASE k = 1
        BY <3>0, <4>2
      <4> QED BY <4>1, <4>2
    <3> HIDE DEF Before, Link, S
    <3> QED BY <3>1, <3>2, ConcatProperties
  <2>5. \A x \in S : InstOK(x) \/ ConnOK(x)
    <3>1. ASSUME NEW k \in DOMAIN ns, ns[k].anonymous
          PROVE  InstOK(Instance(ns[k]))
      BY <2>1, <3>1, InstanceOK DEF NodeForm
    <3>2. ASSUME NEW k \in DOMAIN ns \ {1}
          PROVE  ConnOK(Con(k))
      <4>1. k - 1 \in DOMAIN ns
        BY <2>3
      <4>2. NodeForm(ns[k - 1]) /\ NodeForm(ns[k])
        BY <2>1, <4>1
      <4>3. EndOK(ConnEnd(ns[k - 1])) /\ EndOK(ConnEnd(ns[k]))
        BY <4>2, ConnEndOK
      <4>4. Con(k).kind = "conn" /\ Con(k).source = ConnEnd(ns[k - 1]) /\ Con(k).dest = ConnEnd(ns[k])
        OBVIOUS
      <4> HIDE DEF Con
      <4> QED BY <4>3, <4>4 DEF ConnOK
    <3> HIDE DEF Con
    <3> QED BY <3>1, <3>2
  <2> HIDE DEF S, Before, Link
  <2>6. ss \in [1 .. Len(ns) -> Seq(S)]
    BY <2>3, <2>4
  <2> HIDE DEF ss
  <2>7. FlattenSeq(ss) \in Seq(S)
    BY <2>3, <2>6, FlattenRight
  <2>8. IsList(FlattenSeq(ss)) /\ ToSet(FlattenSeq(ss)) \subseteq S
    BY <2>7, ListIn
  <2> QED BY <2>2, <2>5, <2>8 DEF BodyOK
<1>3. CASE f.form # "inst" /\ f.form # "chain"
  <2>1. DeclOrChain(f) = <<>>
    BY <1>3 DEF DeclOrChain
  <2> QED BY <2>1, EmptyList DEF BodyOK
<1> QED BY <1>1, <1>2, <1>3

LEMMA GroupBody ==
  ASSUME NEW b, IsList(b), \A i \in DOMAIN b : DeclForm(b[i])
  PROVE  BodyOK(FlattenSeq([i \in DOMAIN b |-> DeclOrChain(b[i])]))
PROOF
<1> DEFINE S == UNION {ToSet(DeclOrChain(b[i])) : i \in DOMAIN b}
           ss == [i \in DOMAIN b |-> DeclOrChain(b[i])]
<1>1. DOMAIN b = 1 .. Len(b) /\ Len(b) \in Nat
  BY ListIs
<1>2. ASSUME NEW i \in DOMAIN b
      PROVE  DeclOrChain(b[i]) \in Seq(S)
  <2>1. BodyOK(DeclOrChain(b[i]))
    BY DeclBody
  <2>2. DeclOrChain(b[i]) \in Seq(ToSet(DeclOrChain(b[i])))
    BY <2>1 DEF BodyOK, IsList
  <2>3. ToSet(DeclOrChain(b[i])) \subseteq S
    OBVIOUS
  <2> HIDE DEF S
  <2> QED BY <2>2, <2>3, SeqMonotonic
<1>3. \A x \in S : InstOK(x) \/ ConnOK(x)
  <2> SUFFICES ASSUME NEW i \in DOMAIN b, NEW x \in ToSet(DeclOrChain(b[i]))
               PROVE  InstOK(x) \/ ConnOK(x)
    OBVIOUS
  <2>1. BodyOK(DeclOrChain(b[i]))
    BY DeclBody
  <2> QED BY <2>1 DEF BodyOK
<1> HIDE DEF S
<1>4. ss \in [1 .. Len(b) -> Seq(S)]
  BY <1>1, <1>2
<1> HIDE DEF ss
<1>5. FlattenSeq(ss) \in Seq(S)
  BY <1>1, <1>4, FlattenRight
<1>6. IsList(FlattenSeq(ss)) /\ ToSet(FlattenSeq(ss)) \subseteq S
  BY <1>5, ListIn
<1> QED BY <1>3, <1>6 DEF BodyOK, ss

-----------------------------------------------------------------------------
(* Every step keeps that shape.                                           *)

\* What is true of the form the parser is at.
LEMMA AtForm ==
  ASSUME Shape, NEW form, Reading(form)
  PROVE  /\ IsList(stack) /\ Len(stack) > 0 /\ Len(stack) \in Nat
         /\ Last(stack) \in [file : DOMAIN program.files, next : Nat \ {0}]
         /\ stack[Len(stack)] = Last(stack)
         /\ Len(Forms) \in Nat /\ TopForm(Form) /\ Form.form = form
PROOF
<1>1. IsList(stack) /\ Len(stack) \in Nat /\ Len(stack) > 0
  BY ListIs DEF Shape, StackOK, Reading
<1>2. Last(stack) \in ToSet(stack) /\ stack[Len(stack)] = Last(stack)
  BY <1>1, ListLast DEF Last
<1>3. Last(stack) \in [file : DOMAIN program.files, next : Nat \ {0}]
  BY <1>2 DEF Shape, StackOK
<1>4. IsList(Forms) /\ \A i \in DOMAIN Forms : TopForm(Forms[i])
  <2>1. program \in Programs /\ Last(stack).file \in DOMAIN program.files
    BY <1>3 DEF Shape
  <2> QED BY <2>1, CompilerAssumption DEF Forms
<1>5. Last(stack).next \in DOMAIN Forms /\ Len(Forms) \in Nat
  <2>1. Len(Forms) \in Nat /\ DOMAIN Forms = 1 .. Len(Forms)
    BY <1>4, ListIs
  <2> QED BY <1>3, <2>1 DEF Reading
<1> QED BY <1>1, <1>2, <1>3, <1>4, <1>5 DEF Form, Reading

\* The parser goes on in the file it is in.
LEMMA MovedOn ==
  ASSUME Shape, NEW form, Reading(form), NEW n \in Nat \ {0}
  PROVE  /\ StackOK(program, [stack EXCEPT ![Len(stack)].next = n])
         /\ Len([stack EXCEPT ![Len(stack)].next = n]) > 0
PROOF
<1>1. /\ IsList(stack) /\ Len(stack) > 0 /\ Len(stack) \in Nat
      /\ Last(stack) \in [file : DOMAIN program.files, next : Nat \ {0}]
      /\ stack[Len(stack)] = Last(stack)
  BY AtForm
<1> DEFINE x == [Last(stack) EXCEPT !.next = n]
           t == [stack EXCEPT ![Len(stack)] = x]
<1>2. [stack EXCEPT ![Len(stack)].next = n] = t
  BY <1>1
<1>3. x \in [file : DOMAIN program.files, next : Nat \ {0}]
  BY <1>1
<1> HIDE DEF x
<1>4. IsList(t) /\ Len(t) = Len(stack) /\ ToSet(t) \subseteq ToSet(stack) \cup {x}
  BY <1>1, ListLast
<1>5. \A y \in ToSet(stack) : y \in [file : DOMAIN program.files, next : Nat \ {0}]
  BY DEF Shape, StackOK
<1> HIDE DEF t
<1> QED BY <1>1, <1>2, <1>3, <1>4, <1>5 DEF StackOK

LEMMA PassedOK ==
  ASSUME Shape, NEW form, Reading(form)
  PROVE  StackOK(program, Passed) /\ Len(Passed) > 0
PROOF
<1>1. /\ Last(stack) \in [file : DOMAIN program.files, next : Nat \ {0}]
      /\ stack[Len(stack)] = Last(stack)
  BY AtForm
<1> DEFINE n == stack[Len(stack)].next + 1
<1>2. n \in Nat \ {0}
  BY <1>1
<1>3. Passed = [stack EXCEPT ![Len(stack)].next = n]
  BY DEF Passed
<1> HIDE DEF n
<1> QED BY <1>2, <1>3, MovedOn

LEMMA RecoveredOK ==
  ASSUME Shape, NEW form, Reading(form)
  PROVE  StackOK(program, Recovered) /\ Len(Recovered) > 0
PROOF
<1>1. Last(stack).next \in Nat \ {0} /\ Len(Forms) \in Nat
  BY AtForm
<1> DEFINE stop == {i \in Last(stack).next + 1 .. Len(Forms) :
                      Forms[i].form \in {"element", "group", "import"}}
           n == IF stop = {} THEN Len(Forms) + 1
                ELSE CHOOSE i \in stop : \A j \in stop : i <= j
<1>2. Recovered = [stack EXCEPT ![Len(stack)].next = n]
  BY DEF Recovered
<1>3. \A i \in stop : i \in Nat \ {0}
  BY <1>1
<1>4. n \in Nat \ {0}
  <2>1. CASE stop = {}
    BY <1>1, <2>1
  <2>2. CASE stop # {}
    <3> HIDE DEF stop
    <3>1. stop \in SUBSET Nat
      BY <1>3
    <3>2. \E i \in stop : \A j \in stop : i <= j
      BY <2>2, <3>1, LeastNumber
    <3> QED BY <1>3, <2>2, <3>2
  <2> QED BY <2>1, <2>2
<1> HIDE DEF n
<1> QED BY <1>2, <1>4, MovedOn

LEMMA StmtAdded ==
  ASSUME NEW ss, StmtsOK(ss), NEW x, StmtOK(x)
  PROVE  StmtsOK(Append(ss, x))
BY ListAppend DEF StmtsOK

LEMMA OpenInputShape == ASSUME Shape, OpenInput PROVE Shape'
PROOF
<1>1. CASE program.main \in DOMAIN program.files
  <2> DEFINE x == [file |-> program.main, next |-> 1]
  <2>1. x \in [file : DOMAIN program.files, next : Nat \ {0}]
    BY <1>1
  <2>2. stack' = <<x>> /\ UNCHANGED <<program, stmts, resolverVars, graphVars, errors>>
    BY <1>1 DEF OpenInput
  <2> HIDE DEF x
  <2>3. IsList(<<x>>) /\ ToSet(<<x>>) = {x} /\ Len(<<x>>) > 0
    BY OneElement
  <2>4. StackOK(program, stack)' /\ (Len(stack) > 0)'
    <3>1. StackOK(program, <<x>>) /\ Len(<<x>>) > 0
      BY <2>1, <2>3 DEF StackOK
    <3>2. program' = program /\ stack' = <<x>>
      BY <2>2
    <3> QED BY <3>1, <3>2
  <2> QED BY <2>2, <2>4 DEF Shape, resolverVars, graphVars
<1>2. CASE program.main \notin DOMAIN program.files
  <2>1. /\ phase' = "aborted" /\ errors' = errors + 1
        /\ UNCHANGED <<program, stack, stmts, resolverVars, graphVars>>
    BY <1>2 DEF OpenInput
  <2> QED BY <2>1 DEF Shape, resolverVars, graphVars
<1> QED BY <1>1, <1>2

LEMMA ParseImportShape == ASSUME Shape, ParseImport PROVE Shape'
PROOF
<1>1. /\ Reading("import") /\ UNCHANGED <<program, phase, resolverVars, graphVars>>
  BY DEF ParseImport
<1>2. StackOK(program, Passed) /\ Len(Passed) > 0
  BY <1>1, PassedOK
<1>3. CASE stmts' = Append(stmts, ImportDecl) /\ stack' = Passed /\ UNCHANGED errors
  <2>1. StmtsOK(Append(stmts, ImportDecl))
    BY StmtAdded DEF Shape, StmtOK, ImportDecl
  <2> QED BY <1>1, <1>2, <1>3, <2>1 DEF Shape, resolverVars, graphVars
<1>4. CASE /\ Form.file \in DOMAIN program.files \ seen
           /\ stack' = Append(Passed, [file |-> Form.file, next |-> 1])
           /\ UNCHANGED <<stmts, errors>>
  <2> DEFINE x == [file |-> Form.file, next |-> 1]
             ps == Passed
  <2>1. x \in [file : DOMAIN program.files, next : Nat \ {0}]
    BY <1>4
  <2>2. IsList(ps) /\ \A y \in ToSet(ps) : y \in [file : DOMAIN program.files, next : Nat \ {0}]
    BY <1>2 DEF StackOK
  <2> HIDE DEF x, ps
  <2>3. /\ IsList(Append(ps, x)) /\ Len(Append(ps, x)) = Len(ps) + 1
        /\ ToSet(Append(ps, x)) = ToSet(ps) \cup {x}
    BY <2>2, ListAppend
  <2>4. Len(ps) \in Nat
    BY <2>2, ListIs
  <2>5. StackOK(program, Append(ps, x)) /\ Len(Append(ps, x)) > 0
    BY <2>1, <2>2, <2>3, <2>4 DEF StackOK
  <2>6. stack' = Append(ps, x) /\ UNCHANGED <<stmts, errors>>
    BY <1>4 DEF x, ps
  <2> QED BY <1>1, <2>5, <2>6 DEF Shape, resolverVars, graphVars
<1>5. CASE errors' = errors + 2 /\ stack' = Recovered /\ UNCHANGED stmts
  <2>1. StackOK(program, Recovered) /\ Len(Recovered) > 0
    BY <1>1, RecoveredOK
  <2> QED BY <1>1, <1>5, <2>1 DEF Shape, resolverVars, graphVars
<1> QED BY <1>3, <1>4, <1>5 DEF ParseImport

LEMMA ParseElementDeclShape == ASSUME Shape, ParseElementDecl PROVE Shape'
PROOF
<1> DEFINE x == [kind |-> "element", name |-> Form.name, nin |-> Form.nin, nout |-> Form.nout]
<1>1. /\ Reading("element") /\ stmts' = Append(stmts, x) /\ stack' = Passed
      /\ UNCHANGED <<program, phase, resolverVars, graphVars, errors>>
  BY DEF ParseElementDecl
<1>2. StackOK(program, Passed) /\ Len(Passed) > 0
  BY <1>1, PassedOK
<1>3. StmtOK(x)
  <2>1. TopForm(Form) /\ Form.form = "element"
    BY <1>1, AtForm
  <2>2. x.kind = "element" /\ x.nin \in Int /\ x.nout \in Int
    BY <2>1 DEF TopForm
  <2> QED BY <2>2 DEF StmtOK
<1> HIDE DEF x
<1>4. StmtsOK(Append(stmts, x))
  BY <1>3, StmtAdded DEF Shape
<1> QED BY <1>1, <1>2, <1>4 DEF Shape, resolverVars, graphVars

LEMMA ParseElementGroupDeclShape == ASSUME Shape, ParseElementGroupDecl PROVE Shape'
PROOF
<1> DEFINE b == FlattenSeq([i \in DOMAIN Form.body |-> DeclOrChain(Form.body[i])])
           x == [kind |-> "group", name |-> Form.name, body |-> b]
           bad == {i \in DOMAIN Form.body : Form.body[i].form = "bad"}
<1>1. /\ Reading("group") /\ stmts' = Append(stmts, x) /\ stack' = Passed
      /\ errors' = errors + Cardinality(bad)
      /\ UNCHANGED <<program, phase, resolverVars, graphVars>>
  BY DEF ParseElementGroupDecl
<1>2. StackOK(program, Passed) /\ Len(Passed) > 0
  BY <1>1, PassedOK
<1>3. IsList(Form.body) /\ \A i \in DOMAIN Form.body : DeclForm(Form.body[i])
  <2>1. TopForm(Form) /\ Form.form = "group"
    BY <1>1, AtForm
  <2> QED BY <2>1 DEF TopForm
<1>4. BodyOK(b)
  BY <1>3, GroupBody
<1>5. Cardinality(bad) \in Nat
  <2>1. bad \in SUBSET DOMAIN Form.body
    OBVIOUS
  <2> HIDE DEF bad
  <2> QED BY <1>3, <2>1, Indices
<1> HIDE DEF b, bad
<1>6. StmtOK(x)
  BY <1>4 DEF StmtOK
<1> HIDE DEF x
<1>7. StmtsOK(Append(stmts, x))
  BY <1>6, StmtAdded DEF Shape
<1> QED BY <1>1, <1>2, <1>5, <1>7 DEF Shape, resolverVars, graphVars

LEMMA ParseDeclOrChainShape == ASSUME Shape, ParseDeclOrChain PROVE Shape'
PROOF
<1> DEFINE b == DeclOrChain(Form)
<1>1. PICK form : Reading(form)
  BY DEF ParseDeclOrChain
<1>2. /\ stmts' = stmts \o b /\ stack' = Passed
      /\ UNCHANGED <<program, phase, resolverVars, graphVars, errors>>
  BY DEF ParseDeclOrChain
<1>3. StackOK(program, Passed) /\ Len(Passed) > 0
  BY <1>1, PassedOK
<1>4. BodyOK(b)
  <2>1. TopForm(Form)
    BY <1>1, AtForm
  <2> QED BY <2>1, DeclBody DEF TopForm
<1> HIDE DEF b
<1>5. StmtsOK(stmts \o b)
  <2>1. IsList(stmts \o b) /\ ToSet(stmts \o b) \subseteq ToSet(stmts) \cup ToSet(b)
    BY <1>4, ListConcat DEF Shape, StmtsOK, BodyOK
  <2>2. \A x \in ToSet(b) : StmtOK(x)
    BY <1>4 DEF BodyOK, StmtOK
  <2> QED BY <2>1, <2>2 DEF Shape, StmtsOK
<1> QED BY <1>2, <1>3, <1>5 DEF Shape, resolverVars, graphVars

LEMMA ParseErrorShape == ASSUME Shape, ParseError PROVE Shape'
PROOF
<1>1. /\ Reading("bad") /\ errors' = errors + 1 /\ stack' = Recovered
      /\ UNCHANGED <<program, phase, stmts, resolverVars, graphVars>>
  BY DEF ParseError
<1>2. StackOK(program, Recovered) /\ Len(Recovered) > 0
  BY <1>1, RecoveredOK
<1> QED BY <1>1, <1>2 DEF Shape, resolverVars, graphVars

LEMMA EndFileShape == ASSUME Shape, EndFile PROVE Shape'
PROOF
<1>1. /\ phase = "parse" /\ stack' = Front(stack)
      /\ UNCHANGED <<program, resolverVars, graphVars, errors>>
  BY DEF EndFile
<1>2. IsList(stack) /\ Len(stack) > 0 /\ Len(stack) \in Nat
  BY <1>1, ListIs DEF Shape, StackOK
<1>3. /\ IsList(Front(stack)) /\ Len(Front(stack)) = Len(stack) - 1
      /\ ToSet(Front(stack)) \subseteq ToSet(stack)
  BY <1>2, ListFront
<1>4. StackOK(program, Front(stack))
  BY <1>3 DEF Shape, StackOK
<1>5. CASE Len(stack) > 1
  <2>1. stmts' = Append(stmts, ImportDecl) /\ phase' = phase
    BY <1>5 DEF EndFile
  <2>2. StmtsOK(Append(stmts, ImportDecl))
    BY StmtAdded DEF Shape, StmtOK, ImportDecl
  <2>3. Len(Front(stack)) > 0
    BY <1>2, <1>3, <1>5
  <2> QED BY <1>1, <1>4, <2>1, <2>2, <2>3 DEF Shape, resolverVars, graphVars
<1>6. CASE ~(Len(stack) > 1)
  <2>1. stmts' = stmts /\ phase' # "parse"
    BY <1>6 DEF EndFile
  <2> QED BY <1>1, <1>4, <2>1 DEF Shape, resolverVars, graphVars
<1> QED BY <1>5, <1>6

LEMMA CollectDeclShape == ASSUME Shape, CollectDecl PROVE Shape'
PROOF
<1> DEFINE s == stmts[at]
<1>1. /\ at \in Nat \ {0} /\ at <= Len(stmts) /\ at' = at + 1
      /\ UNCHANGED <<program, phase, parserVars, frames, graphVars>>
  BY DEF CollectDecl, Shape
<1>2. StmtOK(s)
  <2>1. IsList(stmts) /\ DOMAIN stmts = 1 .. Len(stmts) /\ Len(stmts) \in Nat
    BY ListIs DEF Shape, StmtsOK
  <2>2. s \in ToSet(stmts)
    BY <1>1, <2>1 DEF ToSet
  <2> QED BY <2>2 DEF Shape, StmtsOK
<1>3. ElemsOK(elems')
  <2>1. CASE elems' = WithDecl(elems, s) /\ s.kind = "element"
    <3>1. s.nin \in Int /\ s.nout \in Int
      BY <1>2, <2>1 DEF StmtOK, InstOK, ConnOK
    <3>2. ASSUME NEW t \in DOMAIN elems'
          PROVE  elems'[t] = s \/ (t \in DOMAIN elems /\ elems'[t] = elems[t])
      <4> HIDE DEF s
      <4> QED BY <2>1, <3>2, Zenon DEF WithDecl
    <3> HIDE DEF s
    <3> QED BY <3>1, <3>2 DEF ElemsOK, Shape
  <2>2. CASE elems' = elems
    BY <2>2 DEF Shape, ElemsOK
  <2> QED BY <2>1, <2>2 DEF CollectDecl
<1>4. GroupsOK(groups')
  <2>1. CASE groups' = WithDecl(groups, s) /\ s.kind = "group"
    <3>1. BodyOK(s.body)
      BY <1>2, <2>1 DEF StmtOK, InstOK, ConnOK
    <3>2. ASSUME NEW t \in DOMAIN groups'
          PROVE  groups'[t] = s \/ (t \in DOMAIN groups /\ groups'[t] = groups[t])
      <4> HIDE DEF s
      <4> QED BY <2>1, <3>2, Zenon DEF WithDecl
    <3> HIDE DEF s
    <3> QED BY <3>1, <3>2 DEF GroupsOK, Shape
  <2>2. CASE groups' = groups
    BY <2>2 DEF Shape, GroupsOK
  <2> QED BY <2>1, <2>2 DEF CollectDecl
<1>5. errors' \in Nat
  BY DEF CollectDecl, Shape
<1>6. ElemsOK(elems)' /\ GroupsOK(groups)'
  BY <1>3, <1>4 DEF ElemsOK, GroupsOK
<1> QED BY <1>1, <1>5, <1>6 DEF Shape, parserVars, graphVars

\* An instance becomes a kernel, or opens its group, or is an error.
LEMMA Instantiated ==
  ASSUME Shape, NEW d, NEW name, NEW open, Instantiate(d, name, open),
         d.nin \in Int, d.nout \in Int, d.host \in BOOLEAN, FramesOK(open)
  PROVE  KernelsOK(kernels') /\ FramesOK(frames') /\ errors' \in Nat
PROOF
<1>1. CASE /\ d.type \in DOMAIN elems
           /\ kernels' = Append(kernels, Kernel(name, d)) /\ frames' = open /\ UNCHANGED errors
  <2> DEFINE k == Kernel(name, d)
  <2>1. elems[d.type].nin \in Int /\ elems[d.type].nout \in Int
    BY <1>1 DEF Shape, ElemsOK
  <2>2. k.nin \in Nat /\ k.nout \in Nat
    BY <2>1 DEF Kernel, PortCount
  <2>3. KernelOK(k)
    BY <2>2 DEF Kernel, KernelOK, Sources, Sinks
  <2> HIDE DEF k
  <2>4. KernelsOK(Append(kernels, k))
    BY <2>3, ListAppend DEF Shape, KernelsOK
  <2> QED BY <1>1, <2>4 DEF Shape, k
<1>2. CASE /\ d.type \in DOMAIN groups \ DOMAIN elems
           /\ frames' = Append(open, [inst |-> d.name, body |-> groups[d.type].body, next |-> 1])
           /\ UNCHANGED <<kernels, errors>>
  <2> DEFINE f == [inst |-> d.name, body |-> groups[d.type].body, next |-> 1]
  <2>1. FrameOK(f)
    BY <1>2 DEF Shape, GroupsOK, FrameOK
  <2> HIDE DEF f
  <2>2. FramesOK(Append(open, f))
    BY <2>1, ListAppend DEF FramesOK
  <2> QED BY <1>2, <2>2 DEF Shape, f
<1>3. CASE /\ d.type \notin DOMAIN groups \cup DOMAIN elems
           /\ errors' = errors + 1 /\ frames' = open /\ UNCHANGED kernels
  BY <1>3 DEF Shape
<1> QED BY <1>1, <1>2, <1>3 DEF Instantiate

LEMMA Connects ==
  ASSUME Shape, NEW a, EndOK(a), NEW b, EndOK(b), NEW lossy, AddConnection(a, b, lossy)
  PROVE  EdgesOK(edges')
PROOF
<1> PICK e : edges' = Append(edges, e) /\ EdgeOK(e)
  BY DEF AddConnection, EdgeOK, EndOK
<1> QED BY ListAppend DEF Shape, EdgesOK

LEMMA ProcessTopShape == ASSUME Shape, ProcessTop PROVE Shape'
PROOF
<1> DEFINE s == stmts[at]
<1>1. /\ at \in Nat \ {0} /\ at <= Len(stmts) /\ at' = at + 1
      /\ UNCHANGED <<program, phase, parserVars, elems, groups>>
  BY DEF ProcessTop, Shape
<1>2. StmtOK(s)
  <2>1. IsList(stmts) /\ DOMAIN stmts = 1 .. Len(stmts) /\ Len(stmts) \in Nat
    BY ListIs DEF Shape, StmtsOK
  <2>2. s \in ToSet(stmts)
    BY <1>1, <2>1 DEF ToSet
  <2> QED BY <2>2 DEF Shape, StmtsOK
<1> HIDE DEF s
<1>3. KernelsOK(kernels') /\ FramesOK(frames') /\ errors' \in Nat /\ EdgesOK(edges')
  <2>1. CASE s.kind = "inst" /\ UNCHANGED edges
                /\ \E name : Instantiate(s, name, <<>>)
    <3>1. InstOK(s)
      BY <1>2, <2>1 DEF StmtOK, ConnOK
    <3>2. FramesOK(<<>>)
      BY EmptyList DEF FramesOK
    <3>3. EdgesOK(edges')
      BY <2>1 DEF Shape
    <3> QED BY <2>1, <3>1, <3>2, <3>3, Instantiated DEF InstOK
  <2>2. CASE /\ s.kind = "conn" /\ AddConnection(s.source, s.dest, s.lossy)
             /\ UNCHANGED <<kernels, frames, errors>>
    <3>1. EndOK(s.source) /\ EndOK(s.dest)
      BY <1>2, <2>2 DEF StmtOK, InstOK, ConnOK
    <3> QED BY <2>2, <3>1, Connects DEF Shape
  <2>3. CASE UNCHANGED <<kernels, edges, frames, errors>>
    BY <2>3 DEF Shape
  <2>4. \/ s.kind = "inst" /\ UNCHANGED edges /\ (\E name : Instantiate(s, name, <<>>))
        \/ /\ s.kind = "conn" /\ AddConnection(s.source, s.dest, s.lossy)
           /\ UNCHANGED <<kernels, frames, errors>>
        \/ UNCHANGED <<kernels, edges, frames, errors>>
    BY DEF ProcessTop, s
  <2> QED BY <2>1, <2>2, <2>3, <2>4
<1>4. KernelsOK(kernels)' /\ FramesOK(frames)' /\ EdgesOK(edges)'
  BY <1>3
<1> QED BY <1>1, <1>3, <1>4 DEF Shape, parserVars

\* The group that is being inlined, at its next statement.
LEMMA AtFrame ==
  ASSUME Shape, frames # <<>>
  PROVE  /\ IsList(frames) /\ Len(frames) \in Nat \ {0} /\ FrameOK(Last(frames))
         /\ frames[Len(frames)] = Last(frames)
         /\ (Last(frames).next <= Len(Last(frames).body)
               => LET s == Last(frames).body[Last(frames).next] IN InstOK(s) \/ ConnOK(s))
PROOF
<1>1. IsList(frames) /\ Len(frames) \in Nat
  BY ListIs DEF Shape, FramesOK
<1>2. Len(frames) # 0
  BY <1>1, ListIs, EmptySeq, LenProperties DEF IsList
<1>5. Len(frames) > 0
  BY <1>1, <1>2
<1>3. FrameOK(Last(frames)) /\ frames[Len(frames)] = Last(frames)
  <2>1. Last(frames) \in ToSet(frames)
    BY <1>1, <1>5, ListLast
  <2> QED BY <2>1 DEF Shape, FramesOK, Last
<1>4. ASSUME Last(frames).next <= Len(Last(frames).body)
      PROVE  InstOK(Last(frames).body[Last(frames).next]) \/ ConnOK(Last(frames).body[Last(frames).next])
  <2> DEFINE b == Last(frames).body
             n == Last(frames).next
  <2>1. BodyOK(b) /\ n \in Nat \ {0} /\ n <= Len(b)
    BY <1>3, <1>4 DEF FrameOK
  <2> HIDE DEF b, n
  <2>2. Len(b) \in Nat /\ DOMAIN b = 1 .. Len(b)
    BY <2>1, ListIs DEF BodyOK
  <2>3. b[n] \in ToSet(b)
    BY <2>1, <2>2 DEF ToSet
  <2>4. InstOK(b[n]) \/ ConnOK(b[n])
    BY <2>1, <2>3 DEF BodyOK
  <2> QED BY <2>4 DEF b, n
<1> QED BY <1>1, <1>2, <1>3, <1>4

LEMMA InlineGroupShape == ASSUME Shape, InlineGroup PROVE Shape'
PROOF
<1> DEFINE f == Last(frames)
           s == f.body[f.next]
           open == [frames EXCEPT ![Len(frames)].next = @ + 1]
           copy == [s EXCEPT !.name = f.inst \o (IF s.anonymous THEN AnonName(s.type) ELSE @),
                             !.anonymous = FALSE]
<1>1. /\ frames # <<>> /\ f.next <= Len(f.body)
      /\ UNCHANGED <<program, phase, parserVars, at, elems, groups>>
  BY DEF InlineGroup
<1>2. /\ IsList(frames) /\ Len(frames) \in Nat \ {0} /\ FrameOK(f)
      /\ frames[Len(frames)] = f /\ (InstOK(s) \/ ConnOK(s))
  BY <1>1, AtFrame
<1>3. FramesOK(open)
  <2> DEFINE x == [f EXCEPT !.next = @ + 1]
             t == [frames EXCEPT ![Len(frames)] = x]
  <2>1. open = t
    BY <1>2
  <2>2. FrameOK(x)
    BY <1>2 DEF FrameOK
  <2>5. Len(frames) > 0
    BY <1>2
  <2> HIDE DEF x, f
  <2>3. IsList(t) /\ ToSet(t) \subseteq ToSet(frames) \cup {x}
    BY <1>2, <2>5, ListLast
  <2> HIDE DEF t
  <2>4. FramesOK(t)
    BY <2>2, <2>3 DEF Shape, FramesOK
  <2> QED BY <2>1, <2>4
<1>4. KernelsOK(kernels') /\ FramesOK(frames') /\ errors' \in Nat /\ EdgesOK(edges')
  <2>1. CASE s.kind = "inst" /\ UNCHANGED edges /\ Instantiate(copy, copy.name, open)
    <3>1. InstOK(s)
      BY <1>2, <2>1 DEF ConnOK
    <3>2. copy.nin \in Int /\ copy.nout \in Int /\ copy.host \in BOOLEAN
      <4> HIDE DEF s, f
      <4> QED BY <3>1 DEF InstOK, InstFields
    <3>3. EdgesOK(edges')
      BY <2>1 DEF Shape
    <3> HIDE DEF copy, open, s, f
    <3> QED BY <1>3, <2>1, <3>2, <3>3, Instantiated
  <2>2. CASE /\ s.kind = "conn" /\ frames' = open /\ UNCHANGED <<kernels, errors>>
             /\ AddConnection(RewriteEnd(f.inst, s.source), RewriteEnd(f.inst, s.dest), s.lossy)
    <3>1. EndOK(s.source) /\ EndOK(s.dest)
      BY <1>2, <2>2 DEF InstOK, ConnOK
    <3>2. ASSUME NEW e, EndOK(e)
          PROVE  EndOK(RewriteEnd(f.inst, e))
      BY <3>2 DEF EndOK, RewriteEnd
    <3>3. EndOK(RewriteEnd(f.inst, s.source)) /\ EndOK(RewriteEnd(f.inst, s.dest))
      BY <3>1, <3>2
    <3> QED BY <1>3, <2>2, <3>3, Connects DEF Shape
  <2>3. \/ s.kind = "inst" /\ UNCHANGED edges /\ Instantiate(copy, copy.name, open)
        \/ /\ s.kind = "conn" /\ frames' = open /\ UNCHANGED <<kernels, errors>>
           /\ AddConnection(RewriteEnd(f.inst, s.source), RewriteEnd(f.inst, s.dest), s.lossy)
    BY DEF InlineGroup
  <2> QED BY <2>1, <2>2, <2>3
<1>5. KernelsOK(kernels)' /\ FramesOK(frames)' /\ EdgesOK(edges)'
  BY <1>4
<1> QED BY <1>1, <1>4, <1>5 DEF Shape, parserVars

LEMMA InlineEndShape == ASSUME Shape, InlineEnd PROVE Shape'
PROOF
<1>1. /\ frames # <<>> /\ frames' = Front(frames)
      /\ UNCHANGED <<program, phase, parserVars, at, elems, groups, graphVars, errors>>
  BY DEF InlineEnd
<1>2. IsList(frames) /\ Len(frames) \in Nat \ {0}
  BY <1>1, AtFrame
<1>3. IsList(Front(frames)) /\ ToSet(Front(frames)) \subseteq ToSet(frames)
  BY <1>2, ListFront
<1>4. FramesOK(Front(frames))
  BY <1>3 DEF Shape, FramesOK
<1> QED BY <1>1, <1>4 DEF Shape, parserVars, graphVars

LEMMA SpecialKernelOK ==
  ASSUME NEW s \in Sources \cup Sinks \cup Aliases PROVE KernelOK(SpecialKernel(s))
BY DEF SpecialKernel, KernelOK, Sources, Sinks, Aliases

\* The boundary kernels that are added are boundary kernels.
LEMMA SpecialsAdded ==
  ASSUME NEW ks, KernelsOK(ks), NEW I \in SUBSET DOMAIN SpecialNames
  PROVE  LET new == Selected(SpecialNames, I)
         IN  KernelsOK(ks \o [i \in DOMAIN new |-> SpecialKernel(new[i])])
PROOF
<1> DEFINE new == Selected(SpecialNames, I)
           sk == [i \in DOMAIN new |-> SpecialKernel(new[i])]
           S == {SpecialKernel(s) : s \in Sources \cup Sinks \cup Aliases}
<1>1. /\ Len(SpecialNames) \in Nat /\ DOMAIN SpecialNames = 1 .. Len(SpecialNames)
      /\ \A i \in DOMAIN SpecialNames : SpecialNames[i] \in Sources \cup Sinks \cup Aliases
  BY DEF SpecialNames, Sources, Sinks, Aliases
<1>2. IsList(new) /\ \A k \in 1 .. Len(new) : \E i \in I : new[k] = SpecialNames[i]
  BY <1>1, SelectedRight DEF Selection
<1> HIDE DEF new
<1>3. Len(new) \in Nat /\ DOMAIN new = 1 .. Len(new)
  BY <1>2, ListIs
<1>4. sk \in [1 .. Len(new) -> S]
  <2>1. \A k \in 1 .. Len(new) : new[k] \in Sources \cup Sinks \cup Aliases
    BY <1>1, <1>2
  <2> QED BY <1>3, <2>1
<1> HIDE DEF S, sk
<1>5. IsList(sk) /\ ToSet(sk) \subseteq S
  BY <1>3, <1>4, ListMap
<1>6. IsList(ks \o sk) /\ ToSet(ks \o sk) \subseteq ToSet(ks) \cup ToSet(sk)
  BY <1>5, ListConcat DEF KernelsOK
<1>7. \A k \in S : KernelOK(k)
  BY SpecialKernelOK DEF S
<1>8. KernelsOK(ks \o sk)
  BY <1>5, <1>6, <1>7 DEF KernelsOK
<1> QED BY <1>8 DEF sk, new

LEMMA SynthesizeSpecialsShape == ASSUME Shape, SynthesizeSpecials PROVE Shape'
PROOF
<1>1. UNCHANGED <<program, parserVars, resolverVars, edges>> /\ phase' = "slots"
  BY DEF SynthesizeSpecials
<1>2. KernelsOK(kernels')
  <2> DEFINE referenced == UNION {{edges[i].src, edges[i].dst} : i \in DOMAIN edges}
             I == {i \in DOMAIN SpecialNames :
                     Id(SpecialNames[i]) \in referenced \ NamesOf(kernels)}
             new == Selected(SpecialNames, I)
  <2>1. kernels' = kernels \o [i \in DOMAIN new |-> SpecialKernel(new[i])]
    BY DEF SynthesizeSpecials
  <2>2. I \in SUBSET DOMAIN SpecialNames
    OBVIOUS
  <2>3. KernelsOK(kernels)
    BY DEF Shape
  <2> HIDE DEF I
  <2>4. KernelsOK(kernels \o [i \in DOMAIN new |-> SpecialKernel(new[i])])
    BY <2>2, <2>3, SpecialsAdded
  <2> QED BY <2>1, <2>4
<1>3. errors' \in Nat
  <2> DEFINE A == {i \in DOMAIN edges : edges[i].src \notin NamesOf(kernels')}
             B == {i \in DOMAIN edges : edges[i].dst \notin NamesOf(kernels')}
  <2>1. errors' = errors + Cardinality(A) + Cardinality(B)
    BY DEF SynthesizeSpecials
  <2>2. A \in SUBSET DOMAIN edges /\ B \in SUBSET DOMAIN edges
    OBVIOUS
  <2> HIDE DEF A, B
  <2>3. Cardinality(A) \in Nat /\ Cardinality(B) \in Nat
    BY <2>2, Indices DEF Shape, EdgesOK
  <2> QED BY <2>1, <2>3 DEF Shape
<1>4. KernelsOK(kernels)'
  BY <1>2
<1> QED BY <1>1, <1>3, <1>4 DEF Shape, parserVars, resolverVars

HostUser(k) == k.host /\ k.special = "none"

\* The host-controlled kernels before the i-th one.
Before(ks, i) == {j \in 1 .. i - 1 : HostUser(ks[j])}

\* The host-controlled kernels among ks are numbered in their order.
NumbersOK(ks) ==
  \A i \in DOMAIN ks : HostUser(ks[i]) =>
    /\ ks[i].gid = Cardinality(Before(ks, i))
    /\ ks[i].base = 4096 + 128 * ks[i].gid

SameNames(ns, ks) == DOMAIN ns = DOMAIN ks /\ \A i \in DOMAIN ks : ns[i].name = ks[i].name

LEMMA Numbered ==
  ASSUME NEW ks, KernelsOK(ks)
  PROVE  LET ns == AssignSignalSlots(ks) IN KernelsOK(ns) /\ NumbersOK(ns) /\ SameNames(ns, ks)
PROOF
<1> DEFINE gid(i) == Cardinality({j \in 1 .. i - 1 : ks[j].host /\ ks[j].special = "none"})
           new(i) == IF ks[i].host /\ ks[i].special = "none"
                     THEN [ks[i] EXCEPT !.gid = gid(i), !.base = 4096 + 128 * gid(i)] ELSE ks[i]
           ns == AssignSignalSlots(ks)
<1>1. ns = [i \in DOMAIN ks |-> new(i)]
  BY DEF AssignSignalSlots
<1>2. IsList(ks) /\ Len(ks) \in Nat /\ DOMAIN ks = 1 .. Len(ks)
  BY ListIs DEF KernelsOK
<1>3. ASSUME NEW i \in DOMAIN ks
      PROVE  /\ KernelOK(new(i))
             /\ new(i).name = ks[i].name /\ new(i).special = ks[i].special
             /\ new(i).host = ks[i].host /\ new(i).nin = ks[i].nin /\ new(i).nout = ks[i].nout
             /\ HostUser(ks[i]) => new(i).gid = gid(i) /\ new(i).base = 4096 + 128 * gid(i)
  <2>1. KernelOK(ks[i])
    BY DEF KernelsOK, ToSet
  <2> DEFINE k == ks[i]
             g == gid(i)
  <2>2. new(i) = IF k.host /\ k.special = "none"
                 THEN [k EXCEPT !.gid = g, !.base = 4096 + 128 * g] ELSE k
    OBVIOUS
  <2> HIDE DEF g, new
  <2>3. KernelOK(k)
    BY <2>1
  <2>4. CASE k.host /\ k.special = "none"
    <3>1. new(i) = [k EXCEPT !.gid = g, !.base = 4096 + 128 * g]
      BY <2>2, <2>4
    <3> HIDE DEF k
    <3>2. /\ new(i).gid = g /\ new(i).base = 4096 + 128 * g
          /\ new(i).name = k.name /\ new(i).special = k.special
          /\ new(i).host = k.host /\ new(i).nin = k.nin /\ new(i).nout = k.nout
      BY <2>3, <3>1 DEF KernelOK
    <3>3. KernelOK(new(i))
      <4>1. DOMAIN new(i) = DOMAIN k
        BY <3>1
      <4> QED BY <2>3, <3>2, <4>1 DEF KernelOK
    <3> QED BY <3>2, <3>3 DEF k, g
  <2>5. CASE ~(k.host /\ k.special = "none")
    BY <2>2, <2>3, <2>5 DEF HostUser
  <2> QED BY <2>4, <2>5
<1> HIDE DEF new, gid, ns
<1>4. KernelsOK(ns)
  <2> DEFINE S == {new(i) : i \in DOMAIN ks}
  <2>1. ns \in [1 .. Len(ks) -> S]
    BY <1>1, <1>2
  <2>2. \A k \in S : KernelOK(k)
    BY <1>3
  <2> HIDE DEF S
  <2>3. IsList(ns) /\ ToSet(ns) \subseteq S
    BY <1>2, <2>1, ListMap
  <2> QED BY <2>2, <2>3 DEF KernelsOK
<1>5. DOMAIN ns = DOMAIN ks /\ \A i \in DOMAIN ks : ns[i] = new(i)
  BY <1>1
<1>6. \A j \in DOMAIN ks : HostUser(ns[j]) <=> HostUser(ks[j])
  <2>1. \A j \in DOMAIN ks : ns[j].host = ks[j].host /\ ns[j].special = ks[j].special
    BY <1>3, <1>5
  <2> QED BY <2>1, Zenon DEF HostUser
<1>7. ASSUME NEW i \in DOMAIN ns, HostUser(ns[i])
      PROVE  /\ ns[i].gid = Cardinality(Before(ns, i))
             /\ ns[i].base = 4096 + 128 * ns[i].gid
  <2>1. HostUser(ks[i]) /\ i \in DOMAIN ks
    BY <1>5, <1>6, <1>7
  <2>2. ns[i].gid = gid(i) /\ ns[i].base = 4096 + 128 * gid(i)
    BY <1>3, <1>5, <2>1
  <2>3. gid(i) = Cardinality(Before(ks, i))
    BY DEF gid, HostUser, Before
  <2>4. \A j \in 1 .. i - 1 : j \in DOMAIN ks
    BY <1>2, <2>1
  <2>5. Before(ns, i) = Before(ks, i)
    <3>1. \A j \in 1 .. i - 1 : HostUser(ns[j]) <=> HostUser(ks[j])
      BY <1>6, <2>4, Zenon
    <3>2. ASSUME NEW j
          PROVE  j \in Before(ns, i) <=> j \in Before(ks, i)
      BY <3>1, Zenon DEF Before
    <3> QED BY <3>2, Zenon DEF Before
  <2> QED BY <2>2, <2>3, <2>5
<1>8. SameNames(ns, ks)
  BY <1>3, <1>5 DEF SameNames
<1>9. NumbersOK(ns)
  BY <1>7 DEF NumbersOK
<1> QED BY <1>4, <1>8, <1>9 DEF ns

LEMMA EndResolveShape == ASSUME Shape, EndResolve PROVE Shape'
PROOF
<1>1. /\ kernels' = AssignSignalSlots(kernels) /\ phase' # "parse"
      /\ UNCHANGED <<program, parserVars, resolverVars, edges, errors>>
  BY DEF EndResolve
<1>2. KernelsOK(kernels)
  BY DEF Shape
<1>3. KernelsOK(AssignSignalSlots(kernels))
  BY <1>2, Numbered
<1>4. KernelsOK(kernels)'
  BY <1>1, <1>3
<1> QED BY <1>1, <1>4 DEF Shape, parserVars, resolverVars

\* There are finitely many arity errors, and none if every port exists.
LEMMA ArityErrorsFinite ==
  ASSUME EdgesOK(edges)
  PROVE  /\ Cardinality(ArityErrors) \in Nat
         /\ Cardinality(ArityErrors) = 0 =>
              \A i \in DOMAIN edges :
                /\ ~(edges[i].sport > Find(edges[i].src).nout) /\ ~(edges[i].sport < 1)
                /\ ~(edges[i].dport > Find(edges[i].dst).nin) /\ ~(edges[i].dport < 1)
PROOF
<1> DEFINE D == DOMAIN edges
           K == {"source", "dest", "source below 1", "dest below 1"}
<1>1. IsFiniteSet(D)
  <2>1. D \in SUBSET DOMAIN edges
    OBVIOUS
  <2> QED BY <2>1, Indices DEF EdgesOK
<1>2. IsFiniteSet(K)
  <2> DEFINE a == "dest"
             b == "source below 1"
             c == "dest below 1"
             S == {"source"}
  <2>1. IsFiniteSet(S) /\ K = ((S \cup {a}) \cup {b}) \cup {c}
    BY FS_Singleton
  <2> HIDE DEF S, a, b, c, K
  <2>2. IsFiniteSet(S \cup {a})
    BY <2>1, FS_AddElement
  <2>3. IsFiniteSet((S \cup {a}) \cup {b})
    BY <2>2, FS_AddElement
  <2>4. IsFiniteSet(((S \cup {a}) \cup {b}) \cup {c})
    BY <2>3, FS_AddElement
  <2> QED BY <2>1, <2>4
<1>3. IsFiniteSet(D \X K)
  <2>1. IsFiniteSet(D) /\ IsFiniteSet(K)
    BY <1>1, <1>2
  <2> HIDE DEF D, K
  <2>2. IsFiniteSet(D \X K)
    BY <2>1, FS_Product
  <2> QED BY <2>2
<1>4. ArityErrors \in SUBSET (D \X K)
  <2>1. ASSUME NEW x \in ArityErrors
        PROVE  \E i \in D, w \in K : x = <<i, w>>
    BY <2>1, Zenon DEF ArityErrors
  <2> HIDE DEF D, K
  <2> QED BY <2>1
<1>5. IsFiniteSet(ArityErrors)
  BY <1>3, <1>4, FS_Subset
<1>6. Cardinality(ArityErrors) \in Nat /\ (Cardinality(ArityErrors) = 0 => ArityErrors = {})
  BY <1>5, FS_CardinalityType, FS_EmptySet
<1>7. ASSUME NEW i \in DOMAIN edges
      PROVE  /\ edges[i].sport > Find(edges[i].src).nout => <<i, "source">> \in ArityErrors
             /\ edges[i].dport > Find(edges[i].dst).nin => <<i, "dest">> \in ArityErrors
             /\ edges[i].sport < 1 => <<i, "source below 1">> \in ArityErrors
             /\ edges[i].dport < 1 => <<i, "dest below 1">> \in ArityErrors
  BY DEF ArityErrors
<1> QED BY <1>6, <1>7

LEMMA NextShape == ASSUME Shape, [Next]_vars PROVE Shape'
PROOF
<1>1. ASSUME UNCHANGED <<program, errors, parserVars, resolverVars, graphVars>>,
             phase' = phase \/ phase' # "parse"
      PROVE  Shape'
  BY <1>1 DEF Shape, parserVars, resolverVars, graphVars
<1>2. CASE EndCollect
  <2>1. /\ at' = 1 /\ phase' = "process"
        /\ UNCHANGED <<program, parserVars, elems, groups, frames, graphVars, errors>>
    BY <1>2 DEF EndCollect
  <2> QED BY <2>1 DEF Shape, parserVars, graphVars
<1>3. CASE AnalyzePortArity
  <2>1. /\ errors' = errors + Cardinality(ArityErrors) /\ phase' = "cycles"
        /\ UNCHANGED <<program, parserVars, resolverVars, graphVars>>
    BY <1>3 DEF AnalyzePortArity
  <2>2. Cardinality(ArityErrors) \in Nat
    BY ArityErrorsFinite DEF Shape
  <2> QED BY <2>1, <2>2 DEF Shape, parserVars, resolverVars, graphVars
<1>4. CASE StartSearch \/ LookAtSuccessor \/ LeaveNode
  <2>1. UNCHANGED <<program, phase, parserVars, resolverVars, graphVars, errors>>
    BY <1>4 DEF StartSearch, LookAtSuccessor, LeaveNode
  <2> QED BY <1>1, <2>1
<1>5. CASE AnalyzeCycles
  <2>1. /\ UNCHANGED <<program, parserVars, resolverVars, graphVars, errors>>
        /\ phase' # "parse"
    BY <1>5 DEF AnalyzeCycles
  <2> QED BY <1>1, <2>1
<1>6. CASE LowerToBackend
  <2>1. /\ UNCHANGED <<program, parserVars, resolverVars, graphVars, errors>>
        /\ phase' # "parse"
    BY <1>6 DEF LowerToBackend
  <2> QED BY <1>1, <2>1
<1>7. CASE Emit
  <2>1. PICK n \in 0 .. MaxWriteErrors : errors' = errors + n
    BY <1>7 DEF Emit
  <2>2. errors' \in Nat
    BY <2>1, CompilerAssumption DEF Shape
  <2>3. phase' # "parse" /\ UNCHANGED <<program, parserVars, resolverVars, graphVars>>
    BY <1>7 DEF Emit
  <2> QED BY <2>2, <2>3 DEF Shape, parserVars, resolverVars, graphVars
<1>8. CASE Terminated \/ UNCHANGED vars
  <2>1. UNCHANGED <<program, phase, parserVars, resolverVars, graphVars, errors>>
    BY <1>8 DEF Terminated, vars
  <2> QED BY <1>1, <2>1
<1> QED
  BY <1>2, <1>3, <1>4, <1>5, <1>6, <1>7, <1>8, OpenInputShape, ParseImportShape,
     ParseElementDeclShape, ParseElementGroupDeclShape, ParseDeclOrChainShape, ParseErrorShape,
     EndFileShape, CollectDeclShape, ProcessTopShape, InlineGroupShape, InlineEndShape,
     SynthesizeSpecialsShape, EndResolveShape
  DEF Next, Parse, Resolve, Analyze

LEMMA InitShape == Init => Shape
PROOF
<1> SUFFICES ASSUME Init PROVE Shape
  OBVIOUS
<1>1. IsList(<<>>) /\ ToSet(<<>>) = {}
  BY EmptyList
<1>2. /\ stack = <<>> /\ stmts = <<>> /\ frames = <<>> /\ kernels = <<>> /\ edges = <<>>
      /\ elems = <<>> /\ groups = <<>> /\ errors = 0 /\ at = 1
      /\ program \in Programs /\ phase = "open"
  BY DEF Init
<1>3. DOMAIN <<>> = {}
  OBVIOUS
<1>4. StackOK(program, stack) /\ StmtsOK(stmts) /\ FramesOK(frames) /\ KernelsOK(kernels)
        /\ EdgesOK(edges)
  BY <1>1, <1>2 DEF StackOK, StmtsOK, FramesOK, KernelsOK, EdgesOK
<1>5. ElemsOK(elems) /\ GroupsOK(groups)
  BY <1>2, <1>3 DEF ElemsOK, GroupsOK
<1> QED BY <1>2, <1>4, <1>5 DEF Shape

-----------------------------------------------------------------------------
(* What holds in each phase of the driver.                                *)

Known == \A i \in DOMAIN edges : {edges[i].src, edges[i].dst} \subseteq NamesOf(kernels)

PortsFit ==
  \A i \in DOMAIN edges :
    /\ ~(edges[i].sport > Find(edges[i].src).nout) /\ ~(edges[i].sport < 1)
    /\ ~(edges[i].dport > Find(edges[i].dst).nin) /\ ~(edges[i].dport < 1)

\* No end of a connection is unknown behind the resolver, every port exists behind
\* the analyses, and the driver has seen no error when it lowers the graph.
Progress ==
  /\ phase = "slots" /\ errors = 0 => Known
  /\ phase \in {"arity", "cycles", "lower"} => Known /\ NumbersOK(kernels)
  /\ phase \in {"arity", "lower", "emit"} => errors = 0
  /\ phase = "cycles" /\ errors = 0 => PortsFit
  /\ phase = "lower" => PortsFit
  /\ build.made => phase \in {"emit", "ended"}
  /\ phase = "emit" => build.made
  /\ ExitCode

LEMMA ResolvedKnown == ASSUME Shape, SynthesizeSpecials, errors' = 0 PROVE Known'
PROOF
<1> DEFINE A == {i \in DOMAIN edges : edges[i].src \notin NamesOf(kernels')}
           B == {i \in DOMAIN edges : edges[i].dst \notin NamesOf(kernels')}
<1>1. errors' = errors + Cardinality(A) + Cardinality(B) /\ edges' = edges
  BY DEF SynthesizeSpecials
<1>2. A \in SUBSET DOMAIN edges /\ B \in SUBSET DOMAIN edges
  OBVIOUS
<1>3. A = {} /\ B = {}
  <2> HIDE DEF A, B
  <2>1. /\ Cardinality(A) \in Nat /\ Cardinality(B) \in Nat
        /\ IsFiniteSet(A) /\ IsFiniteSet(B)
    BY <1>2, Indices DEF Shape, EdgesOK
  <2>2. Cardinality(A) = 0 /\ Cardinality(B) = 0
    BY <1>1, <2>1 DEF Shape
  <2> QED BY <2>1, <2>2, FS_EmptySet
<1>4. \A i \in DOMAIN edges' : {edges[i].src, edges[i].dst} \subseteq NamesOf(kernels')
  BY <1>1, <1>3
<1>5. Known' <=> \A i \in DOMAIN edges' : {edges'[i].src, edges'[i].dst} \subseteq NamesOf(kernels')
  BY DEF Known, NamesOf
<1> QED BY <1>1, <1>4, <1>5

LEMMA NumberedKnown == ASSUME Shape, Known, EndResolve PROVE Known' /\ NumbersOK(kernels')
PROOF
<1> DEFINE ns == AssignSignalSlots(kernels)
<1>1. kernels' = ns /\ edges' = edges
  BY DEF EndResolve
<1>0. KernelsOK(kernels)
  BY DEF Shape
<1>2. NumbersOK(ns) /\ SameNames(ns, kernels)
  BY <1>0, Numbered
<1> HIDE DEF ns
<1>3. NamesOf(ns) = NamesOf(kernels)
  <2>1. NamesOf(ns) = {kernels[i].name : i \in DOMAIN kernels}
    BY <1>2 DEF NamesOf, SameNames
  <2> QED BY <2>1 DEF NamesOf
<1>4. Known'
  <2>1. \A i \in DOMAIN edges : {edges[i].src, edges[i].dst} \subseteq NamesOf(ns)
    BY <1>3 DEF Known
  <2>2. \A i \in DOMAIN edges' : {edges'[i].src, edges'[i].dst} \subseteq NamesOf(kernels')
    BY <1>1, <2>1
  <2>3. Known' <=> \A i \in DOMAIN edges' : {edges'[i].src, edges'[i].dst} \subseteq NamesOf(kernels')
    BY DEF Known, NamesOf
  <2> QED BY <2>2, <2>3
<1> QED BY <1>1, <1>2, <1>4

LEMMA SameGraph ==
  ASSUME UNCHANGED graphVars
  PROVE  /\ Known' <=> Known
         /\ PortsFit' <=> PortsFit
         /\ NumbersOK(kernels)' <=> NumbersOK(kernels)
BY DEF graphVars, Known, PortsFit, NumbersOK, NamesOf, Find, HostUser

LEMMA NextProgress == ASSUME Shape, Progress, [Next]_vars PROVE Progress'
PROOF
<1>0. errors \in Nat
  BY DEF Shape
<1>1. ASSUME phase' \notin {"slots", "arity", "cycles", "lower", "emit", "ended"},
             UNCHANGED build, ~build.made
      PROVE  Progress'
  BY <1>1 DEF Progress, ExitCode
<1>2. CASE OpenInput
  <2>1. phase = "open" /\ phase' \in {"parse", "aborted"} /\ UNCHANGED build
    BY <1>2 DEF OpenInput, backVars
  <2> QED BY <1>1, <2>1 DEF Progress
<1>3. CASE ParseImport \/ ParseElementDecl \/ ParseElementGroupDecl \/ ParseDeclOrChain \/ ParseError
  <2>1. phase = "parse" /\ phase' = phase /\ UNCHANGED build
    BY <1>3 DEF ParseImport, ParseElementDecl, ParseElementGroupDecl, ParseDeclOrChain,
                ParseError, Reading, backVars
  <2> QED BY <1>1, <2>1 DEF Progress
<1>4. CASE EndFile
  <2>1. phase = "parse" /\ UNCHANGED <<build, errors, program>> /\ ~build.made
    BY <1>4 DEF EndFile, Progress
  <2>2. CASE phase' = "ended" /\ program.parse_only /\ exit' = errors
    <3>1. ExitCode'
      BY <1>0, <2>1, <2>2 DEF ExitCode, Status
    <3> QED BY <2>1, <2>2, <3>1 DEF Progress
  <2>3. CASE phase' \in {"parse", "collect"}
    BY <1>1, <2>1, <2>3
  <2> QED BY <1>4, <2>1, <2>2, <2>3 DEF EndFile
<1>5. CASE CollectDecl \/ EndCollect \/ ProcessTop \/ InlineGroup \/ InlineEnd
  <2>1. phase \in {"collect", "process"} /\ phase' \in {"collect", "process"} /\ UNCHANGED build
    BY <1>5 DEF CollectDecl, EndCollect, ProcessTop, InlineGroup, InlineEnd, backVars
  <2> QED BY <1>1, <2>1 DEF Progress
<1>6. CASE SynthesizeSpecials
  <2>1. phase = "process" /\ phase' = "slots" /\ UNCHANGED build
    BY <1>6 DEF SynthesizeSpecials, backVars
  <2> QED BY <1>6, <2>1, ResolvedKnown DEF Progress, ExitCode
<1>7. CASE EndResolve
  <2>1. phase = "slots" /\ UNCHANGED <<build, errors, program>> /\ ~build.made
    BY <1>7 DEF EndResolve, Progress
  <2>2. CASE errors > 0
    <3>1. phase' = "ended" /\ exit' = errors
      BY <1>0, <1>7, <2>2 DEF EndResolve, Failure
    <3>2. ExitCode'
      BY <1>0, <2>1, <2>2, <3>1 DEF ExitCode, Status
    <3> QED BY <2>1, <3>1, <3>2 DEF Progress
  <2>3. CASE ~(errors > 0)
    <3>1. phase' = "arity" /\ errors = 0
      BY <1>0, <1>7, <2>3 DEF EndResolve
    <3>2. Known' /\ NumbersOK(kernels')
      BY <1>7, <2>1, <3>1, NumberedKnown DEF Progress
    <3>3. NumbersOK(kernels)'
      BY <3>2 DEF NumbersOK, HostUser
    <3> QED BY <2>1, <3>1, <3>2, <3>3 DEF Progress, ExitCode
  <2> QED BY <2>2, <2>3
<1>8. CASE AnalyzePortArity
  <2>1. /\ phase = "arity" /\ phase' = "cycles" /\ errors = 0 /\ ~build.made /\ Known
        /\ NumbersOK(kernels)
        /\ errors' = errors + Cardinality(ArityErrors) /\ UNCHANGED <<graphVars, build>>
    BY <1>8 DEF AnalyzePortArity, backVars, Progress
  <2>2. errors' = 0 => PortsFit
    <3>1. EdgesOK(edges)
      BY DEF Shape
    <3>2. Cardinality(ArityErrors) \in Nat
      BY <3>1, ArityErrorsFinite
    <3>3. Cardinality(ArityErrors) = 0 => PortsFit
      BY <3>1, ArityErrorsFinite DEF PortsFit
    <3> QED BY <2>1, <3>2, <3>3
  <2>3. Known' /\ NumbersOK(kernels)' /\ (errors' = 0 => PortsFit')
    BY <2>1, <2>2, SameGraph
  <2> QED BY <2>1, <2>3 DEF Progress, ExitCode
<1>9. CASE StartSearch \/ LookAtSuccessor \/ LeaveNode
  <2>1. phase = "cycles" /\ UNCHANGED <<phase, graphVars, errors, build>>
    BY <1>9 DEF StartSearch, LookAtSuccessor, LeaveNode
  <2>2. Known' /\ NumbersOK(kernels)' /\ (errors' = 0 => PortsFit')
    BY <2>1, SameGraph DEF Progress
  <2> QED BY <2>1, <2>2 DEF Progress, ExitCode
<1>10. CASE AnalyzeCycles
  <2>1. phase = "cycles" /\ UNCHANGED <<graphVars, errors, build, program>> /\ ~build.made
    BY <1>10 DEF AnalyzeCycles, Progress
  <2>2. CASE errors > 0
    <3>1. phase' = "ended" /\ exit' = errors
      BY <1>10, <2>2 DEF AnalyzeCycles
    <3>2. ExitCode'
      BY <1>0, <2>1, <2>2, <3>1 DEF ExitCode, Status
    <3> QED BY <2>1, <3>1, <3>2 DEF Progress
  <2>3. CASE ~(errors > 0)
    <3>1. phase' = "lower" /\ errors = 0
      BY <1>0, <1>10, <2>3 DEF AnalyzeCycles
    <3>2. Known' /\ NumbersOK(kernels)' /\ PortsFit'
      BY <2>1, <3>1, SameGraph DEF Progress
    <3> QED BY <2>1, <3>1, <3>2 DEF Progress, ExitCode
  <2> QED BY <2>2, <2>3
<1>11. CASE LowerToBackend
  <2>1. phase = "lower" /\ phase' = "emit" /\ build'.made /\ UNCHANGED errors
    BY <1>11 DEF LowerToBackend
  <2> QED BY <2>1 DEF Progress, ExitCode
<1>12. CASE Emit
  <2>1. phase = "emit" /\ phase' = "ended" /\ UNCHANGED <<build, program>> /\ build.made /\ errors = 0
    BY <1>12 DEF Emit, Progress
  <2>2. PICK n \in 0 .. MaxWriteErrors :
          errors' = errors + n /\ exit' = IF n = 0 THEN errors' ELSE Failure(errors')
    BY <1>12 DEF Emit
  <2>3. n \in Nat /\ errors' = n /\ exit' = n
    BY <2>1, <2>2, CompilerAssumption DEF Failure
  <2>4. ExitCode'
    BY <2>1, <2>3 DEF ExitCode, Status
  <2> QED BY <2>1, <2>4 DEF Progress
<1>13. CASE Terminated \/ UNCHANGED vars
  <2>1. UNCHANGED <<phase, graphVars, errors, build, exit, program>>
    BY <1>13 DEF Terminated, vars, backVars
  <2>2. (Known' <=> Known) /\ (PortsFit' <=> PortsFit)
          /\ (NumbersOK(kernels)' <=> NumbersOK(kernels))
    BY <2>1, SameGraph
  <2> QED BY <2>1, <2>2 DEF Progress, ExitCode, Status
<1> QED
  BY <1>2, <1>3, <1>4, <1>5, <1>6, <1>7, <1>8, <1>9, <1>10, <1>11, <1>12, <1>13
  DEF Next, Parse, Resolve, Analyze

LEMMA InitProgress == Init => Progress
BY DEF Init, Progress, NoBuild, ExitCode

-----------------------------------------------------------------------------
(* The addresses of an accepted program.                                  *)

\* A later host-controlled kernel has a higher number.
LEMMA NumbersRise ==
  ASSUME NEW ks, KernelsOK(ks), NumbersOK(ks), NEW i \in DOMAIN ks, NEW j \in DOMAIN ks, i < j,
         HostUser(ks[i]), HostUser(ks[j])
  PROVE  /\ ks[i].gid < ks[j].gid
         /\ ks[i].base + 128 <= ks[j].base
PROOF
<1> DEFINE A == Before(ks, i)
           B == Before(ks, j)
<1>1. i \in Nat \ {0} /\ j \in Nat \ {0}
  BY ListIs DEF KernelsOK
<1>2. IsFiniteSet(B) /\ Cardinality(B) \in Nat
  <2>1. B \subseteq 1 .. j
    BY <1>1 DEF Before
  <2>2. IsFiniteSet(1 .. j)
    <3>1. 1 \in Int /\ j \in Int
      BY <1>1
    <3> QED BY <3>1, FS_Interval
  <2> HIDE DEF B
  <2>3. IsFiniteSet(B)
    BY <2>1, <2>2, FS_Subset
  <2> QED BY <2>3, FS_CardinalityType
<1>3. A \cup {i} \subseteq B /\ i \notin A
  <2>1. \A m \in 1 .. i - 1 : m \in 1 .. j - 1
    BY <1>1
  <2>2. i \in 1 .. j - 1 /\ i \notin 1 .. i - 1
    BY <1>1
  <2> QED BY <2>1, <2>2, Zenon DEF Before
<1> HIDE DEF A, B
<1>4. IsFiniteSet(A) /\ Cardinality(A) \in Nat
  <2>1. A \subseteq B
    BY <1>3
  <2>2. IsFiniteSet(A)
    BY <1>2, <2>1, FS_Subset
  <2> QED BY <2>2, FS_CardinalityType
<1>5. Cardinality(A \cup {i}) = Cardinality(A) + 1
  BY <1>3, <1>4, FS_AddElement
<1>6. Cardinality(A \cup {i}) <= Cardinality(B)
  <2> DEFINE C == A \cup {i}
  <2>1. C \in SUBSET B
    BY <1>3
  <2> HIDE DEF C
  <2>2. Cardinality(C) <= Cardinality(B)
    BY <1>2, <2>1, FS_Subset
  <2> QED BY <2>2 DEF C
<1>7. /\ ks[i].gid = Cardinality(A) /\ ks[i].base = 4096 + 128 * ks[i].gid
      /\ ks[j].gid = Cardinality(B) /\ ks[j].base = 4096 + 128 * ks[j].gid
  BY DEF NumbersOK, A, B
<1> QED BY <1>2, <1>4, <1>5, <1>6, <1>7

UserKernels == Selected(kernels, {i \in DOMAIN kernels : kernels[i].special = "none"})
HostKernels == Selected(UserKernels, {i \in DOMAIN UserKernels : UserKernels[i].host})

\* The kernels of the build are the graph's without the boundary, in their order.
LEMMA UserKernelsRight ==
  ASSUME KernelsOK(kernels)
  PROVE  /\ IsList(UserKernels) /\ Len(UserKernels) \in Nat
         /\ DOMAIN UserKernels = 1 .. Len(UserKernels)
         /\ \A k \in DOMAIN UserKernels :
              \E i \in DOMAIN kernels : UserKernels[k] = kernels[i] /\ kernels[i].special = "none"
         /\ \A i \in DOMAIN kernels :
              kernels[i].special = "none" => \E k \in DOMAIN UserKernels : UserKernels[k] = kernels[i]
         /\ \A k, l \in DOMAIN UserKernels :
              k < l => \E i, j \in DOMAIN kernels :
                         i < j /\ UserKernels[k] = kernels[i] /\ UserKernels[l] = kernels[j]
PROOF
<1> DEFINE I == {i \in DOMAIN kernels : kernels[i].special = "none"}
<1>1. Len(kernels) \in Nat /\ DOMAIN kernels = 1 .. Len(kernels)
  BY ListIs DEF KernelsOK
<1>2. I \in SUBSET (1 .. Len(kernels))
  BY <1>1
<1>3. \A i : i \in I <=> i \in DOMAIN kernels /\ kernels[i].special = "none"
  OBVIOUS
<1>4. UserKernels = Selected(kernels, I)
  BY DEF UserKernels
<1> HIDE DEF I
<1>5. /\ IsList(UserKernels)
      /\ \A k \in 1 .. Len(UserKernels) : \E i \in I : UserKernels[k] = kernels[i]
      /\ \A i \in I : \E k \in 1 .. Len(UserKernels) : UserKernels[k] = kernels[i]
      /\ \A k, l \in 1 .. Len(UserKernels) :
           k < l => \E i, j \in I : i < j /\ UserKernels[k] = kernels[i] /\ UserKernels[l] = kernels[j]
  <2>1. Selection(UserKernels, kernels, I)
    BY <1>1, <1>2, <1>4, SelectedRight
  <2> QED BY <2>1 DEF Selection
<1>6. Len(UserKernels) \in Nat /\ DOMAIN UserKernels = 1 .. Len(UserKernels)
  BY <1>5, ListIs
<1>7. \A k, l \in DOMAIN UserKernels :
        k < l => \E i, j \in DOMAIN kernels :
                   i < j /\ UserKernels[k] = kernels[i] /\ UserKernels[l] = kernels[j]
  <2> SUFFICES ASSUME NEW k \in DOMAIN UserKernels, NEW l \in DOMAIN UserKernels, k < l
               PROVE  \E i, j \in DOMAIN kernels :
                        i < j /\ UserKernels[k] = kernels[i] /\ UserKernels[l] = kernels[j]
    OBVIOUS
  <2>2. k \in 1 .. Len(UserKernels) /\ l \in 1 .. Len(UserKernels)
    BY <1>6
  <2>1. PICK i \in I, j \in I : i < j /\ UserKernels[k] = kernels[i] /\ UserKernels[l] = kernels[j]
    BY <1>5, <2>2
  <2> QED BY <1>3, <2>1
<1>8. \A k \in DOMAIN UserKernels :
        \E i \in DOMAIN kernels : UserKernels[k] = kernels[i] /\ kernels[i].special = "none"
  BY <1>3, <1>5, <1>6
<1>9. \A i \in DOMAIN kernels :
        kernels[i].special = "none" => \E k \in DOMAIN UserKernels : UserKernels[k] = kernels[i]
  BY <1>3, <1>5, <1>6
<1> QED BY <1>5, <1>6, <1>7, <1>8, <1>9

LEMMA HostKernelsRight ==
  ASSUME KernelsOK(kernels), NumbersOK(kernels)
  PROVE  /\ DOMAIN HostKernels = 1 .. Len(HostKernels) /\ Len(HostKernels) \in Nat
         /\ \A k, l \in DOMAIN HostKernels :
              k < l => /\ HostKernels[k].gid < HostKernels[l].gid
                       /\ HostKernels[k].base + 128 <= HostKernels[l].base
         /\ \A k \in DOMAIN HostKernels : HostKernels[k].gid \in Nat /\ HostKernels[k].base \in Nat
PROOF
<1> DEFINE I == {i \in DOMAIN UserKernels : UserKernels[i].host}
<1>1. Len(UserKernels) \in Nat /\ DOMAIN UserKernels = 1 .. Len(UserKernels)
  BY UserKernelsRight
<1>2. I \in SUBSET (1 .. Len(UserKernels))
  BY <1>1
<1>3. \A i : i \in I <=> i \in DOMAIN UserKernels /\ UserKernels[i].host
  OBVIOUS
<1>4. HostKernels = Selected(UserKernels, I)
  BY DEF HostKernels
<1> HIDE DEF I
<1>5. /\ IsList(HostKernels)
      /\ \A k \in 1 .. Len(HostKernels) : \E i \in I : HostKernels[k] = UserKernels[i]
      /\ \A k, l \in 1 .. Len(HostKernels) :
           k < l => \E i, j \in I : i < j /\ HostKernels[k] = UserKernels[i]
                                          /\ HostKernels[l] = UserKernels[j]
  <2>1. Selection(HostKernels, UserKernels, I)
    BY <1>1, <1>2, <1>4, SelectedRight
  <2> QED BY <2>1 DEF Selection
<1>6. Len(HostKernels) \in Nat /\ DOMAIN HostKernels = 1 .. Len(HostKernels)
  BY <1>5, ListIs
<1>7. ASSUME NEW k \in DOMAIN HostKernels, NEW l \in DOMAIN HostKernels, k < l
      PROVE  /\ HostKernels[k].gid < HostKernels[l].gid
             /\ HostKernels[k].base + 128 <= HostKernels[l].base
  <2>1. PICK i \in I, j \in I : /\ i < j /\ HostKernels[k] = UserKernels[i]
                                /\ HostKernels[l] = UserKernels[j]
    BY <1>5, <1>6, <1>7
  <2>2. i \in DOMAIN UserKernels /\ UserKernels[i].host
        /\ j \in DOMAIN UserKernels /\ UserKernels[j].host
    BY <1>3
  <2>3. PICK m \in DOMAIN kernels, n \in DOMAIN kernels :
          m < n /\ UserKernels[i] = kernels[m] /\ UserKernels[j] = kernels[n]
    BY <2>1, <2>2, UserKernelsRight
  <2>4. UserKernels[i].special = "none" /\ UserKernels[j].special = "none"
    BY <2>2, UserKernelsRight
  <2>5. HostUser(kernels[m]) /\ HostUser(kernels[n])
    BY <2>2, <2>3, <2>4 DEF HostUser
  <2>6. kernels[m].gid < kernels[n].gid /\ kernels[m].base + 128 <= kernels[n].base
    BY <2>3, <2>5, NumbersRise
  <2> QED BY <2>1, <2>3, <2>6
<1>8. ASSUME NEW k \in DOMAIN HostKernels
      PROVE  HostKernels[k].gid \in Nat /\ HostKernels[k].base \in Nat
  <2>1. PICK i \in I : HostKernels[k] = UserKernels[i]
    BY <1>5, <1>6
  <2>2. i \in DOMAIN UserKernels /\ UserKernels[i].host
    BY <1>3
  <2>3. PICK m \in DOMAIN kernels : UserKernels[i] = kernels[m] /\ kernels[m].special = "none"
    BY <2>2, UserKernelsRight
  <2>4. HostUser(kernels[m])
    BY <2>2, <2>3 DEF HostUser
  <2>5. kernels[m].gid = Cardinality(Before(kernels, m)) /\ kernels[m].base = 4096 + 128 * kernels[m].gid
    BY <2>4 DEF NumbersOK
  <2>6. Cardinality(Before(kernels, m)) \in Nat
    <3>1. Before(kernels, m) \in SUBSET DOMAIN kernels
      <4>1. \A j \in 1 .. m - 1 : j \in DOMAIN kernels
        BY ListIs DEF KernelsOK
      <4> QED BY <4>1 DEF Before
    <3> QED BY <3>1, Indices DEF KernelsOK
  <2> QED BY <2>1, <2>3, <2>5, <2>6
<1> QED BY <1>6, <1>7, <1>8

\* The edges that go to some of the lists.
LEMMA EdgesToRight ==
  ASSUME EdgesOK(edges), NEW cs
  PROVE  /\ IsList(EdgesTo(cs)) /\ Len(EdgesTo(cs)) \in Nat
         /\ DOMAIN EdgesTo(cs) = 1 .. Len(EdgesTo(cs))
         /\ Len(EdgesTo(cs)) = Cardinality({i \in DOMAIN edges : Channel(edges[i]) \in cs})
         /\ \A k \in DOMAIN EdgesTo(cs) :
              \E i \in DOMAIN edges : EdgesTo(cs)[k] = edges[i] /\ Channel(edges[i]) \in cs
PROOF
<1> DEFINE I == {i \in DOMAIN edges : Channel(edges[i]) \in cs}
           t == EdgesTo(cs)
<1>1. Len(edges) \in Nat /\ DOMAIN edges = 1 .. Len(edges)
  BY ListIs DEF EdgesOK
<1>2. I \in SUBSET (1 .. Len(edges))
  BY <1>1
<1>3. \A i \in I : i \in DOMAIN edges /\ Channel(edges[i]) \in cs
  OBVIOUS
<1>4. t = Selected(edges, I)
  BY DEF EdgesTo
<1> HIDE DEF I, t
<1>5. /\ IsList(t) /\ Len(t) = Cardinality(I)
      /\ \A k \in 1 .. Len(t) : \E i \in I : t[k] = edges[i]
  <2>1. Selection(t, edges, I)
    BY <1>1, <1>2, <1>4, SelectedRight
  <2> QED BY <2>1 DEF Selection
<1>6. Len(t) \in Nat /\ DOMAIN t = 1 .. Len(t)
  BY <1>5, ListIs
<1>7. \A k \in DOMAIN t : \E i \in DOMAIN edges : t[k] = edges[i] /\ Channel(edges[i]) \in cs
  BY <1>3, <1>5, <1>6
<1> QED BY <1>5, <1>6, <1>7 DEF I, t

\* What LowerToBackend makes.
LEMMA Lowered ==
  ASSUME LowerToBackend
  PROVE  /\ build'.kernels = UserKernels
         /\ build'.signals = [i \in DOMAIN HostKernels |->
              [gid |-> HostKernels[i].gid, name |-> HostKernels[i].name, base |-> HostKernels[i].base]]
         /\ build'.stream = EdgesTo({"stream"}) /\ build'.tor = EdgesTo({"tor"})
         /\ build'.nic = EdgesTo({"nic"}) /\ build'.host = HostStreams
         /\ UNCHANGED <<kernels, edges>> /\ phase = "lower"
BY DEF LowerToBackend, UserKernels, HostKernels, graphVars

LEMMA LoweredAddressed == ASSUME Shape, Progress, LowerToBackend PROVE Addressed'
PROOF
<1>1. KernelsOK(kernels) /\ NumbersOK(kernels) /\ EdgesOK(edges)
  BY Lowered DEF Shape, Progress
<1> DEFINE S == build'.signals
           H == build'.host
<1>2. /\ DOMAIN S = DOMAIN HostKernels
      /\ \A i \in DOMAIN S : S[i].gid = HostKernels[i].gid /\ S[i].base = HostKernels[i].base
  <2> DEFINE T == [i \in DOMAIN HostKernels |->
              [gid |-> HostKernels[i].gid, name |-> HostKernels[i].name, base |-> HostKernels[i].base]]
  <2>1. S = T
    BY Lowered
  <2>2. DOMAIN T = DOMAIN HostKernels
        /\ \A i \in DOMAIN T : T[i].gid = HostKernels[i].gid /\ T[i].base = HostKernels[i].base
    OBVIOUS
  <2> QED BY <2>1, <2>2
<1>3. /\ DOMAIN HostKernels = 1 .. Len(HostKernels) /\ Len(HostKernels) \in Nat
      /\ \A k, l \in DOMAIN HostKernels :
           k < l => /\ HostKernels[k].gid < HostKernels[l].gid
                    /\ HostKernels[k].base + 128 <= HostKernels[l].base
      /\ \A k \in DOMAIN HostKernels : HostKernels[k].gid \in Nat /\ HostKernels[k].base \in Nat
  BY <1>1, HostKernelsRight
<1>4. ASSUME NEW i \in DOMAIN S, NEW j \in DOMAIN S, i # j
      PROVE  /\ S[i].gid # S[j].gid
             /\ S[i].base + 128 <= S[j].base \/ S[j].base + 128 <= S[i].base
  <2> HIDE DEF S
  <2>1. i \in DOMAIN HostKernels /\ j \in DOMAIN HostKernels /\ (i < j \/ j < i)
    BY <1>2, <1>3, <1>4
  <2>2. HostKernels[i].gid \in Nat /\ HostKernels[j].gid \in Nat
    BY <1>3, <2>1
  <2> QED BY <1>2, <1>3, <2>1, <2>2
<1>5. ASSUME NEW i \in DOMAIN H, NEW j \in DOMAIN H, i # j
      PROVE  H[i].slot # H[j].slot
  <2> DEFINE es == EdgesTo({"host_in", "host_out"})
  <2>1. H = HostStreams
    BY Lowered
  <2>2. DOMAIN es = 1 .. Len(es) /\ Len(es) \in Nat
    BY <1>1, EdgesToRight
  <2>3. DOMAIN H = DOMAIN es /\ H[i].slot = 31 + i /\ H[j].slot = 31 + j
    BY <2>1 DEF HostStreams
  <2> HIDE DEF es, H
  <2>4. i \in Nat /\ j \in Nat
    BY <2>2, <2>3
  <2> QED BY <1>5, <2>3, <2>4
<1> QED BY <1>4, <1>5 DEF Addressed

-----------------------------------------------------------------------------
(* The wiring of an accepted program.                                     *)

\* Find finds a kernel of that name, if there is one.
LEMMA Found ==
  ASSUME KernelsOK(kernels), NEW name \in NamesOf(kernels)
  PROVE  \E i \in DOMAIN kernels : Find(name) = kernels[i] /\ kernels[i].name = name
PROOF
<1> DEFINE S == {i \in DOMAIN kernels : kernels[i].name = name}
           First(i) == kernels[i].name = name /\ \A j \in 1 .. i - 1 : kernels[j].name # name
<1>1. DOMAIN kernels = 1 .. Len(kernels) /\ Len(kernels) \in Nat
  BY ListIs DEF KernelsOK
<1>2. S \in SUBSET Nat /\ S # {}
  BY <1>1 DEF NamesOf
<1>3. PICK i \in S : \A j \in S : i <= j
  <2> HIDE DEF S
  <2> QED BY <1>2, LeastNumber
<1>4. i \in DOMAIN kernels /\ First(i)
  <2>1. ASSUME NEW j \in 1 .. i - 1
        PROVE  kernels[j].name # name
    <3>1. j \in DOMAIN kernels /\ ~(i <= j)
      BY <1>1, <1>3
    <3> QED BY <1>3, <3>1
  <2> QED BY <1>3, <2>1
<1> DEFINE n == CHOOSE m \in DOMAIN kernels : First(m)
<1>5. n \in DOMAIN kernels /\ First(n)
  <2>1. \E m \in DOMAIN kernels : First(m)
    BY <1>4
  <2> HIDE DEF First
  <2> QED BY <2>1
<1>6. Find(name) = kernels[n]
  BY DEF Find
<1> HIDE DEF n
<1> QED BY <1>5, <1>6

\* name and port are a kernel of the build and a port of it.
Fits(name, port, inputs) ==
  \E k \in DOMAIN UserKernels :
    /\ UserKernels[k].name = name
    /\ port \in 1 .. (IF inputs THEN UserKernels[k].nin ELSE UserKernels[k].nout)

\* The source of a connection is a port of the build, or a boundary that delivers.
LEMMA SourceFits ==
  ASSUME Shape, Known, PortsFit, NEW e, NEW i \in DOMAIN edges, e = edges[i]
  PROVE  /\ Find(e.src).special \in {"none"} \cup Sources \cup Aliases
         /\ Find(e.src).special = "none" => Fits(e.src, e.sport, FALSE)
         /\ Find(e.src).special # "none" => e.src = Id(Find(e.src).special)
PROOF
<1>1. KernelsOK(kernels) /\ e.src \in NamesOf(kernels)
  BY DEF Shape, Known
<1>2. PICK m \in DOMAIN kernels : Find(e.src) = kernels[m] /\ kernels[m].name = e.src
  BY <1>1, Found
<1> DEFINE k == Find(e.src)
<1>3. KernelOK(k) /\ k.name = e.src
  BY <1>1, <1>2 DEF KernelsOK, ToSet
<1>4. e.sport \in Int /\ ~(e.sport > k.nout) /\ ~(e.sport < 1)
  BY DEF Shape, EdgesOK, EdgeOK, ToSet, PortsFit
<1>5. k.special \in {"none"} \cup Sources \cup Aliases
  <2> HIDE DEF k
  <2> QED BY <1>3, <1>4 DEF KernelOK
<1>6. ASSUME k.special = "none"
      PROVE  Fits(e.src, e.sport, FALSE)
  <2>1. PICK l \in DOMAIN UserKernels : UserKernels[l] = kernels[m]
    BY <1>1, <1>2, <1>6, UserKernelsRight
  <2>2. UserKernels[l] = k
    BY <1>2, <2>1
  <2> HIDE DEF k
  <2>3. e.sport \in 1 .. k.nout
    BY <1>3, <1>4 DEF KernelOK
  <2> QED BY <1>3, <2>2, <2>3 DEF Fits
<1>7. k.special # "none" => e.src = Id(k.special)
  <2> HIDE DEF k
  <2> QED BY <1>3 DEF KernelOK
<1> QED BY <1>5, <1>6, <1>7

\* Its destination is a port of the build, or a boundary that takes.
LEMMA DestFits ==
  ASSUME Shape, Known, PortsFit, NEW e, NEW i \in DOMAIN edges, e = edges[i]
  PROVE  /\ Find(e.dst).special \in {"none"} \cup Sinks \cup Aliases
         /\ Find(e.dst).special = "none" => Fits(e.dst, e.dport, TRUE)
         /\ Find(e.dst).special # "none" => e.dst = Id(Find(e.dst).special)
PROOF
<1>1. KernelsOK(kernels) /\ e.dst \in NamesOf(kernels)
  BY DEF Shape, Known
<1>2. PICK m \in DOMAIN kernels : Find(e.dst) = kernels[m] /\ kernels[m].name = e.dst
  BY <1>1, Found
<1> DEFINE k == Find(e.dst)
<1>3. KernelOK(k) /\ k.name = e.dst
  BY <1>1, <1>2 DEF KernelsOK, ToSet
<1>4. e.dport \in Int /\ ~(e.dport > k.nin) /\ ~(e.dport < 1)
  BY DEF Shape, EdgesOK, EdgeOK, ToSet, PortsFit
<1>5. k.special \in {"none"} \cup Sinks \cup Aliases
  <2> HIDE DEF k
  <2> QED BY <1>3, <1>4 DEF KernelOK
<1>6. ASSUME k.special = "none"
      PROVE  Fits(e.dst, e.dport, TRUE)
  <2>1. PICK l \in DOMAIN UserKernels : UserKernels[l] = kernels[m]
    BY <1>1, <1>2, <1>6, UserKernelsRight
  <2>2. UserKernels[l] = k
    BY <1>2, <2>1
  <2> HIDE DEF k
  <2>3. e.dport \in 1 .. k.nin
    BY <1>3, <1>4 DEF KernelOK
  <2> QED BY <1>3, <2>2, <2>3 DEF Fits
<1>7. k.special # "none" => e.dst = Id(k.special)
  <2> HIDE DEF k
  <2> QED BY <1>3 DEF KernelOK
<1> QED BY <1>5, <1>6, <1>7

Lists == {"stream", "tor", "nic", "host_in", "host_out"}

LEMMA ChannelIs ==
  ASSUME NEW e, NEW s, s = Find(e.src).special, NEW d, d = Find(e.dst).special
  PROVE  /\ Channel(e) \in Lists \cup {"none"}
         /\ Channel(e) = "none" <=> Swallowed(e)
         /\ Channel(e) = "stream" => s \notin Sources /\ d \notin Sinks
         /\ Channel(e) = "host_out" => s \notin Sources
BY DEF Channel, Lists, Swallowed, Sources, Sinks

\* Each connection is in one list, or swallowed.
LEMMA ListsPartition ==
  ASSUME EdgesOK(edges)
  PROVE  Len(EdgesTo({"stream"})) + Len(EdgesTo({"tor"})) + Len(EdgesTo({"nic"}))
           + Len(EdgesTo({"host_in", "host_out"}))
         = Cardinality({i \in DOMAIN edges : ~Swallowed(edges[i])})
PROOF
<1> DEFINE I(cs) == {i \in DOMAIN edges : Channel(edges[i]) \in cs}
           A == I({"stream"})
           B == I({"tor"})
           C == I({"nic"})
           D == I({"host_in", "host_out"})
           E == {i \in DOMAIN edges : ~Swallowed(edges[i])}
<1>1. /\ Len(EdgesTo({"stream"})) = Cardinality(A) /\ Len(EdgesTo({"tor"})) = Cardinality(B)
      /\ Len(EdgesTo({"nic"})) = Cardinality(C)
      /\ Len(EdgesTo({"host_in", "host_out"})) = Cardinality(D)
  BY EdgesToRight
<1>2. E = ((A \cup B) \cup C) \cup D
  <2>1. ASSUME NEW i \in DOMAIN edges
        PROVE  ~Swallowed(edges[i])
                 <=> Channel(edges[i]) \in {"stream", "tor", "nic", "host_in", "host_out"}
    BY ChannelIs DEF Lists
  <2> QED BY <2>1
<1>3. A \cap B = {} /\ (A \cup B) \cap C = {} /\ ((A \cup B) \cup C) \cap D = {}
  OBVIOUS
<1>4. IsFiniteSet(A) /\ IsFiniteSet(B) /\ IsFiniteSet(C) /\ IsFiniteSet(D)
  <2>1. /\ A \in SUBSET DOMAIN edges /\ B \in SUBSET DOMAIN edges
        /\ C \in SUBSET DOMAIN edges /\ D \in SUBSET DOMAIN edges
    OBVIOUS
  <2> HIDE DEF A, B, C, D
  <2> QED BY <2>1, Indices DEF EdgesOK
<1> HIDE DEF I, A, B, C, D, E
<1>5. Cardinality({}) = 0
  BY FS_EmptySet
<1>0. /\ Cardinality(A) \in Nat /\ Cardinality(B) \in Nat
      /\ Cardinality(C) \in Nat /\ Cardinality(D) \in Nat
  BY <1>4, FS_CardinalityType
<1>6. IsFiniteSet(A \cup B) /\ Cardinality(A \cup B) = Cardinality(A) + Cardinality(B)
  <2>1. /\ IsFiniteSet(A \cup B)
        /\ Cardinality(A \cup B) = Cardinality(A) + Cardinality(B) - Cardinality(A \cap B)
    BY <1>4, FS_Union
  <2>2. Cardinality(A \cap B) = 0
    BY <1>5, <1>3
  <2> QED BY <1>0, <2>1, <2>2
<1> DEFINE F == A \cup B
           G == F \cup C
<1>7. IsFiniteSet(G) /\ Cardinality(G) = Cardinality(F) + Cardinality(C)
  <2>0. IsFiniteSet(F) /\ F \cap C = {}
    BY <1>3, <1>6
  <2> HIDE DEF F
  <2>1. /\ IsFiniteSet(F \cup C)
        /\ Cardinality(F \cup C) = Cardinality(F) + Cardinality(C) - Cardinality(F \cap C)
    BY <1>4, <2>0, FS_Union
  <2>2. Cardinality(F \cap C) = 0
    BY <1>5, <2>0
  <2>3. Cardinality(F) \in Nat
    BY <2>0, FS_CardinalityType
  <2> QED BY <1>0, <2>1, <2>2, <2>3
<1>8. IsFiniteSet(E) /\ Cardinality(E) = Cardinality(G) + Cardinality(D)
  <2>0. IsFiniteSet(G) /\ G \cap D = {} /\ E = G \cup D
    BY <1>2, <1>3, <1>7
  <2> HIDE DEF F, G
  <2>1. /\ IsFiniteSet(G \cup D)
        /\ Cardinality(G \cup D) = Cardinality(G) + Cardinality(D) - Cardinality(G \cap D)
    BY <1>4, <2>0, FS_Union
  <2>2. Cardinality(G \cap D) = 0
    BY <1>5, <2>0
  <2>3. Cardinality(G) \in Nat
    BY <2>0, FS_CardinalityType
  <2> QED BY <1>0, <2>0, <2>1, <2>2, <2>3
<1>9. Cardinality(A) + Cardinality(B) + Cardinality(C) + Cardinality(D) = Cardinality(E)
  BY <1>0, <1>6, <1>7, <1>8 DEF G
<1> QED BY <1>1, <1>9 DEF E

LEMMA LoweredWired == ASSUME Shape, Progress, LowerToBackend PROVE Wired'
PROOF
<1>1. KernelsOK(kernels) /\ EdgesOK(edges) /\ Known /\ PortsFit
  BY Lowered DEF Shape, Progress
<1> DEFINE es == EdgesTo({"host_in", "host_out"})
<1>3. \A k \in ToSet(build'.kernels) : k.nin \in Nat /\ k.nout \in Nat
  <2>1. ASSUME NEW k \in DOMAIN UserKernels
        PROVE  UserKernels[k].nin \in Nat /\ UserKernels[k].nout \in Nat
    <3>1. PICK i \in DOMAIN kernels : UserKernels[k] = kernels[i]
      BY <1>1, UserKernelsRight
    <3>2. KernelOK(kernels[i])
      BY <1>1 DEF KernelsOK, ToSet
    <3> QED BY <3>1, <3>2 DEF KernelOK
  <2>2. build'.kernels = UserKernels
    BY Lowered
  <2> QED BY <2>1, <2>2 DEF ToSet
<1>4. ASSUME NEW i \in DOMAIN build'.stream
      PROVE  LET e == build'.stream[i] IN
             /\ Fits(e.src, e.sport, FALSE) \/ Among(e.src, Aliases)
             /\ Fits(e.dst, e.dport, TRUE) \/ Among(e.dst, Aliases)
  <2> DEFINE e == build'.stream[i]
  <2>1. PICK m \in DOMAIN edges : e = edges[m] /\ Channel(edges[m]) = "stream"
    <3>1. build'.stream = EdgesTo({"stream"})
      BY Lowered
    <3>2. \E m \in DOMAIN edges : e = edges[m] /\ Channel(edges[m]) \in {"stream"}
      BY <1>1, <3>1, EdgesToRight
    <3> QED BY <3>2
  <2> HIDE DEF e
  <2>2. Find(e.src).special \notin Sources /\ Find(e.dst).special \notin Sinks
    BY <2>1, ChannelIs
  <2>3. Fits(e.src, e.sport, FALSE) \/ Among(e.src, Aliases)
    BY <1>1, <2>1, <2>2, SourceFits DEF Among
  <2>4. Fits(e.dst, e.dport, TRUE) \/ Among(e.dst, Aliases)
    BY <1>1, <2>1, <2>2, DestFits DEF Among
  <2> QED BY <2>3, <2>4 DEF e
<1>5. ASSUME NEW e \in ToSet(build'.tor) \cup ToSet(build'.nic)
      PROVE  /\ Fits(e.src, e.sport, FALSE) \/ Among(e.src, Sources \cup Aliases)
             /\ Fits(e.dst, e.dport, TRUE) \/ Among(e.dst, Sinks \cup Aliases)
  <2>1. PICK m \in DOMAIN edges : e = edges[m]
    <3>1. build'.tor = EdgesTo({"tor"}) /\ build'.nic = EdgesTo({"nic"})
      BY Lowered
    <3>2. ASSUME NEW cs, e \in ToSet(EdgesTo(cs))
          PROVE  \E m \in DOMAIN edges : e = edges[m]
      <4>1. PICK k \in DOMAIN EdgesTo(cs) : e = EdgesTo(cs)[k]
        BY <3>2 DEF ToSet
      <4> QED BY <1>1, <4>1, EdgesToRight
    <3> QED BY <1>5, <3>1, <3>2
  <2>3. Fits(e.src, e.sport, FALSE) \/ Among(e.src, Sources \cup Aliases)
    BY <1>1, <2>1, SourceFits DEF Among
  <2>4. Fits(e.dst, e.dport, TRUE) \/ Among(e.dst, Sinks \cup Aliases)
    BY <1>1, <2>1, DestFits DEF Among
  <2> QED BY <2>3, <2>4
<1>6. DOMAIN es = 1 .. Len(es) /\ Len(es) \in Nat
  BY <1>1, EdgesToRight
<1>7. ASSUME NEW i \in DOMAIN build'.host
      PROVE  LET h == build'.host[i] IN
             Fits(h.kernel, h.port, ~h.to_host) \/ Among(h.kernel, Sinks \cup Aliases)
  <2> DEFINE h == build'.host[i]
             e == es[i]
             in == Channel(e) = "host_in"
             out == Channel(e) = "host_out"
  <2>1. /\ i \in DOMAIN es /\ h.to_host = out
        /\ h.kernel = IF in THEN e.dst ELSE e.src
        /\ h.port = IF in THEN e.dport ELSE e.sport
    BY Lowered DEF HostStreams
  <2> HIDE DEF h, es
  <2>2. PICK m \in DOMAIN edges : e = edges[m] /\ Channel(edges[m]) \in {"host_in", "host_out"}
    BY <1>1, <2>1, EdgesToRight DEF es
  <2> HIDE DEF e
  <2>3. CASE Channel(e) = "host_in"
    <3>1. h.kernel = e.dst /\ h.port = e.dport /\ (~h.to_host) = TRUE
      BY <2>1, <2>3
    <3>2. Fits(e.dst, e.dport, TRUE) \/ Among(e.dst, Sinks \cup Aliases)
      BY <1>1, <2>2, DestFits DEF Among
    <3> QED BY <3>1, <3>2 DEF h
  <2>4. CASE Channel(e) = "host_out"
    <3>1. h.kernel = e.src /\ h.port = e.sport /\ (~h.to_host) = FALSE
      BY <2>1, <2>4
    <3>2. Find(e.src).special \notin Sources
      BY <2>4, ChannelIs
    <3>3. Fits(e.src, e.sport, FALSE) \/ Among(e.src, Sinks \cup Aliases)
      BY <1>1, <2>2, <3>2, SourceFits DEF Among
    <3> QED BY <3>1, <3>3 DEF h
  <2> QED BY <2>2, <2>3, <2>4
<1>8. Len(build'.stream) + Len(build'.tor) + Len(build'.nic) + Len(build'.host)
        = Cardinality({i \in DOMAIN edges : ~Swallowed(edges[i])})'
  <2>1. Len(build'.host) = Len(es)
    <3> DEFINE H == HostStreams
               S == {H[i] : i \in 1 .. Len(es)}
    <3>1. H \in [1 .. Len(es) -> S]
      BY <1>6 DEF HostStreams
    <3> HIDE DEF H, S, es
    <3>2. Len(H) = Len(es)
      BY <1>6, <3>1, ListMap
    <3> QED BY <3>2, Lowered DEF H
  <2>2. {i \in DOMAIN edges : ~Swallowed(edges[i])}' = {i \in DOMAIN edges : ~Swallowed(edges[i])}
    BY Lowered DEF Swallowed, Find
  <2>3. /\ Len(build'.stream) = Len(EdgesTo({"stream"})) /\ Len(build'.tor) = Len(EdgesTo({"tor"}))
        /\ Len(build'.nic) = Len(EdgesTo({"nic"}))
    BY Lowered
  <2> QED BY <1>1, <2>1, <2>2, <2>3, ListsPartition
<1>2. build'.kernels = UserKernels
  BY Lowered
<1>9. (\A i \in DOMAIN build.stream :
         LET e == build.stream[i] IN
         /\ Connected(e.src, e.sport, FALSE) \/ Among(e.src, Aliases)
         /\ Connected(e.dst, e.dport, TRUE) \/ Among(e.dst, Aliases))'
  BY <1>2, <1>4 DEF Connected, Fits
<1>10. (\A e \in ToSet(build.tor) \cup ToSet(build.nic) :
         /\ Connected(e.src, e.sport, FALSE) \/ Among(e.src, Sources \cup Aliases)
         /\ Connected(e.dst, e.dport, TRUE) \/ Among(e.dst, Sinks \cup Aliases))'
  BY <1>2, <1>5 DEF Connected, Fits
<1>11. (\A i \in DOMAIN build.host :
         LET h == build.host[i] IN
         Connected(h.kernel, h.port, ~h.to_host) \/ Among(h.kernel, Sinks \cup Aliases))'
  BY <1>2, <1>7 DEF Connected, Fits
<1> QED BY <1>3, <1>8, <1>9, <1>10, <1>11 DEF Wired

-----------------------------------------------------------------------------
(* The theorems.                                                          *)

\* A build is not touched again, nor the graph it was made from.
LEMMA BuildKept ==
  ASSUME Progress, [Next]_vars
  PROVE  \/ LowerToBackend
         \/ UNCHANGED build /\ (~build.made \/ UNCHANGED graphVars)
PROOF
<1>1. CASE OpenInput \/ Parse
  BY <1>1 DEF OpenInput, Parse, ParseImport, ParseElementDecl, ParseElementGroupDecl,
              ParseDeclOrChain, ParseError, EndFile, Reading, backVars, Progress
<1>2. CASE Resolve
  <2>1. phase \in {"collect", "process", "slots"} /\ UNCHANGED build
    BY <1>2 DEF Resolve, CollectDecl, EndCollect, ProcessTop, InlineGroup, InlineEnd,
                SynthesizeSpecials, EndResolve, backVars
  <2> QED BY <2>1 DEF Progress
<1>3. CASE Analyze
  BY <1>3 DEF Analyze, AnalyzePortArity, StartSearch, LookAtSuccessor, LeaveNode, AnalyzeCycles,
              backVars
<1>4. CASE Emit
  BY <1>4 DEF Emit
<1>5. CASE Terminated \/ UNCHANGED vars
  BY <1>5 DEF Terminated, vars, backVars
<1> QED BY <1>1, <1>2, <1>3, <1>4, <1>5 DEF Next

\* A build of a program, and what is said of it, stays.
LEMMA StillRight ==
  ASSUME UNCHANGED build, ~build.made \/ UNCHANGED graphVars
  PROVE  (Wired => Wired') /\ (Addressed => Addressed')
PROOF
<1>1. CASE ~build.made
  BY <1>1 DEF Wired, Addressed, Accepted
<1>2. CASE UNCHANGED graphVars
  <2>1. Addressed' <=> Addressed
    BY DEF Addressed, Accepted
  <2>2. {i \in DOMAIN edges : ~Swallowed(edges[i])}' = {i \in DOMAIN edges : ~Swallowed(edges[i])}
    BY <1>2 DEF Swallowed, Find, graphVars
  <2>3. Wired' <=> Wired
    BY <2>2 DEF Wired, Accepted, Connected
  <2> QED BY <2>1, <2>3
<1> QED BY <1>1, <1>2

-----------------------------------------------------------------------------
(* Imports.  The forms of file f that have been read when the parser's     *)
(* activations are those of st: all of them unless f is still being read.  *)

ReadOf(st, f) ==
  {i \in DOMAIN program.files[f] :
     \A n \in DOMAIN st : st[n].file = f => i < st[n].next}

Counted(st, sn) == SumFunction([f \in sn |-> Cardinality(ElementsOf(f) \cap ReadOf(st, f))])

ElementStmts(ss) == {i \in DOMAIN ss : ss[i].kind = "element"}

Apart(st) == \A m, n \in DOMAIN st : st[m].file = st[n].file => m = n

\* As long as there was no error: every file seen is reached by imports, the files
\* its imports name are seen, and what it declares so far is declared once.
ImportsOK(st, sn, ss) ==
  /\ program.main \in sn /\ sn \subseteq DOMAIN program.files
  /\ \A S \in ClosedSets(DOMAIN program.files, ImportPairs) : program.main \in S => sn \subseteq S
  /\ \A f \in sn : \A i \in ReadOf(st, f) :
       program.files[f][i].form = "import" => program.files[f][i].file \in sn
  /\ Cardinality(ElementStmts(ss)) = Counted(st, sn)

ImportInv ==
  /\ Apart(stack) /\ (\A n \in DOMAIN stack : stack[n].file \in seen) /\ IsFiniteSet(seen)
  /\ phase = "open" => stmts = <<>>
  /\ phase # "parse" => stack = <<>>
  /\ phase \in {"parse", "collect"} /\ errors = 0 => ImportsOK(stack, seen, stmts)

\* What is read is finite.
LEMMA FilesFinite ==
  ASSUME Shape, NEW f \in DOMAIN program.files
  PROVE  /\ IsList(program.files[f])
         /\ \A st : /\ ReadOf(st, f) \in SUBSET DOMAIN program.files[f]
                    /\ IsFiniteSet(ElementsOf(f) \cap ReadOf(st, f))
                    /\ Cardinality(ElementsOf(f) \cap ReadOf(st, f)) \in Nat
PROOF
<1>1. IsList(program.files[f])
  BY CompilerAssumption DEF Shape
<1>2. \A st : /\ ReadOf(st, f) \in SUBSET DOMAIN program.files[f]
              /\ ElementsOf(f) \cap ReadOf(st, f) \in SUBSET DOMAIN program.files[f]
  BY DEF ReadOf, ElementsOf
<1> QED BY <1>1, <1>2, Indices

\* If the forms that are read are the same, so is the number of elements.
LEMMA CountedSame ==
  ASSUME NEW st, NEW tt, NEW sn, \A f \in sn : ReadOf(st, f) = ReadOf(tt, f)
  PROVE  Counted(st, sn) = Counted(tt, sn)
PROOF
<1>1. [f \in sn |-> Cardinality(ElementsOf(f) \cap ReadOf(st, f))]
        = [f \in sn |-> Cardinality(ElementsOf(f) \cap ReadOf(tt, f))]
  OBVIOUS
<1> QED BY <1>1 DEF Counted

\* The parser goes on to the next form of its file.
LEMMA PassedRead ==
  ASSUME Shape, Apart(stack), NEW form, Reading(form)
  PROVE  LET F == Last(stack).file
             n == Last(stack).next
         IN  /\ F \in DOMAIN program.files /\ n \in DOMAIN program.files[F]
             /\ Form = program.files[F][n]
             /\ DOMAIN Passed = DOMAIN stack
             /\ \A m \in DOMAIN stack : Passed[m].file = stack[m].file
             /\ n \notin ReadOf(stack, F) /\ ReadOf(Passed, F) = ReadOf(stack, F) \cup {n}
             /\ \A f \in DOMAIN program.files \ {F} : ReadOf(Passed, f) = ReadOf(stack, f)
PROOF
<1> DEFINE F == Last(stack).file
           n == Last(stack).next
           L == Len(stack)
<1>1. /\ IsList(stack) /\ L > 0 /\ L \in Nat
      /\ Last(stack) \in [file : DOMAIN program.files, next : Nat \ {0}]
      /\ stack[L] = Last(stack)
  BY AtForm
<1>2. F \in DOMAIN program.files /\ n \in Nat \ {0}
  BY <1>1
<1>3. IsList(program.files[F]) /\ \A i \in DOMAIN program.files[F] : i \in Nat
  BY <1>2, FilesFinite, ListIs
<1>4. n \in DOMAIN program.files[F] /\ Form = program.files[F][n]
  BY <1>2, <1>3, ListIs DEF Reading, Forms, Form
<1>5. DOMAIN stack = 1 .. L /\ L \in DOMAIN stack
  BY <1>1, ListIs
<1>6. /\ DOMAIN Passed = DOMAIN stack
      /\ \A m \in DOMAIN stack : m # L => Passed[m] = stack[m]
      /\ Passed[L] = [stack[L] EXCEPT !.next = @ + 1]
  BY <1>5 DEF Passed
<1>7. Passed[L].file = F /\ Passed[L].next = n + 1 /\ stack[L].file = F /\ stack[L].next = n
  BY <1>1, <1>6
<1>8. \A m \in DOMAIN stack : Passed[m].file = stack[m].file /\ (stack[m].file = F <=> m = L)
  BY <1>5, <1>6, <1>7 DEF Apart
<1>9. n \notin ReadOf(stack, F)
  BY <1>2, <1>5, <1>7 DEF ReadOf
<1>10. ReadOf(Passed, F) = ReadOf(stack, F) \cup {n}
  <2> HIDE DEF F, n, L
  <2>1. \A i \in DOMAIN program.files[F] : i \in ReadOf(Passed, F) <=> i < n + 1
    <3> SUFFICES ASSUME NEW i \in DOMAIN program.files[F]
                 PROVE  (\A m \in DOMAIN Passed : Passed[m].file = F => i < Passed[m].next)
                          <=> i < n + 1
      BY DEF ReadOf
    <3>1. L \in DOMAIN Passed /\ Passed[L].file = F /\ Passed[L].next = n + 1
      BY <1>5, <1>6, <1>7
    <3>2. \A m \in DOMAIN Passed : Passed[m].file = F => m = L
      BY <1>6, <1>8
    <3> HIDE DEF Passed
    <3> QED BY <3>1, <3>2
  <2>2. \A i \in DOMAIN program.files[F] : i \in ReadOf(stack, F) <=> i < n
    BY <1>5, <1>7, <1>8 DEF ReadOf
  <2>4. \A st : ReadOf(st, F) \subseteq DOMAIN program.files[F]
    BY DEF ReadOf
  <2>3. \A i \in DOMAIN program.files[F] : i < n + 1 <=> i < n \/ i = n
    BY <1>2, <1>3
  <2> QED BY <1>4, <2>1, <2>2, <2>3, <2>4
<1>11. ASSUME NEW f \in DOMAIN program.files \ {F}
       PROVE  ReadOf(Passed, f) = ReadOf(stack, f)
  <2>1. \A m \in DOMAIN stack : Passed[m].file = f => Passed[m] = stack[m]
    BY <1>6, <1>7
  <2> QED BY <1>6, <1>8, <2>1 DEF ReadOf
<1> QED BY <1>2, <1>4, <1>6, <1>8, <1>9, <1>10, <1>11

\* That form counts if it is an element.
LEMMA PassedCounted ==
  ASSUME Shape, Apart(stack), NEW form, Reading(form), IsFiniteSet(seen),
         seen \subseteq DOMAIN program.files, Last(stack).file \in seen
  PROVE  /\ Counted(stack, seen) \in Nat
         /\ Counted(Passed, seen) = Counted(stack, seen) + (IF form = "element" THEN 1 ELSE 0)
PROOF
<1> DEFINE F == Last(stack).file
           n == Last(stack).next
           A(f) == ElementsOf(f) \cap ReadOf(stack, f)
           B(f) == ElementsOf(f) \cap ReadOf(Passed, f)
           a == [f \in seen |-> Cardinality(A(f))]
           b == [f \in seen |-> Cardinality(B(f))]
<1>1. /\ n \in DOMAIN program.files[F] /\ Form = program.files[F][n]
      /\ n \notin ReadOf(stack, F) /\ ReadOf(Passed, F) = ReadOf(stack, F) \cup {n}
      /\ \A f \in DOMAIN program.files \ {F} : ReadOf(Passed, f) = ReadOf(stack, f)
  BY PassedRead
<1>2. Form.form = form
  BY AtForm
<1>3. \A f \in seen : /\ IsFiniteSet(A(f)) /\ Cardinality(A(f)) \in Nat
                      /\ IsFiniteSet(B(f)) /\ Cardinality(B(f)) \in Nat
  BY FilesFinite
<1>4. a \in [seen -> Nat] /\ b \in [seen -> Nat]
  BY <1>3
<1>5. \A f \in seen \ {F} : a[f] = b[f]
  BY <1>1
<1>10. F \in seen /\ a[F] \in Nat /\ b[F] \in Nat /\ a[F] = Cardinality(A(F)) /\ b[F] = Cardinality(B(F))
  BY <1>4
<1>6. b[F] = a[F] + (IF form = "element" THEN 1 ELSE 0)
  <2>1. n \in ElementsOf(F) <=> form = "element"
    BY <1>1, <1>2 DEF ElementsOf
  <2>2. CASE form = "element"
    <3>1. B(F) = A(F) \cup {n} /\ n \notin A(F)
      BY <1>1, <2>1, <2>2
    <3>2. Cardinality(B(F)) = Cardinality(A(F)) + 1
      BY <1>3, <3>1, FS_AddElement
    <3> QED BY <2>2, <3>2
  <2>3. CASE form # "element"
    <3>1. B(F) = ElementsOf(F) \cap (ReadOf(stack, F) \cup {n}) /\ n \notin ElementsOf(F)
      BY <1>1, <2>1, <2>3
    <3>2. B(F) = A(F)
      BY <3>1
    <3> QED BY <1>10, <2>3, <3>2
  <2> QED BY <2>2, <2>3
<1>7. Counted(stack, seen) = SumFunction(a) /\ Counted(Passed, seen) = SumFunction(b)
  BY DEF Counted
<1> HIDE DEF a, b, F
<1>9. /\ SumFunction(a) \in Nat /\ SumFunction(b) \in Nat
      /\ SumFunction(b) + a[F] = SumFunction(a) + b[F]
  BY <1>4, <1>5, <1>10, SumChange
<1> QED BY <1>6, <1>7, <1>9, <1>10

\* Nothing has been read of a file that is being opened.
LEMMA OpenedRead ==
  ASSUME Shape, NEW st, IsList(st), NEW F \in DOMAIN program.files,
         \A m \in DOMAIN st : st[m].file # F
  PROVE  LET tt == Append(st, [file |-> F, next |-> 1])
         IN  /\ ReadOf(tt, F) = {}
             /\ \A f \in DOMAIN program.files \ {F} : ReadOf(tt, f) = ReadOf(st, f)
             /\ Apart(st) => Apart(tt)
PROOF
<1> DEFINE x == [file |-> F, next |-> 1]
           tt == Append(st, x)
<1>1. /\ IsList(tt) /\ Len(tt) = Len(st) + 1 /\ Len(st) \in Nat /\ DOMAIN st = 1 .. Len(st)
      /\ \A i \in 1 .. Len(st) : tt[i] = st[i]
      /\ tt[Len(st) + 1] = x
  BY ListAppend, ListIs
<1>2. DOMAIN tt = 1 .. Len(st) + 1
  BY <1>1, ListIs
<1>3. x.file = F /\ x.next = 1
  OBVIOUS
<1> HIDE DEF x, tt
<1>4. ReadOf(tt, F) = {}
  <2>1. \A i \in DOMAIN program.files[F] : i \in Nat \ {0}
    BY FilesFinite, ListIs
  <2>2. Len(st) + 1 \in DOMAIN tt /\ tt[Len(st) + 1].file = F /\ tt[Len(st) + 1].next = 1
    BY <1>1, <1>2, <1>3
  <2>3. \A i \in ReadOf(tt, F) : i \in DOMAIN program.files[F] /\ i < 1
    BY <2>2 DEF ReadOf
  <2> QED BY <2>1, <2>3
<1>5. ASSUME NEW f \in DOMAIN program.files \ {F} PROVE ReadOf(tt, f) = ReadOf(st, f)
  <2>1. ASSUME NEW i
        PROVE  (\A n \in DOMAIN tt : tt[n].file = f => i < tt[n].next)
                 <=> (\A n \in DOMAIN st : st[n].file = f => i < st[n].next)
    <3>1. \A n \in DOMAIN tt : (n \in DOMAIN st /\ tt[n] = st[n]) \/ tt[n].file = F
      BY <1>1, <1>2, <1>3
    <3>2. \A n \in DOMAIN st : n \in DOMAIN tt /\ tt[n] = st[n]
      BY <1>1, <1>2
    <3> QED BY <3>1, <3>2
  <2> QED BY <2>1 DEF ReadOf
<1>6. Apart(st) => Apart(tt)
  <2> SUFFICES ASSUME Apart(st), NEW m \in DOMAIN tt, NEW n \in DOMAIN tt,
                      tt[m].file = tt[n].file
               PROVE  m = n
    BY DEF Apart
  <2>1. \A k \in DOMAIN tt : (k \in DOMAIN st /\ tt[k] = st[k]) \/ (k = Len(st) + 1 /\ tt[k].file = F)
    BY <1>1, <1>2, <1>3
  <2> QED BY <2>1 DEF Apart
<1> QED BY <1>4, <1>5, <1>6 DEF x, tt

LEMMA OpenedCounted ==
  ASSUME Shape, NEW st, NEW tt, NEW sn, IsFiniteSet(sn), sn \subseteq DOMAIN program.files,
         NEW F \in DOMAIN program.files \ sn, ReadOf(tt, F) = {},
         \A f \in DOMAIN program.files \ {F} : ReadOf(tt, f) = ReadOf(st, f)
  PROVE  Counted(tt, sn \cup {F}) = Counted(st, sn)
PROOF
<1> DEFINE g == [f \in sn \cup {F} |-> Cardinality(ElementsOf(f) \cap ReadOf(tt, f))]
           h == [f \in sn |-> Cardinality(ElementsOf(f) \cap ReadOf(st, f))]
<1>1. \A f \in sn \cup {F} : g[f] \in Nat
  BY FilesFinite
<1>2. g[F] = 0
  <2>1. ElementsOf(F) \cap ReadOf(tt, F) = {}
    OBVIOUS
  <2> QED BY <2>1, FS_EmptySet
<1>3. \A f \in sn : g[f] = h[f]
  OBVIOUS
<1>4. /\ Counted(tt, sn \cup {F}) = SumFunction(g) /\ Counted(st, sn) = SumFunction(h)
  BY DEF Counted
<1>5. /\ SumFunction(g) = SumFunctionOnSet(g, sn \cup {F})
      /\ SumFunction(h) = SumFunctionOnSet(h, sn)
  BY DEF SumFunction
<1> HIDE DEF g, h
<1>6. IsFiniteSet(sn \cup {F})
  BY FS_AddElement
<1>7. /\ SumFunctionOnSet(g, sn \cup {F}) = g[F] + SumFunctionOnSet(g, (sn \cup {F}) \ {F})
      /\ SumFunctionOnSet(g, sn \cup {F}) \in Nat
  BY <1>1, <1>6, SumTake
<1>8. (sn \cup {F}) \ {F} = sn
  OBVIOUS
<1>9. SumFunctionOnSet(g, sn) = SumFunctionOnSet(h, sn)
  BY <1>3, SumSame
<1>10. SumFunctionOnSet(g, sn) \in Nat
  BY <1>1, SumTake
<1> QED BY <1>2, <1>4, <1>5, <1>7, <1>8, <1>9, <1>10

\* A file that has been read to its end may be forgotten.
LEMMA ClosedRead ==
  ASSUME Shape, Apart(stack), phase = "parse", Last(stack).next > Len(Forms)
  PROVE  /\ DOMAIN Front(stack) = 1 .. Len(stack) - 1
         /\ \A m \in DOMAIN Front(stack) : m \in DOMAIN stack /\ Front(stack)[m] = stack[m]
         /\ Apart(Front(stack))
         /\ \A f \in DOMAIN program.files : ReadOf(Front(stack), f) = ReadOf(stack, f)
PROOF
<1> DEFINE L == Len(stack)
           tt == Front(stack)
<1>1. /\ IsList(stack) /\ L \in Nat /\ L > 0 /\ DOMAIN stack = 1 .. L
      /\ stack[L] = Last(stack)
      /\ Last(stack) \in [file : DOMAIN program.files, next : Nat \ {0}]
  <2>1. IsList(stack) /\ L \in Nat /\ L > 0 /\ DOMAIN stack = 1 .. L
    BY ListIs DEF Shape, StackOK
  <2>2. Last(stack) \in ToSet(stack) /\ stack[L] = Last(stack)
    BY <2>1, ListLast DEF Last
  <2> QED BY <2>1, <2>2 DEF Shape, StackOK
<1>2. IsList(tt) /\ Len(tt) = L - 1
  <2>1. IsList(stack) /\ Len(stack) > 0
    BY <1>1
  <2> QED BY <2>1, ListFront
<1>3. DOMAIN tt = 1 .. L - 1
  BY <1>2, ListIs
<1>4. \A m \in DOMAIN tt : m \in DOMAIN stack /\ tt[m] = stack[m]
  <2>1. /\ 1 \in Int /\ L - 1 \in Int
        /\ \A i \in 1 .. L - 1 : stack[i] \in ToSet(stack)
    BY <1>1, ListIs
  <2>2. tt = SubSeq(stack, 1, L - 1)
    BY DEF Front
  <2>3. \A i \in 1 .. L - 1 : SubSeq(stack, 1, L - 1)[i] = stack[1 + i - 1]
    <3> DEFINE n == L - 1
    <3> HIDE DEF n
    <3>1. n \in Int /\ \A i \in 1 .. n : stack[i] \in ToSet(stack)
      BY <2>1 DEF n
    <3>2. \A i \in 1 .. n - 1 + 1 : SubSeq(stack, 1, n)[i] = stack[1 + i - 1]
      BY <3>1, SubSeqProperties
    <3>3. n - 1 + 1 = n
      BY <3>1
    <3> QED BY <3>2, <3>3 DEF n
  <2>4. \A i \in 1 .. L - 1 : 1 + i - 1 = i /\ i \in 1 .. L
    BY <1>1
  <2> QED BY <1>1, <1>3, <2>2, <2>3, <2>4
<1>5. Apart(tt)
  BY <1>4 DEF Apart
<1>6. ASSUME NEW f \in DOMAIN program.files PROVE ReadOf(tt, f) = ReadOf(stack, f)
  <2>1. \A n \in DOMAIN stack : n \in DOMAIN tt \/ n = L
    BY <1>1, <1>3
  <2>2. ReadOf(stack, f) \subseteq ReadOf(tt, f)
    BY <1>4 DEF ReadOf
  <2>3. ASSUME NEW i \in ReadOf(tt, f) PROVE i \in ReadOf(stack, f)
    <3>1. stack[L].file = f => i < stack[L].next
      <4> SUFFICES ASSUME stack[L].file = f PROVE i < Last(stack).next
        BY <1>1
      <4>1. Forms = program.files[f]
        BY <1>1 DEF Forms
      <4>2. i \in 1 .. Len(Forms) /\ Len(Forms) \in Nat
        BY <4>1, FilesFinite, ListIs DEF ReadOf
      <4> QED BY <1>1, <4>2
    <3>2. i \in DOMAIN program.files[f]
          /\ \A n \in DOMAIN tt : tt[n].file = f => i < tt[n].next
      BY <2>3 DEF ReadOf
    <3>3. \A n \in DOMAIN stack : stack[n].file = f => i < stack[n].next
      BY <1>4, <2>1, <3>1, <3>2
    <3> QED BY <3>2, <3>3 DEF ReadOf
  <2> QED BY <2>2, <2>3
<1> QED BY <1>3, <1>4, <1>5, <1>6

\* Statements that are added.
LEMMA AppendElements ==
  ASSUME NEW ss, IsList(ss), NEW x
  PROVE  /\ Cardinality(ElementStmts(ss)) \in Nat
         /\ Cardinality(ElementStmts(Append(ss, x)))
              = Cardinality(ElementStmts(ss)) + (IF x.kind = "element" THEN 1 ELSE 0)
PROOF
<1> DEFINE tt == Append(ss, x)
           n == Len(ss) + 1
<1>1. /\ IsList(tt) /\ Len(tt) = n /\ Len(ss) \in Nat /\ DOMAIN ss = 1 .. Len(ss)
      /\ \A i \in 1 .. Len(ss) : tt[i] = ss[i]
      /\ tt[n] = x
  BY ListAppend, ListIs
<1>2. DOMAIN tt = 1 .. n
  BY <1>1, ListIs
<1>3. IsFiniteSet(ElementStmts(ss)) /\ Cardinality(ElementStmts(ss)) \in Nat
  <2>1. ElementStmts(ss) \in SUBSET DOMAIN ss
    BY DEF ElementStmts
  <2> QED BY <2>1, Indices
<1> HIDE DEF tt
<1>4. DOMAIN tt = DOMAIN ss \cup {n} /\ n \notin DOMAIN ss
  BY <1>1, <1>2
<1>5. CASE x.kind = "element"
  <2>1. ElementStmts(tt) = ElementStmts(ss) \cup {n} /\ n \notin ElementStmts(ss)
    <3> HIDE DEF n
    <3> QED BY <1>1, <1>4, <1>5 DEF ElementStmts
  <2>2. Cardinality(ElementStmts(tt)) = Cardinality(ElementStmts(ss)) + 1
    BY <1>3, <2>1, FS_AddElement
  <2> QED BY <1>3, <1>5, <2>2 DEF tt
<1>6. CASE x.kind # "element"
  <2>1. ElementStmts(tt) = ElementStmts(ss)
    <3> HIDE DEF n
    <3> QED BY <1>1, <1>4, <1>6 DEF ElementStmts
  <2> QED BY <1>3, <1>6, <2>1 DEF tt
<1> QED BY <1>5, <1>6

LEMMA ConcatElements ==
  ASSUME NEW ss, IsList(ss), NEW b, IsList(b), \A x \in ToSet(b) : x.kind # "element"
  PROVE  ElementStmts(ss \o b) = ElementStmts(ss)
PROOF
<1> DEFINE tt == ss \o b
           S == ToSet(ss) \cup ToSet(b)
<1>1. /\ ss \in Seq(S) /\ b \in Seq(S) /\ Len(ss) \in Nat /\ Len(b) \in Nat
      /\ DOMAIN ss = 1 .. Len(ss)
      /\ \A i \in 1 .. Len(b) : b[i] \in ToSet(b)
  BY ListIs, SeqMonotonic
<1> HIDE DEF S
<1>2. /\ tt \in Seq(S) /\ Len(tt) = Len(ss) + Len(b)
      /\ \A i \in 1 .. Len(ss) + Len(b) :
           tt[i] = IF i <= Len(ss) THEN ss[i] ELSE b[i - Len(ss)]
  BY <1>1, ConcatProperties
<1>3. DOMAIN tt = 1 .. Len(ss) + Len(b)
  BY <1>2, LenProperties
<1> HIDE DEF tt
<1>4. ASSUME NEW i \in DOMAIN tt
      PROVE  (i \in DOMAIN ss /\ tt[i] = ss[i]) \/ (i \notin DOMAIN ss /\ tt[i].kind # "element")
  <2>1. CASE i <= Len(ss)
    BY <1>1, <1>2, <1>3, <2>1
  <2>2. CASE ~(i <= Len(ss))
    <3>1. i - Len(ss) \in 1 .. Len(b) /\ i \notin DOMAIN ss
      BY <1>1, <1>3, <2>2
    <3> QED BY <1>1, <1>2, <1>3, <2>2, <3>1
  <2> QED BY <2>1, <2>2
<1>5. DOMAIN ss \subseteq DOMAIN tt
  BY <1>1, <1>3
<1> QED BY <1>4, <1>5 DEF ElementStmts, tt

\* Primes of what depends on the program only through its files.
LEMMA SameProgram ==
  ASSUME program' = program
  PROVE  ImportsOK(stack, seen, stmts)' <=> ImportsOK(stack', seen', stmts')
PROOF
<1>1. /\ \A f : (ElementsOf(f))' = ElementsOf(f)
      /\ \A f : (ReadOf(stack, f))' = ReadOf(stack', f)
  BY DEF ElementsOf, ReadOf
<1>2. ImportPairs' = ImportPairs
  BY DEF ImportPairs
<1>3. Counted(stack, seen)' = Counted(stack', seen')
  BY <1>1 DEF Counted
<1> QED BY <1>1, <1>2, <1>3 DEF ImportsOK, ElementStmts, ClosedSets

LEMMA ImportNext ==
  ASSUME program' = program, Apart(stack'), \A n \in DOMAIN stack' : stack'[n].file \in seen',
         IsFiniteSet(seen'), phase' # "open", phase' # "parse" => stack' = <<>>,
         phase' \in {"parse", "collect"} /\ errors' = 0 => ImportsOK(stack', seen', stmts')
  PROVE  ImportInv'
BY SameProgram DEF ImportInv, Apart

LEMMA OpenInputImports == ASSUME Shape, ImportInv, OpenInput PROVE ImportInv'
PROOF
<1>1. /\ phase = "open" /\ stmts = <<>> /\ stack = <<>> /\ seen' = {program.main}
      /\ stmts' = stmts /\ program' = program
  BY DEF OpenInput, ImportInv
<1>2. IsFiniteSet(seen')
  BY <1>1, FS_Singleton
<1>3. CASE program.main \in DOMAIN program.files
  <2> DEFINE F == program.main
             tt == Append(<<>>, [file |-> F, next |-> 1])
  <2>1. /\ stack' = tt /\ phase' = "parse" /\ F \in DOMAIN program.files
    BY <1>3 DEF OpenInput
  <2>2. IsList(<<>>) /\ DOMAIN <<>> = {}
    BY EmptyList, ListIs
  <2>3. /\ ReadOf(tt, F) = {} /\ Apart(tt)
        /\ \A f \in DOMAIN program.files \ {F} : ReadOf(tt, f) = ReadOf(<<>>, f)
    <3> HIDE DEF F
    <3>1. Apart(<<>>)
      BY <2>2 DEF Apart
    <3>2. \A m \in DOMAIN <<>> : <<>>[m].file # F
      BY <2>2
    <3> QED BY <2>1, <2>2, <3>1, <3>2, OpenedRead
  <2>4. Counted(tt, {F}) = 0
    <3> HIDE DEF F, tt
    <3>1. Counted(<<>>, {}) = 0
      BY EmptySum DEF Counted
    <3>2. Counted(tt, {} \cup {F}) = Counted(<<>>, {})
      BY <2>1, <2>3, FS_EmptySet, OpenedCounted, SMTT(30)
    <3> QED BY <3>1, <3>2
  <2>5. Cardinality(ElementStmts(<<>>)) = 0
    <3>1. ElementStmts(<<>>) = {}
      BY <2>2 DEF ElementStmts
    <3> QED BY <3>1, FS_EmptySet
  <2>6. ImportsOK(tt, {F}, <<>>)
    BY <2>1, <2>3, <2>4, <2>5 DEF ImportsOK
  <2>7. \A n \in DOMAIN tt : tt[n].file = F
    OBVIOUS
  <2> QED BY <1>1, <1>2, <2>1, <2>3, <2>6, <2>7, ImportNext
<1>4. CASE program.main \notin DOMAIN program.files
  <2>1. stack' = <<>> /\ phase' = "aborted"
    BY <1>1, <1>4 DEF OpenInput
  <2>2. DOMAIN <<>> = {}
    BY EmptyList, ListIs
  <2> QED BY <1>1, <1>2, <2>1, <2>2, ImportNext DEF Apart
<1> QED BY <1>3, <1>4

\* A form other than an import is read.
LEMMA PassedImports ==
  ASSUME Shape, ImportInv, NEW form, Reading(form), form # "import", phase' = phase,
         program' = program, seen' = seen, stack' = Passed,
         errors' = 0 => /\ errors = 0
                        /\ Cardinality(ElementStmts(stmts'))
                             = Cardinality(ElementStmts(stmts)) + (IF form = "element" THEN 1 ELSE 0)
  PROVE  ImportInv'
PROOF
<1> DEFINE F == Last(stack).file
           n == Last(stack).next
<1>1. /\ F \in DOMAIN program.files /\ n \in DOMAIN program.files[F]
      /\ Form = program.files[F][n]
      /\ DOMAIN Passed = DOMAIN stack
      /\ \A m \in DOMAIN stack : Passed[m].file = stack[m].file
      /\ n \notin ReadOf(stack, F) /\ ReadOf(Passed, F) = ReadOf(stack, F) \cup {n}
      /\ \A f \in DOMAIN program.files \ {F} : ReadOf(Passed, f) = ReadOf(stack, f)
  BY PassedRead DEF ImportInv
<1>2. phase = "parse" /\ Form.form = form
  BY AtForm DEF Reading
<1>3. Apart(Passed) /\ \A m \in DOMAIN Passed : Passed[m].file \in seen
  BY <1>1 DEF ImportInv, Apart
<1>4. ASSUME errors' = 0 PROVE ImportsOK(Passed, seen, stmts')
  <2>1. ImportsOK(stack, seen, stmts)
    BY <1>2, <1>4 DEF ImportInv
  <2>2. F \in seen
    BY AtForm, ListIs DEF ImportInv
  <2>3. /\ Counted(stack, seen) \in Nat
        /\ Counted(Passed, seen) = Counted(stack, seen) + (IF form = "element" THEN 1 ELSE 0)
    BY <2>1, <2>2, PassedCounted DEF ImportInv, ImportsOK
  <2>4. ASSUME NEW f \in seen, NEW i \in ReadOf(Passed, f), program.files[f][i].form = "import"
        PROVE  program.files[f][i].file \in seen
    <3>1. i \in ReadOf(stack, f)
      BY <1>1, <1>2, <2>1, <2>4 DEF ImportsOK
    <3> QED BY <2>1, <2>4, <3>1 DEF ImportsOK
  <2> QED BY <1>4, <2>1, <2>3, <2>4 DEF ImportsOK
<1> QED BY <1>2, <1>3, <1>4, ImportNext DEF ImportInv

\* Recovery leaves the files that are being read.
LEMMA RecoveredImports ==
  ASSUME Shape, ImportInv, NEW form, Reading(form), phase' = phase, program' = program,
         stack' = Recovered, seen \subseteq seen', IsFiniteSet(seen'), errors' # 0
  PROVE  ImportInv'
PROOF
<1>1. /\ DOMAIN Recovered = DOMAIN stack
      /\ \A m \in DOMAIN stack : Recovered[m].file = stack[m].file
  <2>1. stack[Len(stack)] \in [file : DOMAIN program.files, next : Nat \ {0}]
    BY AtForm
  <2>2. \A x : [stack[Len(stack)] EXCEPT !.next = x].file = stack[Len(stack)].file
    BY <2>1
  <2> QED BY <2>2 DEF Recovered
<1>2. phase = "parse"
  BY DEF Reading
<1> HIDE DEF Recovered
<1> QED BY <1>1, <1>2, ImportNext DEF ImportInv, Apart

LEMMA ParseImportImports == ASSUME Shape, ImportInv, ParseImport PROVE ImportInv'
PROOF
<1> DEFINE F == Last(stack).file
           n == Last(stack).next
           G == Form.file
<1>1. /\ Reading("import") /\ phase = "parse" /\ Form.form = "import" /\ phase' = phase
      /\ program' = program /\ seen' = seen \cup {G}
  BY AtForm DEF ParseImport, Reading
<1>2. /\ F \in DOMAIN program.files /\ n \in DOMAIN program.files[F]
      /\ Form = program.files[F][n]
      /\ DOMAIN Passed = DOMAIN stack
      /\ \A m \in DOMAIN stack : Passed[m].file = stack[m].file
      /\ n \notin ReadOf(stack, F) /\ ReadOf(Passed, F) = ReadOf(stack, F) \cup {n}
      /\ \A f \in DOMAIN program.files \ {F} : ReadOf(Passed, f) = ReadOf(stack, f)
  BY <1>1, PassedRead DEF ImportInv
<1>3. Apart(Passed) /\ \A m \in DOMAIN Passed : Passed[m].file \in seen
  BY <1>2 DEF ImportInv, Apart
<1>4. IsFiniteSet(seen) /\ IsFiniteSet(seen') /\ F \in seen
  BY <1>1, AtForm, ListIs, FS_AddElement DEF ImportInv
<1>5. ASSUME errors = 0
      PROVE  /\ ImportsOK(stack, seen, stmts)
             /\ Counted(stack, seen) \in Nat /\ Counted(Passed, seen) = Counted(stack, seen)
  <2>1. ImportsOK(stack, seen, stmts)
    BY <1>1, <1>5 DEF ImportInv
  <2>2. /\ Counted(stack, seen) \in Nat
        /\ Counted(Passed, seen) = Counted(stack, seen) + (IF "import" = "element" THEN 1 ELSE 0)
    BY <1>1, <1>4, <2>1, PassedCounted DEF ImportInv, ImportsOK
  <2> QED BY <2>1, <2>2
<1>6. CASE /\ G \in seen /\ stmts' = Append(stmts, ImportDecl) /\ stack' = Passed
           /\ UNCHANGED errors
  <2>1. seen' = seen
    BY <1>1, <1>6
  <2>2. ASSUME errors = 0 PROVE ImportsOK(Passed, seen, stmts')
    <3>1. /\ Cardinality(ElementStmts(stmts)) \in Nat
          /\ Cardinality(ElementStmts(stmts')) = Cardinality(ElementStmts(stmts)) + 0
      BY <1>6, AppendElements DEF ImportDecl, Shape, StmtsOK
    <3>2. ASSUME NEW f \in seen, NEW i \in ReadOf(Passed, f), program.files[f][i].form = "import"
          PROVE  program.files[f][i].file \in seen
      <4>1. i \in ReadOf(stack, f) \/ (f = F /\ i = n)
        BY <1>2, <1>5, <2>2 DEF ImportsOK
      <4> QED BY <1>2, <1>5, <1>6, <2>2, <3>2, <4>1 DEF ImportsOK
    <3> QED BY <1>5, <2>2, <3>1, <3>2 DEF ImportsOK
  <2> QED BY <1>1, <1>3, <1>4, <1>6, <2>1, <2>2, ImportNext DEF ImportInv
<1>7. CASE /\ G \in DOMAIN program.files \ seen
           /\ stack' = Append(Passed, [file |-> G, next |-> 1])
           /\ UNCHANGED <<stmts, errors>>
  <2> DEFINE tt == Append(Passed, [file |-> G, next |-> 1])
  <2>1. IsList(Passed)
    BY <1>1, PassedOK DEF StackOK
  <2>2. /\ ReadOf(tt, G) = {} /\ Apart(tt)
        /\ \A f \in DOMAIN program.files \ {G} : ReadOf(tt, f) = ReadOf(Passed, f)
    <3>1. G \in DOMAIN program.files /\ \A m \in DOMAIN Passed : Passed[m].file # G
      BY <1>3, <1>7
    <3> HIDE DEF G
    <3> QED BY <1>3, <2>1, <3>1, OpenedRead
  <2>3. \A m \in DOMAIN tt : tt[m].file \in seen'
    <3> DEFINE x == [file |-> G, next |-> 1]
               ps == Passed
    <3>1. /\ DOMAIN ps = 1 .. Len(ps) /\ Len(Append(ps, x)) = Len(ps) + 1
          /\ \A i \in 1 .. Len(ps) : Append(ps, x)[i] = ps[i]
          /\ Append(ps, x)[Len(ps) + 1] = x
          /\ DOMAIN Append(ps, x) = 1 .. Len(ps) + 1 /\ Len(ps) \in Nat
      <4> HIDE DEF x, ps
      <4>1. IsList(ps)
        BY <2>1 DEF ps
      <4> QED BY <4>1, ListAppend, ListIs
    <3>2. x.file = G /\ G \in seen'
      BY <1>1
    <3> HIDE DEF x, ps, G
    <3>3. \A m \in DOMAIN Append(ps, x) : m \in DOMAIN ps \/ Append(ps, x)[m] = x
      BY <3>1
    <3>4. \A m \in DOMAIN ps : Append(ps, x)[m].file \in seen'
      BY <1>1, <1>3, <3>1 DEF ps, G
    <3>5. \A m \in DOMAIN Append(ps, x) : Append(ps, x)[m].file \in seen'
      BY <3>2, <3>3, <3>4
    <3> QED BY <3>5 DEF x, ps
  <2>4. ASSUME errors = 0 PROVE ImportsOK(tt, seen', stmts)
    <3> HIDE DEF tt, G
    <3>1. ImportsOK(stack, seen, stmts) /\ Counted(Passed, seen) = Counted(stack, seen)
      BY <1>5, <2>4
    <3>2. Counted(tt, seen \cup {G}) = Counted(Passed, seen)
      <4>1. G \in DOMAIN program.files \ seen
        BY <1>7 DEF G
      <4> QED BY <1>4, <2>2, <3>1, <4>1, OpenedCounted DEF ImportsOK
    <3>3. seen' \subseteq DOMAIN program.files /\ program.main \in seen'
      BY <1>1, <1>7, <3>1 DEF ImportsOK, G
    <3>4. ASSUME NEW S \in ClosedSets(DOMAIN program.files, ImportPairs), program.main \in S
          PROVE  seen' \subseteq S
      <4>1. seen \subseteq S
        BY <3>1, <3>4 DEF ImportsOK
      <4>2. program.files[F][n].form = "import" /\ program.files[F][n].file = G
        BY <1>1, <1>2 DEF G
      <4>3. <<F, G>> \in ImportPairs
        BY <1>1, <1>2, <3>3, <4>2 DEF ImportPairs
      <4>4. F \in S => G \in S
        BY <4>3 DEF ClosedSets
      <4> QED BY <1>1, <1>4, <4>1, <4>4 DEF G
    <3>5. ASSUME NEW f \in seen', NEW i \in ReadOf(tt, f), program.files[f][i].form = "import"
          PROVE  program.files[f][i].file \in seen'
      <4>1. f # G /\ f \in seen
        BY <1>1, <2>2, <3>5 DEF G
      <4>2. i \in ReadOf(Passed, f)
        BY <2>2, <3>3, <3>5, <4>1
      <4>3. i \in ReadOf(stack, f) \/ (f = F /\ i = n)
        BY <1>2, <3>3, <3>5, <4>2
      <4>4. program.files[F][n].file = G
        BY <1>2 DEF G
      <4> QED BY <1>1, <3>1, <3>5, <4>1, <4>3, <4>4 DEF ImportsOK, G
    <3>6. seen' = seen \cup {G}
      BY <1>1 DEF G
    <3> QED BY <3>1, <3>2, <3>3, <3>4, <3>5, <3>6 DEF ImportsOK
  <2> HIDE DEF tt
  <2>5. stack' = tt
    BY <1>7 DEF tt
  <2> QED BY <1>1, <1>4, <1>7, <2>2, <2>3, <2>4, <2>5, ImportNext
<1>8. CASE errors' = errors + 2 /\ stack' = Recovered /\ UNCHANGED stmts
  <2>1. errors' # 0
    BY <1>8 DEF Shape
  <2> QED BY <1>1, <1>4, <1>8, <2>1, RecoveredImports
<1> QED BY <1>6, <1>7, <1>8 DEF ParseImport

LEMMA EndFileImports == ASSUME Shape, ImportInv, EndFile PROVE ImportInv'
PROOF
<1> DEFINE tt == Front(stack)
<1>1. /\ phase = "parse" /\ Last(stack).next > Len(Forms) /\ stack' = tt
      /\ program' = program /\ seen' = seen /\ errors' = errors
  BY DEF EndFile
<1>2. /\ DOMAIN tt = 1 .. Len(stack) - 1 /\ Apart(tt)
      /\ \A m \in DOMAIN tt : m \in DOMAIN stack /\ tt[m] = stack[m]
      /\ \A f \in DOMAIN program.files : ReadOf(tt, f) = ReadOf(stack, f)
  BY <1>1, ClosedRead DEF ImportInv
<1>3. IsList(stack) /\ Len(stack) > 0 /\ Len(stack) \in Nat
  BY <1>1, ListIs DEF Shape, StackOK
<1>4. IsList(tt) /\ Len(tt) = Len(stack) - 1
  BY <1>3, ListFront
<1> HIDE DEF tt
<1>5. \A m \in DOMAIN tt : tt[m].file \in seen
  BY <1>2 DEF ImportInv
<1>6. Cardinality(ElementStmts(stmts')) = Cardinality(ElementStmts(stmts))
  <2>1. CASE stmts' = Append(stmts, ImportDecl)
    <3>1. /\ Cardinality(ElementStmts(stmts)) \in Nat
          /\ Cardinality(ElementStmts(stmts')) = Cardinality(ElementStmts(stmts)) + 0
      BY <2>1, AppendElements DEF ImportDecl, Shape, StmtsOK
    <3> QED BY <3>1
  <2> QED BY <2>1 DEF EndFile
<1>7. ASSUME errors = 0 PROVE ImportsOK(tt, seen, stmts')
  <2>1. ImportsOK(stack, seen, stmts)
    BY <1>1, <1>7 DEF ImportInv
  <2>2. \A f \in seen : ReadOf(tt, f) = ReadOf(stack, f)
    BY <1>2, <2>1 DEF ImportsOK
  <2>3. Counted(tt, seen) = Counted(stack, seen)
    BY <2>2, CountedSame
  <2> QED BY <1>6, <2>1, <2>2, <2>3 DEF ImportsOK
<1>8. phase' # "parse" => tt = <<>>
  <2> SUFFICES ASSUME phase' # "parse" PROVE tt = <<>>
    OBVIOUS
  <2>1. Len(tt) = 0
    BY <1>1, <1>3, <1>4 DEF EndFile
  <2> QED BY <1>4, <2>1, EmptySeq DEF IsList
<1>9. phase' # "open"
  BY <1>1 DEF EndFile
<1> QED BY <1>1, <1>2, <1>5, <1>7, <1>8, <1>9, ImportNext DEF ImportInv

\* What the later phases leave alone.
LEMMA LaterImports ==
  ASSUME ImportInv, UNCHANGED <<program, parserVars>>, phase' # "open" \/ phase = "open",
         phase' = phase \/ phase' \notin {"parse", "collect"}, phase # "parse" \/ phase' = "parse",
         phase' \in {"parse", "collect"} /\ errors' = 0 => errors = 0
  PROVE  ImportInv'
PROOF
<1>1. program' = program /\ stack' = stack /\ seen' = seen /\ stmts' = stmts
  BY DEF parserVars
<1>2. ImportsOK(stack, seen, stmts)' <=> ImportsOK(stack, seen, stmts)
  BY <1>1, SameProgram
<1> QED BY <1>1, <1>2 DEF ImportInv, Apart

LEMMA NextImports == ASSUME Shape, ImportInv, [Next]_vars PROVE ImportInv'
PROOF
<1>0. errors \in Nat /\ IsList(stmts)
  BY DEF Shape, StmtsOK
<1>1. CASE OpenInput
  BY <1>1, OpenInputImports
<1>2. CASE ParseImport
  BY <1>2, ParseImportImports
<1>3. CASE ParseElementDecl
  <2> DEFINE x == [kind |-> "element", name |-> Form.name, nin |-> Form.nin, nout |-> Form.nout]
  <2>1. /\ Reading("element") /\ stmts' = Append(stmts, x) /\ stack' = Passed
        /\ UNCHANGED <<program, phase, seen, errors>>
    BY <1>3 DEF ParseElementDecl
  <2>2. x.kind = "element"
    OBVIOUS
  <2> HIDE DEF x
  <2>3. Cardinality(ElementStmts(stmts')) = Cardinality(ElementStmts(stmts)) + 1
    BY <1>0, <2>1, <2>2, AppendElements
  <2> QED BY <2>1, <2>3, PassedImports
<1>4. CASE ParseElementGroupDecl
  <2> DEFINE b == FlattenSeq([i \in DOMAIN Form.body |-> DeclOrChain(Form.body[i])])
             x == [kind |-> "group", name |-> Form.name, body |-> b]
             bad == {i \in DOMAIN Form.body : Form.body[i].form = "bad"}
  <2>1. /\ Reading("group") /\ stmts' = Append(stmts, x) /\ stack' = Passed
        /\ errors' = errors + Cardinality(bad)
        /\ UNCHANGED <<program, phase, seen>>
    BY <1>4 DEF ParseElementGroupDecl
  <2>2. x.kind # "element"
    OBVIOUS
  <2>3. Cardinality(bad) \in Nat
    <3>1. IsList(Form.body)
      BY <2>1, AtForm DEF TopForm
    <3>2. bad \in SUBSET DOMAIN Form.body
      OBVIOUS
    <3> HIDE DEF bad
    <3> QED BY <3>1, <3>2, Indices
  <2> HIDE DEF x, bad
  <2>4. errors' = 0 => errors = 0
    BY <1>0, <2>1, <2>3
  <2>5. Cardinality(ElementStmts(stmts')) = Cardinality(ElementStmts(stmts)) + 0
    BY <1>0, <2>1, <2>2, AppendElements
  <2> QED BY <2>1, <2>4, <2>5, PassedImports
<1>5. CASE ParseDeclOrChain
  <2> DEFINE b == DeclOrChain(Form)
  <2>1. PICK form \in {"inst", "chain"} : Reading(form)
    BY <1>5 DEF ParseDeclOrChain
  <2>2. /\ stmts' = stmts \o b /\ stack' = Passed
        /\ UNCHANGED <<program, phase, seen, errors>>
    BY <1>5 DEF ParseDeclOrChain
  <2>3. BodyOK(b)
    <3>1. TopForm(Form)
      BY <2>1, AtForm
    <3> QED BY <3>1, DeclBody DEF TopForm
  <2> HIDE DEF b
  <2>4. \A x \in ToSet(b) : x.kind # "element"
    BY <2>3 DEF BodyOK, InstOK, ConnOK
  <2>5. ElementStmts(stmts') = ElementStmts(stmts)
    BY <1>0, <2>2, <2>3, <2>4, ConcatElements DEF BodyOK
  <2>6. Cardinality(ElementStmts(stmts)) \in Nat
    BY <1>0, AppendElements
  <2>7. Cardinality(ElementStmts(stmts')) = Cardinality(ElementStmts(stmts)) + 0
    BY <2>5, <2>6
  <2> QED BY <2>1, <2>2, <2>7, PassedImports
<1>6. CASE ParseError
  <2>1. /\ Reading("bad") /\ errors' = errors + 1 /\ stack' = Recovered
        /\ UNCHANGED <<program, phase, seen>>
    BY <1>6 DEF ParseError
  <2> QED BY <1>0, <2>1, RecoveredImports DEF ImportInv
<1>7. CASE EndFile
  BY <1>7, EndFileImports
<1>8. CASE Resolve \/ Analyze \/ LowerToBackend \/ Emit \/ Terminated \/ UNCHANGED vars
  <2>1. /\ UNCHANGED <<program, parserVars>>
        /\ phase' # "open" \/ phase = "open"
        /\ phase' = phase \/ phase' \notin {"parse", "collect"}
        /\ phase # "parse" \/ phase' = "parse"
    BY <1>8 DEF Resolve, CollectDecl, EndCollect, ProcessTop, InlineGroup, InlineEnd,
       SynthesizeSpecials, EndResolve, Analyze, AnalyzePortArity, StartSearch, LookAtSuccessor,
       LeaveNode, AnalyzeCycles, LowerToBackend, Emit, Terminated, vars
  <2>2. phase' \in {"parse", "collect"} /\ errors' = 0 => errors = 0
    <3>1. CASE CollectDecl
      <4>1. errors' = errors \/ errors' = errors + 1
        BY <3>1 DEF CollectDecl
      <4> QED BY <1>0, <4>1
    <3>2. CASE phase' \notin {"parse", "collect"} \/ errors' = errors
      BY <3>2
    <3> QED BY <1>8, <3>1, <3>2 DEF Resolve, EndCollect, ProcessTop, InlineGroup, InlineEnd,
          SynthesizeSpecials, EndResolve, Analyze, AnalyzePortArity, StartSearch,
          LookAtSuccessor, LeaveNode, AnalyzeCycles, LowerToBackend, Emit, Terminated, vars
  <2> QED BY <2>1, <2>2, LaterImports, SMTT(30)
<1> QED BY <1>1, <1>2, <1>3, <1>4, <1>5, <1>6, <1>7, <1>8 DEF Next, Parse

LEMMA InitImports == Init => ImportInv
PROOF
<1> SUFFICES ASSUME Init PROVE ImportInv
  OBVIOUS
<1>1. stack = <<>> /\ seen = {} /\ stmts = <<>> /\ phase = "open"
  BY DEF Init
<1>2. DOMAIN stack = {}
  BY <1>1, EmptyList, ListIs
<1> QED BY <1>1, <1>2, FS_EmptySet DEF ImportInv, Apart

\* At the end of the input every file that was seen has been read, and what they
\* import has been seen: the files seen are those that imports reach.
LEMMA ImportsRight == ASSUME Shape, ImportInv PROVE ImportedOnce
PROOF
<1>1. ASSUME phase = "collect", errors = 0
      PROVE  Cardinality(ElementStmts(stmts)) = SumFunction([f \in Reached |-> Cardinality(ElementsOf(f))])
  <2>1. stack = <<>> /\ ImportsOK(stack, seen, stmts)
    BY <1>1 DEF ImportInv
  <2>2. DOMAIN stack = {}
    BY <2>1, EmptyList, ListIs
  <2>3. \A f : ReadOf(stack, f) = DOMAIN program.files[f]
    BY <2>2 DEF ReadOf
  <2>4. seen \in ClosedSets(DOMAIN program.files, ImportPairs)
    <3>1. ASSUME NEW p \in ImportPairs, p[1] \in seen PROVE p[2] \in seen
      <4>1. PICK i \in DOMAIN program.files[p[1]] :
              program.files[p[1]][i].form = "import" /\ program.files[p[1]][i].file = p[2]
        BY DEF ImportPairs
      <4> QED BY <2>1, <2>3, <3>1, <4>1 DEF ImportsOK
    <3> QED BY <2>1, <3>1 DEF ClosedSets, ImportsOK
  <2>5. Reached = seen
    BY <2>1, <2>4 DEF Reached, ImportsOK
  <2>6. \A f : ElementsOf(f) \cap ReadOf(stack, f) = ElementsOf(f)
    BY <2>3 DEF ElementsOf
  <2>7. Counted(stack, seen) = SumFunction([f \in seen |-> Cardinality(ElementsOf(f))])
    BY <2>6 DEF Counted
  <2> QED BY <2>1, <2>5, <2>7 DEF ImportsOK
<1> QED BY <1>1 DEF ImportedOnce, ImportInv, Apart, ElementStmts

-----------------------------------------------------------------------------
(* The search for components, over any set V of nodes with lists of        *)
(* successors succ.                                                        *)

GraphOK(V, succ) == \A v \in V : IsList(succ[v]) /\ ToSet(succ[v]) \subseteq V

SuccClosed(V, succ) == {S \in SUBSET V : \A x \in S : ToSet(succ[x]) \subseteq S}

Reaches(V, succ, x, y) == \A S \in SuccClosed(V, succ) : x \in S => y \in S

Component(V, succ, x) == {y \in V : Reaches(V, succ, x, y) /\ Reaches(V, succ, y, x)}

\* The successors of x at which the loop of strong(x) has looked: all of them
\* if strong(x) has come to its end.
Looked(succ, t, x) ==
  {succ[x][i] : i \in {j \in DOMAIN succ[x] :
                         \A k \in DOMAIN t.calls : t.calls[k].v = x => j < t.calls[k].next}}

\* The nodes on the stack, and those whose component is complete.
Stacked(t)  == ToSet(t.stk)
Complete(t) == DOMAIN t.idx \ Stacked(t)

\* A node is numbered when it is first met.  The stack, and the activations of
\* strong, which are nodes of the stack and a path in the graph, are in that order.
SearchType(V, succ, t) ==
  /\ DOMAIN t = {"idx", "low", "counter", "stk", "sccs", "calls"}
  /\ t.counter \in Nat /\ DOMAIN t.idx \subseteq V /\ DOMAIN t.low = DOMAIN t.idx
  /\ \A x \in DOMAIN t.idx : t.idx[x] \in Nat /\ t.idx[x] < t.counter /\ t.low[x] \in Nat
  /\ \A x, y \in DOMAIN t.idx : t.idx[x] = t.idx[y] => x = y
  /\ IsList(t.stk) /\ Stacked(t) \subseteq DOMAIN t.idx
  /\ \A i, j \in DOMAIN t.stk : i < j => t.idx[t.stk[i]] < t.idx[t.stk[j]]
  /\ IsList(t.calls)

PathOK(succ, t) ==
  /\ \A k \in DOMAIN t.calls :
       /\ t.calls[k] \in [v : Stacked(t), next : Nat \ {0}]
       /\ t.calls[k].next <= Len(succ[t.calls[k].v]) + 1
  /\ \A j, k \in DOMAIN t.calls : j < k => t.idx[t.calls[j].v] < t.idx[t.calls[k].v]
  /\ \A k \in DOMAIN t.calls : k < Len(t.calls) =>
       /\ t.calls[k].next <= Len(succ[t.calls[k].v])
       /\ succ[t.calls[k].v][t.calls[k].next] = t.calls[k + 1].v

\* What is complete is closed, and made of components.
CompleteOK(V, succ, t) ==
  /\ UNION t.sccs = Complete(t)
  /\ \A x \in Complete(t) : ToSet(succ[x]) \subseteq Complete(t)
  /\ \A C \in t.sccs : C # {} /\ \A x \in C : C = Component(V, succ, x)

\* A node of the stack reaches those above it, and one of the path at or below it.
StackConnected(V, succ, t) ==
  /\ \A x \in Stacked(t) : Looked(succ, t, x) \subseteq DOMAIN t.idx
  /\ \A x, y \in Stacked(t) : t.idx[x] <= t.idx[y] => Reaches(V, succ, x, y)
  /\ \A x \in Stacked(t) : \E k \in DOMAIN t.calls :
       t.idx[t.calls[k].v] <= t.idx[x] /\ Reaches(V, succ, x, t.calls[k].v)

\* low of a node of the path is the number of a node of the stack that it reaches,
\* and none that the nodes from it up to the next one of the path have looked at
\* is lower.
LowRight(V, succ, t) ==
  /\ \A k \in DOMAIN t.calls :
       /\ t.low[t.calls[k].v] <= t.idx[t.calls[k].v]
       /\ \E w \in Stacked(t) : t.idx[w] = t.low[t.calls[k].v]
                                  /\ Reaches(V, succ, t.calls[k].v, w)
  /\ \A k \in DOMAIN t.calls : \A x \in Stacked(t) : \A w \in Looked(succ, t, x) \cap Stacked(t) :
       /\ t.idx[t.calls[k].v] <= t.idx[x]
       /\ k < Len(t.calls) => t.idx[x] < t.idx[t.calls[k + 1].v]
       => t.low[t.calls[k].v] <= t.idx[w]

SearchInv(V, succ, t) ==
  /\ SearchType(V, succ, t) /\ PathOK(succ, t) /\ CompleteOK(V, succ, t)
  /\ StackConnected(V, succ, t) /\ LowRight(V, succ, t)

LEMMA ReachRules ==
  ASSUME NEW V, NEW succ
  PROVE  /\ \A x : Reaches(V, succ, x, x)
         /\ \A x, y, z : Reaches(V, succ, x, y) /\ Reaches(V, succ, y, z) => Reaches(V, succ, x, z)
         /\ \A x : \A y \in ToSet(succ[x]) : Reaches(V, succ, x, y)
BY DEF Reaches, SuccClosed

LEMMA NewSearchOK == ASSUME NEW V, NEW succ PROVE SearchInv(V, succ, NewSearch)
PROOF
<1> DEFINE t == NewSearch
<1>1. /\ DOMAIN t = {"idx", "low", "counter", "stk", "sccs", "calls"}
      /\ t.idx = <<>> /\ t.low = <<>> /\ t.counter = 0 /\ t.stk = <<>> /\ t.sccs = {}
      /\ t.calls = <<>>
  BY DEF NewSearch
<1>2. IsList(<<>>) /\ DOMAIN <<>> = {} /\ ToSet(<<>>) = {}
  BY EmptyList, ListIs
<1> HIDE DEF t
<1>3. Stacked(t) = {} /\ Complete(t) = {} /\ DOMAIN t.idx = {} /\ DOMAIN t.calls = {}
  BY <1>1, <1>2 DEF Stacked, Complete
<1>4. SearchType(V, succ, t)
  BY <1>1, <1>2, <1>3 DEF SearchType
<1>5. PathOK(succ, t)
  BY <1>3 DEF PathOK
<1>6. CompleteOK(V, succ, t)
  BY <1>1, <1>3 DEF CompleteOK
<1>7. StackConnected(V, succ, t) /\ LowRight(V, succ, t)
  BY <1>3 DEF StackConnected, LowRight
<1> QED BY <1>4, <1>5, <1>6, <1>7 DEF SearchInv, t

\* The activation at the top of the path, if there is one.
LEMMA TopOfPath ==
  ASSUME NEW V, NEW succ, GraphOK(V, succ), NEW t, SearchInv(V, succ, t), t.calls # <<>>
  PROVE  LET m == Len(t.calls)
             c == Last(t.calls)
         IN  /\ m \in Nat \ {0} /\ DOMAIN t.calls = 1 .. m /\ t.calls[m] = c /\ m \in DOMAIN t.calls
             /\ c.v \in Stacked(t) /\ c.v \in DOMAIN t.idx /\ c.v \in V
             /\ c.next \in Nat \ {0} /\ c.next <= Len(succ[c.v]) + 1
             /\ Len(succ[c.v]) \in Nat /\ DOMAIN succ[c.v] = 1 .. Len(succ[c.v])
             /\ \A x \in Stacked(t) : Reaches(V, succ, x, c.v)
             /\ \A k \in DOMAIN t.calls : t.calls[k].v = c.v => k = m
PROOF
<1> DEFINE m == Len(t.calls)
           c == Last(t.calls)
<1>1. IsList(t.calls) /\ m \in Nat /\ DOMAIN t.calls = 1 .. m
  BY ListIs DEF SearchInv, SearchType
<1>2. m # 0
  <2> SUFFICES ASSUME m = 0 PROVE FALSE
    OBVIOUS
  <2>1. t.calls \in Seq(ToSet(t.calls))
    BY <1>1 DEF IsList
  <2> QED BY <2>1, EmptySeq
<1>3. m \in DOMAIN t.calls /\ t.calls[m] = c
  BY <1>1, <1>2 DEF Last
<1>4. /\ c.v \in Stacked(t) /\ c.next \in Nat \ {0} /\ c.next <= Len(succ[c.v]) + 1
  BY <1>3 DEF SearchInv, PathOK
<1>5. c.v \in DOMAIN t.idx /\ c.v \in V
  BY <1>4 DEF SearchInv, SearchType
<1>6. Len(succ[c.v]) \in Nat /\ DOMAIN succ[c.v] = 1 .. Len(succ[c.v])
  BY <1>5, ListIs DEF GraphOK
<1>7. \A k \in DOMAIN t.calls : /\ t.idx[t.calls[k].v] \in Nat /\ t.idx[t.calls[k].v] <= t.idx[c.v]
                                /\ k # m => t.idx[t.calls[k].v] < t.idx[c.v]
  <2> SUFFICES ASSUME NEW k \in DOMAIN t.calls
               PROVE  /\ t.idx[t.calls[k].v] \in Nat /\ t.idx[t.calls[k].v] <= t.idx[c.v]
                      /\ k # m => t.idx[t.calls[k].v] < t.idx[c.v]
    OBVIOUS
  <2>1. t.calls[k].v \in Stacked(t)
    BY DEF SearchInv, PathOK
  <2>2. t.idx[t.calls[k].v] \in Nat /\ t.idx[c.v] \in Nat
    BY <1>5, <2>1 DEF SearchInv, SearchType
  <2>3. k < m => t.idx[t.calls[k].v] < t.idx[c.v]
    BY <1>3 DEF SearchInv, PathOK
  <2>4. k < m \/ k = m
    BY <1>1
  <2> QED BY <1>3, <2>2, <2>3, <2>4
<1>8. ASSUME NEW x \in Stacked(t) PROVE Reaches(V, succ, x, c.v)
  <2>1. PICK k \in DOMAIN t.calls : Reaches(V, succ, x, t.calls[k].v)
    BY DEF SearchInv, StackConnected
  <2>2. t.calls[k].v \in Stacked(t)
    BY DEF SearchInv, PathOK
  <2>3. Reaches(V, succ, t.calls[k].v, c.v)
    BY <1>4, <1>7, <2>2 DEF SearchInv, StackConnected
  <2> QED BY <2>1, <2>3, ReachRules
<1>9. \A k \in DOMAIN t.calls : t.calls[k].v = c.v => k = m
  <2> SUFFICES ASSUME NEW k \in DOMAIN t.calls, t.calls[k].v = c.v, k # m PROVE FALSE
    OBVIOUS
  <2>1. t.idx[c.v] < t.idx[c.v] /\ t.idx[c.v] \in Nat
    BY <1>3, <1>7
  <2> QED BY <2>1
<1> QED BY <1>1, <1>2, <1>3, <1>4, <1>5, <1>6, <1>8, <1>9

\* Without one the stack is empty.
LEMMA EmptyPath ==
  ASSUME NEW V, NEW succ, NEW t, SearchInv(V, succ, t), t.calls = <<>>
  PROVE  DOMAIN t.calls = {} /\ Stacked(t) = {}
PROOF
<1>1. DOMAIN t.calls = {}
  BY EmptyList, ListIs
<1> QED BY <1>1 DEF SearchInv, StackConnected

\* A node is entered.
LEMMA Entered ==
  ASSUME NEW V, NEW succ, GraphOK(V, succ), NEW t, SearchInv(V, succ, t), NEW v \in V \ DOMAIN t.idx
  PROVE  LET u == Enter(t, v)
             m == Len(t.calls)
         IN  /\ DOMAIN u = {"idx", "low", "counter", "stk", "sccs", "calls"}
             /\ DOMAIN u.idx = DOMAIN t.idx \cup {v} /\ DOMAIN u.low = DOMAIN t.idx \cup {v}
             /\ \A x \in DOMAIN t.idx : x # v /\ u.idx[x] = t.idx[x] /\ u.low[x] = t.low[x]
             /\ u.idx[v] = t.counter /\ u.low[v] = t.counter
             /\ u.counter = t.counter + 1 /\ u.sccs = t.sccs
             /\ u.stk = Append(t.stk, v)
             /\ Stacked(u) = Stacked(t) \cup {v} /\ v \notin Stacked(t)
             /\ m \in Nat /\ DOMAIN t.calls = 1 .. m /\ IsList(u.calls) /\ Len(u.calls) = m + 1
             /\ DOMAIN u.calls = 1 .. m + 1
             /\ \A k \in DOMAIN t.calls : k \in DOMAIN u.calls /\ u.calls[k] = t.calls[k]
             /\ m + 1 \in DOMAIN u.calls
             /\ u.calls[m + 1].v = v /\ u.calls[m + 1].next = 1
             /\ u.calls[m + 1] = [v |-> v, next |-> 1]
             /\ \A x \in Stacked(t) : Looked(succ, u, x) = Looked(succ, t, x)
             /\ Looked(succ, u, v) = {}
PROOF
<1> DEFINE u == Enter(t, v)
           m == Len(t.calls)
           x0 == [v |-> v, next |-> 1]
<1>1. /\ DOMAIN t = {"idx", "low", "counter", "stk", "sccs", "calls"}
      /\ DOMAIN t.low = DOMAIN t.idx /\ IsList(t.stk) /\ IsList(t.calls)
      /\ Stacked(t) \subseteq DOMAIN t.idx
  BY DEF SearchInv, SearchType
<1>2. /\ DOMAIN u = {"idx", "low", "counter", "stk", "sccs", "calls"}
      /\ u.idx = Extended(t.idx, v, t.counter) /\ u.low = Extended(t.low, v, t.counter)
      /\ u.counter = t.counter + 1 /\ u.sccs = t.sccs
      /\ u.stk = Append(t.stk, v) /\ u.calls = Append(t.calls, x0)
  BY <1>1 DEF Enter
<1>3. \A f : /\ DOMAIN Extended(f, v, t.counter) = DOMAIN f \cup {v}
             /\ Extended(f, v, t.counter)[v] = t.counter
             /\ \A x \in DOMAIN f : x # v => Extended(f, v, t.counter)[x] = f[x]
  BY DEF Extended
<1> HIDE DEF u
<1>4. /\ DOMAIN u.idx = DOMAIN t.idx \cup {v} /\ DOMAIN u.low = DOMAIN t.idx \cup {v}
      /\ \A x \in DOMAIN t.idx : x # v /\ u.idx[x] = t.idx[x] /\ u.low[x] = t.low[x]
      /\ u.idx[v] = t.counter /\ u.low[v] = t.counter
  <2> DEFINE f == t.idx
             g == t.low
  <2>1. /\ u.idx = Extended(f, v, t.counter) /\ u.low = Extended(g, v, t.counter)
        /\ DOMAIN g = DOMAIN f /\ v \notin DOMAIN f
    BY <1>1, <1>2
  <2> HIDE DEF f, g
  <2>2. /\ DOMAIN u.idx = DOMAIN f \cup {v} /\ DOMAIN u.low = DOMAIN f \cup {v}
        /\ u.idx[v] = t.counter /\ u.low[v] = t.counter
    BY <1>3, <2>1
  <2>3. \A x \in DOMAIN f : x # v /\ u.idx[x] = f[x] /\ u.low[x] = g[x]
    BY <1>3, <2>1
  <2> QED BY <2>2, <2>3 DEF f, g
<1>5. Stacked(u) = Stacked(t) \cup {v} /\ v \notin Stacked(t)
  BY <1>1, <1>2, ListAppend DEF Stacked
<1>6. x0.v = v /\ x0.next = 1
  OBVIOUS
<1>7. /\ m \in Nat /\ DOMAIN t.calls = 1 .. m /\ IsList(u.calls) /\ Len(u.calls) = m + 1
      /\ \A k \in 1 .. m : u.calls[k] = t.calls[k]
      /\ u.calls[m + 1] = x0
  <2> HIDE DEF x0
  <2> QED BY <1>1, <1>2, ListAppend, ListIs
<1>8. DOMAIN u.calls = 1 .. m + 1
  BY <1>7, ListIs
<1>9. /\ \A k \in DOMAIN t.calls : k \in DOMAIN u.calls /\ u.calls[k] = t.calls[k]
      /\ m + 1 \in DOMAIN u.calls
      /\ \A k \in DOMAIN u.calls : k \in DOMAIN t.calls \/ k = m + 1
  BY <1>7, <1>8
<1>10. ASSUME NEW x \in Stacked(t) PROVE Looked(succ, u, x) = Looked(succ, t, x)
  <2>1. x # v
    BY <1>5
  <2> HIDE DEF m, x0
  <2>2. \A j : (\A k \in DOMAIN u.calls : u.calls[k].v = x => j < u.calls[k].next)
                 <=> (\A k \in DOMAIN t.calls : t.calls[k].v = x => j < t.calls[k].next)
    BY <1>6, <1>7, <1>9, <2>1
  <2> QED BY <2>2 DEF Looked
<1>11. Looked(succ, u, v) = {}
  <2>1. \A j \in DOMAIN succ[v] : ~(j < 1)
    BY ListIs DEF GraphOK
  <2> HIDE DEF m, x0
  <2>2. \A j : (\A k \in DOMAIN u.calls : u.calls[k].v = v => j < u.calls[k].next) => j < 1
    BY <1>6, <1>7, <1>9
  <2> QED BY <2>1, <2>2 DEF Looked
<1> QED BY <1>2, <1>4, <1>5, <1>6, <1>7, <1>8, <1>9, <1>10, <1>11 DEF u

LEMMA EnterOK ==
  ASSUME NEW V, NEW succ, GraphOK(V, succ), NEW t, SearchInv(V, succ, t), NEW v \in V \ DOMAIN t.idx,
         t.calls # <<>> => /\ Last(t.calls).next \in DOMAIN succ[Last(t.calls).v]
                           /\ succ[Last(t.calls).v][Last(t.calls).next] = v
  PROVE  SearchInv(V, succ, Enter(t, v))
PROOF
<1> DEFINE u == Enter(t, v)
           m == Len(t.calls)
           R(x, y) == Reaches(V, succ, x, y)
<1>1. /\ DOMAIN u = {"idx", "low", "counter", "stk", "sccs", "calls"}
      /\ DOMAIN u.idx = DOMAIN t.idx \cup {v} /\ DOMAIN u.low = DOMAIN t.idx \cup {v}
      /\ \A x \in DOMAIN t.idx : x # v /\ u.idx[x] = t.idx[x] /\ u.low[x] = t.low[x]
      /\ u.idx[v] = t.counter /\ u.low[v] = t.counter
      /\ u.counter = t.counter + 1 /\ u.sccs = t.sccs
      /\ u.stk = Append(t.stk, v)
      /\ Stacked(u) = Stacked(t) \cup {v} /\ v \notin Stacked(t)
      /\ m \in Nat /\ DOMAIN t.calls = 1 .. m /\ IsList(u.calls) /\ Len(u.calls) = m + 1
      /\ DOMAIN u.calls = 1 .. m + 1
      /\ \A k \in DOMAIN t.calls : k \in DOMAIN u.calls /\ u.calls[k] = t.calls[k]
      /\ m + 1 \in DOMAIN u.calls
      /\ u.calls[m + 1].v = v /\ u.calls[m + 1].next = 1
      /\ u.calls[m + 1] = [v |-> v, next |-> 1]
      /\ \A x \in Stacked(t) : Looked(succ, u, x) = Looked(succ, t, x)
      /\ Looked(succ, u, v) = {}
  BY Entered
<1>2. /\ t.counter \in Nat /\ DOMAIN t.idx \subseteq V /\ DOMAIN t.low = DOMAIN t.idx
      /\ \A x \in DOMAIN t.idx : t.idx[x] \in Nat /\ t.idx[x] < t.counter /\ t.low[x] \in Nat
      /\ \A x, y \in DOMAIN t.idx : t.idx[x] = t.idx[y] => x = y
      /\ IsList(t.stk) /\ Stacked(t) \subseteq DOMAIN t.idx
      /\ \A i, j \in DOMAIN t.stk : i < j => t.idx[t.stk[i]] < t.idx[t.stk[j]]
      /\ IsList(t.calls)
  BY DEF SearchInv, SearchType
<1>3. \A k \in DOMAIN t.calls : t.calls[k].v \in Stacked(t) /\ t.calls[k].v \in DOMAIN t.idx
  BY <1>2 DEF SearchInv, PathOK
<1>4. \A k \in DOMAIN u.calls : k \in DOMAIN t.calls \/ k = m + 1
  BY <1>1
<1>11. /\ \A x \in Stacked(t) : x \in DOMAIN t.idx /\ x # v /\ u.idx[x] = t.idx[x]
                                /\ t.idx[x] \in Nat /\ t.idx[x] < t.counter
       /\ t.counter \in Nat /\ u.idx[v] = t.counter /\ u.low[v] = t.counter
  BY <1>1, <1>2
<1>5. \A x \in Stacked(t) : R(x, v)
  <2> SUFFICES ASSUME NEW x \in Stacked(t) PROVE R(x, v)
    OBVIOUS
  <2>1. t.calls # <<>>
    BY EmptyPath
  <2>2. R(x, Last(t.calls).v)
    BY <2>1, TopOfPath
  <2>3. v \in ToSet(succ[Last(t.calls).v])
    BY <2>1 DEF ToSet
  <2>4. R(Last(t.calls).v, v)
    BY <2>3, ReachRules
  <2> QED BY <2>2, <2>4, ReachRules
<1> HIDE DEF u
<1>6. SearchType(V, succ, u)
  <2>1. \A x \in DOMAIN u.idx : u.idx[x] \in Nat /\ u.idx[x] < u.counter /\ u.low[x] \in Nat
    BY <1>1, <1>2
  <2>2. \A x, y \in DOMAIN u.idx : u.idx[x] = u.idx[y] => x = y
    BY <1>1, <1>2
  <2>3. /\ IsList(u.stk) /\ Len(u.stk) = Len(t.stk) + 1 /\ Len(t.stk) \in Nat
        /\ \A i \in 1 .. Len(t.stk) : u.stk[i] = t.stk[i]
        /\ u.stk[Len(t.stk) + 1] = v
        /\ DOMAIN t.stk = 1 .. Len(t.stk)
    BY <1>1, <1>2, ListAppend, ListIs
  <2>4. DOMAIN u.stk = 1 .. Len(t.stk) + 1
    BY <2>3, ListIs
  <2>5. \A i \in DOMAIN t.stk : t.stk[i] \in DOMAIN t.idx
    BY <1>2 DEF Stacked, ToSet
  <2>6. ASSUME NEW i \in DOMAIN u.stk, NEW j \in DOMAIN u.stk, i < j
        PROVE  u.idx[u.stk[i]] < u.idx[u.stk[j]]
    <3>1. i \in DOMAIN t.stk /\ (j \in DOMAIN t.stk \/ j = Len(t.stk) + 1)
      BY <2>3, <2>4, <2>6
    <3>2. u.stk[i] = t.stk[i] /\ t.stk[i] \in DOMAIN t.idx
      BY <2>3, <2>5, <3>1
    <3>3. CASE j \in DOMAIN t.stk
      <4>1. u.stk[j] = t.stk[j] /\ t.stk[j] \in DOMAIN t.idx
        BY <2>3, <2>5, <3>3
      <4>2. t.idx[t.stk[i]] < t.idx[t.stk[j]]
        BY <1>2, <2>6, <3>1, <3>3
      <4> QED BY <1>1, <3>2, <4>1, <4>2
    <3>4. CASE j = Len(t.stk) + 1
      BY <1>1, <1>2, <2>3, <3>2, <3>4
    <3> QED BY <3>1, <3>3, <3>4
  <2>7. Stacked(u) \subseteq DOMAIN u.idx /\ DOMAIN u.idx \subseteq V
    BY <1>1, <1>2
  <2>8. u.counter \in Nat
    BY <1>1, <1>2
  <2> QED BY <1>1, <2>1, <2>2, <2>3, <2>6, <2>7, <2>8 DEF SearchType
<1>7. PathOK(succ, u)
  <2>1. ASSUME NEW k \in DOMAIN u.calls
        PROVE  /\ u.calls[k] \in [v : Stacked(u), next : Nat \ {0}]
               /\ u.calls[k].next <= Len(succ[u.calls[k].v]) + 1
    <3>1. CASE k \in DOMAIN t.calls
      <4>1. /\ t.calls[k] \in [v : Stacked(t), next : Nat \ {0}]
            /\ t.calls[k].next <= Len(succ[t.calls[k].v]) + 1
        BY <3>1 DEF SearchInv, PathOK
      <4> QED BY <1>1, <3>1, <4>1
    <3>2. CASE k = m + 1
      <4>1. Len(succ[v]) \in Nat
        BY ListIs DEF GraphOK
      <4> QED BY <1>1, <3>2, <4>1
    <3> QED BY <1>4, <3>1, <3>2
  <2>2. ASSUME NEW j \in DOMAIN u.calls, NEW k \in DOMAIN u.calls, j < k
        PROVE  u.idx[u.calls[j].v] < u.idx[u.calls[k].v]
    <3>1. j \in DOMAIN t.calls
      BY <1>1, <2>2
    <3>2. CASE k \in DOMAIN t.calls
      <4>1. t.idx[t.calls[j].v] < t.idx[t.calls[k].v]
        BY <2>2, <3>1, <3>2 DEF SearchInv, PathOK
      <4> QED BY <1>1, <1>3, <3>1, <3>2, <4>1
    <3>3. CASE k = m + 1
      <4>1. u.idx[u.calls[k].v] = t.counter
        BY <1>1, <3>3
      <4>2. u.calls[j].v = t.calls[j].v /\ t.calls[j].v \in Stacked(t)
        BY <1>1, <1>3, <3>1
      <4> QED BY <1>11, <4>1, <4>2
    <3> QED BY <1>4, <3>2, <3>3
  <2>3. ASSUME NEW k \in DOMAIN u.calls, k < Len(u.calls)
        PROVE  /\ u.calls[k].next <= Len(succ[u.calls[k].v])
               /\ succ[u.calls[k].v][u.calls[k].next] = u.calls[k + 1].v
    <3>1. k \in DOMAIN t.calls
      BY <1>1, <2>3
    <3>2. CASE k < m
      <4>1. k + 1 \in DOMAIN t.calls
        BY <1>1, <3>2
      <4>2. /\ t.calls[k].next <= Len(succ[t.calls[k].v])
            /\ succ[t.calls[k].v][t.calls[k].next] = t.calls[k + 1].v
        BY <3>1, <3>2 DEF SearchInv, PathOK
      <4>3. u.calls[k] = t.calls[k] /\ u.calls[k + 1] = t.calls[k + 1]
        BY <1>1, <3>1, <4>1
      <4> QED BY <4>2, <4>3
    <3>3. CASE k = m
      <4>1. t.calls # <<>>
        BY <1>1, <3>1, EmptyPath
      <4>2. /\ t.calls[m] = Last(t.calls) /\ Last(t.calls).next <= Len(succ[Last(t.calls).v])
            /\ succ[Last(t.calls).v][Last(t.calls).next] = v
        BY <4>1, TopOfPath
      <4> QED BY <1>1, <3>1, <3>3, <4>2
    <3> QED BY <1>1, <3>1, <3>2, <3>3
  <2> QED BY <2>1, <2>2, <2>3 DEF PathOK
<1>8. CompleteOK(V, succ, u)
  <2>1. Complete(u) = Complete(t)
    BY <1>1 DEF Complete
  <2> QED BY <1>1, <2>1 DEF SearchInv, CompleteOK
<1>9. StackConnected(V, succ, u)
  <2>1. \A x \in Stacked(u) : Looked(succ, u, x) \subseteq DOMAIN u.idx
    BY <1>1 DEF SearchInv, StackConnected
  <2>2. ASSUME NEW x \in Stacked(u), NEW y \in Stacked(u), u.idx[x] <= u.idx[y]
        PROVE  R(x, y)
    <3>1. CASE y = v
      BY <1>1, <1>5, <3>1, ReachRules
    <3>2. CASE y # v
      <4>1. y \in Stacked(t) /\ x \in Stacked(t)
        BY <1>1, <1>2, <2>2, <3>2
      <4>2. t.idx[x] <= t.idx[y]
        BY <1>1, <1>2, <2>2, <4>1
      <4> QED BY <4>1, <4>2 DEF SearchInv, StackConnected
    <3> QED BY <3>1, <3>2
  <2>3. ASSUME NEW x \in Stacked(u)
        PROVE  \E k \in DOMAIN u.calls : u.idx[u.calls[k].v] <= u.idx[x] /\ R(x, u.calls[k].v)
    <3>1. CASE x = v
      <4>1. /\ m + 1 \in DOMAIN u.calls /\ u.calls[m + 1].v = x
            /\ u.idx[u.calls[m + 1].v] <= u.idx[x]
        BY <1>1, <1>2, <3>1
      <4>2. R(x, u.calls[m + 1].v)
        BY <4>1, ReachRules
      <4> QED BY <4>1, <4>2
    <3>2. CASE x \in Stacked(t)
      <4>1. PICK k \in DOMAIN t.calls : t.idx[t.calls[k].v] <= t.idx[x] /\ R(x, t.calls[k].v)
        BY <3>2 DEF SearchInv, StackConnected
      <4>2. /\ k \in DOMAIN u.calls /\ u.calls[k] = t.calls[k]
            /\ u.idx[u.calls[k].v] <= u.idx[x]
        <5>1. k \in DOMAIN u.calls /\ u.calls[k] = t.calls[k]
          BY <1>1
        <5>2. t.calls[k].v \in Stacked(t)
          BY <1>3
        <5> QED BY <1>11, <3>2, <4>1, <5>1, <5>2
      <4>3. R(x, u.calls[k].v)
        BY <4>1, <4>2
      <4> HIDE DEF R
      <4> QED BY <4>2, <4>3
    <3> QED BY <1>1, <3>1, <3>2
  <2> QED BY <2>1, <2>2, <2>3 DEF StackConnected
<1>10. LowRight(V, succ, u)
  <2>1. ASSUME NEW k \in DOMAIN u.calls
        PROVE  /\ u.low[u.calls[k].v] <= u.idx[u.calls[k].v]
               /\ \E w \in Stacked(u) : u.idx[w] = u.low[u.calls[k].v] /\ R(u.calls[k].v, w)
    <3>1. CASE k \in DOMAIN t.calls
      <4>1. t.low[t.calls[k].v] <= t.idx[t.calls[k].v]
        BY <3>1 DEF SearchInv, LowRight
      <4>2. PICK w \in Stacked(t) : t.idx[w] = t.low[t.calls[k].v] /\ R(t.calls[k].v, w)
        BY <3>1 DEF SearchInv, LowRight
      <4>3. /\ u.calls[k].v = t.calls[k].v /\ t.calls[k].v \in Stacked(t)
            /\ u.low[t.calls[k].v] = t.low[t.calls[k].v] /\ w \in Stacked(u)
        BY <1>1, <1>3, <3>1
      <4> HIDE DEF R
      <4> QED BY <1>11, <4>1, <4>2, <4>3
    <3>2. CASE k = m + 1
      BY <1>1, <1>2, <3>2, ReachRules
    <3> QED BY <1>4, <3>1, <3>2
  <2>2. ASSUME NEW k \in DOMAIN u.calls, NEW x \in Stacked(u),
               NEW w \in Looked(succ, u, x) \cap Stacked(u),
               u.idx[u.calls[k].v] <= u.idx[x],
               k < Len(u.calls) => u.idx[x] < u.idx[u.calls[k + 1].v]
        PROVE  u.low[u.calls[k].v] <= u.idx[w]
    <3>1. x \in Stacked(t) /\ w \in Looked(succ, t, x)
      BY <1>1, <2>2
    <3>2. w \in DOMAIN t.idx /\ w \in Stacked(t) /\ x \in DOMAIN t.idx
      BY <1>1, <1>2, <2>2, <3>1 DEF SearchInv, StackConnected
    <3>3. k \in DOMAIN t.calls
      BY <1>1, <1>2, <1>4, <2>2, <3>2
    <3>4. u.calls[k] = t.calls[k] /\ t.calls[k].v \in DOMAIN t.idx
      BY <1>1, <1>3, <3>3
    <3>5. k < Len(t.calls) => t.idx[x] < t.idx[t.calls[k + 1].v]
      <4> SUFFICES ASSUME k < m PROVE t.idx[x] < t.idx[t.calls[k + 1].v]
        OBVIOUS
      <4>1. k + 1 \in DOMAIN t.calls /\ k < Len(u.calls)
        BY <1>1, <3>3
      <4>2. u.calls[k + 1] = t.calls[k + 1] /\ t.calls[k + 1].v \in DOMAIN t.idx
        BY <1>1, <1>3, <4>1
      <4> QED BY <1>1, <2>2, <3>2, <4>1, <4>2
    <3>6. t.idx[t.calls[k].v] <= t.idx[x]
      BY <1>1, <2>2, <3>2, <3>4
    <3>7. t.low[t.calls[k].v] <= t.idx[w]
      BY <3>1, <3>2, <3>3, <3>5, <3>6 DEF SearchInv, LowRight
    <3> QED BY <1>1, <3>2, <3>4, <3>7
  <2> QED BY <2>1, <2>2 DEF LowRight
<1> QED BY <1>6, <1>7, <1>8, <1>9, <1>10 DEF SearchInv, u

\* Positions on the path are those of different nodes.
LEMMA PathInjective ==
  ASSUME NEW V, NEW succ, NEW t, SearchInv(V, succ, t)
  PROVE  /\ IsList(t.calls) /\ Len(t.calls) \in Nat /\ DOMAIN t.calls = 1 .. Len(t.calls)
         /\ \A k \in DOMAIN t.calls :
              /\ t.calls[k].v \in Stacked(t) /\ t.calls[k].v \in DOMAIN t.idx
              /\ t.calls[k].next \in Nat \ {0}
              /\ DOMAIN t.calls[k] = {"v", "next"}
         /\ \A j, k \in DOMAIN t.calls : t.calls[j].v = t.calls[k].v => j = k
PROOF
<1>1. IsList(t.calls) /\ Len(t.calls) \in Nat /\ DOMAIN t.calls = 1 .. Len(t.calls)
  BY ListIs DEF SearchInv, SearchType
<1>2. ASSUME NEW k \in DOMAIN t.calls
      PROVE  /\ t.calls[k].v \in Stacked(t) /\ t.calls[k].v \in DOMAIN t.idx
             /\ t.calls[k].next \in Nat \ {0}
             /\ DOMAIN t.calls[k] = {"v", "next"}
             /\ t.idx[t.calls[k].v] \in Nat
  <2>1. t.calls[k] \in [v : Stacked(t), next : Nat \ {0}]
    BY DEF SearchInv, PathOK
  <2> QED BY <2>1 DEF SearchInv, SearchType
<1>3. ASSUME NEW j \in DOMAIN t.calls, NEW k \in DOMAIN t.calls, t.calls[j].v = t.calls[k].v, j # k
      PROVE  FALSE
  <2>1. j < k \/ k < j
    BY <1>1, <1>3
  <2>2. t.idx[t.calls[j].v] < t.idx[t.calls[j].v]
    BY <1>3, <2>1 DEF SearchInv, PathOK
  <2> QED BY <1>2, <2>2
<1> QED BY <1>1, <1>2, <1>3

\* The loop of the node at position n of the path, which is or becomes the last one,
\* goes on to the next successor.
AdvancedTo(succ, t, u, n) ==
  /\ n \in Nat /\ n <= Len(t.calls)
  /\ \A k \in DOMAIN t.calls : k > n => t.calls[k].next > Len(succ[t.calls[k].v])
  /\ n > 0 => t.calls[n].next <= Len(succ[t.calls[n].v])
  /\ DOMAIN u.calls = 1 .. n
  /\ \A k \in 1 .. n : /\ u.calls[k].v = t.calls[k].v
                       /\ u.calls[k].next = t.calls[k].next + (IF k = n THEN 1 ELSE 0)

LEMMA Advanced ==
  ASSUME NEW V, NEW succ, GraphOK(V, succ), NEW t, SearchInv(V, succ, t), NEW u, NEW n,
         AdvancedTo(succ, t, u, n)
  PROVE  /\ \A x \in Stacked(t) : ~(n > 0 /\ x = t.calls[n].v) => Looked(succ, u, x) = Looked(succ, t, x)
         /\ n > 0 => Looked(succ, u, t.calls[n].v)
                       = Looked(succ, t, t.calls[n].v) \cup {succ[t.calls[n].v][t.calls[n].next]}
PROOF
<1>0. /\ n \in Nat /\ n <= Len(t.calls)
      /\ \A k \in DOMAIN t.calls : k > n => t.calls[k].next > Len(succ[t.calls[k].v])
      /\ n > 0 => t.calls[n].next <= Len(succ[t.calls[n].v])
      /\ DOMAIN u.calls = 1 .. n
      /\ \A k \in 1 .. n : /\ u.calls[k].v = t.calls[k].v
                           /\ u.calls[k].next = t.calls[k].next + (IF k = n THEN 1 ELSE 0)
  BY DEF AdvancedTo
<1>1. /\ Len(t.calls) \in Nat /\ DOMAIN t.calls = 1 .. Len(t.calls)
      /\ \A k \in DOMAIN t.calls :
              /\ t.calls[k].v \in Stacked(t) /\ t.calls[k].v \in DOMAIN t.idx
              /\ t.calls[k].next \in Nat \ {0}
      /\ \A j, k \in DOMAIN t.calls : t.calls[j].v = t.calls[k].v => j = k
  BY PathInjective
<1>2. \A x \in Stacked(t) : Len(succ[x]) \in Nat /\ DOMAIN succ[x] = 1 .. Len(succ[x])
  BY ListIs DEF GraphOK, SearchInv, SearchType
<1> DEFINE L(a, x) == {j \in DOMAIN succ[x] : \A k \in DOMAIN a.calls :
                                                a.calls[k].v = x => j < a.calls[k].next}
<1>3. \A a, x : Looked(succ, a, x) = {succ[x][i] : i \in L(a, x)}
  BY DEF Looked
<1>4. 1 .. n \subseteq DOMAIN t.calls
  BY <1>0, <1>1
<1>5. ASSUME NEW x \in Stacked(t), ~(n > 0 /\ x = t.calls[n].v) PROVE L(u, x) = L(t, x)
  <2>1. ASSUME NEW k \in 1 .. n, k = n PROVE u.calls[k].v # x
    <3>1. n > 0
      BY <1>0, <2>1
    <3>2. u.calls[k].v = t.calls[k].v
      BY <1>0
    <3> QED BY <1>5, <2>1, <3>1, <3>2
  <2>2. ASSUME NEW k \in 1 .. n, k # n PROVE u.calls[k].next = t.calls[k].next
    <3>1. t.calls[k].next \in Nat
      BY <1>1, <1>4
    <3>2. u.calls[k].next = t.calls[k].next + 0
      BY <1>0, <2>2
    <3> QED BY <3>1, <3>2
  <2>3. \A k \in DOMAIN t.calls : k \in 1 .. n \/ k > n
    BY <1>0, <1>1
  <2>4. ASSUME NEW k \in DOMAIN t.calls, k > n, t.calls[k].v = x, NEW j \in DOMAIN succ[x]
        PROVE  j < t.calls[k].next
    <3>1. t.calls[k].next > Len(succ[x]) /\ t.calls[k].next \in Nat
      BY <1>0, <1>1, <2>4
    <3> QED BY <1>2, <3>1
  <2>5. \A j \in DOMAIN succ[x] :
          (\A k \in DOMAIN u.calls : u.calls[k].v = x => j < u.calls[k].next)
            <=> (\A k \in DOMAIN t.calls : t.calls[k].v = x => j < t.calls[k].next)
    BY <1>0, <1>4, <2>1, <2>2, <2>3, <2>4
  <2> QED BY <2>5
<1>6. ASSUME n > 0
      PROVE  L(u, t.calls[n].v) = L(t, t.calls[n].v) \cup {t.calls[n].next}
  <2> DEFINE y == t.calls[n].v
             i == t.calls[n].next
  <2>1. n \in 1 .. n /\ n \in DOMAIN t.calls
    BY <1>0, <1>4, <1>6
  <2>2. \A k \in DOMAIN t.calls : t.calls[k].v = y => k = n
    BY <1>1, <2>1
  <2>3. i \in DOMAIN succ[y] /\ \A j \in DOMAIN succ[y] : j \in Nat
    BY <1>0, <1>1, <1>2, <1>6, <2>1
  <2>4. u.calls[n].v = y /\ u.calls[n].next = i + 1
    BY <1>0, <2>1
  <2>5. \A k \in 1 .. n : u.calls[k].v = y => k = n
    BY <1>0, <1>4, <2>2
  <2>6. i \in Nat
    BY <1>1, <2>1
  <2> HIDE DEF y, i
  <2>7. \A j \in DOMAIN succ[y] : j \in L(u, y) <=> j < i + 1
    BY <1>0, <2>1, <2>4, <2>5
  <2>8. \A j \in DOMAIN succ[y] : j \in L(t, y) <=> j < i
    BY <2>1, <2>2 DEF y, i
  <2>9. \A j \in DOMAIN succ[y] : j < i + 1 <=> j < i \/ j = i
    BY <2>3, <2>6
  <2>10. L(u, y) \subseteq DOMAIN succ[y] /\ L(t, y) \subseteq DOMAIN succ[y]
    OBVIOUS
  <2> HIDE DEF L
  <2>11. L(u, y) = L(t, y) \cup {i}
    BY <2>3, <2>7, <2>8, <2>9, <2>10
  <2> QED BY <2>11 DEF y, i
<1> HIDE DEF L
<1>7. ASSUME n > 0
      PROVE Looked(succ, u, t.calls[n].v)
              = Looked(succ, t, t.calls[n].v) \cup {succ[t.calls[n].v][t.calls[n].next]}
  BY <1>3, <1>6, <1>7
<1>8. ASSUME NEW x \in Stacked(t), ~(n > 0 /\ x = t.calls[n].v)
      PROVE  Looked(succ, u, x) = Looked(succ, t, x)
  BY <1>3, <1>5, <1>8
<1> QED BY <1>7, <1>8

\* A successor that has been met.
LEMMA LookedAt ==
  ASSUME NEW V, NEW succ, GraphOK(V, succ), NEW t, SearchInv(V, succ, t), t.calls # <<>>,
         Last(t.calls).next <= Len(succ[Last(t.calls).v]),
         succ[Last(t.calls).v][Last(t.calls).next] \in DOMAIN t.idx
  PROVE  LET u == Look(succ, t)
             c == Last(t.calls)
             w == succ[c.v][c.next]
             m == Len(t.calls)
         IN  /\ DOMAIN u = {"idx", "low", "counter", "stk", "sccs", "calls"}
             /\ u.idx = t.idx /\ u.counter = t.counter /\ u.sccs = t.sccs /\ u.stk = t.stk
             /\ DOMAIN u.low = DOMAIN t.low /\ \A x \in DOMAIN t.low : x # c.v => u.low[x] = t.low[x]
             /\ u.low[c.v] = IF w \in Stacked(t) THEN Least(t.low[c.v], t.idx[w]) ELSE t.low[c.v]
             /\ IsList(u.calls) /\ Len(u.calls) = m /\ DOMAIN u.calls = 1 .. m
             /\ \A k \in 1 .. m : /\ u.calls[k].v = t.calls[k].v
                                  /\ u.calls[k].next = t.calls[k].next + (IF k = m THEN 1 ELSE 0)
                                  /\ DOMAIN u.calls[k] = {"v", "next"}
                                  /\ u.calls[k] \in [v : Stacked(t), next : Nat \ {0}]
PROOF
<1> DEFINE u == Look(succ, t)
           c == Last(t.calls)
           w == succ[c.v][c.next]
           m == Len(t.calls)
<1>1. /\ m \in Nat \ {0} /\ DOMAIN t.calls = 1 .. m /\ t.calls[m] = c /\ m \in DOMAIN t.calls
      /\ c.v \in DOMAIN t.idx
  BY TopOfPath
<1>2. /\ DOMAIN t = {"idx", "low", "counter", "stk", "sccs", "calls"} /\ DOMAIN t.low = DOMAIN t.idx
      /\ IsList(t.stk)
  BY DEF SearchInv, SearchType
<1>3. Contains(t.stk, w) <=> w \in Stacked(t)
  BY <1>2, ListIs DEF Contains, Stacked, ToSet
<1>4. u = [t EXCEPT !.low[c.v] = IF Contains(t.stk, w) THEN Least(@, t.idx[w]) ELSE @,
                    !.calls[m].next = @ + 1]
  BY DEF Look
<1>5. /\ DOMAIN u = {"idx", "low", "counter", "stk", "sccs", "calls"}
      /\ u.idx = t.idx /\ u.counter = t.counter /\ u.sccs = t.sccs /\ u.stk = t.stk
      /\ u.low = [t.low EXCEPT ![c.v] = IF Contains(t.stk, w) THEN Least(@, t.idx[w]) ELSE @]
      /\ u.calls = [t.calls EXCEPT ![m].next = @ + 1]
  BY <1>2, <1>4
<1>6. /\ DOMAIN u.low = DOMAIN t.low /\ \A x \in DOMAIN t.low : x # c.v => u.low[x] = t.low[x]
      /\ u.low[c.v] = IF w \in Stacked(t) THEN Least(t.low[c.v], t.idx[w]) ELSE t.low[c.v]
  BY <1>1, <1>2, <1>3, <1>5
<1>7. \A k \in 1 .. m : t.calls[k] \in [v : Stacked(t), next : Nat \ {0}]
  BY <1>1 DEF SearchInv, PathOK
<1> DEFINE x == [t.calls[m] EXCEPT !.next = @ + 1]
<1>8. /\ x.v = t.calls[m].v /\ x.next = t.calls[m].next + 1
      /\ x \in [v : Stacked(t), next : Nat \ {0}]
  BY <1>1, <1>7
<1>9. u.calls = [t.calls EXCEPT ![m] = x]
  BY <1>5
<1> HIDE DEF x
<1>10. IsList(u.calls) /\ Len(u.calls) = m
  <2>1. IsList(t.calls) /\ Len(t.calls) > 0
    BY <1>1 DEF SearchInv, SearchType
  <2> DEFINE cs == t.calls
  <2>2. u.calls = [cs EXCEPT ![Len(cs)] = x]
    BY <1>9
  <2> HIDE DEF u, cs
  <2>3. IsList(cs) /\ Len(cs) > 0
    BY <2>1 DEF cs
  <2>4. IsList([cs EXCEPT ![Len(cs)] = x]) /\ Len([cs EXCEPT ![Len(cs)] = x]) = Len(cs)
    BY <2>3, ListLast
  <2>5. IsList(u.calls) /\ Len(u.calls) = Len(cs)
    BY <2>2, <2>4
  <2> QED BY <2>5 DEF cs
<1>11. DOMAIN u.calls = 1 .. m
  BY <1>10, ListIs
<1>12. ASSUME NEW k \in 1 .. m
       PROVE  /\ u.calls[k].v = t.calls[k].v
              /\ u.calls[k].next = t.calls[k].next + (IF k = m THEN 1 ELSE 0)
              /\ u.calls[k] \in [v : Stacked(t), next : Nat \ {0}]
  <2>1. CASE k = m
    <3>1. u.calls[k] = x
      BY <1>1, <1>9, <2>1
    <3> QED BY <1>8, <2>1, <3>1
  <2>2. CASE k # m
    <3>1. u.calls[k] = t.calls[k]
      BY <1>1, <1>9, <2>2
    <3> QED BY <1>7, <2>2, <3>1
  <2> QED BY <2>1, <2>2
<1> HIDE DEF u
<1>13. \A k \in 1 .. m : DOMAIN u.calls[k] = {"v", "next"}
  BY <1>12
<1> QED BY <1>5, <1>6, <1>10, <1>11, <1>12, <1>13 DEF u

LEMMA LookOK ==
  ASSUME NEW V, NEW succ, GraphOK(V, succ), NEW t, SearchInv(V, succ, t), t.calls # <<>>,
         Last(t.calls).next <= Len(succ[Last(t.calls).v])
  PROVE  SearchInv(V, succ, Look(succ, t))
PROOF
<1> DEFINE u == Look(succ, t)
           c == Last(t.calls)
           w == succ[c.v][c.next]
           m == Len(t.calls)
           R(x, y) == Reaches(V, succ, x, y)
<1>1. /\ m \in Nat \ {0} /\ DOMAIN t.calls = 1 .. m /\ t.calls[m] = c /\ m \in DOMAIN t.calls
      /\ c.v \in Stacked(t) /\ c.v \in DOMAIN t.idx /\ c.v \in V
      /\ c.next \in DOMAIN succ[c.v] /\ Len(succ[c.v]) \in Nat /\ c.next \in Nat
      /\ c.next <= Len(succ[c.v])
  BY TopOfPath
<1>2. w \in V /\ w \in ToSet(succ[c.v])
  BY <1>1 DEF GraphOK, ToSet
<1>3. CASE w \notin DOMAIN t.idx
  <2>1. u = Enter(t, w)
    BY <1>3 DEF Look
  <2>2. w \in V \ DOMAIN t.idx
    BY <1>2, <1>3
  <2> HIDE DEF u
  <2>3. SearchInv(V, succ, Enter(t, w))
    BY <1>1, <2>2, EnterOK
  <2> QED BY <2>1, <2>3 DEF u
<1>4. CASE w \in DOMAIN t.idx
  <2>1. /\ DOMAIN u = {"idx", "low", "counter", "stk", "sccs", "calls"}
        /\ u.idx = t.idx /\ u.counter = t.counter /\ u.sccs = t.sccs /\ u.stk = t.stk
        /\ DOMAIN u.low = DOMAIN t.low /\ \A x \in DOMAIN t.low : x # c.v => u.low[x] = t.low[x]
        /\ u.low[c.v] = IF w \in Stacked(t) THEN Least(t.low[c.v], t.idx[w]) ELSE t.low[c.v]
        /\ IsList(u.calls) /\ Len(u.calls) = m /\ DOMAIN u.calls = 1 .. m
        /\ \A k \in 1 .. m : /\ u.calls[k].v = t.calls[k].v
                             /\ u.calls[k].next = t.calls[k].next + (IF k = m THEN 1 ELSE 0)
                             /\ u.calls[k] \in [v : Stacked(t), next : Nat \ {0}]
    BY <1>4, LookedAt
  <2> HIDE DEF u
  <2>2. /\ t.counter \in Nat /\ DOMAIN t.idx \subseteq V /\ DOMAIN t.low = DOMAIN t.idx
        /\ \A x \in DOMAIN t.idx : t.idx[x] \in Nat /\ t.idx[x] < t.counter /\ t.low[x] \in Nat
        /\ Stacked(t) \subseteq DOMAIN t.idx
    BY DEF SearchInv, SearchType
  <2>3. Stacked(u) = Stacked(t) /\ Complete(u) = Complete(t) /\ u.idx = t.idx
    BY <2>1 DEF Stacked, Complete
  <2>12. /\ DOMAIN u.calls = 1 .. m /\ Len(u.calls) = m /\ m \in Nat
         /\ \A k \in 1 .. m : k \in DOMAIN t.calls /\ u.calls[k].v = t.calls[k].v
    BY <1>1, <2>1
  <2>4. /\ \A k \in DOMAIN t.calls : t.calls[k].v \in Stacked(t)
        /\ \A j, k \in DOMAIN t.calls : t.calls[j].v = t.calls[k].v => j = k
    BY PathInjective
  <2>5. /\ \A x \in Stacked(t) : x # c.v => Looked(succ, u, x) = Looked(succ, t, x)
        /\ Looked(succ, u, c.v) = Looked(succ, t, c.v) \cup {w}
    <3>1. /\ m \in Nat /\ m = Len(t.calls) /\ m > 0 /\ t.calls[m].next <= Len(succ[t.calls[m].v])
      BY <1>1
    <3>3. AdvancedTo(succ, t, u, m)
      BY <1>1, <2>1, <3>1 DEF AdvancedTo
    <3> HIDE DEF m, c
    <3>2. /\ \A x \in Stacked(t) : ~(m > 0 /\ x = t.calls[m].v)
                                     => Looked(succ, u, x) = Looked(succ, t, x)
          /\ m > 0 => Looked(succ, u, t.calls[m].v)
                       = Looked(succ, t, t.calls[m].v) \cup {succ[t.calls[m].v][t.calls[m].next]}
      BY <3>3, Advanced
    <3> QED BY <1>1, <3>1, <3>2
  <2>6. /\ u.low[c.v] \in Nat /\ u.low[c.v] <= t.low[c.v]
        /\ w \in Stacked(t) => u.low[c.v] <= t.idx[w]
        /\ u.low[c.v] = t.low[c.v] \/ (w \in Stacked(t) /\ u.low[c.v] = t.idx[w])
    <3>1. t.low[c.v] \in Nat /\ t.idx[w] \in Nat
      BY <1>1, <1>4, <2>2
    <3> DEFINE a == t.low[c.v]
               b == t.idx[w]
    <3>2. u.low[c.v] = IF w \in Stacked(t) THEN Least(a, b) ELSE a
      BY <2>1
    <3>3. a \in Nat /\ b \in Nat
      BY <3>1
    <3> HIDE DEF a, b, w
    <3>4. /\ Least(a, b) \in Nat /\ Least(a, b) <= a /\ Least(a, b) <= b
          /\ Least(a, b) = a \/ Least(a, b) = b
      BY <3>3 DEF Least
    <3>5. /\ u.low[c.v] \in Nat /\ u.low[c.v] <= a
          /\ w \in Stacked(t) => u.low[c.v] <= b
          /\ u.low[c.v] = a \/ (w \in Stacked(t) /\ u.low[c.v] = b)
      BY <3>2, <3>3, <3>4
    <3> QED BY <3>5 DEF a, b
  <2> HIDE DEF c, w
  <2>13. \A x \in DOMAIN t.idx : u.low[x] \in Nat
    <3>1. \A x \in DOMAIN t.idx : x # c.v => u.low[x] = t.low[x]
      BY <2>1, <2>2
    <3> QED BY <2>2, <2>6, <3>1
  <2>7. SearchType(V, succ, u)
    <3>1. \A x \in DOMAIN u.idx : u.idx[x] \in Nat /\ u.idx[x] < u.counter /\ u.low[x] \in Nat
      BY <2>1, <2>2, <2>13
    <3> QED BY <2>1, <2>3, <3>1 DEF SearchInv, SearchType
  <2>8. PathOK(succ, u)
    <3>1. ASSUME NEW k \in DOMAIN u.calls PROVE u.calls[k].next <= Len(succ[u.calls[k].v]) + 1
      <4>1. k \in DOMAIN t.calls /\ u.calls[k].v = t.calls[k].v /\ k \in 1 .. m
        BY <1>1, <2>1
      <4>2. CASE k = m
        <5>1. u.calls[k].next = c.next + 1
          BY <1>1, <2>1, <4>1, <4>2
        <5>2. u.calls[k].v = c.v
          BY <1>1, <4>1, <4>2
        <5>3. c.next <= Len(succ[c.v]) /\ c.next \in Nat /\ Len(succ[c.v]) \in Nat
          BY <1>1
        <5> QED BY <5>1, <5>2, <5>3
      <4>3. CASE k # m
        <5>1. t.calls[k].next \in Nat \ {0} /\ t.calls[k].next <= Len(succ[t.calls[k].v]) + 1
          BY <4>1 DEF SearchInv, PathOK
        <5>2. u.calls[k].next = t.calls[k].next
          BY <2>1, <4>1, <4>3, <5>1
        <5> QED BY <4>1, <5>1, <5>2
      <4> QED BY <4>2, <4>3
    <3>2. \A j, k \in DOMAIN u.calls : j < k => u.idx[u.calls[j].v] < u.idx[u.calls[k].v]
      BY <2>3, <2>12 DEF SearchInv, PathOK
    <3>3. ASSUME NEW k \in DOMAIN u.calls, k < Len(u.calls)
          PROVE  /\ u.calls[k].next <= Len(succ[u.calls[k].v])
                 /\ succ[u.calls[k].v][u.calls[k].next] = u.calls[k + 1].v
      <4>1. k \in 1 .. m /\ k + 1 \in 1 .. m /\ k # m /\ k \in DOMAIN t.calls
        BY <1>1, <2>1, <3>3
      <4>2. t.calls[k].next \in Nat
        BY <4>1 DEF SearchInv, PathOK
      <4>3. u.calls[k].next = t.calls[k].next /\ u.calls[k].v = t.calls[k].v
            /\ u.calls[k + 1].v = t.calls[k + 1].v
        BY <2>1, <4>1, <4>2
      <4>4. /\ t.calls[k].next <= Len(succ[t.calls[k].v])
            /\ succ[t.calls[k].v][t.calls[k].next] = t.calls[k + 1].v
        BY <2>12, <3>3, <4>1 DEF SearchInv, PathOK
      <4> QED BY <4>3, <4>4
    <3>4. \A k \in DOMAIN u.calls : u.calls[k] \in [v : Stacked(u), next : Nat \ {0}]
      BY <2>1, <2>3
    <3> QED BY <3>1, <3>2, <3>3, <3>4 DEF PathOK
  <2>9. CompleteOK(V, succ, u)
    BY <2>1, <2>3 DEF SearchInv, CompleteOK
  <2>10. StackConnected(V, succ, u)
    <3>1. \A x \in Stacked(u) : Looked(succ, u, x) \subseteq DOMAIN u.idx
      <4>1. \A x \in Stacked(t) : Looked(succ, t, x) \subseteq DOMAIN t.idx
        BY DEF SearchInv, StackConnected
      <4>2. \A x \in Stacked(t) : Looked(succ, u, x) \subseteq Looked(succ, t, x) \cup {w}
        BY <2>5
      <4> QED BY <1>4, <2>3, <4>1, <4>2
    <3>2. \A x, y \in Stacked(u) : u.idx[x] <= u.idx[y] => R(x, y)
      BY <2>3 DEF SearchInv, StackConnected
    <3>3. ASSUME NEW x \in Stacked(u)
          PROVE  \E k \in DOMAIN u.calls : u.idx[u.calls[k].v] <= u.idx[x] /\ R(x, u.calls[k].v)
      <4>1. PICK k \in DOMAIN t.calls : t.idx[t.calls[k].v] <= t.idx[x] /\ R(x, t.calls[k].v)
        BY <2>3 DEF SearchInv, StackConnected
      <4>2. k \in DOMAIN u.calls /\ u.calls[k].v = t.calls[k].v
        BY <1>1, <2>12
      <4> HIDE DEF R
      <4> QED BY <2>3, <4>1, <4>2
    <3> QED BY <3>1, <3>2, <3>3 DEF StackConnected
  <2>11. LowRight(V, succ, u)
    <3>1. ASSUME NEW k \in DOMAIN u.calls
          PROVE  /\ u.low[u.calls[k].v] <= u.idx[u.calls[k].v]
                 /\ \E x \in Stacked(u) : u.idx[x] = u.low[u.calls[k].v] /\ R(u.calls[k].v, x)
      <4>1. /\ k \in DOMAIN t.calls /\ u.calls[k].v = t.calls[k].v
            /\ t.calls[k].v \in DOMAIN t.idx
        BY <2>2, <2>4, <2>12
      <4>2. t.low[t.calls[k].v] <= t.idx[t.calls[k].v]
        BY <4>1 DEF SearchInv, LowRight
      <4>3. PICK x \in Stacked(t) : t.idx[x] = t.low[t.calls[k].v] /\ R(t.calls[k].v, x)
        BY <4>1 DEF SearchInv, LowRight
      <4>4. CASE t.calls[k].v # c.v \/ u.low[c.v] = t.low[c.v]
        <5>1. u.low[t.calls[k].v] = t.low[t.calls[k].v]
          BY <2>1, <2>2, <4>1, <4>4
        <5> HIDE DEF R
        <5> QED BY <2>3, <4>1, <4>2, <4>3, <5>1
      <4>5. CASE t.calls[k].v = c.v /\ w \in Stacked(t) /\ u.low[c.v] = t.idx[w]
        <5>1. R(c.v, w)
          BY <1>2, ReachRules
        <5>2. u.low[c.v] <= t.idx[c.v]
          <6>1. /\ u.low[c.v] <= t.low[c.v] /\ t.low[c.v] <= t.idx[c.v]
                /\ u.low[c.v] \in Nat /\ t.low[c.v] \in Nat /\ t.idx[c.v] \in Nat
            BY <1>1, <2>2, <2>6, <4>2, <4>5
          <6> QED BY <6>1
        <5> HIDE DEF R
        <5> QED BY <2>3, <4>1, <4>5, <5>1, <5>2
      <4> QED BY <2>6, <4>4, <4>5
    <3>2. ASSUME NEW k \in DOMAIN u.calls, NEW x \in Stacked(u),
                 NEW y \in Looked(succ, u, x) \cap Stacked(u),
                 u.idx[u.calls[k].v] <= u.idx[x],
                 k < Len(u.calls) => u.idx[x] < u.idx[u.calls[k + 1].v]
          PROVE  u.low[u.calls[k].v] <= u.idx[y]
      <4>1. /\ k \in DOMAIN t.calls /\ u.calls[k].v = t.calls[k].v
            /\ t.calls[k].v \in DOMAIN t.idx /\ x \in DOMAIN t.idx /\ y \in DOMAIN t.idx
            /\ t.idx[y] \in Nat /\ t.idx[t.calls[k].v] <= t.idx[x]
        BY <2>2, <2>3, <2>4, <2>12, <3>2
      <4>2. /\ u.low[t.calls[k].v] <= t.low[t.calls[k].v]
            /\ u.low[t.calls[k].v] \in Nat /\ t.low[t.calls[k].v] \in Nat
        <5>1. t.low[t.calls[k].v] \in Nat
          BY <2>2, <4>1
        <5>2. t.calls[k].v # c.v => u.low[t.calls[k].v] = t.low[t.calls[k].v]
          BY <2>1, <2>2, <4>1
        <5>3. CASE t.calls[k].v = c.v
          BY <2>6, <5>1, <5>3
        <5> QED BY <5>1, <5>2, <5>3
      <4>3. k < Len(t.calls) => t.idx[x] < t.idx[t.calls[k + 1].v]
        <5> SUFFICES ASSUME k < m PROVE t.idx[x] < t.idx[t.calls[k + 1].v]
          OBVIOUS
        <5>1. k + 1 \in 1 .. m /\ k < Len(u.calls)
          BY <1>1, <2>1, <4>1
        <5> QED BY <2>1, <3>2, <5>1
      <4>4. CASE y \in Looked(succ, t, x)
        <5>1. t.low[t.calls[k].v] <= t.idx[y]
          <6>1. x \in Stacked(t) /\ y \in Looked(succ, t, x) \cap Stacked(t)
            BY <2>3, <4>4
          <6> QED BY <4>1, <4>3, <6>1 DEF SearchInv, LowRight
        <5> QED BY <2>3, <4>1, <4>2, <5>1
      <4>5. CASE y \notin Looked(succ, t, x)
        <5>1. x = c.v /\ y = w
          BY <2>3, <2>5, <4>5
        <5>2. k = m
          <6>1. ~(k < m)
            <7> SUFFICES ASSUME k < m PROVE FALSE
              OBVIOUS
            <7>1. t.idx[c.v] < t.idx[t.calls[k + 1].v]
              BY <4>3, <5>1
            <7>2. k + 1 \in DOMAIN t.calls /\ (k + 1 < m \/ k + 1 = m)
              BY <1>1, <4>1
            <7>3. k + 1 < m => t.idx[t.calls[k + 1].v] < t.idx[c.v]
              BY <1>1, <7>2 DEF SearchInv, PathOK
            <7>4. t.idx[c.v] \in Nat /\ t.idx[t.calls[k + 1].v] \in Nat
              BY <1>1, <2>2, <2>4, <7>2
            <7>5. CASE k + 1 = m
              <8>1. t.idx[c.v] < t.idx[c.v]
                BY <1>1, <7>1, <7>5
              <8> QED BY <7>4, <8>1
            <7>6. CASE k + 1 < m
              BY <7>1, <7>3, <7>4, <7>6
            <7> QED BY <7>2, <7>5, <7>6
          <6> QED BY <2>12, <6>1
        <5>3. t.calls[k].v = c.v
          BY <1>1, <5>2
        <5> QED BY <2>3, <2>6, <4>1, <5>1, <5>3
      <4> QED BY <4>4, <4>5
    <3> QED BY <3>1, <3>2 DEF LowRight
  <2> QED BY <2>7, <2>8, <2>9, <2>10, <2>11, SMTT(30) DEF SearchInv, u
<1> QED BY <1>3, <1>4

\* A part of a list.
LEMMA ListPart ==
  ASSUME NEW s, IsList(s), NEW a \in 1 .. Len(s) + 1, NEW b \in 0 .. Len(s), a <= b + 1
  PROVE  LET p == SubSeq(s, a, b)
         IN  /\ IsList(p) /\ Len(p) = b - a + 1 /\ \A i \in 1 .. b - a + 1 : p[i] = s[a + i - 1]
             /\ ToSet(p) = {s[i] : i \in a .. b}
PROOF
<1> DEFINE p == SubSeq(s, a, b)
           S == {s[i] : i \in a .. b}
<1>1. a \in Int /\ b \in Int /\ Len(s) \in Nat
  BY ListIs
<1>2. \A i \in a .. b : s[i] \in S
  OBVIOUS
<1> HIDE DEF S
<1>3. /\ p \in Seq(S) /\ Len(p) = (IF a <= b THEN b - a + 1 ELSE 0)
      /\ \A i \in 1 .. b - a + 1 : p[i] = s[a + i - 1]
  BY <1>1, <1>2, SubSeqProperties
<1>4. Len(p) = b - a + 1
  BY <1>1, <1>3
<1> HIDE DEF p
<1>5. IsList(p) /\ ToSet(p) \subseteq S
  BY <1>3, ListIn
<1>6. DOMAIN p = 1 .. b - a + 1
  BY <1>4, <1>5, ListIs
<1>7. ASSUME NEW i \in a .. b PROVE s[i] \in ToSet(p)
  <2>1. i - a + 1 \in 1 .. b - a + 1 /\ a + (i - a + 1) - 1 = i
    BY <1>1
  <2>2. p[i - a + 1] = s[i]
    BY <1>3, <2>1
  <2> QED BY <1>6, <2>1, <2>2 DEF ToSet
<1>8. S \subseteq ToSet(p)
  BY <1>7 DEF S
<1> QED BY <1>3, <1>4, <1>5, <1>8 DEF S, p

\* The stack is cut at position h, where the node v is.
CutAt(t, h, v) ==
  LET lo == SubSeq(t.stk, 1, h - 1)
      hi == SubSeq(t.stk, h, Len(t.stk))
  IN  /\ IsList(lo) /\ \A i \in DOMAIN lo : i \in DOMAIN t.stk /\ lo[i] = t.stk[i]
      /\ ToSet(lo) = {x \in Stacked(t) : t.idx[x] < t.idx[v]}
      /\ ToSet(hi) = {x \in Stacked(t) : t.idx[v] <= t.idx[x]}

LEMMA StackCut ==
  ASSUME NEW V, NEW succ, NEW t, SearchInv(V, succ, t), NEW h \in DOMAIN t.stk, NEW v, t.stk[h] = v
  PROVE  CutAt(t, h, v)
PROOF
<1> DEFINE n  == Len(t.stk)
           lo == SubSeq(t.stk, 1, h - 1)
           hi == SubSeq(t.stk, h, n)
<1>1. /\ IsList(t.stk) /\ Stacked(t) \subseteq DOMAIN t.idx
      /\ \A x \in DOMAIN t.idx : t.idx[x] \in Nat
      /\ \A i, j \in DOMAIN t.stk : i < j => t.idx[t.stk[i]] < t.idx[t.stk[j]]
  BY DEF SearchInv, SearchType
<1>2. n \in Nat /\ DOMAIN t.stk = 1 .. n
  BY <1>1, ListIs
<1>3. Stacked(t) = {t.stk[i] : i \in 1 .. n}
  BY <1>2 DEF Stacked, ToSet
<1>4. h \in 1 .. n /\ t.stk[h] = v /\ v \in Stacked(t)
  BY <1>2, <1>3
<1>5. /\ IsList(lo) /\ Len(lo) = h - 1 /\ \A i \in 1 .. h - 1 : lo[i] = t.stk[i]
      /\ ToSet(lo) = {t.stk[i] : i \in 1 .. h - 1}
  <2>1. 1 \in 1 .. n + 1 /\ h - 1 \in 0 .. n /\ 1 <= (h - 1) + 1 /\ (h - 1) - 1 + 1 = h - 1
        /\ \A i \in 1 .. h - 1 : 1 + i - 1 = i
    BY <1>2, <1>4
  <2> DEFINE b == h - 1
  <2>3. IsList(t.stk) /\ 1 \in 1 .. Len(t.stk) + 1 /\ b \in 0 .. Len(t.stk) /\ 1 <= b + 1
    BY <1>1, <2>1
  <2> HIDE DEF b
  <2>2. /\ IsList(SubSeq(t.stk, 1, b)) /\ Len(SubSeq(t.stk, 1, b)) = b - 1 + 1
        /\ \A i \in 1 .. b - 1 + 1 : SubSeq(t.stk, 1, b)[i] = t.stk[1 + i - 1]
        /\ ToSet(SubSeq(t.stk, 1, b)) = {t.stk[i] : i \in 1 .. b}
    BY <2>3, ListPart
  <2> QED BY <2>1, <2>2 DEF b
<1>6. ToSet(hi) = {t.stk[i] : i \in h .. n}
  <2>1. IsList(t.stk) /\ h \in 1 .. Len(t.stk) + 1 /\ n \in 0 .. Len(t.stk) /\ h <= n + 1
    BY <1>1, <1>2, <1>4
  <2> HIDE DEF n
  <2>2. ToSet(SubSeq(t.stk, h, n)) = {t.stk[i] : i \in h .. n}
    BY <2>1, ListPart
  <2> QED BY <2>2 DEF n
<1> HIDE DEF CutAt, lo, hi, n
<1>7. DOMAIN lo = 1 .. h - 1
  BY <1>5, ListIs
<1>8. \A i \in 1 .. n : t.stk[i] \in Stacked(t) /\ t.idx[t.stk[i]] \in Nat
  BY <1>1, <1>3
<1>9. \A i \in 1 .. n : i < h => t.idx[t.stk[i]] < t.idx[v]
  BY <1>1, <1>2, <1>4
<1>10. ASSUME NEW i \in 1 .. n, ~(i < h) PROVE t.idx[v] <= t.idx[t.stk[i]]
  <2>1. i = h \/ h < i
    BY <1>2, <1>4, <1>10
  <2>2. t.idx[v] \in Nat /\ t.idx[t.stk[i]] \in Nat
    BY <1>4, <1>8
  <2>3. h < i => t.idx[v] < t.idx[t.stk[i]]
    BY <1>1, <1>2, <1>4
  <2> QED BY <1>4, <2>1, <2>2, <2>3
<1>11. t.idx[v] \in Nat
  BY <1>1, <1>4
<1>12. ToSet(lo) = {x \in Stacked(t) : t.idx[x] < t.idx[v]}
  <2>1. ASSUME NEW i \in 1 .. h - 1 PROVE i \in 1 .. n /\ i < h
    BY <1>2, <1>4
  <2>2. ASSUME NEW i \in 1 .. n, t.idx[t.stk[i]] < t.idx[v] PROVE i \in 1 .. h - 1
    <3>1. i < h
      <4> SUFFICES ASSUME ~(i < h) PROVE FALSE
        OBVIOUS
      <4>1. t.idx[v] <= t.idx[t.stk[i]] /\ t.idx[t.stk[i]] \in Nat
        BY <1>8, <1>10
      <4> QED BY <1>11, <2>2, <4>1
    <3> QED BY <1>2, <1>4, <3>1
  <2> QED BY <1>3, <1>5, <1>9, <2>1, <2>2
<1>13. ToSet(hi) = {x \in Stacked(t) : t.idx[v] <= t.idx[x]}
  <2>1. ASSUME NEW i \in h .. n PROVE i \in 1 .. n /\ ~(i < h)
    BY <1>2, <1>4
  <2>2. ASSUME NEW i \in 1 .. n, t.idx[v] <= t.idx[t.stk[i]] PROVE i \in h .. n
    <3>1. ~(i < h)
      <4> SUFFICES ASSUME i < h PROVE FALSE
        OBVIOUS
      <4>1. t.idx[t.stk[i]] < t.idx[v] /\ t.idx[t.stk[i]] \in Nat
        BY <1>8, <1>9
      <4> QED BY <1>11, <2>2, <4>1
    <3> QED BY <1>2, <1>4, <3>1
  <2> QED BY <1>3, <1>6, <1>10, <2>1, <2>2
<1>14. \A i \in DOMAIN lo : i \in DOMAIN t.stk /\ lo[i] = t.stk[i]
  BY <1>2, <1>4, <1>5, <1>7
<1> QED BY <1>5, <1>12, <1>13, <1>14 DEF CutAt, lo, hi, n

\* strong(v) comes to its end, and leaves u.
LeftAs(t, u, m, v) ==
  /\ m = Len(t.calls) /\ m \in Nat \ {0} /\ DOMAIN t.calls = 1 .. m /\ v = t.calls[m].v
  /\ DOMAIN u = {"idx", "low", "counter", "stk", "sccs", "calls"}
  /\ u.idx = t.idx /\ u.counter = t.counter
  /\ IsList(u.calls) /\ Len(u.calls) = m - 1 /\ DOMAIN u.calls = 1 .. m - 1
  /\ \A k \in 1 .. m - 1 : /\ u.calls[k].v = t.calls[k].v
                           /\ u.calls[k].next = t.calls[k].next + (IF k = m - 1 THEN 1 ELSE 0)
                           /\ u.calls[k] \in [v : Stacked(t), next : Nat \ {0}]
  /\ DOMAIN u.low = DOMAIN t.low
  /\ \A x \in DOMAIN t.low : ~(m > 1 /\ x = t.calls[m - 1].v) => u.low[x] = t.low[x]
  /\ m > 1 => u.low[t.calls[m - 1].v] = Least(t.low[t.calls[m - 1].v], t.low[v])
  /\ t.low[v] # t.idx[v] => u.stk = t.stk /\ u.sccs = t.sccs
  /\ t.low[v] = t.idx[v] =>
       /\ IsList(u.stk) /\ \A i \in DOMAIN u.stk : i \in DOMAIN t.stk /\ u.stk[i] = t.stk[i]
       /\ Stacked(u) = {x \in Stacked(t) : t.idx[x] < t.idx[v]}
       /\ u.sccs = t.sccs \cup {{x \in Stacked(t) : t.idx[v] <= t.idx[x]}}

LEMMA Left ==
  ASSUME NEW V, NEW succ, GraphOK(V, succ), NEW t, SearchInv(V, succ, t), t.calls # <<>>
  PROVE  LeftAs(t, Leave(t), Len(t.calls), Last(t.calls).v)
PROOF
<1> DEFINE u    == Leave(t)
           m    == Len(t.calls)
           v    == Last(t.calls).v
           h    == CHOOSE i \in DOMAIN t.stk : t.stk[i] = v
           lo   == SubSeq(t.stk, 1, h - 1)
           hi   == SubSeq(t.stk, h, Len(t.stk))
           back == [t EXCEPT !.calls = Front(@)]
           a    == IF t.low[v] # t.idx[v] THEN back
                   ELSE [back EXCEPT !.stk = SubSeq(@, 1, h - 1), !.sccs = @ \cup {ToSet(hi)}]
           cs   == Front(t.calls)
<1>1. /\ m \in Nat \ {0} /\ DOMAIN t.calls = 1 .. m /\ v \in Stacked(t)
      /\ IsList(t.calls)
      /\ DOMAIN t = {"idx", "low", "counter", "stk", "sccs", "calls"} /\ DOMAIN t.low = DOMAIN t.idx
      /\ Stacked(t) \subseteq DOMAIN t.idx
  BY TopOfPath DEF SearchInv, SearchType
<1>2. /\ IsList(lo) /\ \A i \in DOMAIN lo : i \in DOMAIN t.stk /\ lo[i] = t.stk[i]
      /\ ToSet(lo) = {x \in Stacked(t) : t.idx[x] < t.idx[v]}
      /\ ToSet(hi) = {x \in Stacked(t) : t.idx[v] <= t.idx[x]}
  <2>1. \E i \in DOMAIN t.stk : t.stk[i] = v
    BY <1>1 DEF Stacked, ToSet
  <2>2. h \in DOMAIN t.stk /\ t.stk[h] = v
    BY <2>1
  <2> HIDE DEF v, h
  <2>3. CutAt(t, h, v)
    BY <2>2, StackCut
  <2> QED BY <2>3 DEF CutAt
<1>3. u = Returned(a, v)
  BY DEF Leave
<1> HIDE DEF h, lo, hi
<1>4. /\ DOMAIN a = {"idx", "low", "counter", "stk", "sccs", "calls"}
      /\ a.idx = t.idx /\ a.low = t.low /\ a.counter = t.counter /\ a.calls = cs
      /\ t.low[v] # t.idx[v] => a.stk = t.stk /\ a.sccs = t.sccs
      /\ t.low[v] = t.idx[v] => a.stk = lo /\ a.sccs = t.sccs \cup {ToSet(hi)}
  BY <1>1 DEF lo
<1>5. /\ IsList(cs) /\ Len(cs) = m - 1 /\ \A i \in 1 .. m - 1 : cs[i] = t.calls[i]
  <2>1. 1 \in 1 .. m + 1 /\ m - 1 \in 0 .. m /\ 1 <= (m - 1) + 1 /\ (m - 1) - 1 + 1 = m - 1
        /\ \A i \in 1 .. m - 1 : 1 + i - 1 = i
    BY <1>1
  <2> DEFINE b == m - 1
  <2>2. IsList(t.calls) /\ 1 \in 1 .. Len(t.calls) + 1 /\ b \in 0 .. Len(t.calls) /\ 1 <= b + 1
    BY <1>1, <2>1
  <2>3. cs = SubSeq(t.calls, 1, b)
    BY DEF Front
  <2> HIDE DEF b, cs
  <2>4. /\ IsList(SubSeq(t.calls, 1, b)) /\ Len(SubSeq(t.calls, 1, b)) = b - 1 + 1
        /\ \A i \in 1 .. b - 1 + 1 : SubSeq(t.calls, 1, b)[i] = t.calls[1 + i - 1]
    BY <2>2, ListPart
  <2> QED BY <2>1, <2>3, <2>4 DEF b
<1>6. DOMAIN cs = 1 .. m - 1
  BY <1>5, ListIs
<1> HIDE DEF u, a, cs, m, back
<1>7. \A k \in 1 .. m - 1 : /\ cs[k].v = t.calls[k].v /\ cs[k].next = t.calls[k].next
                            /\ cs[k].next \in Nat \ {0} /\ cs[k] \in [v : Stacked(t), next : Nat \ {0}]
                            /\ t.calls[k].v \in DOMAIN t.low
  <2>1. \A k \in DOMAIN t.calls : /\ t.calls[k] \in [v : Stacked(t), next : Nat \ {0}]
                                  /\ t.calls[k].v \in DOMAIN t.low
    BY <1>1, PathInjective DEF SearchInv, PathOK
  <2>2. \A k \in 1 .. m - 1 : k \in DOMAIN t.calls
    BY <1>1
  <2> QED BY <1>5, <2>1, <2>2
<1> DEFINE Goal ==
      /\ DOMAIN u = {"idx", "low", "counter", "stk", "sccs", "calls"}
      /\ u.idx = a.idx /\ u.counter = a.counter /\ u.stk = a.stk /\ u.sccs = a.sccs
      /\ IsList(u.calls) /\ Len(u.calls) = m - 1
      /\ \A k \in 1 .. m - 1 : /\ u.calls[k].v = t.calls[k].v
                               /\ u.calls[k].next = t.calls[k].next + (IF k = m - 1 THEN 1 ELSE 0)
                               /\ u.calls[k] \in [v : Stacked(t), next : Nat \ {0}]
      /\ DOMAIN u.low = DOMAIN t.low
      /\ \A x \in DOMAIN t.low : ~(m > 1 /\ x = t.calls[m - 1].v) => u.low[x] = t.low[x]
      /\ m > 1 => u.low[t.calls[m - 1].v] = Least(t.low[t.calls[m - 1].v], t.low[v])
<1>8. ASSUME cs = <<>> PROVE Goal
  <2>1. m = 1
    BY <1>1, <1>5, <1>8, EmptyList
  <2>2. u = a
    BY <1>3, <1>4, <1>8 DEF Returned
  <2>3. ~(m > 1) /\ 1 .. m - 1 = {}
    BY <2>1
  <2>4. /\ DOMAIN u = {"idx", "low", "counter", "stk", "sccs", "calls"}
        /\ u.idx = a.idx /\ u.counter = a.counter /\ u.stk = a.stk /\ u.sccs = a.sccs
        /\ u.low = t.low
    BY <1>4, <2>2
  <2>5. IsList(u.calls) /\ Len(u.calls) = m - 1
    BY <1>4, <1>5, <2>2
  <2>6. \A k \in 1 .. m - 1 : FALSE
    BY <2>3
  <2> QED BY <2>3, <2>4, <2>5, <2>6
<1>9. ASSUME cs # <<>> PROVE Goal
  <2>1. m - 1 > 0 /\ m > 1 /\ m - 1 \in 1 .. m - 1
    <3>1. m - 1 # 0
      <4> SUFFICES ASSUME m - 1 = 0 PROVE FALSE
        OBVIOUS
      <4>1. cs \in Seq(ToSet(cs)) /\ Len(cs) = 0
        BY <1>5, ListIs
      <4> QED BY <1>9, <4>1, EmptySeq
    <3> QED BY <1>1, <3>1
  <2> DEFINE p == Last(cs).v
             x0 == [cs[m - 1] EXCEPT !.next = @ + 1]
  <2>2. u = [a EXCEPT !.low[p] = Least(@, a.low[v]), !.calls[Len(cs)].next = @ + 1]
    BY <1>3, <1>4, <1>9 DEF Returned
  <2>3. p = t.calls[m - 1].v /\ p \in DOMAIN t.low
    BY <1>5, <1>7, <2>1 DEF Last
  <2> HIDE DEF p
  <2>4. /\ DOMAIN u = {"idx", "low", "counter", "stk", "sccs", "calls"}
        /\ u.idx = a.idx /\ u.counter = a.counter /\ u.stk = a.stk /\ u.sccs = a.sccs
        /\ u.low = [t.low EXCEPT ![p] = Least(@, t.low[v])]
        /\ u.calls = [cs EXCEPT ![Len(cs)] = x0]
    BY <1>4, <1>5, <2>2
  <2>5. /\ x0.v = t.calls[m - 1].v /\ x0.next = t.calls[m - 1].next + 1
        /\ x0 \in [v : Stacked(t), next : Nat \ {0}]
    BY <1>7, <2>1
  <2> HIDE DEF x0
  <2>6. IsList(u.calls) /\ Len(u.calls) = m - 1
    <3>1. IsList([cs EXCEPT ![Len(cs)] = x0]) /\ Len([cs EXCEPT ![Len(cs)] = x0]) = Len(cs)
      BY <1>5, <2>1, ListLast
    <3> QED BY <1>5, <2>4, <3>1
  <2>7. \A k \in 1 .. m - 1 : u.calls[k] = IF k = m - 1 THEN x0 ELSE cs[k]
    BY <1>5, <1>6, <2>4
  <2>8. ASSUME NEW k \in 1 .. m - 1
        PROVE  /\ u.calls[k].v = t.calls[k].v
               /\ u.calls[k].next = t.calls[k].next + (IF k = m - 1 THEN 1 ELSE 0)
               /\ u.calls[k] \in [v : Stacked(t), next : Nat \ {0}]
    <3>1. CASE k = m - 1
      BY <2>5, <2>7, <3>1
    <3>2. CASE k # m - 1
      <4>1. u.calls[k] = cs[k]
        BY <2>7, <3>2
      <4>2. t.calls[k].next + 0 = t.calls[k].next
        BY <1>7
      <4> QED BY <1>7, <3>2, <4>1, <4>2
    <3> QED BY <3>1, <3>2
  <2>9. /\ DOMAIN u.low = DOMAIN t.low
        /\ \A x \in DOMAIN t.low : x # p => u.low[x] = t.low[x]
        /\ u.low[p] = Least(t.low[p], t.low[v])
    BY <2>3, <2>4
  <2>10. /\ DOMAIN u.low = DOMAIN t.low
         /\ \A x \in DOMAIN t.low : ~(m > 1 /\ x = t.calls[m - 1].v) => u.low[x] = t.low[x]
         /\ m > 1 => u.low[t.calls[m - 1].v] = Least(t.low[t.calls[m - 1].v], t.low[v])
    BY <2>1, <2>3, <2>9
  <2> HIDE DEF v
  <2> QED BY <2>4, <2>6, <2>8, <2>10
<1>10. Goal
  BY <1>8, <1>9
<1>11. DOMAIN u.calls = 1 .. m - 1
  BY <1>10, ListIs
<1>12. t.low[v] = t.idx[v] => Stacked(u) = ToSet(lo)
  BY <1>4, <1>10 DEF Stacked
<1>13. v = t.calls[m].v
  BY <1>1 DEF Last, m
<1> QED BY <1>1, <1>2, <1>4, <1>10, <1>11, <1>12, <1>13 DEF u, m, LeftAs

\* The loops when strong(v) has come to its end: that of its caller has looked at v,
\* and those of v and of the nodes above it on the stack have come to their ends.
EndAt(V, succ, t, u, m, v) ==
  /\ v \in Stacked(t) /\ v \in V
  /\ \A x \in Stacked(t) : x \in DOMAIN t.idx /\ t.idx[x] \in Nat /\ t.low[x] \in Nat
                             /\ Reaches(V, succ, x, v)
  /\ \A k \in 1 .. m - 1 : t.calls[k].v \in Stacked(t) /\ t.idx[t.calls[k].v] < t.idx[v]
  /\ \A x \in Stacked(t) : ~(m > 1 /\ x = t.calls[m - 1].v) => Looked(succ, u, x) = Looked(succ, t, x)
  /\ m > 1 => /\ Looked(succ, u, t.calls[m - 1].v) = Looked(succ, t, t.calls[m - 1].v) \cup {v}
              /\ v \in ToSet(succ[t.calls[m - 1].v])
  /\ \A x \in Stacked(t) : t.idx[v] <= t.idx[x] => Looked(succ, t, x) = ToSet(succ[x])

LEMMA AtEnd ==
  ASSUME NEW V, NEW succ, GraphOK(V, succ), NEW t, SearchInv(V, succ, t), t.calls # <<>>,
         Last(t.calls).next > Len(succ[Last(t.calls).v]),
         NEW u, NEW m, NEW v, LeftAs(t, u, m, v)
  PROVE  EndAt(V, succ, t, u, m, v)
PROOF
<1>1. /\ m = Len(t.calls) /\ m \in Nat \ {0} /\ DOMAIN t.calls = 1 .. m /\ v = t.calls[m].v
      /\ DOMAIN u.calls = 1 .. m - 1
      /\ \A k \in 1 .. m - 1 : /\ u.calls[k].v = t.calls[k].v
                               /\ u.calls[k].next = t.calls[k].next + (IF k = m - 1 THEN 1 ELSE 0)
  BY DEF LeftAs
<1>2. /\ v \in Stacked(t) /\ v \in V /\ t.calls[m].next > Len(succ[v])
      /\ \A x \in Stacked(t) : Reaches(V, succ, x, v)
  BY <1>1, TopOfPath
<1>3. \A x \in Stacked(t) : /\ x \in DOMAIN t.idx /\ t.idx[x] \in Nat /\ t.low[x] \in Nat
                            /\ Len(succ[x]) \in Nat /\ DOMAIN succ[x] = 1 .. Len(succ[x])
  BY ListIs DEF SearchInv, SearchType, GraphOK
<1>4. \A k \in 1 .. m - 1 : t.calls[k].v \in Stacked(t) /\ t.idx[t.calls[k].v] < t.idx[v]
  <2> SUFFICES ASSUME NEW k \in 1 .. m - 1
               PROVE  t.calls[k].v \in Stacked(t) /\ t.idx[t.calls[k].v] < t.idx[v]
    OBVIOUS
  <2>1. k \in DOMAIN t.calls /\ m \in DOMAIN t.calls /\ k < m
    BY <1>1
  <2> QED BY <1>1, <2>1 DEF SearchInv, PathOK
<1>5. AdvancedTo(succ, t, u, m - 1)
  <2>1. m - 1 \in Nat /\ m - 1 <= Len(t.calls)
    BY <1>1
  <2>2. ASSUME NEW k \in DOMAIN t.calls, k > m - 1 PROVE t.calls[k].next > Len(succ[t.calls[k].v])
    <3>1. k = m
      BY <1>1, <2>2
    <3> QED BY <1>1, <1>2, <3>1
  <2>3. ASSUME m - 1 > 0 PROVE t.calls[m - 1].next <= Len(succ[t.calls[m - 1].v])
    <3>1. m - 1 \in DOMAIN t.calls /\ m - 1 < Len(t.calls)
      BY <1>1, <2>3
    <3> QED BY <3>1 DEF SearchInv, PathOK
  <2> QED BY <1>1, <2>1, <2>2, <2>3 DEF AdvancedTo
<1>6. /\ \A x \in Stacked(t) : ~(m - 1 > 0 /\ x = t.calls[m - 1].v)
                                 => Looked(succ, u, x) = Looked(succ, t, x)
      /\ m - 1 > 0 => Looked(succ, u, t.calls[m - 1].v)
                        = Looked(succ, t, t.calls[m - 1].v)
                            \cup {succ[t.calls[m - 1].v][t.calls[m - 1].next]}
  <2> DEFINE n == m - 1
  <2> HIDE DEF n
  <2>1. AdvancedTo(succ, t, u, n)
    BY <1>5 DEF n
  <2>2. /\ \A x \in Stacked(t) : ~(n > 0 /\ x = t.calls[n].v)
                                   => Looked(succ, u, x) = Looked(succ, t, x)
        /\ n > 0 => Looked(succ, u, t.calls[n].v)
                      = Looked(succ, t, t.calls[n].v) \cup {succ[t.calls[n].v][t.calls[n].next]}
    BY <2>1, Advanced
  <2> QED BY <2>2 DEF n
<1>7. ASSUME m > 1
      PROVE  /\ succ[t.calls[m - 1].v][t.calls[m - 1].next] = v
             /\ v \in ToSet(succ[t.calls[m - 1].v])
  <2>1. m - 1 \in DOMAIN t.calls /\ m - 1 < Len(t.calls) /\ m - 1 + 1 = m /\ m - 1 \in 1 .. m - 1
    BY <1>1, <1>7
  <2>2. /\ t.calls[m - 1].next <= Len(succ[t.calls[m - 1].v])
        /\ succ[t.calls[m - 1].v][t.calls[m - 1].next] = t.calls[m - 1 + 1].v
        /\ t.calls[m - 1].next \in Nat \ {0}
    BY <2>1 DEF SearchInv, PathOK
  <2>3. t.calls[m - 1].next \in DOMAIN succ[t.calls[m - 1].v]
    BY <1>3, <1>4, <2>1, <2>2
  <2>4. succ[t.calls[m - 1].v][t.calls[m - 1].next] = v
    BY <1>1, <2>1, <2>2
  <2> QED BY <2>3, <2>4 DEF ToSet
<1>8. ASSUME NEW x \in Stacked(t), t.idx[v] <= t.idx[x] PROVE Looked(succ, t, x) = ToSet(succ[x])
  <2>1. ASSUME NEW k \in DOMAIN t.calls, t.calls[k].v = x, NEW j \in DOMAIN succ[x]
        PROVE  j < t.calls[k].next
    <3>1. ~(k \in 1 .. m - 1)
      BY <1>2, <1>3, <1>4, <1>8, <2>1
    <3>2. k = m
      BY <1>1, <3>1
    <3>3. t.calls[m].next \in Nat
      BY <1>1 DEF SearchInv, PathOK
    <3> QED BY <1>1, <1>2, <1>3, <2>1, <3>2, <3>3
  <2>2. {j \in DOMAIN succ[x] : \A k \in DOMAIN t.calls : t.calls[k].v = x => j < t.calls[k].next}
          = DOMAIN succ[x]
    BY <2>1
  <2> QED BY <2>2 DEF Looked, ToSet
<1>9. m > 1 <=> m - 1 > 0
  BY <1>1
<1> QED BY <1>2, <1>3, <1>4, <1>6, <1>7, <1>8, <1>9 DEF EndAt

\* What remains of the stack: it holds the path, and its nodes reach the path.
LEMMA LeaveStack ==
  ASSUME NEW V, NEW succ, NEW t, SearchInv(V, succ, t), NEW u, NEW m, NEW v,
         LeftAs(t, u, m, v), EndAt(V, succ, t, u, m, v)
  PROVE  /\ Stacked(u) \subseteq Stacked(t)
         /\ t.low[v] # t.idx[v] => Stacked(u) = Stacked(t) /\ t.low[v] < t.idx[v] /\ m > 1
         /\ \A k \in 1 .. m - 1 : t.calls[k].v \in Stacked(u)
         /\ \A x \in Stacked(u) : \E k \in 1 .. m - 1 :
              t.idx[t.calls[k].v] <= t.idx[x] /\ Reaches(V, succ, x, t.calls[k].v)
PROOF
<1> DEFINE R(x, y) == Reaches(V, succ, x, y)
<1>1. /\ m \in Nat \ {0} /\ DOMAIN t.calls = 1 .. m /\ v = t.calls[m].v
      /\ v \in Stacked(t) /\ t.idx[v] \in Nat /\ t.low[v] \in Nat
      /\ \A x \in Stacked(t) : t.idx[x] \in Nat /\ R(x, v)
      /\ \A k \in 1 .. m - 1 : t.calls[k].v \in Stacked(t) /\ t.idx[t.calls[k].v] < t.idx[v]
  BY DEF LeftAs, EndAt
<1>2. PICK w \in Stacked(t) : t.low[v] <= t.idx[v] /\ t.idx[w] = t.low[v] /\ R(v, w)
  <2>1. m \in DOMAIN t.calls
    BY <1>1
  <2> QED BY <1>1, <2>1 DEF SearchInv, LowRight
<1>3. \A k \in DOMAIN t.calls : k \in 1 .. m - 1 \/ k = m
  BY <1>1
<1>4. ASSUME NEW x \in Stacked(t), t.idx[x] < t.idx[v]
      PROVE  \E k \in 1 .. m - 1 : t.idx[t.calls[k].v] <= t.idx[x] /\ R(x, t.calls[k].v)
  <2>1. PICK k \in DOMAIN t.calls : t.idx[t.calls[k].v] <= t.idx[x] /\ R(x, t.calls[k].v)
    BY DEF SearchInv, StackConnected
  <2>2. k # m
    BY <1>1, <1>4, <2>1
  <2> HIDE DEF R
  <2> QED BY <1>3, <2>1, <2>2
<1>5. CASE t.low[v] = t.idx[v]
  <2>1. Stacked(u) = {x \in Stacked(t) : t.idx[x] < t.idx[v]}
    BY <1>5 DEF LeftAs
  <2>2. \A k \in 1 .. m - 1 : t.calls[k].v \in Stacked(u)
    BY <1>1, <2>1
  <2> HIDE DEF R
  <2>3. \A x \in Stacked(u) : \E k \in 1 .. m - 1 :
          t.idx[t.calls[k].v] <= t.idx[x] /\ R(x, t.calls[k].v)
    BY <1>4, <2>1
  <2> QED BY <1>5, <2>1, <2>2, <2>3 DEF R
<1>6. CASE t.low[v] # t.idx[v]
  <2>1. Stacked(u) = Stacked(t)
    BY <1>6 DEF LeftAs, Stacked
  <2>2. t.low[v] < t.idx[v]
    BY <1>1, <1>2, <1>6
  <2>3. PICK k \in 1 .. m - 1 : t.idx[t.calls[k].v] <= t.idx[w] /\ R(w, t.calls[k].v)
    BY <1>2, <1>4, <2>2
  <2>4. m > 1
    BY <1>1, <2>3
  <2>5. ASSUME NEW x \in Stacked(u)
        PROVE  \E j \in 1 .. m - 1 : t.idx[t.calls[j].v] <= t.idx[x] /\ R(x, t.calls[j].v)
    <3>1. CASE t.idx[x] < t.idx[v]
      BY <1>4, <2>1, <3>1
    <3>2. CASE t.idx[v] <= t.idx[x]
      <4>1. R(x, v) /\ R(v, w) /\ R(w, t.calls[k].v)
        BY <1>1, <1>2, <2>1, <2>3
      <4>2. R(x, t.calls[k].v)
        BY <4>1, ReachRules
      <4>3. t.idx[t.calls[k].v] <= t.idx[x]
        <5>1. t.idx[x] \in Nat /\ t.idx[t.calls[k].v] \in Nat
          BY <1>1, <2>1
        <5> QED BY <1>1, <3>2, <5>1
      <4> HIDE DEF R
      <4> QED BY <4>2, <4>3
    <3> QED BY <1>1, <2>1, <3>1, <3>2
  <2>6. \A k1 \in 1 .. m - 1 : t.calls[k1].v \in Stacked(u)
    BY <1>1, <2>1
  <2> QED BY <1>6, <2>1, <2>2, <2>4, <2>5, <2>6
<1> QED BY <1>5, <1>6

\* A node whose low is its number is the first of its component.
LEMMA LeaveComplete ==
  ASSUME NEW V, NEW succ, NEW t, SearchInv(V, succ, t), NEW u, NEW m, NEW v,
         LeftAs(t, u, m, v), EndAt(V, succ, t, u, m, v)
  PROVE  CompleteOK(V, succ, u)
PROOF
<1> DEFINE R(x, y) == Reaches(V, succ, x, y)
           X == {x \in Stacked(t) : t.idx[v] <= t.idx[x]}
<1>1. /\ m \in Nat \ {0} /\ DOMAIN t.calls = 1 .. m /\ v = t.calls[m].v /\ u.idx = t.idx
      /\ m = Len(t.calls)
      /\ v \in Stacked(t) /\ t.idx[v] \in Nat
      /\ \A x \in Stacked(t) : x \in DOMAIN t.idx /\ t.idx[x] \in Nat /\ R(x, v)
      /\ \A x \in X : Looked(succ, t, x) = ToSet(succ[x])
  BY DEF LeftAs, EndAt
<1>2. CASE t.low[v] # t.idx[v]
  <2>1. u.sccs = t.sccs /\ Complete(u) = Complete(t)
    BY <1>1, <1>2 DEF LeftAs, Complete, Stacked
  <2> QED BY <2>1 DEF CompleteOK, SearchInv
<1>3. CASE t.low[v] = t.idx[v]
  <2>1. /\ u.sccs = t.sccs \cup {X}
        /\ Stacked(u) = {x \in Stacked(t) : t.idx[x] < t.idx[v]}
    BY <1>3 DEF LeftAs
  <2>2. /\ UNION t.sccs = Complete(t)
        /\ \A x \in Complete(t) : ToSet(succ[x]) \subseteq Complete(t)
        /\ \A C \in t.sccs : C # {} /\ \A x \in C : C = Component(V, succ, x)
        /\ DOMAIN t.idx \subseteq V
    BY DEF SearchInv, SearchType, CompleteOK
  <2>3. v \in X
    BY <1>1
  <2>4. Complete(u) = Complete(t) \cup X
    <3>1. \A x \in Stacked(t) : x \in X <=> ~(t.idx[x] < t.idx[v])
      BY <1>1
    <3> HIDE DEF X
    <3>2. X \subseteq Stacked(t) /\ Stacked(t) \subseteq DOMAIN t.idx
      BY <1>1 DEF X
    <3> QED BY <1>1, <2>1, <3>1, <3>2 DEF Complete
  <2>5. ASSUME NEW x \in X PROVE ToSet(succ[x]) \subseteq Complete(t) \cup X
    <3> SUFFICES ASSUME NEW y \in ToSet(succ[x]) PROVE y \in Complete(t) \cup X
      OBVIOUS
    <3>1. y \in Looked(succ, t, x)
      BY <1>1
    <3>2. y \in DOMAIN t.idx
      BY <3>1 DEF SearchInv, StackConnected
    <3>3. ASSUME y \in Stacked(t) PROVE t.idx[v] <= t.idx[y]
      <4>1. m \in DOMAIN t.calls /\ ~(m < Len(t.calls))
        BY <1>1
      <4>2. t.low[t.calls[m].v] <= t.idx[y]
        BY <1>1, <3>1, <3>3, <4>1 DEF SearchInv, LowRight
      <4> QED BY <1>1, <1>3, <4>2
    <3> QED BY <3>2, <3>3 DEF Complete
  <2>6. ASSUME NEW x \in X PROVE X = Component(V, succ, x)
    <3>1. ASSUME NEW y \in X PROVE y \in Component(V, succ, x)
      <4>1. R(x, v) /\ R(y, v)
        BY <1>1
      <4>2. R(v, x) /\ R(v, y)
        BY <1>1 DEF SearchInv, StackConnected
      <4>3. R(x, y) /\ R(y, x)
        BY <4>1, <4>2, ReachRules
      <4>4. y \in V
        BY <1>1, <2>2
      <4> QED BY <4>3, <4>4 DEF Component
    <3>2. ASSUME NEW y \in Component(V, succ, x) PROVE y \in X
      <4>1. y \in V /\ R(x, y) /\ R(y, x)
        BY DEF Component
      <4>2. X \subseteq V /\ Complete(t) \subseteq V
        BY <1>1, <2>2 DEF Complete
      <4>3. Complete(t) \cup X \in SuccClosed(V, succ)
        <5> HIDE DEF X
        <5> QED BY <2>2, <2>5, <4>2 DEF SuccClosed
      <4>4. Complete(t) \in SuccClosed(V, succ)
        BY <2>2, <4>2 DEF SuccClosed
      <4> HIDE DEF X
      <4>5. y \in Complete(t) \cup X
        BY <4>1, <4>3 DEF Reaches
      <4>6. y \in Complete(t) => x \in Complete(t)
        BY <4>1, <4>4 DEF Reaches
      <4>7. x \notin Complete(t)
        BY DEF Complete, X
      <4> QED BY <4>5, <4>6, <4>7
    <3> QED BY <3>1, <3>2
  <2> HIDE DEF X
  <2>7. UNION u.sccs = Complete(u)
    BY <2>1, <2>2, <2>4
  <2>8. \A x \in Complete(u) : ToSet(succ[x]) \subseteq Complete(u)
    BY <2>2, <2>4, <2>5
  <2>9. \A C \in u.sccs : C # {} /\ \A x \in C : C = Component(V, succ, x)
    BY <2>1, <2>2, <2>3, <2>6
  <2> QED BY <2>7, <2>8, <2>9 DEF CompleteOK
<1> QED BY <1>2, <1>3

\* low of the caller takes that of v in, which is its own number or above it
\* when v is the first of its component.
LEMMA LeaveLow ==
  ASSUME NEW V, NEW succ, NEW t, SearchInv(V, succ, t), NEW u, NEW m, NEW v,
         LeftAs(t, u, m, v), EndAt(V, succ, t, u, m, v)
  PROVE  /\ LowRight(V, succ, u)
         /\ \A x \in DOMAIN t.idx : u.low[x] \in Nat
PROOF
<1> DEFINE R(x, y) == Reaches(V, succ, x, y)
           p == t.calls[m - 1].v
<1>1. /\ m = Len(t.calls) /\ m \in Nat \ {0} /\ DOMAIN t.calls = 1 .. m /\ v = t.calls[m].v
      /\ u.idx = t.idx /\ Len(u.calls) = m - 1 /\ DOMAIN u.calls = 1 .. m - 1
      /\ \A k \in 1 .. m - 1 : u.calls[k].v = t.calls[k].v
      /\ \A x \in DOMAIN t.low : ~(m > 1 /\ x = p) => u.low[x] = t.low[x]
      /\ m > 1 => u.low[p] = Least(t.low[p], t.low[v])
  BY DEF LeftAs
<1>2. /\ v \in Stacked(t)
      /\ \A x \in Stacked(t) : x \in DOMAIN t.low /\ t.idx[x] \in Nat /\ t.low[x] \in Nat /\ R(x, v)
      /\ \A k \in 1 .. m - 1 : t.calls[k].v \in Stacked(t) /\ t.idx[t.calls[k].v] < t.idx[v]
      /\ \A x \in Stacked(t) : ~(m > 1 /\ x = p) => Looked(succ, u, x) = Looked(succ, t, x)
      /\ m > 1 => Looked(succ, u, p) = Looked(succ, t, p) \cup {v} /\ v \in ToSet(succ[p])
  BY DEF EndAt, SearchInv, SearchType
<1>3. /\ Stacked(u) \subseteq Stacked(t)
      /\ t.low[v] # t.idx[v] => Stacked(u) = Stacked(t) /\ t.low[v] < t.idx[v]
      /\ \A k \in 1 .. m - 1 : t.calls[k].v \in Stacked(u)
  BY LeaveStack
<1>4. /\ \A k \in DOMAIN t.calls : t.low[t.calls[k].v] <= t.idx[t.calls[k].v]
      /\ \A k \in DOMAIN t.calls : \E w \in Stacked(t) :
           t.idx[w] = t.low[t.calls[k].v] /\ R(t.calls[k].v, w)
  BY DEF SearchInv, LowRight
<1>5. ASSUME NEW k \in DOMAIN t.calls, NEW x \in Stacked(t),
             NEW y \in Looked(succ, t, x) \cap Stacked(t), t.idx[t.calls[k].v] <= t.idx[x],
             k < m => t.idx[x] < t.idx[t.calls[k + 1].v]
      PROVE  t.low[t.calls[k].v] <= t.idx[y]
  BY <1>1, <1>5 DEF SearchInv, LowRight
<1>6. \A k \in 1 .. m - 1 : k \in DOMAIN t.calls /\ k < m /\ k + 1 \in DOMAIN t.calls
  BY <1>1
<1>7. t.low[v] \in Nat /\ t.idx[v] \in Nat /\ m \in DOMAIN t.calls /\ t.low[v] <= t.idx[v]
  <2>1. m \in DOMAIN t.calls
    <3>1. m \in Nat \ {0} /\ DOMAIN t.calls = 1 .. m
      BY <1>1
    <3> QED BY <3>1
  <2>2. t.low[t.calls[m].v] <= t.idx[t.calls[m].v]
    BY <1>4, <2>1
  <2> QED BY <1>1, <1>2, <2>1, <2>2
<1>8. ASSUME m > 1
      PROVE  /\ m - 1 \in 1 .. m - 1 /\ p \in Stacked(t) /\ t.low[p] \in Nat
             /\ u.low[p] \in Nat /\ u.low[p] <= t.low[p] /\ u.low[p] <= t.low[v]
             /\ u.low[p] = t.low[p] \/ (u.low[p] = t.low[v] /\ t.low[v] # t.idx[v])
  <2>1. m - 1 \in 1 .. m - 1
    BY <1>1, <1>8
  <2>2. p \in Stacked(t) /\ t.low[p] \in Nat /\ t.low[p] <= t.idx[p] /\ t.idx[p] < t.idx[v]
        /\ t.idx[p] \in Nat
    BY <1>2, <1>4, <1>6, <2>1
  <2> DEFINE a == t.low[p]
             b == t.low[v]
  <2>3. u.low[p] = Least(a, b) /\ a \in Nat /\ b \in Nat
    BY <1>1, <1>7, <1>8, <2>2
  <2>4. a < t.idx[v]
    BY <1>7, <2>2
  <2> HIDE DEF a, b, p
  <2>5. /\ u.low[p] \in Nat /\ u.low[p] <= a /\ u.low[p] <= b
        /\ u.low[p] = a \/ (u.low[p] = b /\ b <= a)
    BY <2>3 DEF Least
  <2>6. u.low[p] = a \/ (u.low[p] = b /\ b # t.idx[v])
    BY <1>7, <2>3, <2>4, <2>5
  <2> QED BY <2>1, <2>2, <2>5, <2>6 DEF a, b
<1>9. ASSUME NEW x \in DOMAIN t.idx PROVE u.low[x] \in Nat
  <2>1. x \in DOMAIN t.low /\ t.low[x] \in Nat
    BY DEF SearchInv, SearchType
  <2> HIDE DEF p
  <2> QED BY <1>1, <1>8, <2>1
<1>10. ASSUME NEW k \in 1 .. m - 1
       PROVE  /\ u.low[t.calls[k].v] \in Nat /\ t.low[t.calls[k].v] \in Nat
              /\ u.low[t.calls[k].v] <= t.low[t.calls[k].v]
              /\ \/ u.low[t.calls[k].v] = t.low[t.calls[k].v]
                 \/ t.calls[k].v = p /\ m > 1 /\ u.low[p] = t.low[v] /\ t.low[v] # t.idx[v]
  <2>1. t.calls[k].v \in DOMAIN t.low /\ t.low[t.calls[k].v] \in Nat
    BY <1>2
  <2>2. CASE m > 1 /\ t.calls[k].v = p
    BY <1>8, <2>1, <2>2
  <2>3. CASE ~(m > 1 /\ t.calls[k].v = p)
    <3>1. u.low[t.calls[k].v] = t.low[t.calls[k].v]
      BY <1>1, <2>1, <2>3
    <3> QED BY <2>1, <3>1
  <2> QED BY <2>2, <2>3
<1>11. ASSUME NEW k \in 1 .. m - 1
       PROVE  /\ u.low[t.calls[k].v] <= t.idx[t.calls[k].v]
              /\ \E w \in Stacked(u) : t.idx[w] = u.low[t.calls[k].v] /\ R(t.calls[k].v, w)
  <2>1. PICK w \in Stacked(t) : t.idx[w] = t.low[t.calls[k].v] /\ R(t.calls[k].v, w)
    BY <1>4, <1>6
  <2>2. /\ t.low[t.calls[k].v] <= t.idx[t.calls[k].v] /\ t.idx[t.calls[k].v] \in Nat
        /\ t.idx[t.calls[k].v] < t.idx[v]
    BY <1>2, <1>4, <1>6
  <2>3. u.low[t.calls[k].v] <= t.idx[t.calls[k].v]
    BY <1>10, <2>2
  <2>4. w \in Stacked(u)
    <3>1. t.idx[w] < t.idx[v]
      BY <1>7, <1>10, <2>1, <2>2
    <3>2. t.low[v] = t.idx[v] => Stacked(u) = {x \in Stacked(t) : t.idx[x] < t.idx[v]}
      BY DEF LeftAs
    <3> QED BY <1>3, <3>1, <3>2
  <2>5. CASE u.low[t.calls[k].v] = t.low[t.calls[k].v]
    <3> HIDE DEF R
    <3> QED BY <2>1, <2>3, <2>4, <2>5
  <2>6. CASE t.calls[k].v = p /\ m > 1 /\ u.low[p] = t.low[v] /\ t.low[v] # t.idx[v]
    <3>1. PICK x \in Stacked(t) : t.idx[x] = t.low[v] /\ R(v, x)
      BY <1>1, <1>4, <1>7
    <3>2. x \in Stacked(u)
      BY <1>3, <2>6
    <3>3. R(p, v)
      BY <1>2, <2>6, ReachRules
    <3>4. R(p, x)
      BY <3>1, <3>3, ReachRules
    <3> HIDE DEF R, p
    <3> QED BY <2>3, <2>6, <3>1, <3>2, <3>4
  <2> QED BY <1>10, <2>5, <2>6
<1>12. ASSUME NEW k \in 1 .. m - 1, NEW x \in Stacked(u),
              NEW y \in Looked(succ, u, x) \cap Stacked(u), t.idx[t.calls[k].v] <= t.idx[x],
              k < m - 1 => t.idx[x] < t.idx[t.calls[k + 1].v]
       PROVE  u.low[t.calls[k].v] <= t.idx[y]
  <2>1. /\ x \in Stacked(t) /\ y \in Stacked(t) /\ t.idx[x] \in Nat /\ t.idx[y] \in Nat
        /\ t.idx[t.calls[k].v] \in Nat
    BY <1>2, <1>3
  <2>2. CASE y \in Looked(succ, t, x) /\ (k < m => t.idx[x] < t.idx[t.calls[k + 1].v])
    <3>1. t.low[t.calls[k].v] <= t.idx[y]
      BY <1>5, <1>6, <1>12, <2>1, <2>2
    <3> QED BY <1>10, <2>1, <3>1
  <2>3. CASE y \notin Looked(succ, t, x)
    <3>1. m > 1 /\ x = p /\ y = v
      BY <1>2, <2>1, <2>3
    <3>2. k = m - 1
      <4>1. ~(k < m - 1)
        <5> SUFFICES ASSUME k < m - 1 PROVE FALSE
          OBVIOUS
        <5>1. k + 1 \in DOMAIN t.calls /\ m - 1 \in DOMAIN t.calls /\ (k + 1 < m - 1 \/ k + 1 = m - 1)
              /\ k + 1 \in 1 .. m - 1 /\ m - 1 \in 1 .. m - 1
          BY <1>1
        <5>2. k + 1 < m - 1 => t.idx[t.calls[k + 1].v] < t.idx[p]
          BY <5>1 DEF SearchInv, PathOK
        <5>3. t.idx[p] < t.idx[t.calls[k + 1].v] /\ t.idx[p] \in Nat /\ t.idx[t.calls[k + 1].v] \in Nat
          BY <1>2, <1>12, <2>1, <3>1, <5>1
        <5> QED BY <5>1, <5>2, <5>3
      <4> QED BY <1>1, <4>1
    <3>3. u.low[p] <= t.low[v] /\ t.low[v] <= t.idx[v] /\ u.low[p] \in Nat
      BY <1>7, <1>8, <3>1
    <3> QED BY <1>7, <3>1, <3>2, <3>3
  <2>4. CASE y \in Looked(succ, t, x) /\ k = m - 1 /\ t.idx[v] <= t.idx[x]
    <3>1. t.low[v] <= t.idx[y]
      <4>1. ~(m < m)
        BY <1>1
      <4> QED BY <1>1, <1>5, <1>7, <2>1, <2>4, <4>1
    <3>2. m > 1 /\ t.calls[k].v = p
      BY <1>1, <2>4
    <3>3. u.low[p] <= t.low[v] /\ u.low[p] \in Nat
      BY <1>8, <3>2
    <3> HIDE DEF p
    <3> QED BY <1>7, <2>1, <3>1, <3>2, <3>3
  <2>5. k < m - 1 \/ (k = m - 1 /\ t.calls[k + 1].v = v)
    BY <1>1
  <2>6. t.idx[v] <= t.idx[x] \/ t.idx[x] < t.idx[v]
    BY <1>7, <2>1
  <2> QED BY <1>12, <2>2, <2>3, <2>4, <2>5, <2>6
<1>13. LowRight(V, succ, u)
  <2> HIDE DEF R, p
  <2>1. ASSUME NEW k \in DOMAIN u.calls
        PROVE  k \in 1 .. m - 1 /\ u.calls[k].v = t.calls[k].v
               /\ (k < m - 1 => u.calls[k + 1].v = t.calls[k + 1].v)
    <3>1. k \in 1 .. m - 1
      BY <1>1
    <3>2. k < m - 1 => k + 1 \in 1 .. m - 1
      BY <1>1, <3>1
    <3> QED BY <1>1, <3>1, <3>2
  <2>2. \A k \in DOMAIN u.calls :
          /\ u.low[u.calls[k].v] <= u.idx[u.calls[k].v]
          /\ \E w \in Stacked(u) : u.idx[w] = u.low[u.calls[k].v] /\ R(u.calls[k].v, w)
    BY <1>1, <1>11, <2>1
  <2>3. \A k \in DOMAIN u.calls : \A x \in Stacked(u) : \A w \in Looked(succ, u, x) \cap Stacked(u) :
          /\ u.idx[u.calls[k].v] <= u.idx[x]
          /\ k < Len(u.calls) => u.idx[x] < u.idx[u.calls[k + 1].v]
          => u.low[u.calls[k].v] <= u.idx[w]
    <3> SUFFICES ASSUME NEW k \in DOMAIN u.calls, NEW x \in Stacked(u),
                        NEW w \in Looked(succ, u, x) \cap Stacked(u),
                        u.idx[u.calls[k].v] <= u.idx[x],
                        k < Len(u.calls) => u.idx[x] < u.idx[u.calls[k + 1].v]
                 PROVE  u.low[u.calls[k].v] <= u.idx[w]
      OBVIOUS
    <3>1. k < m - 1 => t.idx[x] < t.idx[t.calls[k + 1].v]
      BY <1>1, <2>1
    <3> QED BY <1>1, <1>12, <2>1, <3>1
  <2> QED BY <2>2, <2>3 DEF LowRight, R
<1> QED BY <1>9, <1>13

LEMMA LeaveOK ==
  ASSUME NEW V, NEW succ, GraphOK(V, succ), NEW t, SearchInv(V, succ, t), t.calls # <<>>,
         Last(t.calls).next > Len(succ[Last(t.calls).v])
  PROVE  SearchInv(V, succ, Leave(t))
PROOF
<1> DEFINE u == Leave(t)
           m == Len(t.calls)
           v == Last(t.calls).v
           R(x, y) == Reaches(V, succ, x, y)
<1>1. LeftAs(t, u, m, v)
  BY Left
<1> HIDE DEF u, m, v
<1>2. EndAt(V, succ, t, u, m, v)
  BY <1>1, AtEnd
<1>3. CompleteOK(V, succ, u)
  BY <1>1, <1>2, LeaveComplete
<1>4. LowRight(V, succ, u) /\ \A x \in DOMAIN t.idx : u.low[x] \in Nat
  BY <1>1, <1>2, LeaveLow
<1>5. /\ Stacked(u) \subseteq Stacked(t)
      /\ t.low[v] # t.idx[v] => Stacked(u) = Stacked(t) /\ t.low[v] < t.idx[v] /\ m > 1
      /\ \A k \in 1 .. m - 1 : t.calls[k].v \in Stacked(u)
      /\ \A x \in Stacked(u) : \E k \in 1 .. m - 1 :
           t.idx[t.calls[k].v] <= t.idx[x] /\ R(x, t.calls[k].v)
  BY <1>1, <1>2, LeaveStack
<1>6. /\ m \in Nat \ {0} /\ DOMAIN t.calls = 1 .. m /\ m = Len(t.calls)
      /\ DOMAIN u = {"idx", "low", "counter", "stk", "sccs", "calls"}
      /\ u.idx = t.idx /\ u.counter = t.counter
      /\ IsList(u.calls) /\ Len(u.calls) = m - 1 /\ DOMAIN u.calls = 1 .. m - 1
      /\ \A k \in 1 .. m - 1 : /\ u.calls[k].v = t.calls[k].v
                               /\ u.calls[k].next = t.calls[k].next + (IF k = m - 1 THEN 1 ELSE 0)
                               /\ u.calls[k] \in [v : Stacked(t), next : Nat \ {0}]
      /\ DOMAIN u.low = DOMAIN t.low
  BY <1>1 DEF LeftAs
<1>7. SearchType(V, succ, u)
  <2>1. /\ t.counter \in Nat /\ DOMAIN t.idx \subseteq V /\ DOMAIN t.low = DOMAIN t.idx
        /\ \A x \in DOMAIN t.idx : t.idx[x] \in Nat /\ t.idx[x] < t.counter
        /\ \A x, y \in DOMAIN t.idx : t.idx[x] = t.idx[y] => x = y
        /\ IsList(t.stk) /\ Stacked(t) \subseteq DOMAIN t.idx
        /\ \A i, j \in DOMAIN t.stk : i < j => t.idx[t.stk[i]] < t.idx[t.stk[j]]
    BY DEF SearchInv, SearchType
  <2>2. IsList(u.stk) /\ \A i \in DOMAIN u.stk : i \in DOMAIN t.stk /\ u.stk[i] = t.stk[i]
    <3>1. CASE t.low[v] = t.idx[v]
      BY <1>1, <3>1 DEF LeftAs
    <3>2. CASE t.low[v] # t.idx[v]
      <4>1. u.stk = t.stk
        BY <1>1, <3>2 DEF LeftAs
      <4> QED BY <2>1, <4>1
    <3> QED BY <3>1, <3>2
  <2>3. \A i, j \in DOMAIN u.stk : i < j => u.idx[u.stk[i]] < u.idx[u.stk[j]]
    BY <1>6, <2>1, <2>2
  <2> QED BY <1>4, <1>5, <1>6, <2>1, <2>2, <2>3 DEF SearchType
<1>8. \A k \in 1 .. m - 1 : k \in DOMAIN t.calls /\ k < m
  <2>1. m \in Nat /\ DOMAIN t.calls = 1 .. m
    BY <1>6
  <2> QED BY <2>1
<1>9. \A k \in 1 .. m - 1 :
        /\ t.calls[k].next \in Nat \ {0} /\ t.calls[k].next <= Len(succ[t.calls[k].v])
        /\ Len(succ[t.calls[k].v]) \in Nat
        /\ succ[t.calls[k].v][t.calls[k].next] = t.calls[k + 1].v
  <2> SUFFICES ASSUME NEW k \in 1 .. m - 1
               PROVE  /\ t.calls[k].next \in Nat \ {0} /\ t.calls[k].next <= Len(succ[t.calls[k].v])
                      /\ Len(succ[t.calls[k].v]) \in Nat
                      /\ succ[t.calls[k].v][t.calls[k].next] = t.calls[k + 1].v
    OBVIOUS
  <2>1. k \in DOMAIN t.calls /\ k < Len(t.calls)
    BY <1>6, <1>8
  <2>2. t.calls[k].v \in V
    BY <1>5 DEF SearchInv, SearchType
  <2>3. Len(succ[t.calls[k].v]) \in Nat
    BY <2>2, ListIs DEF GraphOK
  <2> QED BY <2>1, <2>3 DEF SearchInv, PathOK
<1>10. PathOK(succ, u)
  <2>1. ASSUME NEW k \in 1 .. m - 1
        PROVE  /\ u.calls[k] \in [v : Stacked(u), next : Nat \ {0}]
               /\ u.calls[k].next <= Len(succ[u.calls[k].v]) + 1
    <3>1. u.calls[k].next = t.calls[k].next + (IF k = m - 1 THEN 1 ELSE 0)
          /\ u.calls[k].v = t.calls[k].v
      BY <1>6
    <3>2. u.calls[k].next <= Len(succ[u.calls[k].v]) + 1
      <4>1. /\ t.calls[k].next \in Nat /\ t.calls[k].next <= Len(succ[t.calls[k].v])
            /\ Len(succ[t.calls[k].v]) \in Nat
        BY <1>9
      <4>2. u.calls[k].next = t.calls[k].next + 0 \/ u.calls[k].next = t.calls[k].next + 1
        BY <3>1
      <4>3. u.calls[k].v = t.calls[k].v
        BY <3>1
      <4> DEFINE a == t.calls[k].next
                 n == Len(succ[t.calls[k].v])
                 b == u.calls[k].next
      <4>4. a \in Nat /\ n \in Nat /\ a <= n /\ (b = a + 0 \/ b = a + 1)
        BY <4>1, <4>2
      <4>5. Len(succ[u.calls[k].v]) = n
        BY <4>3
      <4> HIDE DEF a, b, n
      <4>6. b <= n + 1
        BY <4>4
      <4> QED BY <4>5, <4>6 DEF b
    <3>3. u.calls[k] \in [v : Stacked(u), next : Nat \ {0}]
      <4>1. u.calls[k] \in [v : Stacked(t), next : Nat \ {0}] /\ u.calls[k].v \in Stacked(u)
        BY <1>5, <1>6
      <4> QED BY <4>1
    <3> QED BY <3>2, <3>3
  <2>2. ASSUME NEW j \in 1 .. m - 1, NEW k \in 1 .. m - 1, j < k
        PROVE  u.idx[u.calls[j].v] < u.idx[u.calls[k].v]
    <3>1. t.idx[t.calls[j].v] < t.idx[t.calls[k].v]
      BY <1>8, <2>2 DEF SearchInv, PathOK
    <3> QED BY <1>6, <3>1
  <2>3. ASSUME NEW k \in 1 .. m - 1, k < m - 1
        PROVE  /\ u.calls[k].next <= Len(succ[u.calls[k].v])
               /\ succ[u.calls[k].v][u.calls[k].next] = u.calls[k + 1].v
    <3>1. k + 1 \in 1 .. m - 1 /\ k # m - 1
      <4>1. m \in Nat
        BY <1>6
      <4> QED BY <2>3, <4>1
    <3>2. u.calls[k].next = t.calls[k].next + 0 /\ u.calls[k].v = t.calls[k].v
          /\ u.calls[k + 1].v = t.calls[k + 1].v
      BY <1>6, <3>1
    <3>3. u.calls[k].next = t.calls[k].next
      BY <1>9, <3>2
    <3> QED BY <1>9, <3>2, <3>3
  <2> QED BY <1>6, <2>1, <2>2, <2>3 DEF PathOK
<1>11. StackConnected(V, succ, u)
  <2>1. \A x \in Stacked(u) : Looked(succ, u, x) \subseteq DOMAIN u.idx
    <3>1. \A x \in Stacked(t) : Looked(succ, t, x) \subseteq DOMAIN t.idx
      BY DEF SearchInv, StackConnected
    <3>2. \A x \in Stacked(t) : Looked(succ, u, x) \subseteq Looked(succ, t, x) \cup {v}
      BY <1>2 DEF EndAt
    <3>3. v \in DOMAIN t.idx
      BY <1>2 DEF EndAt
    <3> QED BY <1>5, <1>6, <3>1, <3>2, <3>3
  <2>2. \A x, y \in Stacked(u) : u.idx[x] <= u.idx[y] => R(x, y)
    BY <1>5, <1>6 DEF SearchInv, StackConnected
  <2> HIDE DEF R
  <2>3. \A x \in Stacked(u) : \E k \in DOMAIN u.calls :
          u.idx[u.calls[k].v] <= u.idx[x] /\ R(x, u.calls[k].v)
    BY <1>5, <1>6
  <2> QED BY <2>1, <2>2, <2>3 DEF StackConnected, R
<1> QED BY <1>3, <1>4, <1>7, <1>10, <1>11 DEF SearchInv, u

\* When every node has been met and the path is empty, the components have been found.
LEMMA SearchEnds ==
  ASSUME NEW V, NEW succ, NEW t, SearchInv(V, succ, t), t.calls = <<>>, V \subseteq DOMAIN t.idx
  PROVE  t.sccs = {Component(V, succ, x) : x \in V}
PROOF
<1>1. Stacked(t) = {}
  BY EmptyPath
<1>2. Complete(t) = V
  BY <1>1 DEF Complete, SearchInv, SearchType
<1>3. /\ UNION t.sccs = V
      /\ \A C \in t.sccs : C # {} /\ \A x \in C : C = Component(V, succ, x)
  BY <1>2 DEF SearchInv, CompleteOK
<1>4. ASSUME NEW C \in t.sccs PROVE C \in {Component(V, succ, x) : x \in V}
  <2>1. PICK x \in C : C = Component(V, succ, x)
    BY <1>3
  <2> QED BY <1>3, <2>1
<1>5. ASSUME NEW x \in V PROVE Component(V, succ, x) \in t.sccs
  <2>1. PICK C \in t.sccs : x \in C
    BY <1>3
  <2> QED BY <1>3, <2>1
<1> QED BY <1>4, <1>5

-----------------------------------------------------------------------------
(* The search over the kernels of a program.                               *)

LEMMA SuccRight ==
  ASSUME Shape, NEW v \in NamesOf(kernels)
  PROVE  /\ IsList(Succ[v])
         /\ ToSet(Succ[v]) = {edges[i].dst : i \in {j \in DOMAIN edges : edges[j].src = v}}
PROOF
<1> DEFINE I   == {i \in DOMAIN edges : edges[i].src = v}
           out == Selected(edges, I)
           f   == [i \in DOMAIN out |-> out[i].dst]
           D   == {edges[i].dst : i \in I}
<1>1. IsList(edges) /\ Len(edges) \in Nat /\ DOMAIN edges = 1 .. Len(edges)
  BY ListIs DEF Shape, EdgesOK
<1>2. Selection(out, edges, I)
  BY <1>1, SelectedRight
<1>3. Succ[v] = f
  BY DEF Succ
<1> HIDE DEF I, out
<1>4. /\ IsList(out) /\ \A k \in 1 .. Len(out) : \E i \in I : out[k] = edges[i]
      /\ \A i \in I : \E k \in 1 .. Len(out) : out[k] = edges[i]
  BY <1>2 DEF Selection
<1>5. Len(out) \in Nat /\ DOMAIN out = 1 .. Len(out)
  BY <1>4, ListIs
<1>6. f \in [1 .. Len(out) -> D]
  BY <1>4, <1>5
<1>7. IsList(f) /\ ToSet(f) \subseteq D
  <2> DEFINE n == Len(out)
             g == f
  <2>1. n \in Nat /\ g \in [1 .. n -> D]
    BY <1>5, <1>6
  <2> HIDE DEF n, f, g, D
  <2>2. IsList(g) /\ ToSet(g) \subseteq D
    BY <2>1, ListMap
  <2> QED BY <2>2 DEF g
<1>8. D \subseteq ToSet(f)
  <2> SUFFICES ASSUME NEW i \in I PROVE edges[i].dst \in ToSet(f)
    OBVIOUS
  <2>1. PICK k \in DOMAIN out : out[k] = edges[i]
    BY <1>4, <1>5
  <2>2. f[k] = edges[i].dst /\ k \in DOMAIN f
    BY <2>1
  <2> HIDE DEF f
  <2> QED BY <2>2 DEF ToSet
<1> HIDE DEF f
<1>9. ToSet(f) = D
  BY <1>7, <1>8
<1> QED BY <1>3, <1>7, <1>9 DEF D, I

LEMMA KernelGraph == ASSUME Shape, Known PROVE GraphOK(NamesOf(kernels), Succ)
PROOF
<1> SUFFICES ASSUME NEW v \in NamesOf(kernels)
             PROVE  IsList(Succ[v]) /\ ToSet(Succ[v]) \subseteq NamesOf(kernels)
  BY DEF GraphOK
<1>1. \A i \in DOMAIN edges : edges[i].dst \in NamesOf(kernels)
  BY DEF Known
<1> QED BY <1>1, SuccRight

\* A component of the graph of the kernels is a class of kernels that reach each other.
LEMMA KernelClasses ==
  ASSUME Shape, NEW x
  PROVE  Component(NamesOf(kernels), Succ, x) = ClassOf(x)
PROOF
<1> DEFINE V == NamesOf(kernels)
           E == {<<edges[i].src, edges[i].dst>> : i \in DOMAIN edges}
<1>1. ASSUME NEW S \in SUBSET V
      PROVE  (\A y \in S : ToSet(Succ[y]) \subseteq S) <=> (\A p \in E : p[1] \in S => p[2] \in S)
  <2>1. ASSUME NEW y \in S
        PROVE  ToSet(Succ[y]) = {edges[i].dst : i \in {j \in DOMAIN edges : edges[j].src = y}}
    BY SuccRight
  <2>2. ASSUME \A y \in S : ToSet(Succ[y]) \subseteq S, NEW p \in E, p[1] \in S PROVE p[2] \in S
    <3>1. PICK i \in DOMAIN edges : p = <<edges[i].src, edges[i].dst>>
      OBVIOUS
    <3>2. p[1] = edges[i].src /\ p[2] = edges[i].dst
      BY <3>1
    <3>3. edges[i].dst \in ToSet(Succ[edges[i].src])
      BY <2>1, <2>2, <3>2
    <3> QED BY <2>2, <3>2, <3>3
  <2>3. ASSUME \A p \in E : p[1] \in S => p[2] \in S, NEW y \in S, NEW z \in ToSet(Succ[y])
        PROVE  z \in S
    <3>1. PICK i \in DOMAIN edges : edges[i].src = y /\ z = edges[i].dst
      BY <2>1
    <3>2. <<y, z>> \in E
      BY <3>1
    <3>3. <<y, z>>[1] = y /\ <<y, z>>[2] = z
      OBVIOUS
    <3> QED BY <2>3, <3>2, <3>3
  <2> QED BY <2>2, <2>3
<1>2. SuccClosed(V, Succ) = ClosedSets(V, E)
  <2> HIDE DEF V, E
  <2> QED BY <1>1 DEF SuccClosed, ClosedSets
<1>3. ClassOf(x) = {y \in V : \A S \in ClosedSets(V, E) : x \in S <=> y \in S}
  BY DEF ClassOf
<1> HIDE DEF V, E
<1>4. \A y : (Reaches(V, Succ, x, y) /\ Reaches(V, Succ, y, x))
               <=> \A S \in ClosedSets(V, E) : x \in S <=> y \in S
  BY <1>2 DEF Reaches
<1> QED BY <1>3, <1>4 DEF Component, V

\* What is warned of: the classes of two or more kernels, none of them host-controlled.
WarnedRight ==
  warned = {c \in {ClassOf(x) : x \in NamesOf(kernels)} :
              Cardinality(c) >= 2 /\ \A n \in c : ~Find(n).host}

\* The search starts from nothing in the phase of its own, which it leaves when it is
\* complete.
CyclesInv ==
  /\ phase \notin {"cycles", "lower", "emit", "ended"} => search = NewSearch
  /\ phase = "cycles" => SearchInv(NamesOf(kernels), Succ, search)
  /\ phase \in {"lower", "emit"} \/ (phase = "ended" /\ search # NewSearch) => WarnedRight

LEMMA SameKernels ==
  ASSUME UNCHANGED graphVars
  PROVE  /\ NamesOf(kernels)' = NamesOf(kernels) /\ Succ' = Succ
         /\ UNCHANGED warned => (WarnedRight' <=> WarnedRight)
PROOF
<1>1. kernels' = kernels /\ edges' = edges
  BY DEF graphVars
<1>2. NamesOf(kernels)' = NamesOf(kernels)
  BY <1>1
<1>3. Succ' = Succ
  BY <1>1, <1>2 DEF Succ
<1>4. UNCHANGED warned => (WarnedRight' <=> WarnedRight)
  BY <1>1, <1>2 DEF WarnedRight, ClassOf, Find
<1> QED BY <1>2, <1>3, <1>4

LEMMA SearchStep ==
  ASSUME Shape, Progress, CyclesInv, StartSearch \/ LookAtSuccessor \/ LeaveNode
  PROVE  CyclesInv'
PROOF
<1> DEFINE V == NamesOf(kernels)
<1>1. phase = "cycles" /\ phase' = "cycles" /\ UNCHANGED graphVars
  BY DEF StartSearch, LookAtSuccessor, LeaveNode
<1>2. GraphOK(V, Succ) /\ SearchInv(V, Succ, search)
  BY <1>1, KernelGraph DEF Progress, CyclesInv
<1>3. SearchInv(V, Succ, search')
  <2>1. CASE StartSearch
    <3>1. search.calls = <<>>
      BY <2>1 DEF StartSearch
    <3>2. PICK i \in DOMAIN kernels : /\ kernels[i].name \notin DOMAIN search.idx
                                      /\ search' = Enter(search, kernels[i].name)
      BY <2>1 DEF StartSearch
    <3>3. kernels[i].name \in V \ DOMAIN search.idx
      BY <3>2 DEF NamesOf
    <3> HIDE DEF V
    <3>4. SearchInv(V, Succ, Enter(search, kernels[i].name))
      BY <1>2, <3>1, <3>3, EnterOK
    <3> QED BY <3>2, <3>4
  <2>2. CASE LookAtSuccessor
    BY <1>2, <2>2, LookOK DEF LookAtSuccessor
  <2>3. CASE LeaveNode
    BY <1>2, <2>3, LeaveOK DEF LeaveNode
  <2> QED BY <2>1, <2>2, <2>3
<1>4. SearchInv(NamesOf(kernels)', Succ', search')
  BY <1>1, <1>3, SameKernels
<1> QED BY <1>1, <1>4 DEF CyclesInv

LEMMA AnalyzeCyclesRight == ASSUME Shape, CyclesInv, AnalyzeCycles PROVE CyclesInv'
PROOF
<1> DEFINE V == NamesOf(kernels)
<1>1. /\ phase = "cycles" /\ phase' \in {"lower", "ended"} /\ UNCHANGED graphVars
      /\ search.calls = <<>> /\ V \subseteq DOMAIN search.idx
      /\ warned' = {c \in search.sccs : Cardinality(c) >= 2 /\ \A n \in c : ~Find(n).host}
  BY DEF AnalyzeCycles
<1>2. SearchInv(V, Succ, search)
  BY <1>1 DEF CyclesInv
<1>3. search.sccs = {Component(V, Succ, x) : x \in V}
  <2> HIDE DEF V
  <2> QED BY <1>1, <1>2, SearchEnds
<1>4. search.sccs = {ClassOf(x) : x \in V}
  BY <1>3, KernelClasses
<1>5. warned' = {c \in {ClassOf(x) : x \in V} : Cardinality(c) >= 2 /\ \A n \in c : ~Find(n).host}
  BY <1>1, <1>4
<1>6. WarnedRight'
  <2>1. kernels' = kernels /\ edges' = edges
    BY <1>1 DEF graphVars
  <2> QED BY <1>5, <2>1 DEF WarnedRight, NamesOf, ClassOf, Find
<1> QED BY <1>1, <1>6 DEF CyclesInv

LEMMA NextCycles == ASSUME Shape, Progress, CyclesInv, [Next]_vars PROVE CyclesInv'
PROOF
<1>1. CASE StartSearch \/ LookAtSuccessor \/ LeaveNode
  BY <1>1, SearchStep
<1>2. CASE AnalyzeCycles
  BY <1>2, AnalyzeCyclesRight
<1>3. CASE AnalyzePortArity
  <2>1. phase = "arity" /\ phase' = "cycles" /\ search' = search
    BY <1>3 DEF AnalyzePortArity, backVars
  <2>2. search' = NewSearch
    BY <2>1 DEF CyclesInv
  <2>3. SearchInv(NamesOf(kernels)', Succ', search')
    BY <2>2, NewSearchOK
  <2> QED BY <2>1, <2>3 DEF CyclesInv
<1>4. CASE OpenInput \/ Parse \/ Resolve
  <2>1. /\ phase \notin {"cycles", "lower", "emit", "ended"} /\ phase' \notin {"cycles", "lower", "emit"}
        /\ search' = search
    BY <1>4 DEF OpenInput, Parse, ParseImport, ParseElementDecl, ParseElementGroupDecl,
       ParseDeclOrChain, ParseError, EndFile, Reading, Resolve, CollectDecl, EndCollect,
       ProcessTop, InlineGroup, InlineEnd, SynthesizeSpecials, EndResolve, backVars
  <2> QED BY <2>1, SMTT(30) DEF CyclesInv
<1>5. CASE LowerToBackend \/ Emit \/ Terminated \/ UNCHANGED vars
  <2>1. /\ UNCHANGED <<search, warned, graphVars>>
        /\ \/ phase \in {"lower", "emit"} /\ phase' \in {"emit", "ended"}
           \/ phase' = phase
    BY <1>5 DEF LowerToBackend, Emit, Terminated, vars, backVars
  <2>2. /\ NamesOf(kernels)' = NamesOf(kernels) /\ Succ' = Succ
        /\ WarnedRight' <=> WarnedRight
    BY <2>1, SameKernels
  <2> QED BY <2>1, <2>2 DEF CyclesInv
<1> QED BY <1>1, <1>2, <1>3, <1>4, <1>5 DEF Next, Analyze

LEMMA InitCycles == Init => CyclesInv
BY DEF Init, CyclesInv

LEMMA CyclesRight == ASSUME CyclesInv PROVE CyclesFound
BY DEF CyclesInv, CyclesFound, WarnedRight

-----------------------------------------------------------------------------
(* The invariant, and what follows.                                        *)

CompilerInv == Shape /\ Progress /\ Wired /\ Addressed /\ ImportInv /\ CyclesInv

LEMMA InitCompilerInv == Init => CompilerInv
PROOF
<1> SUFFICES ASSUME Init PROVE CompilerInv
  OBVIOUS
<1>1. ~build.made
  BY DEF Init, NoBuild
<1> QED BY <1>1, InitShape, InitProgress, InitImports, InitCycles
       DEF CompilerInv, Wired, Addressed, Accepted

LEMMA NextCompilerInv == CompilerInv /\ [Next]_vars => CompilerInv'
PROOF
<1> SUFFICES ASSUME CompilerInv, [Next]_vars PROVE CompilerInv'
  OBVIOUS
<1>1. Shape /\ Progress /\ Wired /\ Addressed /\ ImportInv /\ CyclesInv
  BY DEF CompilerInv
<1>2. Shape' /\ Progress' /\ ImportInv' /\ CyclesInv'
  BY <1>1, NextShape, NextProgress, NextImports, NextCycles
<1>3. Wired' /\ Addressed'
  <2>1. CASE LowerToBackend
    BY <1>1, <2>1, LoweredWired, LoweredAddressed
  <2>2. CASE UNCHANGED build /\ (~build.made \/ UNCHANGED graphVars)
    BY <1>1, <2>2, StillRight
  <2> QED BY <1>1, <2>1, <2>2, BuildKept
<1> QED BY <1>2, <1>3 DEF CompilerInv

LEMMA CompilerInvariant == Spec => []CompilerInv
BY InitCompilerInv, NextCompilerInv, PTL DEF Spec

\* The data keep their shape, through the parser, the inlining of groups and the
\* analyses: a boundary kernel never has ports on its far side, and a kernel never a
\* negative number of them.
THEOREM CompilerTypeCorrect == Spec => []Shape
PROOF
<1>1. CompilerInv => Shape
  BY DEF CompilerInv
<1> QED BY <1>1, CompilerInvariant, PTL

\* Every connection of an accepted program is in exactly one list of the build, or
\* swallowed, and its ends are ports of the build's kernels or boundaries
\* (lower_to_backend behind resolve and analyze_port_arity).
THEOREM BuildWired == Spec => []Wired
PROOF
<1>1. CompilerInv => Wired
  BY DEF CompilerInv
<1> QED BY <1>1, CompilerInvariant, PTL

\* The register blocks and the signal numbers of an accepted program are disjoint,
\* and so are the slots of its host streams (assign_signal_slots, lower_to_backend).
THEOREM BuildAddressed == Spec => []Addressed
PROOF
<1>1. CompilerInv => Addressed
  BY DEF CompilerInv
<1> QED BY <1>1, CompilerInvariant, PTL

\* The exit status tells whether there was an error, in whatever phase, up to the
\* multiples of 256 (Driver::run).
THEOREM ExitCodeRight == Spec => []ExitCode
PROOF
<1>1. CompilerInv => ExitCode
  BY DEF CompilerInv, Progress
<1> QED BY <1>1, CompilerInvariant, PTL

\* When the parser is through without an error, every element of the files that
\* imports reach is declared, and none twice (Parser::parseFile, seen_files_).
THEOREM FilesImportedOnce == Spec => []ImportedOnce
PROOF
<1>1. CompilerInv => ImportedOnce
  BY ImportsRight DEF CompilerInv
<1> QED BY <1>1, CompilerInvariant, PTL

\* The components the search for cycles warns of are exactly the classes of two or
\* more kernels that reach each other, none of them host-controlled (analyze_cycles,
\* Tarjan::strong).
THEOREM CyclesAllFound == Spec => []CyclesFound
PROOF
<1>1. CompilerInv => CyclesFound
  BY CyclesRight DEF CompilerInv
<1> QED BY <1>1, CompilerInvariant, PTL

-----------------------------------------------------------------------------
(***************************************************************************)
(* The lexer: where a search of the text leads.                            *)
(***************************************************************************)
\* What holds of k if it holds of everything above k holds down to 1.
LEMMA DownTo ==
  ASSUME NEW N \in Nat, NEW S, \A k \in 1 .. N : (\A j \in k + 1 .. N : j \in S) => k \in S
  PROVE  \A k \in 1 .. N : k \in S
PROOF
<1> DEFINE K == {m \in Nat : \A k \in 1 .. N : k > N - m => k \in S}
<1>1. 0 \in K
  OBVIOUS
<1>2. ASSUME NEW m \in 1 .. N, m - 1 \in K PROVE m \in K
  <2>1. ASSUME NEW k \in 1 .. N, k > N - m PROVE k \in S
    <3>1. \A j \in k + 1 .. N : j > N - (m - 1)
      BY <2>1
    <3>2. \A j \in k + 1 .. N : j \in S
      BY <1>2, <3>1
    <3> QED BY <3>2
  <2> QED BY <2>1
<1>3. N \in K
  <2> HIDE DEF K
  <2> QED BY <1>1, <1>2, UpTo
<1> QED BY <1>3

\* A definition that looks only further on: at the positions of D it answers v,
\* at the others it goes on at nx.
Onward(M, D, nx) == \A q \in 1 .. M : q \notin D => nx[q] \in q + 1 .. M

Jumps(f, M, D, v, nx) == f = [q \in 1 .. M |-> IF q \in D THEN v[q] ELSE f[nx[q]]]

LEMMA JumpsExist ==
  ASSUME NEW M \in Nat, NEW D, NEW v, NEW nx, Onward(M, D, nx)
  PROVE  \E f : Jumps(f, M, D, v, nx)
PROOF
<1> DEFINE Go(f, q) == IF q \in D THEN v[q] ELSE f[nx[q]]
           P(m) == \E f : f = [q \in M - m + 1 .. M |-> Go(f, q)]
           S == {m \in Nat : P(m)}
<1>1. 0 \in S
  <2> DEFINE f == [q \in M - 0 + 1 .. M |-> v]
  <2>1. f = [q \in M - 0 + 1 .. M |-> Go(f, q)]
    OBVIOUS
  <2> QED BY <2>1
<1>2. ASSUME NEW m \in 1 .. M, m - 1 \in S PROVE m \in S
  <2>1. PICK f : f = [q \in M - (m - 1) + 1 .. M |-> Go(f, q)]
    BY <1>2
  <2> DEFINE h == M - m + 1
             g == [q \in h .. M |-> IF q > h THEN f[q] ELSE Go(f, q)]
  <2>2. h \in 1 .. M /\ M - (m - 1) + 1 = h + 1
    OBVIOUS
  <2>3. f = [q \in h + 1 .. M |-> Go(f, q)]
    <3> HIDE DEF h
    <3> QED BY <2>1, <2>2
  <2> HIDE DEF h
  <2>4. \A q \in h + 1 .. M : g[q] = f[q]
    BY <2>2
  <2>5. ASSUME NEW q \in h .. M PROVE g[q] = Go(f, q)
    <3>1. CASE q > h
      <4>1. q \in h + 1 .. M
        BY <2>2, <3>1
      <4> HIDE DEF Go
      <4>2. f[q] = Go(f, q)
        BY <2>3, <4>1
      <4> QED BY <2>4, <4>1, <4>2
    <3>2. CASE ~(q > h)
      BY <3>2
    <3> QED BY <3>1, <3>2
  <2>6. ASSUME NEW q \in h .. M PROVE Go(f, q) = Go(g, q)
    <3>1. q \notin D => nx[q] \in h + 1 .. M
      BY <2>2 DEF Onward
    <3> QED BY <2>4, <3>1
  <2>7. g = [q \in h .. M |-> g[q]]
    OBVIOUS
  <2> HIDE DEF g, Go
  <2>8. g = [q \in h .. M |-> Go(g, q)]
    BY <2>5, <2>6, <2>7
  <2>9. P(m)
    BY <2>8 DEF h
  <2> QED BY <2>9
<1>3. M \in S
  <2> HIDE DEF S
  <2> QED BY <1>1, <1>2, UpTo
<1>4. PICK f : f = [q \in M - M + 1 .. M |-> Go(f, q)]
  BY <1>3
<1>5. M - M + 1 .. M = 1 .. M
  OBVIOUS
<1>6. f = [q \in 1 .. M |-> Go(f, q)]
  <2> HIDE DEF Go
  <2> QED BY <1>4, <1>5
<1> QED BY <1>6 DEF Jumps

\* It answers for some position of D that is no earlier.
LEMMA JumpsLand ==
  ASSUME NEW M \in Nat, NEW D, NEW v, NEW nx, NEW f, Jumps(f, M, D, v, nx), Onward(M, D, nx)
  PROVE  \A q \in 1 .. M : \E d \in q .. M : d \in D /\ f[q] = v[d]
PROOF
<1> DEFINE S == {q \in 1 .. M : \E d \in q .. M : d \in D /\ f[q] = v[d]}
<1>1. ASSUME NEW q \in 1 .. M, \A j \in q + 1 .. M : j \in S PROVE q \in S
  <2>1. f[q] = IF q \in D THEN v[q] ELSE f[nx[q]]
    BY Zenon DEF Jumps
  <2>2. CASE q \in D
    BY <2>1, <2>2
  <2>3. CASE q \notin D
    <3>1. nx[q] \in q + 1 .. M
      BY <2>3 DEF Onward
    <3>2. PICK d \in nx[q] .. M : d \in D /\ f[nx[q]] = v[d]
      BY <1>1, <3>1
    <3>3. d \in q .. M
      BY <3>1
    <3> QED BY <2>1, <2>3, <3>2, <3>3
  <2> QED BY <2>2, <2>3
<1>2. \A q \in 1 .. M : q \in S
  <2> HIDE DEF S
  <2> QED BY <1>1, DownTo
<1> QED BY <1>2

\* The first of the positions from p on that are in T, or the end.
Candidates(p, L, T) == {q \in p .. L : q \in T} \cup {L + 1}

First(e, p, L, T) ==
  /\ e \in p .. L + 1
  /\ e <= L => e \in T
  /\ \A q \in p .. e - 1 : q \notin T

LEMMA FirstOf ==
  ASSUME NEW L \in Nat, NEW p \in 1 .. L + 1, NEW T
  PROVE  First(Min(Candidates(p, L, T)), p, L, T)
PROOF
<1> DEFINE S == Candidates(p, L, T)
           e == Min(S)
<1>0. S = {q \in p .. L : q \in T} \cup {L + 1}
  BY DEF Candidates
<1> HIDE DEF S
<1>1. S \in SUBSET Nat /\ S # {}
  BY <1>0
<1>2. \E x \in S : \A y \in S : x <= y
  BY <1>1, LeastNumber
<1>3. e = CHOOSE x \in S : \A y \in S : x <= y
  BY DEF Min
<1> HIDE DEF e
<1>4. e \in S /\ \A y \in S : e <= y
  BY <1>2, <1>3
<1>5. e \in p .. L + 1 /\ (e <= L => e \in T)
  BY <1>0, <1>4
<1>6. ASSUME NEW q \in p .. e - 1, q \in T PROVE FALSE
  <2>1. q \in S
    BY <1>0, <1>5, <1>6
  <2> QED BY <1>4, <1>5, <2>1
<1> QED BY <1>5, <1>6 DEF First, S, e

\* A text is a sequence of characters.
TextOK == text \in Seq(Chars)

LEMMA TextIs ==
  ASSUME TextOK
  PROVE  Len(text) \in Nat /\ \A p \in 1 .. Len(text) : text[p] \in Chars
BY LenProperties DEF TextOK

LEMMA PeekIs ==
  ASSUME TextOK, NEW p \in Int
  PROVE  /\ p <= Len(text) => peek(p) = text[p]
         /\ p > Len(text) => peek(p) = "end"
         /\ p \in Nat \ {0} /\ peek(p) # "end" => p \in 1 .. Len(text) /\ peek(p) = text[p]
PROOF
<1>1. Len(text) \in Nat
  BY TextIs
<1> QED BY <1>1 DEF peek

LEMMA EndOfLineIs ==
  ASSUME TextOK, NEW p \in 1 .. Len(text) + 1
  PROVE  /\ EndOfLine(p) \in p .. Len(text) + 1
         /\ EndOfLine(p) <= Len(text) => text[EndOfLine(p)] = "nl"
         /\ \A q \in p .. EndOfLine(p) - 1 : text[q] # "nl"
PROOF
<1> DEFINE T == {q \in 1 .. Len(text) : text[q] = "nl"}
           e == EndOfLine(p)
<1>1. Len(text) \in Nat
  BY TextIs
<1>2. e = Min(Candidates(p, Len(text), T))
  <2>1. {q \in p .. Len(text) : q \in T} = {q \in p .. Len(text) : text[q] = "nl"}
    BY <1>1
  <2> QED BY <2>1 DEF EndOfLine, Seek, Candidates
<1> HIDE DEF T, e
<1>3. e \in p .. Len(text) + 1 /\ (e <= Len(text) => e \in T) /\ \A q \in p .. e - 1 : q \notin T
  <2>1. First(e, p, Len(text), T)
    BY <1>1, <1>2, FirstOf
  <2> QED BY <2>1 DEF First
<1>4. ASSUME NEW q \in p .. e - 1 PROVE text[q] # "nl"
  BY <1>1, <1>3, <1>4 DEF T
<1> QED BY <1>1, <1>3, <1>4 DEF T, e

\* Where the star is that ends the comment that begins at p, or the end.
Star(p) == Seek(p + 2, LAMBDA q : text[q] = "*" /\ peek(q + 1) = "/")

LEMMA StarIs ==
  ASSUME TextOK, NEW p \in 1 .. Len(text) - 1
  PROVE  /\ Star(p) \in p + 2 .. Len(text) + 1
         /\ Star(p) <= Len(text) => text[Star(p)] = "*" /\ Star(p) + 1 <= Len(text) /\ text[Star(p) + 1] = "/"
         /\ \A q \in p + 2 .. Star(p) - 1 : ~(text[q] = "*" /\ q + 1 <= Len(text) /\ text[q + 1] = "/")
         /\ EndOfComment(p) = IF Star(p) <= Len(text) THEN Star(p) + 2 ELSE Len(text) + 1
PROOF
<1> DEFINE T == {q \in 1 .. Len(text) : text[q] = "*" /\ peek(q + 1) = "/"}
           e == Star(p)
           p2 == p + 2
<1>1. Len(text) \in Nat /\ p2 \in 1 .. Len(text) + 1
  BY TextIs
<1>2. e = Min(Candidates(p2, Len(text), T))
  <2>1. {q \in p2 .. Len(text) : q \in T}
          = {q \in p2 .. Len(text) : text[q] = "*" /\ peek(q + 1) = "/"}
    BY <1>1
  <2> QED BY <2>1 DEF Star, Seek, Candidates
<1> HIDE DEF T, e, p2
<1>3. e \in p2 .. Len(text) + 1 /\ (e <= Len(text) => e \in T) /\ \A q \in p2 .. e - 1 : q \notin T
  <2>1. First(e, p2, Len(text), T)
    BY <1>1, <1>2, FirstOf
  <2> QED BY <2>1 DEF First
<1>4. ASSUME NEW q \in p2 .. e - 1
      PROVE  ~(text[q] = "*" /\ q + 1 <= Len(text) /\ text[q + 1] = "/")
  BY <1>1, <1>3, <1>4 DEF T, peek
<1>5. e <= Len(text) => text[e] = "*" /\ e + 1 <= Len(text) /\ text[e + 1] = "/"
  BY <1>1, <1>3 DEF T, peek
<1>6. EndOfComment(p) = Min({Len(text) + 1, e + 2})
  BY DEF EndOfComment, Star, e
<1>7. ASSUME NEW a \in Nat, NEW b \in Nat PROVE Min({a, b}) = IF a <= b THEN a ELSE b
  BY <1>7 DEF Min
<1>8. EndOfComment(p) = IF Len(text) + 1 <= e + 2 THEN Len(text) + 1 ELSE e + 2
  BY <1>1, <1>3, <1>6, <1>7
<1>9. EndOfComment(p) = IF e <= Len(text) THEN e + 2 ELSE Len(text) + 1
  BY <1>1, <1>3, <1>5, <1>8
<1> QED BY <1>3, <1>4, <1>5, <1>9 DEF e, p2

\* The quote that closes a literal: at an end, itself or nothing; behind anything
\* else the search goes on, and over what is escaped.
Close(f, quote) ==
  /\ \A q \in 1 .. Len(text) + 2 :
       f[q] = IF q > Len(text) THEN Len(text) + 1
              ELSE IF text[q] = quote THEN q
              ELSE f[IF text[q] = "bs" THEN q + 2 ELSE q + 1]
  /\ \A q \in 1 .. Len(text) + 2 : f[q] \in 1 .. Len(text) + 1 /\ (q <= Len(text) => f[q] >= q)

LEMMA ClosingIs ==
  ASSUME TextOK, NEW quote
  PROVE  \E f : Close(f, quote) /\ \A p : Closing(p, quote) = f[p]
PROOF
<1> DEFINE L == Len(text)
           M == L + 2
           D == {q \in 1 .. M : q > L \/ text[q] = quote}
           v == [q \in 1 .. M |-> IF q > L THEN L + 1 ELSE q]
           nx == [q \in 1 .. M |-> IF text[q] = "bs" THEN q + 2 ELSE q + 1]
           Was(f) == f = [q \in 1 .. M |->
                            IF q > L THEN L + 1
                            ELSE IF text[q] = quote THEN q
                            ELSE f[IF text[q] = "bs" THEN q + 2 ELSE q + 1]]
<1>1. L \in Nat /\ M \in Nat
  BY TextIs
<1> HIDE DEF L
<1>2. Onward(M, D, nx)
  BY <1>1 DEF Onward
<1>3. ASSUME NEW f PROVE Jumps(f, M, D, v, nx) <=> Was(f)
  <2>1. \A q \in 1 .. M :
          (IF q \in D THEN v[q] ELSE f[nx[q]])
            = IF q > L THEN L + 1
              ELSE IF text[q] = quote THEN q
              ELSE f[IF text[q] = "bs" THEN q + 2 ELSE q + 1]
    BY <1>1
  <2> HIDE DEF D, v, nx, M
  <2> QED BY <2>1 DEF Jumps
<1> DEFINE c == CHOOSE f : Was(f)
<1>4. Jumps(c, M, D, v, nx)
  <2>1. \E f : Jumps(f, M, D, v, nx)
    <3> HIDE DEF D, v, nx, M
    <3> QED BY <1>1, <1>2, JumpsExist
  <2> HIDE DEF D, v, nx, M, Was
  <2> QED BY <1>3, <2>1
<1>5. \A p : Closing(p, quote) = c[p]
  BY Zenon DEF Closing, L
<1>6. Was(c)
  <2> HIDE DEF c, Was, D, v, nx, M
  <2> QED BY <1>3, <1>4
<1> HIDE DEF c
<1>7. \A q \in 1 .. M :
        c[q] = IF q > L THEN L + 1
               ELSE IF text[q] = quote THEN q
               ELSE c[IF text[q] = "bs" THEN q + 2 ELSE q + 1]
  BY <1>6, Zenon
<1>8. \A q \in 1 .. M : \E d \in q .. M : d \in D /\ c[q] = v[d]
  <2> HIDE DEF D, v, nx, M
  <2> QED BY <1>1, <1>2, <1>4, JumpsLand
<1>9. ASSUME NEW q \in 1 .. M PROVE c[q] \in 1 .. L + 1 /\ (q <= L => c[q] >= q)
  <2>1. PICK d \in q .. M : d \in D /\ c[q] = v[d]
    BY <1>8
  <2>2. v[d] = IF d > L THEN L + 1 ELSE d
    BY <1>1, <2>1
  <2> QED BY <1>1, <2>1, <2>2
<1> QED BY <1>5, <1>7, <1>9 DEF Close, L

LEMMA SkipIs ==
  ASSUME TextOK, NEW p \in 1 .. Len(text) + 1
  PROVE  skipWhitespaceAndComments(p) \in 1 .. Len(text) + 1
PROOF
<1> DEFINE L == Len(text)
           M == L + 1
           Nx(q) == CASE peek(q) \in {"sp", "nl"}           -> q + 1
                      [] peek(q) = "/" /\ peek(q + 1) = "/" -> EndOfLine(q)
                      [] peek(q) = "/" /\ peek(q + 1) = "*" -> EndOfComment(q)
                      [] OTHER                              -> EndOfLine(q)
           Over(q) == /\ peek(q) \notin {"sp", "nl", "#"}
                      /\ ~(peek(q) = "/" /\ peek(q + 1) \in {"/", "*"})
           D == {q \in 1 .. M : Over(q)}
           v == [q \in 1 .. M |-> q]
           nx == [q \in 1 .. M |-> Nx(q)]
           Turn(f, q) ==
             CASE peek(q) \in {"sp", "nl"}                -> f[q + 1]
               [] peek(q) = "/" /\ peek(q + 1) = "/"      -> f[EndOfLine(q)]
               [] peek(q) = "/" /\ peek(q + 1) = "*"      -> f[EndOfComment(q)]
               [] peek(q) = "#"                           -> f[EndOfLine(q)]
               [] OTHER                                   -> q
           Was(f) == f = [q \in 1 .. M |-> Turn(f, q)]
<1>1. L \in Nat /\ M \in Nat
  BY TextIs
<1>2. ASSUME NEW q \in 1 .. M, ~Over(q) PROVE Nx(q) \in q + 1 .. M
  <2>1. q \in 1 .. L /\ peek(q) = text[q]
    BY <1>1, <1>2 DEF peek
  <2>2. CASE text[q] \in {"sp", "nl"}
    BY <1>1, <2>1, <2>2
  <2>3. CASE text[q] = "#" \/ (text[q] = "/" /\ peek(q + 1) = "/")
    <3>1. EndOfLine(q) \in q .. M /\ (EndOfLine(q) <= L => text[EndOfLine(q)] = "nl")
      BY EndOfLineIs
    <3>2. Nx(q) = EndOfLine(q)
      BY <2>1, <2>3
    <3>3. EndOfLine(q) # q
      BY <2>1, <2>3, <3>1
    <3> HIDE DEF Nx
    <3> QED BY <1>1, <2>1, <3>1, <3>2, <3>3
  <2>4. CASE text[q] = "/" /\ peek(q + 1) = "*"
    <3>1. q + 1 <= L /\ q \in 1 .. L - 1
      BY <1>1, <2>1, <2>4 DEF peek
    <3>2. Nx(q) = EndOfComment(q)
      BY <2>1, <2>4
    <3>3. /\ Star(q) \in q + 2 .. L + 1
          /\ Star(q) <= L => Star(q) + 1 <= L
          /\ EndOfComment(q) = IF Star(q) <= L THEN Star(q) + 2 ELSE L + 1
      BY <3>1, StarIs
    <3> HIDE DEF Nx
    <3> QED BY <1>1, <2>1, <3>2, <3>3
  <2> QED BY <1>2, <2>1, <2>2, <2>3, <2>4
<1>3. Onward(M, D, nx)
  <2> HIDE DEF Nx, Over, L, M
  <2> QED BY <1>2 DEF Onward
<1>4. ASSUME NEW f PROVE Jumps(f, M, D, v, nx) <=> Was(f)
  <2>1. ASSUME NEW q \in 1 .. M PROVE (IF q \in D THEN v[q] ELSE f[nx[q]]) = Turn(f, q)
    <3>1. CASE Over(q)
      <4>1. Turn(f, q) = q
        BY <3>1
      <4> HIDE DEF Turn, Over
      <4> QED BY <3>1, <4>1
    <3>2. CASE ~Over(q)
      <4>1. Turn(f, q) = f[Nx(q)]
        BY <3>2
      <4> HIDE DEF Turn, Over, Nx
      <4> QED BY <3>2, <4>1
    <3> QED BY <3>1, <3>2
  <2> HIDE DEF D, v, nx, M, Turn
  <2> QED BY <2>1 DEF Jumps
<1> DEFINE c == CHOOSE f : Was(f)
<1>5. Jumps(c, M, D, v, nx)
  <2>1. \E f : Jumps(f, M, D, v, nx)
    <3> HIDE DEF D, v, nx, M
    <3> QED BY <1>1, <1>3, JumpsExist
  <2> HIDE DEF D, v, nx, M, Was
  <2> QED BY <1>4, <2>1
<1>6. skipWhitespaceAndComments(p) = c[p]
  BY Zenon DEF skipWhitespaceAndComments
<1> HIDE DEF c, L
<1>7. \E d \in p .. M : d \in D /\ c[p] = v[d]
  <2>1. p \in 1 .. M
    BY DEF L
  <2> HIDE DEF D, v, nx, M
  <2>2. \A q \in 1 .. M : \E d \in q .. M : d \in D /\ c[q] = v[d]
    BY <1>1, <1>3, <1>5, JumpsLand
  <2> QED BY <2>1, <2>2
<1>8. c[p] \in 1 .. M
  <2> HIDE DEF Over
  <2> QED BY <1>1, <1>7
<1> QED BY <1>6, <1>8 DEF L

\* The token at or after p ends within the text.
LEMMA NextIs ==
  ASSUME TextOK, NEW p \in 1 .. Len(text) + 1
  PROVE  next(p).to \in 1 .. Len(text) + 1
PROOF
<1> DEFINE s == skipWhitespaceAndComments(p)
           c == peek(s)
<1>1. Len(text) \in Nat /\ s \in 1 .. Len(text) + 1
  BY TextIs, SkipIs
<1>2. next(p) = CASE c = "end"                            -> Token("Eof", s)
                 [] c = "dq"                              -> lexString(s)
                 [] c \in {"{", "}", ";", "*", "(", ")"}   -> Token(c, s + 1)
                 [] c \in Words \cup Directives           -> Token(c, s + 1)
                 [] OTHER                                 -> Token("Error", s + 1)
  BY DEF next
<1> HIDE DEF s
<1>3. c # "end" => s <= Len(text)
  BY <1>1, PeekIs
<1> HIDE DEF c
<1>4. ASSUME c # "end" PROVE lexString(s).to \in 1 .. Len(text) + 1
  <2> DEFINE q == Closing(s + 1, "dq")
  <2>1. s + 1 \in 1 .. Len(text) + 2
    BY <1>1
  <2>2. q \in 1 .. Len(text) + 1
    <3>1. PICK f : Close(f, "dq") /\ \A r : Closing(r, "dq") = f[r]
      BY ClosingIs
    <3> QED BY <2>1, <3>1 DEF Close
  <2>3. lexString(s) = IF q > Len(text) THEN Token("Error", q) ELSE Token("StringLit", q + 1)
    BY DEF lexString
  <2> HIDE DEF q
  <2> QED BY <1>1, <2>2, <2>3 DEF Token
<1>5. CASE c = "end"
  BY <1>1, <1>2, <1>5 DEF Token, Words, Directives
<1>6. CASE c = "dq"
  BY <1>2, <1>4, <1>6 DEF Words, Directives
<1>7. CASE c # "end" /\ c # "dq"
  <2>1. \E kind : next(p) = Token(kind, s + 1)
    BY <1>2, <1>7
  <2> QED BY <1>1, <1>3, <1>7, <2>1 DEF Token
<1> QED BY <1>5, <1>6, <1>7

(***************************************************************************)
(* The lexer: a block of C++, against the reference.                       *)
(***************************************************************************)
\* What lexOpaqueBlock takes into account, one character at a time: comments and
\* literals with escapes.
Modes  == {"code", "/", "//", "/*", "/* *", "dq", "sq", "dq bs", "sq bs"}
States == [in : Modes, depth : Int]

PlainStep(s, c) ==
  CASE s.in \in {"dq", "sq"} ->
         [s EXCEPT !.in = IF c = s.in THEN "code"
                          ELSE IF c = "bs" THEN [dq |-> "dq bs", sq |-> "sq bs"][s.in] ELSE @]
    [] s.in = "dq bs" -> [s EXCEPT !.in = "dq"]
    [] s.in = "sq bs" -> [s EXCEPT !.in = "sq"]
    [] s.in = "//"    -> [s EXCEPT !.in = IF c = "nl" THEN "code" ELSE @]
    [] s.in = "/*"    -> [s EXCEPT !.in = IF c = "*" THEN "/* *" ELSE @]
    [] s.in = "/* *"  -> [s EXCEPT !.in = IF c = "/" THEN "code" ELSE IF c = "*" THEN @ ELSE "/*"]
    [] s.in = "/" /\ c = "/" -> [s EXCEPT !.in = "//"]
    [] s.in = "/" /\ c = "*" -> [s EXCEPT !.in = "/*"]
    [] OTHER ->
         [in |-> IF c \in {"dq", "sq", "/"} THEN c ELSE "code",
          depth |-> CASE c = "{" -> s.depth + 1 [] c = "}" -> s.depth - 1 [] OTHER -> s.depth]

\* Where the block that begins at b ends, if nothing else is taken into account.
PlainEnd(b) ==
  LET scan[i \in b - 1 .. Len(text)] ==
        IF i < b THEN [in |-> "code", depth |-> 1]
        ELSE IF scan[i - 1].depth = 0 THEN scan[i - 1] ELSE PlainStep(scan[i - 1], text[i])
  IN  Min({i \in b .. Len(text) : scan[i].depth = 0} \cup {Len(text) + 1})

\* The states after each character of a block that begins at b.
Scan(b) ==
  CHOOSE scan : scan =
    [i \in b - 1 .. Len(text) |->
       IF i < b THEN [in |-> "code", depth |-> 1]
       ELSE IF scan[i - 1].depth = 0 THEN scan[i - 1] ELSE PlainStep(scan[i - 1], text[i])]

Reads(f, b) ==
  /\ f \in [b - 1 .. Len(text) -> States]
  /\ f[b - 1] = [in |-> "code", depth |-> 1]
  /\ \A i \in b .. Len(text) :
       f[i] = IF f[i - 1].depth = 0 THEN f[i - 1] ELSE PlainStep(f[i - 1], text[i])

LEMMA PlainStepType ==
  ASSUME NEW s \in States, NEW c
  PROVE  PlainStep(s, c) \in States
PROOF
<1> DEFINE C == [in |-> IF c \in {"dq", "sq", "/"} THEN c ELSE "code",
                 depth |-> CASE c = "{" -> s.depth + 1 [] c = "}" -> s.depth - 1 [] OTHER -> s.depth]
           In(m) == [s EXCEPT !.in = m]
<1>0. s.in \in Modes /\ s.depth \in Int /\ s = [in |-> s.in, depth |-> s.depth]
  BY DEF States
<1>1. C \in States
  <2> DEFINE m == IF c \in {"dq", "sq", "/"} THEN c ELSE "code"
             d == CASE c = "{" -> s.depth + 1 [] c = "}" -> s.depth - 1 [] OTHER -> s.depth
  <2>1. m \in Modes
    BY DEF Modes
  <2>2. d \in Int
    <3>1. d \in {s.depth, s.depth + 1, s.depth - 1}
      OBVIOUS
    <3> HIDE DEF d
    <3> QED BY <1>0, <3>1
  <2> HIDE DEF m, d
  <2>3. [in |-> m, depth |-> d] \in States
    BY <2>1, <2>2 DEF States
  <2> QED BY <2>3 DEF m, d
<1>2. \A m \in Modes : In(m) \in States
  BY DEF States, Modes
<1> HIDE DEF C, In
<1>3. PlainStep(s, c) = C \/ \E m \in Modes : PlainStep(s, c) = In(m)
  <2>1. CASE s.in \in {"dq", "sq"}
    <3> DEFINE m == IF c = s.in THEN "code"
                    ELSE IF c = "bs" THEN [dq |-> "dq bs", sq |-> "sq bs"][s.in] ELSE s.in
    <3>1. m \in Modes
      <4>1. [dq |-> "dq bs", sq |-> "sq bs"][s.in] \in {"dq bs", "sq bs"}
        <5>1. CASE s.in = "dq"
          BY <5>1
        <5>2. CASE s.in = "sq"
          BY <5>2
        <5> QED BY <2>1, <5>1, <5>2
      <4>2. m \in {"code", "dq bs", "sq bs", s.in}
        BY <4>1
      <4> HIDE DEF m
      <4> QED BY <1>0, <4>2 DEF Modes
    <3>2. PlainStep(s, c) = [s EXCEPT !.in = m]
      BY <2>1 DEF PlainStep
    <3> HIDE DEF m
    <3> QED BY <3>1, <3>2 DEF In
  <2>2. CASE s.in = "dq bs"
    BY <2>2 DEF PlainStep, Modes, In
  <2>3. CASE s.in = "sq bs"
    BY <2>3 DEF PlainStep, Modes, In
  <2>4. CASE s.in = "//"
    BY <2>4 DEF PlainStep, Modes, In
  <2>5. CASE s.in = "/*"
    BY <2>5 DEF PlainStep, Modes, In
  <2>6. CASE s.in = "/* *"
    BY <2>6 DEF PlainStep, Modes, In
  <2>7. CASE s.in = "/"
    BY <2>7 DEF PlainStep, Modes, In, C
  <2>8. CASE s.in = "code"
    BY <2>8 DEF PlainStep, C
  <2> QED BY <1>0, <2>1, <2>2, <2>3, <2>4, <2>5, <2>6, <2>7, <2>8 DEF Modes
<1> QED BY <1>1, <1>2, <1>3

LEMMA ScanIs ==
  ASSUME TextOK, NEW b \in 1 .. Len(text) + 1
  PROVE  /\ Reads(Scan(b), b)
         /\ PlainEnd(b) = Min({i \in b .. Len(text) : Scan(b)[i].depth = 0} \cup {Len(text) + 1})
PROOF
<1> DEFINE L == Len(text)
           S0 == [in |-> "code", depth |-> 1]
           Go(f, i) == IF i < b THEN S0
                       ELSE IF f[i - 1].depth = 0 THEN f[i - 1] ELSE PlainStep(f[i - 1], text[i])
           P(m) == \E f : f = [i \in b - 1 .. b - 1 + m |-> Go(f, i)]
           S == {m \in Nat : P(m)}
           N == L + 1 - b
<1>0. L \in Nat /\ N \in Nat /\ b - 1 + N = L /\ b \in Nat \ {0}
  BY TextIs
<1> HIDE DEF N, L
<1>1. 0 \in S
  <2> DEFINE f == [i \in b - 1 .. b - 1 + 0 |-> S0]
  <2>1. f = [i \in b - 1 .. b - 1 + 0 |-> Go(f, i)]
    BY <1>0
  <2> QED BY <2>1
<1>2. ASSUME NEW m \in 1 .. N, m - 1 \in S PROVE m \in S
  <2>1. PICK f : f = [i \in b - 1 .. b - 1 + (m - 1) |-> Go(f, i)]
    BY <1>2
  <2> DEFINE h == b - 1 + m
             g == [i \in b - 1 .. h |-> IF i < h THEN f[i] ELSE Go(f, i)]
  <2>2. h \in Nat /\ b - 1 + (m - 1) = h - 1 /\ h >= b
    BY <1>0
  <2>3. f = [i \in b - 1 .. h - 1 |-> Go(f, i)]
    <3> HIDE DEF h, Go
    <3> QED BY <2>1, <2>2
  <2> HIDE DEF h
  <2>4. \A i \in b - 1 .. h - 1 : g[i] = f[i]
    BY <1>0, <2>2
  <2>5. ASSUME NEW i \in b - 1 .. h PROVE g[i] = Go(f, i)
    <3>1. CASE i < h
      <4>1. i \in b - 1 .. h - 1
        BY <1>0, <2>2, <3>1
      <4> HIDE DEF Go
      <4>2. f[i] = Go(f, i)
        BY <2>3, <4>1
      <4> QED BY <2>4, <4>1, <4>2
    <3>2. CASE ~(i < h)
      BY <3>2
    <3> QED BY <3>1, <3>2
  <2>6. ASSUME NEW i \in b - 1 .. h PROVE Go(f, i) = Go(g, i)
    <3>1. ~(i < b) => i - 1 \in b - 1 .. h - 1
      BY <1>0, <2>2
    <3> QED BY <2>4, <3>1
  <2>7. g = [i \in b - 1 .. h |-> g[i]]
    OBVIOUS
  <2> HIDE DEF g, Go
  <2>8. g = [i \in b - 1 .. h |-> Go(g, i)]
    BY <2>5, <2>6, <2>7
  <2>9. P(m)
    BY <2>8 DEF h
  <2> QED BY <2>9
<1>3. N \in S
  <2> HIDE DEF S
  <2>1. N \in Nat /\ N \in 0 .. N
    BY <1>0
  <2>2. \A m \in 0 .. N : m \in S
    BY <1>1, <1>2, <2>1, UpTo
  <2> QED BY <2>1, <2>2
<1>4. PICK f : f = [i \in b - 1 .. L |-> Go(f, i)]
  <2> HIDE DEF Go
  <2> QED BY <1>0, <1>3
<1> DEFINE c == Scan(b)
<1>5. c = [i \in b - 1 .. L |-> Go(c, i)]
  <2> DEFINE Was(g) == g = [i \in b - 1 .. L |-> Go(g, i)]
  <2>1. c = CHOOSE g : Was(g)
    BY Zenon DEF Scan, L
  <2>2. Was(f)
    BY <1>4, Zenon
  <2> HIDE DEF Was, c
  <2>3. Was(c)
    BY <2>1, <2>2
  <2> QED BY <2>3, Zenon DEF Was
<1>6. PlainEnd(b) = Min({i \in b .. L : c[i].depth = 0} \cup {L + 1})
  BY Zenon DEF PlainEnd, Scan, L
<1> HIDE DEF c
<1>7. \A i \in b - 1 .. L : c[i] = Go(c, i)
  <2> HIDE DEF Go
  <2> QED BY <1>5
<1>8. \A i \in b .. L : c[i] = IF c[i - 1].depth = 0 THEN c[i - 1] ELSE PlainStep(c[i - 1], text[i])
  <2> SUFFICES ASSUME NEW i \in b .. L PROVE c[i] = IF c[i - 1].depth = 0 THEN c[i - 1] ELSE PlainStep(c[i - 1], text[i])
    OBVIOUS
  <2>1. i \in b - 1 .. L /\ ~(i < b)
    BY <1>0
  <2> QED BY <1>7, <2>1
<1>9. c[b - 1] = S0
  <2>1. b - 1 \in b - 1 .. L /\ b - 1 < b
    BY <1>0
  <2> QED BY <1>7, <2>1
<1>10. \A i \in b - 1 .. L : c[i] \in States
  <2> DEFINE K == {n \in 0 .. N : c[b - 1 + n] \in States}
  <2>1. 0 \in K
    <3>1. b - 1 + 0 = b - 1 /\ 0 \in 0 .. N
      BY <1>0
    <3>2. c[b - 1] \in States
      BY <1>9 DEF States, Modes
    <3> QED BY <3>1, <3>2
  <2>2. ASSUME NEW n \in 1 .. N, n - 1 \in K PROVE n \in K
    <3> DEFINE i == b - 1 + n
    <3>1. i \in b .. L /\ i - 1 = b - 1 + (n - 1)
      BY <1>0
    <3> HIDE DEF i
    <3>2. c[i - 1] \in States
      BY <2>2, <3>1
    <3>3. c[i] \in States
      BY <1>8, <3>1, <3>2, PlainStepType
    <3> QED BY <3>3 DEF i
  <2>3. \A n \in 0 .. N : n \in K
    <3> HIDE DEF K
    <3> QED BY <1>0, <2>1, <2>2, UpTo
  <2> SUFFICES ASSUME NEW i \in b - 1 .. L PROVE c[i] \in States
    OBVIOUS
  <2>4. i - (b - 1) \in 0 .. N /\ b - 1 + (i - (b - 1)) = i
    BY <1>0
  <2> QED BY <2>3, <2>4
<1>11. c \in [b - 1 .. L -> States]
  <2>1. DOMAIN c = b - 1 .. L /\ c = [i \in DOMAIN c |-> c[i]]
    <3> HIDE DEF Go
    <3> QED BY <1>5
  <2> QED BY <1>10, <2>1
<1> QED BY <1>6, <1>8, <1>9, <1>11 DEF Reads, c, L

\* The next character c will be read as code.
Ready(m, c) == m = "code" \/ (m = "/" /\ c \notin {"/", "*"}) \/ (m = "//" /\ c = "nl")

\* The depth behind a character of code.
Deeper(d, c) == CASE c = "{" -> d + 1 [] c = "}" -> d - 1 [] OTHER -> d

\* What a character makes of a state.
CharRead(s, c, t) ==
  /\ Ready(s.in, c) =>
       /\ t.in = IF c \in {"dq", "sq", "/"} THEN c ELSE "code"
       /\ t.depth = Deeper(s.depth, c)
  /\ ~Ready(s.in, c) => t.depth = s.depth
  /\ s.in = "/" /\ c = "/" => t.in = "//"
  /\ s.in = "/" /\ c = "*" => t.in = "/*"
  /\ s.in = "//" => t.in = IF c = "nl" THEN "code" ELSE "//"
  /\ s.in = "/*" => t.in = IF c = "*" THEN "/* *" ELSE "/*"
  /\ s.in = "/* *" => t.in = IF c = "/" THEN "code" ELSE IF c = "*" THEN "/* *" ELSE "/*"
  /\ s.in \in {"dq", "sq"} /\ c = s.in => t.in = "code"
  /\ s.in = "dq" /\ c # "dq" => t.in = IF c = "bs" THEN "dq bs" ELSE "dq"
  /\ s.in = "sq" /\ c # "sq" => t.in = IF c = "bs" THEN "sq bs" ELSE "sq"
  /\ s.in = "dq bs" => t.in = "dq"
  /\ s.in = "sq bs" => t.in = "sq"

LEMMA StepReads ==
  ASSUME NEW s \in States, NEW c
  PROVE  CharRead(s, c, PlainStep(s, c))
PROOF
<1>0. s.in \in Modes /\ s.depth \in Int /\ s = [in |-> s.in, depth |-> s.depth]
  BY DEF States
<1> DEFINE In(m) == [s EXCEPT !.in = m]
<1>i. ASSUME NEW m PROVE In(m).in = m /\ In(m).depth = s.depth
  BY DEF States
<1> HIDE DEF In
<1>1. CASE s.in = "dq"
  <2>1. [dq |-> "dq bs", sq |-> "sq bs"]["dq"] = "dq bs"
    OBVIOUS
  <2>2. PlainStep(s, c) = In(IF c = "dq" THEN "code" ELSE IF c = "bs" THEN "dq bs" ELSE "dq")
    BY <1>1, <2>1 DEF PlainStep, In
  <2> QED BY <1>1, <1>i, <2>2 DEF CharRead, Ready
<1>2. CASE s.in = "sq"
  <2>1. [dq |-> "dq bs", sq |-> "sq bs"]["sq"] = "sq bs"
    OBVIOUS
  <2>2. PlainStep(s, c) = In(IF c = "sq" THEN "code" ELSE IF c = "bs" THEN "sq bs" ELSE "sq")
    BY <1>2, <2>1 DEF PlainStep, In
  <2> QED BY <1>2, <1>i, <2>2 DEF CharRead, Ready
<1>3. CASE s.in = "dq bs"
  <2>1. PlainStep(s, c) = In("dq")
    BY <1>3 DEF PlainStep, In
  <2> QED BY <1>3, <1>i, <2>1 DEF CharRead, Ready
<1>4. CASE s.in = "sq bs"
  <2>1. PlainStep(s, c) = In("sq")
    BY <1>4 DEF PlainStep, In
  <2> QED BY <1>4, <1>i, <2>1 DEF CharRead, Ready
<1>5. CASE s.in = "//"
  <2>1. PlainStep(s, c) = In(IF c = "nl" THEN "code" ELSE "//")
    BY <1>5 DEF PlainStep, In
  <2> QED BY <1>5, <1>i, <2>1 DEF CharRead, Ready, Deeper
<1>6. CASE s.in = "/*"
  <2>1. PlainStep(s, c) = In(IF c = "*" THEN "/* *" ELSE "/*")
    BY <1>6 DEF PlainStep, In
  <2> QED BY <1>6, <1>i, <2>1 DEF CharRead, Ready
<1>7. CASE s.in = "/* *"
  <2>1. PlainStep(s, c) = In(IF c = "/" THEN "code" ELSE IF c = "*" THEN "/* *" ELSE "/*")
    BY <1>7 DEF PlainStep, In
  <2> QED BY <1>7, <1>i, <2>1 DEF CharRead, Ready
<1>8. CASE s.in = "/" /\ c \in {"/", "*"}
  <2>1. PlainStep(s, c) = In(IF c = "/" THEN "//" ELSE "/*")
    BY <1>8 DEF PlainStep, In
  <2> QED BY <1>8, <1>i, <2>1 DEF CharRead, Ready
<1>9. CASE s.in = "code" \/ (s.in = "/" /\ c \notin {"/", "*"})
  <2>1. PlainStep(s, c) = [in |-> IF c \in {"dq", "sq", "/"} THEN c ELSE "code", depth |-> Deeper(s.depth, c)]
    BY <1>9 DEF PlainStep, Deeper
  <2>2. /\ PlainStep(s, c).in = IF c \in {"dq", "sq", "/"} THEN c ELSE "code"
        /\ PlainStep(s, c).depth = Deeper(s.depth, c)
    BY <2>1
  <2>3. Ready(s.in, c)
    BY <1>9 DEF Ready
  <2> QED BY <1>9, <2>2, <2>3 DEF CharRead
<1> QED BY <1>0, <1>1, <1>2, <1>3, <1>4, <1>5, <1>6, <1>7, <1>8, <1>9 DEF Modes

\* The block that begins at b has been read up to p, where code goes on in depth d.
At(f, b, p, d) ==
  /\ b \in 1 .. Len(text) + 1 /\ Reads(f, b)
  /\ p \in b .. Len(text) /\ d \in Nat \ {0}
  /\ f[p - 1].depth = d /\ Ready(f[p - 1].in, text[p])

\* From p to e the depth is d, and at e code goes on.
Moved(f, p, e, d) ==
  /\ e \in p + 1 .. Len(text) + 1
  /\ \A i \in p .. e - 1 : f[i].depth = d
  /\ e <= Len(text) => Ready(f[e - 1].in, text[e])

LEMMA ReadsOn ==
  ASSUME TextOK, NEW b \in 1 .. Len(text) + 1, NEW f, Reads(f, b)
  PROVE  \A i \in b .. Len(text) : f[i - 1].depth # 0 => CharRead(f[i - 1], text[i], f[i])
PROOF
<1> SUFFICES ASSUME NEW i \in b .. Len(text), f[i - 1].depth # 0
             PROVE  CharRead(f[i - 1], text[i], f[i])
  OBVIOUS
<1>0. Len(text) \in Nat
  BY TextIs
<1>1. f[i] = PlainStep(f[i - 1], text[i]) /\ f[i - 1] \in States
  <2>1. i - 1 \in b - 1 .. Len(text)
    BY <1>0
  <2> QED BY <2>1 DEF Reads
<1> QED BY <1>1, StepReads

\* A character of code that opens nothing.
LEMMA CodeTurn ==
  ASSUME TextOK, NEW f, NEW b, NEW p, NEW d, At(f, b, p, d),
         text[p] \notin {"dq", "sq"}, text[p] = "/" => peek(p + 1) \notin {"/", "*"}
  PROVE  Moved(f, p, p + 1, Deeper(d, text[p]))
PROOF
<1>0. Len(text) \in Nat /\ b \in Nat /\ p \in Nat /\ p \in b .. Len(text)
  BY TextIs DEF At
<1>1. CharRead(f[p - 1], text[p], f[p])
  BY <1>0, ReadsOn DEF At
<1>2. f[p].depth = Deeper(d, text[p]) /\ f[p].in = IF text[p] = "/" THEN "/" ELSE "code"
  BY <1>1 DEF At, CharRead
<1>3. p + 1 <= Len(text) => Ready(f[p].in, text[p + 1])
  BY <1>0, <1>2 DEF Ready, peek
<1> DEFINE e == p + 1
           h == Deeper(d, text[p])
<1>4. e - 1 = p /\ p .. e - 1 = {p} /\ e \in p + 1 .. Len(text) + 1
  BY <1>0
<1>5. f[p].depth = h /\ (e <= Len(text) => Ready(f[p].in, text[e]))
  BY <1>2, <1>3
<1> HIDE DEF e, h
<1>6. Moved(f, p, e, h)
  BY <1>4, <1>5 DEF Moved
<1> QED BY <1>6 DEF e, h

LEMMA LineTurn ==
  ASSUME TextOK, NEW f, NEW b, NEW p, NEW d, At(f, b, p, d), text[p] = "/", peek(p + 1) = "/"
  PROVE  Moved(f, p, EndOfLine(p), d)
PROOF
<1> DEFINE L == Len(text)
           e == EndOfLine(p)
<1>0. L \in Nat /\ b \in Nat \ {0} /\ p \in Nat \ {0} /\ p \in b .. L /\ p + 1 \in b .. L /\ text[p + 1] = "/"
      /\ d \in Nat \ {0}
  BY TextIs, PeekIs DEF At, peek
<1>1. e \in p .. L + 1 /\ (e <= L => text[e] = "nl") /\ \A q \in p .. e - 1 : text[q] # "nl"
  BY <1>0, EndOfLineIs
<1> HIDE DEF e
<1>2. e >= p + 2
  <2>1. e # p /\ e # p + 1
    BY <1>0, <1>1
  <2> QED BY <1>0, <1>1, <2>1
<1>3. \A i \in b .. L : f[i - 1].depth # 0 => CharRead(f[i - 1], text[i], f[i])
  BY ReadsOn DEF At
<1> HIDE DEF L
<1>4. f[p].depth = d /\ f[p].in = "/"
  <2>1. CharRead(f[p - 1], text[p], f[p]) /\ f[p - 1].depth = d /\ Ready(f[p - 1].in, text[p])
    BY <1>0, <1>3 DEF At
  <2> QED BY <2>1 DEF CharRead, Deeper
<1>5. f[p + 1].depth = d /\ f[p + 1].in = "//"
  <2>1. CharRead(f[p], text[p + 1], f[p + 1])
    <3>1. p + 1 - 1 = p
      BY <1>0
    <3> QED BY <1>0, <1>3, <1>4, <3>1
  <2> QED BY <1>0, <1>4, <2>1 DEF CharRead, Ready
<1> DEFINE N == e - 1 - (p + 1)
           K == {n \in 0 .. N : f[p + 1 + n].depth = d /\ f[p + 1 + n].in = "//"}
<1>6. N \in Nat
  BY <1>0, <1>1, <1>2
<1>7. 0 \in K
  <2>1. p + 1 + 0 = p + 1
    BY <1>0
  <2> QED BY <1>5, <1>6, <2>1
<1>8. ASSUME NEW n \in 1 .. N, n - 1 \in K PROVE n \in K
  <2> DEFINE i == p + 1 + n
  <2>1. i \in b .. L /\ i - 1 = p + 1 + (n - 1) /\ i \in p .. e - 1
    BY <1>0, <1>1, <1>6
  <2> HIDE DEF i
  <2>2. f[i - 1].depth = d /\ f[i - 1].in = "//"
    BY <1>8, <2>1
  <2>3. CharRead(f[i - 1], text[i], f[i]) /\ text[i] # "nl"
    BY <1>0, <1>1, <1>3, <2>1, <2>2
  <2>4. f[i].depth = d /\ f[i].in = "//"
    BY <2>2, <2>3 DEF CharRead, Ready
  <2> QED BY <2>4 DEF i
<1>9. \A n \in 0 .. N : n \in K
  <2> HIDE DEF K, N
  <2> QED BY <1>6, <1>7, <1>8, UpTo
<1>10. ASSUME NEW i \in p + 1 .. e - 1 PROVE f[i].depth = d /\ f[i].in = "//"
  <2>1. i - (p + 1) \in 0 .. N /\ p + 1 + (i - (p + 1)) = i
    BY <1>0, <1>1
  <2> QED BY <1>9, <2>1
<1>11. \A i \in p .. e - 1 : f[i].depth = d
  BY <1>0, <1>4, <1>10
<1>12. e <= L => Ready(f[e - 1].in, text[e])
  <2>1. e - 1 \in p + 1 .. e - 1
    BY <1>0, <1>1, <1>2
  <2> QED BY <1>1, <1>10, <2>1 DEF Ready
<1> QED BY <1>0, <1>1, <1>2, <1>11, <1>12 DEF Moved, e, L

\* In a comment the reference remembers a star, and nothing before the one that
\* ends it is followed by a slash.
LEMMA CommentTurn ==
  ASSUME TextOK, NEW f, NEW b, NEW p, NEW d, At(f, b, p, d), text[p] = "/", peek(p + 1) = "*"
  PROVE  Moved(f, p, EndOfComment(p), d)
PROOF
<1> DEFINE L == Len(text)
           s == Star(p)
           Inside(i) == /\ f[i].depth = d
                        /\ f[i].in = IF i > p + 1 /\ text[i] = "*" THEN "/* *" ELSE "/*"
<1>0. L \in Nat /\ b \in Nat \ {0} /\ p \in Nat \ {0} /\ p \in b .. L /\ p + 1 \in b .. L /\ text[p + 1] = "*"
      /\ d \in Nat \ {0} /\ p \in 1 .. L - 1
  BY TextIs, PeekIs DEF At, peek
<1>1. /\ s \in p + 2 .. L + 1
      /\ s <= L => text[s] = "*" /\ s + 1 <= L /\ text[s + 1] = "/"
      /\ \A q \in p + 2 .. s - 1 : ~(text[q] = "*" /\ q + 1 <= L /\ text[q + 1] = "/")
      /\ EndOfComment(p) = IF s <= L THEN s + 2 ELSE L + 1
  BY <1>0, StarIs
<1>3. \A i \in b .. L : f[i - 1].depth # 0 => CharRead(f[i - 1], text[i], f[i])
  BY ReadsOn DEF At
<1> HIDE DEF L, s
<1>4. f[p].depth = d /\ f[p].in = "/"
  <2>1. CharRead(f[p - 1], text[p], f[p]) /\ f[p - 1].depth = d /\ Ready(f[p - 1].in, text[p])
    BY <1>0, <1>3 DEF At
  <2> QED BY <2>1 DEF CharRead, Deeper
<1>5. Inside(p + 1)
  <2>1. CharRead(f[p], text[p + 1], f[p + 1])
    <3>1. p + 1 - 1 = p
      BY <1>0
    <3> QED BY <1>0, <1>3, <1>4, <3>1
  <2>2. f[p + 1].depth = d /\ f[p + 1].in = "/*"
    BY <1>0, <1>4, <2>1 DEF CharRead, Ready
  <2>3. ~(p + 1 > p + 1)
    BY <1>0
  <2> QED BY <2>2, <2>3
\* Up to the star, or to the end.
<1> DEFINE e == IF s <= L THEN s ELSE L
           N == e - (p + 1)
           K == {n \in 0 .. N : Inside(p + 1 + n)}
<1>6. N \in Nat /\ e \in p + 1 .. L /\ e <= s
  BY <1>0, <1>1
<1>7. 0 \in K
  <2>1. p + 1 + 0 = p + 1
    BY <1>0
  <2> HIDE DEF Inside
  <2> QED BY <1>5, <1>6, <2>1
<1>8. ASSUME NEW n \in 1 .. N, n - 1 \in K PROVE n \in K
  <2> DEFINE i == p + 1 + n
             j == p + 1 + (n - 1)
  <2>1. i \in b .. L /\ i - 1 = j /\ i \in p + 2 .. e /\ j \in p + 1 .. e - 1 /\ i = j + 1
    BY <1>0, <1>6
  <2>2. Inside(j)
    BY <1>8
  <2> HIDE DEF i, j
  <2>3. CharRead(f[j], text[i], f[i])
    BY <1>0, <1>3, <2>1, <2>2
  <2>4. ~(f[j].in = "/* *" /\ text[i] = "/")
    <3> SUFFICES ASSUME j > p + 1, text[j] = "*", text[i] = "/" PROVE FALSE
      BY <2>2
    <3>1. j \in p + 2 .. s - 1 /\ j + 1 <= L /\ text[j + 1] = "/"
      BY <1>0, <1>1, <1>6, <2>1
    <3> QED BY <1>1, <3>1
  <2>5. i > p + 1
    BY <1>0, <2>1
  <2>6. f[i].depth = d
    BY <2>2, <2>3 DEF CharRead, Ready
  <2>7. f[i].in = IF text[i] = "*" THEN "/* *" ELSE "/*"
    BY <2>2, <2>3, <2>4 DEF CharRead
  <2>8. Inside(i)
    BY <2>5, <2>6, <2>7
  <2> HIDE DEF Inside
  <2> QED BY <2>8 DEF i
<1>9. \A n \in 0 .. N : n \in K
  <2> HIDE DEF K, N
  <2> QED BY <1>6, <1>7, <1>8, UpTo
<1>10. ASSUME NEW i \in p + 1 .. e PROVE Inside(i)
  <2>1. i - (p + 1) \in 0 .. N /\ p + 1 + (i - (p + 1)) = i
    BY <1>0, <1>6
  <2> HIDE DEF Inside
  <2> QED BY <1>9, <2>1
<1> DEFINE h == EndOfComment(p)
<1>11. CASE s <= L
  <2>1. e = s /\ h = s + 2 /\ text[s] = "*" /\ text[s + 1] = "/" /\ s + 1 \in b .. L /\ s + 1 - 1 = s
        /\ s \in p + 1 .. e /\ s > p + 1
    BY <1>0, <1>1, <1>11
  <2>2. f[s].depth = d /\ f[s].in = "/* *"
    BY <1>10, <2>1
  <2>3. CharRead(f[s], text[s + 1], f[s + 1])
    <3> DEFINE j == s + 1
    <3>1. j \in b .. L /\ j - 1 = s
      BY <2>1
    <3>3. f[j - 1].depth # 0
      BY <1>0, <2>2, <3>1
    <3> HIDE DEF j
    <3>2. CharRead(f[j - 1], text[j], f[j])
      BY <1>3, <3>1, <3>3
    <3> QED BY <3>1, <3>2 DEF j
  <2>4. f[s + 1].depth = d /\ f[s + 1].in = "code"
    BY <2>1, <2>2, <2>3 DEF CharRead, Ready
  <2>5. ASSUME NEW i \in p .. h - 1 PROVE f[i].depth = d
    <3>1. i = p \/ i = s + 1 \/ i \in p + 1 .. e
      BY <1>0, <1>1, <2>1
    <3> QED BY <1>4, <1>10, <2>4, <3>1
  <2>6. h - 1 = s + 1 /\ h \in p + 1 .. L + 1
    BY <1>0, <1>1, <2>1
  <2> HIDE DEF h
  <2> QED BY <2>4, <2>5, <2>6 DEF Moved, Ready, h, L
<1>12. CASE ~(s <= L)
  <2>1. e = L /\ h = L + 1
    BY <1>0, <1>1, <1>12
  <2>2. ASSUME NEW i \in p .. h - 1 PROVE f[i].depth = d
    <3>1. i = p \/ i \in p + 1 .. e
      BY <1>0, <2>1
    <3> QED BY <1>4, <1>10, <3>1
  <2>3. h \in p + 1 .. L + 1 /\ ~(h <= L)
    BY <1>0, <2>1
  <2> HIDE DEF h
  <2> QED BY <2>2, <2>3 DEF Moved, h, L
<1> QED BY <1>11, <1>12

\* In a literal, whatever a backslash escapes, the reference is in the literal
\* where the search is, and behind it where the search ends.
LEMMA LiteralTurn ==
  ASSUME TextOK, NEW f, NEW b, NEW p, NEW d, At(f, b, p, d), text[p] \in {"dq", "sq"}
  PROVE  Moved(f, p, Min({Len(text) + 1, Closing(p + 1, text[p]) + 1}), d)
PROOF
<1> DEFINE L == Len(text)
           u == text[p]
<1>0. L \in Nat /\ b \in Nat \ {0} /\ p \in Nat \ {0} /\ p \in b .. L /\ d \in Nat \ {0}
  BY TextIs DEF At
<1>1. PICK c : Close(c, u) /\ \A r : Closing(r, u) = c[r]
  BY ClosingIs
<1>2. \A i \in b .. L : f[i - 1].depth # 0 => CharRead(f[i - 1], text[i], f[i])
  BY ReadsOn DEF At
<1>3. /\ \A q \in 1 .. L + 2 :
            c[q] = IF q > L THEN L + 1
                   ELSE IF text[q] = u THEN q ELSE c[IF text[q] = "bs" THEN q + 2 ELSE q + 1]
      /\ \A q \in 1 .. L + 2 : c[q] \in 1 .. L + 1 /\ (q <= L => c[q] >= q)
  BY <1>1 DEF Close
<1>4. f[p].depth = d /\ f[p].in = u /\ u \in {"dq", "sq"}
  <2>1. CharRead(f[p - 1], text[p], f[p]) /\ f[p - 1].depth = d /\ Ready(f[p - 1].in, text[p])
    BY <1>0, <1>2 DEF At
  <2> QED BY <2>1 DEF CharRead, Deeper
<1> HIDE DEF L, u
<1> DEFINE Good(q) == /\ \A i \in q .. c[q] : i <= L => f[i].depth = d
                      /\ c[q] <= L => f[c[q]].in = "code"
           S == {q \in 1 .. L + 2 : (q \in p + 1 .. L /\ f[q - 1].depth = d /\ f[q - 1].in = u) => Good(q)}
<1>5. ASSUME NEW q \in 1 .. L + 2, \A j \in q + 1 .. L + 2 : j \in S PROVE q \in S
  <2> SUFFICES ASSUME q \in p + 1 .. L, f[q - 1].depth = d, f[q - 1].in = u PROVE Good(q)
    OBVIOUS
  <2>1. q \in b .. L /\ q + 1 - 1 = q /\ q + 2 - 1 = q + 1 /\ q <= L
    BY <1>0
  <2>0. c[q] = IF text[q] = u THEN q ELSE c[IF text[q] = "bs" THEN q + 2 ELSE q + 1]
    <3>1. ~(q > L)
      BY <1>0, <2>1
    <3>2. c[q] = IF q > L THEN L + 1
                 ELSE IF text[q] = u THEN q ELSE c[IF text[q] = "bs" THEN q + 2 ELSE q + 1]
      BY <1>3, Zenon
    <3> QED BY <3>1, <3>2
  <2>2. CharRead(f[q - 1], text[q], f[q])
    BY <1>0, <1>2, <2>1
  <2>3. f[q].depth = d
    BY <1>4, <2>2 DEF CharRead, Ready
  <2>4. CASE text[q] = u
    <3>1. c[q] = q
      BY <2>0, <2>4
    <3>2. f[q].in = "code"
      BY <1>4, <2>2, <2>4 DEF CharRead
    <3>3. \A i \in q .. q : i = q
      BY <2>1
    <3> QED BY <2>3, <3>1, <3>2, <3>3
  <2>5. CASE text[q] # u /\ text[q] # "bs"
    <3>1. c[q] = c[q + 1]
      BY <2>0, <2>5
    <3>2. f[q].in = u
      BY <1>4, <2>2, <2>5 DEF CharRead
    <3>3. CASE q + 1 <= L
      <4>1. q + 1 \in S /\ q + 1 \in p + 1 .. L
        BY <1>0, <1>5, <2>1, <3>3
      <4>2. Good(q + 1)
        BY <2>1, <2>3, <3>2, <4>1
      <4>3. \A i \in q .. c[q] : i = q \/ i \in q + 1 .. c[q + 1]
        BY <1>3, <2>1, <3>1
      <4> QED BY <2>3, <3>1, <4>2, <4>3
    <3>4. CASE ~(q + 1 <= L)
      <4>1. c[q] = L + 1 /\ q = L
        BY <1>0, <1>3, <2>1, <3>1, <3>4
      <4>2. \A i \in q .. c[q] : i <= L => i = q
        BY <1>0, <4>1
      <4> QED BY <1>0, <2>3, <4>1, <4>2
    <3> QED BY <3>3, <3>4
  <2>6. CASE text[q] # u /\ text[q] = "bs"
    <3>1. c[q] = c[q + 2]
      BY <2>0, <2>6
    <3>2. f[q].in = IF u = "dq" THEN "dq bs" ELSE "sq bs"
      BY <1>4, <2>2, <2>6 DEF CharRead
    <3>3. CASE q + 1 <= L
      <4>1. CharRead(f[q], text[q + 1], f[q + 1])
        <5>1. q + 1 \in b .. L
          BY <1>0, <2>1, <3>3
        <5> QED BY <1>0, <1>2, <2>1, <2>3, <5>1
      <4>2. f[q + 1].depth = d /\ f[q + 1].in = u
        BY <1>4, <2>3, <3>2, <4>1 DEF CharRead, Ready
      <4>3. CASE q + 2 <= L
        <5>1. q + 2 \in S /\ q + 2 \in p + 1 .. L
          BY <1>0, <1>5, <2>1, <4>3
        <5>2. Good(q + 2)
          BY <2>1, <4>2, <5>1
        <5>3. \A i \in q .. c[q] : i = q \/ i = q + 1 \/ i \in q + 2 .. c[q + 2]
          BY <1>3, <2>1, <3>1
        <5> QED BY <2>3, <3>1, <4>2, <5>2, <5>3
      <4>4. CASE ~(q + 2 <= L)
        <5>1. c[q] = L + 1 /\ q + 1 = L
          BY <1>0, <1>3, <2>1, <3>1, <3>3, <4>4
        <5>2. \A i \in q .. c[q] : i <= L => i = q \/ i = q + 1
          BY <1>0, <5>1
        <5> QED BY <1>0, <2>3, <4>2, <5>1, <5>2
      <4> QED BY <4>3, <4>4
    <3>4. CASE ~(q + 1 <= L)
      <4>1. c[q] = L + 1 /\ q = L
        BY <1>0, <1>3, <2>1, <3>1, <3>4
      <4>2. \A i \in q .. c[q] : i <= L => i = q
        BY <1>0, <4>1
      <4> QED BY <1>0, <2>3, <4>1, <4>2
    <3> QED BY <3>3, <3>4
  <2> QED BY <2>4, <2>5, <2>6
<1>6. \A q \in 1 .. L + 2 : q \in S
  <2>1. L + 2 \in Nat
    BY <1>0
  <2> HIDE DEF S
  <2> QED BY <1>5, <2>1, DownTo
<1> DEFINE g == Closing(p + 1, u)
           e == Min({L + 1, g + 1})
<1>7. g = c[p + 1] /\ g \in 1 .. L + 1 /\ (p + 1 <= L => g >= p + 1) /\ (~(p + 1 <= L) => g = L + 1)
  <2>1. p + 1 \in 1 .. L + 2
    BY <1>0
  <2> QED BY <1>0, <1>1, <1>3, <2>1
<1>8. e = IF g <= L THEN g + 1 ELSE L + 1
  <2>1. ASSUME NEW m \in Nat, NEW n \in Nat PROVE Min({m, n}) = IF m <= n THEN m ELSE n
    BY <2>1 DEF Min
  <2> HIDE DEF g
  <2>2. L + 1 \in Nat /\ g + 1 \in Nat
    BY <1>0, <1>7
  <2>3. e = IF L + 1 <= g + 1 THEN L + 1 ELSE g + 1
    BY <2>1, <2>2
  <2> HIDE DEF e
  <2> QED BY <1>0, <1>7, <2>3
<1> HIDE DEF g, e
<1>9. p + 1 <= L => Good(p + 1)
  <2> SUFFICES ASSUME p + 1 <= L PROVE Good(p + 1)
    OBVIOUS
  <2> DEFINE j == p + 1
  <2>1. j \in p + 1 .. L /\ j \in 1 .. L + 2 /\ j - 1 = p
    BY <1>0
  <2> HIDE DEF j, Good
  <2>2. j \in S
    BY <1>6, <2>1
  <2>3. Good(j)
    BY <1>4, <2>1, <2>2
  <2> QED BY <2>3 DEF j
<1>10. ASSUME NEW i \in p .. e - 1 PROVE f[i].depth = d
  <2>1. i = p \/ (p + 1 <= L /\ i \in p + 1 .. c[p + 1] /\ i <= L)
    BY <1>0, <1>7, <1>8
  <2> QED BY <1>4, <1>9, <2>1
<1>11. e \in p + 1 .. L + 1
  BY <1>0, <1>7, <1>8
<1>12. e <= L => f[e - 1].in = "code"
  <2>1. e <= L => p + 1 <= L /\ e - 1 = c[p + 1] /\ c[p + 1] <= L
    BY <1>0, <1>7, <1>8
  <2> QED BY <1>9, <2>1
<1>13. Moved(f, p, e, d)
  BY <1>10, <1>11, <1>12 DEF Moved, Ready, L
<1> QED BY <1>13 DEF e, g, L, u

\* A turn of the lexer's loop over a block stays in step with the reference.
LEMMA TurnReads ==
  ASSUME TextOK, NEW f, NEW b, NEW p, NEW d, At(f, b, p, d)
  PROVE  Moved(f, p, OpaqueTurn(p), Deeper(d, text[p]))
PROOF
<1>1. peek(p) = text[p]
  BY TextIs, PeekIs DEF At
<1>2. CASE text[p] = "/" /\ peek(p + 1) = "/"
  <2>1. OpaqueTurn(p) = EndOfLine(p) /\ Deeper(d, text[p]) = d
    BY <1>1, <1>2 DEF OpaqueTurn, Deeper
  <2> QED BY <1>2, <2>1, LineTurn
<1>3. CASE text[p] = "/" /\ peek(p + 1) = "*"
  <2>1. OpaqueTurn(p) = EndOfComment(p) /\ Deeper(d, text[p]) = d
    BY <1>1, <1>3 DEF OpaqueTurn, Deeper
  <2> QED BY <1>3, <2>1, CommentTurn
<1>4. CASE text[p] \in {"dq", "sq"}
  <2>1. /\ OpaqueTurn(p) = Min({Len(text) + 1, Closing(p + 1, text[p]) + 1})
        /\ Deeper(d, text[p]) = d
    BY <1>1, <1>4 DEF OpaqueTurn, Deeper
  <2> QED BY <1>4, <2>1, LiteralTurn
<1>5. CASE text[p] \notin {"dq", "sq"} /\ (text[p] = "/" => peek(p + 1) \notin {"/", "*"})
  <2>1. OpaqueTurn(p) = p + 1
    BY <1>1, <1>5 DEF OpaqueTurn
  <2> QED BY <1>5, <2>1, CodeTurn
<1> QED BY <1>2, <1>3, <1>4, <1>5

\* A block that began at b has been read up to p without being over, d deep.
Scanned(b, p, d) ==
  /\ p \in 1 .. Len(text) + 1 /\ b \in 1 .. p /\ d \in Nat \ {0}
  /\ \A i \in b - 1 .. p - 1 : Scan(b)[i].depth # 0
  /\ Scan(b)[p - 1].depth = d
  /\ p <= Len(text) => Ready(Scan(b)[p - 1].in, text[p])

LEMMA ScannedAt ==
  ASSUME TextOK, NEW b, NEW p, NEW d, Scanned(b, p, d), p <= Len(text)
  PROVE  At(Scan(b), b, p, d)
PROOF
<1>0. Len(text) \in Nat
  BY TextIs
<1>1. b \in 1 .. Len(text) + 1 /\ p \in b .. Len(text)
  BY <1>0 DEF Scanned
<1>2. Reads(Scan(b), b)
  BY <1>1, ScanIs
<1> QED BY <1>1, <1>2 DEF Scanned, At

LEMMA ScannedFirst ==
  ASSUME TextOK, NEW b \in 1 .. Len(text) + 1
  PROVE  Scanned(b, b, 1)
PROOF
<1>0. Len(text) \in Nat /\ b \in Nat \ {0}
  BY TextIs
<1>1. Scan(b)[b - 1] = [in |-> "code", depth |-> 1]
  BY ScanIs DEF Reads
<1>2. b - 1 .. b - 1 = {b - 1} /\ b \in 1 .. b
  BY <1>0
<1>3. Scan(b)[b - 1].depth = 1 /\ Scan(b)[b - 1].in = "code"
  BY <1>1
<1> QED BY <1>0, <1>2, <1>3 DEF Scanned, Ready

\* The character at p closes a block that is d deep.
Closes(p, d) == text[p] = "}" /\ d = 1

\* A turn that does not close the block.
LEMMA ScannedTurn ==
  ASSUME TextOK, NEW b, NEW p, NEW d, Scanned(b, p, d), p <= Len(text), ~Closes(p, d)
  PROVE  Scanned(b, OpaqueTurn(p), Deeper(d, text[p]))
PROOF
<1> DEFINE f == Scan(b)
           e == OpaqueTurn(p)
           h == Deeper(d, text[p])
<1>0. Len(text) \in Nat /\ p \in 1 .. Len(text) + 1 /\ b \in 1 .. p /\ d \in Nat \ {0}
  BY TextIs DEF Scanned
<1>1. Moved(f, p, e, h)
  BY ScannedAt, TurnReads
<1>2. h \in Nat \ {0}
  <2>1. h \in {d, d + 1} \/ (h = d - 1 /\ text[p] = "}")
    BY DEF Deeper
  <2>2. text[p] = "}" => d # 1
    BY DEF Closes
  <2> HIDE DEF h
  <2>3. h \in {d, d + 1} \/ (h = d - 1 /\ d # 1)
    BY <2>1, <2>2
  <2> QED BY <1>0, <2>3
<1>3. \A i \in b - 1 .. p - 1 : f[i].depth # 0
  BY DEF Scanned
<1> HIDE DEF f, e, h
<1>4. /\ e \in p + 1 .. Len(text) + 1 /\ \A i \in p .. e - 1 : f[i].depth = h
      /\ e <= Len(text) => Ready(f[e - 1].in, text[e])
  BY <1>1 DEF Moved
<1>5. ASSUME NEW i \in b - 1 .. e - 1 PROVE f[i].depth # 0
  <2>1. i \in b - 1 .. p - 1 \/ i \in p .. e - 1
    BY <1>0, <1>4
  <2> QED BY <1>2, <1>3, <1>4, <2>1
<1>6. f[e - 1].depth = h
  <2>1. e - 1 \in p .. e - 1
    BY <1>0, <1>4
  <2> QED BY <1>4, <2>1
<1>7. e \in 1 .. Len(text) + 1 /\ b \in 1 .. e
  BY <1>0, <1>4
<1> QED BY <1>2, <1>4, <1>5, <1>6, <1>7 DEF Scanned, f, e, h

\* The reference closes a block where the lexer does, and not before the end of
\* the text if the lexer finds no end.
LEMMA ClosesHere ==
  ASSUME TextOK, NEW b, NEW p, Scanned(b, p, 1), p <= Len(text), Closes(p, 1)
  PROVE  PlainEnd(b) = p
PROOF
<1> DEFINE L == Len(text)
           T == {i \in 1 .. L : Scan(b)[i].depth = 0}
           e == PlainEnd(b)
<1>0. L \in Nat /\ p \in 1 .. L /\ b \in 1 .. p /\ b \in 1 .. L + 1
  BY TextIs DEF Scanned
<1>1. e = Min(Candidates(b, L, T))
  <2>1. e = Min({i \in b .. L : Scan(b)[i].depth = 0} \cup {L + 1})
    BY <1>0, ScanIs
  <2>2. {i \in b .. L : i \in T} = {i \in b .. L : Scan(b)[i].depth = 0}
    BY <1>0
  <2> QED BY <2>1, <2>2 DEF Candidates
<1>2. p \in T
  <2>1. Moved(Scan(b), p, OpaqueTurn(p), Deeper(1, text[p]))
    BY ScannedAt, TurnReads
  <2>2. Deeper(1, text[p]) = 0
    <3>1. text[p] = "}"
      BY DEF Closes
    <3>2. Deeper(1, text[p]) = 1 - 1
      BY <3>1 DEF Deeper
    <3> QED BY <3>2
  <2>3. p \in p .. OpaqueTurn(p) - 1
    BY <1>0, <2>1 DEF Moved
  <2>4. Scan(b)[p].depth = 0
    BY <2>1, <2>2, <2>3 DEF Moved
  <2> QED BY <1>0, <2>4
<1>3. \A i \in b .. p - 1 : i \notin T
  BY <1>0 DEF Scanned
<1> HIDE DEF T, e, L
<1>4. First(e, b, L, T)
  BY <1>0, <1>1, FirstOf
<1>5. e \in b .. L + 1 /\ (e <= L => e \in T) /\ \A i \in b .. e - 1 : i \notin T
  BY <1>4 DEF First
<1>6. ~(p < e)
  <2>1. p < e => p \in b .. e - 1
    BY <1>0, <1>5
  <2> QED BY <1>2, <1>5, <2>1
<1>7. ~(e < p)
  <2>1. e < p => e \in b .. p - 1 /\ e <= L
    BY <1>0, <1>5
  <2> QED BY <1>3, <1>5, <2>1
<1> QED BY <1>0, <1>5, <1>6, <1>7 DEF e

LEMMA NeverCloses ==
  ASSUME TextOK, NEW b, NEW p, NEW d, Scanned(b, p, d), p > Len(text)
  PROVE  PlainEnd(b) > Len(text)
PROOF
<1> DEFINE L == Len(text)
           T == {i \in 1 .. L : Scan(b)[i].depth = 0}
           e == PlainEnd(b)
<1>0. L \in Nat /\ p = L + 1 /\ b \in 1 .. p /\ b \in 1 .. L + 1
  BY TextIs DEF Scanned
<1>1. e = Min(Candidates(b, L, T))
  <2>1. e = Min({i \in b .. L : Scan(b)[i].depth = 0} \cup {L + 1})
    BY <1>0, ScanIs
  <2>2. {i \in b .. L : i \in T} = {i \in b .. L : Scan(b)[i].depth = 0}
    BY <1>0
  <2> QED BY <2>1, <2>2 DEF Candidates
<1>2. \A i \in b .. L : i \notin T
  BY <1>0 DEF Scanned
<1> HIDE DEF T, e, L
<1>3. First(e, b, L, T)
  BY <1>0, <1>1, FirstOf
<1>4. e \in b .. L + 1 /\ (e <= L => e \in T)
  BY <1>3 DEF First
<1>5. ~(e <= L)
  BY <1>0, <1>2, <1>4
<1> QED BY <1>0, <1>4, <1>5 DEF e, L

(***************************************************************************)
(* The lexer: what it takes into account is all that counts in a block     *)
(* that is plain.                                                          *)
(***************************************************************************)
\* What the reference is in when it reads plain text, and what that is to the lexer.
CppModes  == Modes \cup {"x", "R", "1"}
CppStates == [in : CppModes, depth : Int]

Erase(m)  == IF m \in {"x", "R", "1"} THEN "code" ELSE m
Erased(s) == [in |-> Erase(s.in), depth |-> s.depth]

LEMMA GlueIs ==
  ASSUME NEW m \in CppModes, NEW c
  PROVE  Glue(m, c) \in {"code", "x", "R", "1"}
PROOF
<1>1. CASE c \notin {"x", "R", "1", "k", "p"}
  BY <1>1 DEF Glue
<1>2. CASE c \in {"x", "R", "1", "k", "p"} /\ m \in {"1", "1'"}
  BY <1>2 DEF Glue
<1>3. CASE c \in {"x", "R", "1", "k", "p"} /\ m \in {"x", "R"}
  BY <1>3 DEF Glue
<1>4. CASE c \in {"x", "R", "1", "k", "p"} /\ m \notin {"x", "R", "1", "1'"}
  BY <1>4 DEF Glue
<1> QED BY <1>1, <1>2, <1>3, <1>4

\* A character of plain text takes both readings to the same.
LEMMA StepErased ==
  ASSUME NEW s \in CppStates, NEW c, c = "sq" => s.in # "1", c = "dq" => s.in # "R"
  PROVE  Step(s, c) \in CppStates /\ PlainStep(Erased(s), c) = Erased(Step(s, c))
PROOF
<1> DEFINE In(m) == [in |-> m, depth |-> s.depth]
           t == Erased(s)
<1>0. /\ s.in \in CppModes /\ s.depth \in Int /\ s = [in |-> s.in, depth |-> s.depth]
      /\ t.in = Erase(s.in) /\ t.depth = s.depth /\ t = [in |-> t.in, depth |-> t.depth]
  BY DEF CppStates, Erased
<1>i. \A m : /\ [s EXCEPT !.in = m] = In(m)
             /\ [t EXCEPT !.in = m] = In(m)
  BY <1>0
<1> HIDE DEF t
<1>m. ASSUME NEW m \in Modes, Step(s, c) = In(m), PlainStep(t, c) = In(m)
      PROVE  Step(s, c) \in CppStates /\ PlainStep(t, c) = Erased(Step(s, c))
  <2>1. m \in CppModes /\ m \notin {"x", "R", "1"}
    BY <1>m DEF CppModes, Modes
  <2>2. Erase(m) = m
    BY <2>1 DEF Erase
  <2> HIDE DEF Modes
  <2>3. In(m) \in CppStates
    BY <1>0, <2>1 DEF CppStates
  <2>4. Erased(In(m)) = In(m)
    BY <2>2 DEF Erased
  <2> QED BY <1>m, <2>3, <2>4
<1>1. CASE s.in = "dq"
  <2>1. [dq |-> "dq bs", sq |-> "sq bs"]["dq"] = "dq bs" /\ t.in = "dq"
    BY <1>0, <1>1 DEF Erase
  <2> DEFINE m == IF c = "dq" THEN "code" ELSE IF c = "bs" THEN "dq bs" ELSE "dq"
  <2>2. m \in Modes
    BY DEF Modes
  <2>3. Step(s, c) = [s EXCEPT !.in = m]
    BY <1>1, <2>1 DEF Step, Literal
  <2>4. PlainStep(t, c) = [t EXCEPT !.in = m]
    BY <2>1 DEF PlainStep
  <2> HIDE DEF m
  <2> QED BY <1>i, <1>m, <2>2, <2>3, <2>4 DEF t
<1>2. CASE s.in = "sq"
  <2>1. [dq |-> "dq bs", sq |-> "sq bs"]["sq"] = "sq bs" /\ t.in = "sq"
    BY <1>0, <1>2 DEF Erase
  <2> DEFINE m == IF c = "sq" THEN "code" ELSE IF c = "bs" THEN "sq bs" ELSE "sq"
  <2>2. m \in Modes
    BY DEF Modes
  <2>3. Step(s, c) = [s EXCEPT !.in = m]
    BY <1>2, <2>1 DEF Step, Literal
  <2>4. PlainStep(t, c) = [t EXCEPT !.in = m]
    BY <2>1 DEF PlainStep
  <2> HIDE DEF m
  <2> QED BY <1>i, <1>m, <2>2, <2>3, <2>4 DEF t
<1>3. CASE s.in \in {"dq bs", "sq bs"}
  <2> DEFINE m == IF s.in = "dq bs" THEN "dq" ELSE "sq"
  <2>1. t.in = s.in /\ m \in Modes
    BY <1>0, <1>3 DEF Erase, Modes
  <2>3. Step(s, c) = [s EXCEPT !.in = m]
    BY <1>3 DEF Step
  <2>4. PlainStep(t, c) = [t EXCEPT !.in = m]
    BY <1>3, <2>1 DEF PlainStep
  <2> HIDE DEF m
  <2> QED BY <1>i, <1>m, <2>1, <2>3, <2>4 DEF t
<1>4. CASE s.in = "//"
  <2> DEFINE m == IF c = "nl" THEN "code" ELSE "//"
  <2>1. t.in = s.in /\ m \in Modes
    BY <1>0, <1>4 DEF Erase, Modes
  <2>3. Step(s, c) = [s EXCEPT !.in = m]
    BY <1>4 DEF Step
  <2>4. PlainStep(t, c) = [t EXCEPT !.in = m]
    BY <1>4, <2>1 DEF PlainStep
  <2> HIDE DEF m
  <2> QED BY <1>i, <1>m, <2>1, <2>3, <2>4 DEF t
<1>5. CASE s.in = "/*"
  <2> DEFINE m == IF c = "*" THEN "/* *" ELSE "/*"
  <2>1. t.in = s.in /\ m \in Modes
    BY <1>0, <1>5 DEF Erase, Modes
  <2>3. Step(s, c) = [s EXCEPT !.in = m]
    BY <1>5 DEF Step
  <2>4. PlainStep(t, c) = [t EXCEPT !.in = m]
    BY <1>5, <2>1 DEF PlainStep
  <2> HIDE DEF m
  <2> QED BY <1>i, <1>m, <2>1, <2>3, <2>4 DEF t
<1>6. CASE s.in = "/* *"
  <2> DEFINE m == IF c = "/" THEN "code" ELSE IF c = "*" THEN "/* *" ELSE "/*"
  <2>1. t.in = s.in /\ m \in Modes
    BY <1>0, <1>6 DEF Erase, Modes
  <2>3. Step(s, c) = [s EXCEPT !.in = m]
    BY <1>6 DEF Step
  <2>4. PlainStep(t, c) = [t EXCEPT !.in = m]
    BY <1>6, <2>1 DEF PlainStep
  <2> HIDE DEF m
  <2> QED BY <1>i, <1>m, <2>1, <2>3, <2>4 DEF t
<1>7. CASE s.in = "/" /\ c \in {"/", "*"}
  <2> DEFINE m == IF c = "/" THEN "//" ELSE "/*"
  <2>1. t.in = s.in /\ m \in Modes
    BY <1>0, <1>7 DEF Erase, Modes
  <2>3. Step(s, c) = [s EXCEPT !.in = m]
    BY <1>7 DEF Step
  <2>4. PlainStep(t, c) = [t EXCEPT !.in = m]
    BY <1>7, <2>1 DEF PlainStep
  <2> HIDE DEF m
  <2> QED BY <1>i, <1>m, <2>1, <2>3, <2>4 DEF t
<1>8. CASE s.in \in {"code", "x", "R", "1"} \/ (s.in = "/" /\ c \notin {"/", "*"})
  <2> DEFINE m == IF c \in {"dq", "sq", "/"} THEN c ELSE Glue(s.in, c)
             n == IF c \in {"dq", "sq", "/"} THEN c ELSE "code"
             d == Deeper(s.depth, c)
  <2>1. t.in \in {"code", "/"} /\ (t.in = "/" => c \notin {"/", "*"})
    BY <1>0, <1>8 DEF Erase
  <2>2. Step(s, c) = [in |-> m, depth |-> d]
    BY <1>0, <1>8 DEF Step, Deeper
  <2>3. PlainStep(t, c) = [in |-> n, depth |-> d]
    BY <1>0, <2>1 DEF PlainStep, Deeper
  <2>4. m \in CppModes /\ Erase(m) = n
    <3>1. Glue(s.in, c) \in {"code", "x", "R", "1"}
      BY <1>0, GlueIs
    <3> HIDE DEF Glue
    <3> QED BY <3>1 DEF Erase, CppModes, Modes
  <2>5. d \in Int
    <3>1. d \in {s.depth, s.depth + 1, s.depth - 1}
      BY DEF Deeper
    <3> HIDE DEF d
    <3> QED BY <1>0, <3>1
  <2> HIDE DEF m, n, d
  <2>6. [in |-> m, depth |-> d] \in CppStates
    BY <2>4, <2>5 DEF CppStates
  <2>7. Erased([in |-> m, depth |-> d]) = [in |-> n, depth |-> d]
    BY <2>4 DEF Erased
  <2> QED BY <2>2, <2>3, <2>6, <2>7 DEF t
<1> QED BY <1>0, <1>1, <1>2, <1>3, <1>4, <1>5, <1>6, <1>7, <1>8 DEF CppModes, Modes, t

\* Where a line that is joined to the next may end.
Joined == {"code", "x", "R", "1", "dq", "sq", "/*"}

\* To the lexer a joined line is two characters that lead nowhere.
LEMMA SpliceErased ==
  ASSUME NEW s \in CppStates, s.in \in Joined
  PROVE  /\ PlainStep(Erased(s), "bs").depth = s.depth
         /\ PlainStep(PlainStep(Erased(s), "bs"), "nl") = Erased(s)
PROOF
<1> DEFINE t == Erased(s)
           In(m) == [in |-> m, depth |-> s.depth]
<1>0. t.in = Erase(s.in) /\ t.depth = s.depth /\ t = In(t.in)
  BY DEF Erased
<1>i. ASSUME NEW m PROVE In(m).depth = s.depth
  OBVIOUS
<1> HIDE DEF t
<1>1. CASE t.in = "code"
  <2>1. PlainStep(t, "bs") = In("code")
    BY <1>0, <1>1 DEF PlainStep
  <2>2. PlainStep(In("code"), "nl") = In("code")
    BY DEF PlainStep
  <2> QED BY <1>0, <1>1, <2>1, <2>2 DEF t
<1>2. CASE t.in = "/*"
  <2>1. PlainStep(t, "bs") = In("/*")
    BY <1>0, <1>2 DEF PlainStep
  <2>2. PlainStep(In("/*"), "nl") = In("/*")
    BY DEF PlainStep
  <2> QED BY <1>0, <1>2, <2>1, <2>2 DEF t
<1>3. CASE t.in = "dq"
  <2>1. [dq |-> "dq bs", sq |-> "sq bs"]["dq"] = "dq bs"
    OBVIOUS
  <2>2. PlainStep(t, "bs") = In("dq bs")
    BY <1>0, <1>3, <2>1 DEF PlainStep
  <2>3. PlainStep(In("dq bs"), "nl") = In("dq")
    BY DEF PlainStep
  <2>4. PlainStep(t, "bs").depth = s.depth
    <3> HIDE DEF In
    <3> QED BY <1>i, <2>2
  <2>5. PlainStep(PlainStep(t, "bs"), "nl") = t
    BY <1>0, <1>3, <2>2, <2>3
  <2> QED BY <2>4, <2>5 DEF t
<1>4. CASE t.in = "sq"
  <2>1. [dq |-> "dq bs", sq |-> "sq bs"]["sq"] = "sq bs"
    OBVIOUS
  <2>2. PlainStep(t, "bs") = In("sq bs")
    BY <1>0, <1>4, <2>1 DEF PlainStep
  <2>3. PlainStep(In("sq bs"), "nl") = In("sq")
    BY DEF PlainStep
  <2>4. PlainStep(t, "bs").depth = s.depth
    <3> HIDE DEF In
    <3> QED BY <1>i, <2>2
  <2>5. PlainStep(PlainStep(t, "bs"), "nl") = t
    BY <1>0, <1>4, <2>2, <2>3
  <2> QED BY <2>4, <2>5 DEF t
<1>5. t.in \in {"code", "/*", "dq", "sq"}
  BY <1>0 DEF Erase, Joined
<1> QED BY <1>1, <1>2, <1>3, <1>4, <1>5

\* A line feed in plain code.
LEMMA FeedErased ==
  ASSUME NEW s \in CppStates, s.in = "code"
  PROVE  PlainStep(Erased(s), "nl") = Erased(s)
PROOF
<1> DEFINE t == Erased(s)
<1>1. t.in = "code" /\ t.depth = s.depth /\ t = [in |-> "code", depth |-> s.depth]
  BY DEF Erased, Erase
<1> HIDE DEF t
<1>2. PlainStep(t, "nl") = [in |-> "code", depth |-> s.depth]
  BY <1>1 DEF PlainStep
<1> QED BY <1>1, <1>2 DEF t

\* The reference reads on from s, by the character at i.
ReadOn(s, i) ==
  IF \/ s.depth = 0
     \/ Spliced(i) /\ s.in \notin {"R dq", "raw", "raw )"}
    THEN s
  ELSE Step(s, text[i])

LEMMA ReadingsAre ==
  ASSUME TextOK, NEW b \in 1 .. Len(text) + 1
  PROVE  /\ Readings(b)[b - 1] = [in |-> "code", depth |-> 1]
         /\ \A i \in b .. Len(text) : Readings(b)[i] = ReadOn(Readings(b)[i - 1], i)
PROOF
<1> DEFINE L == Len(text)
           S0 == [in |-> "code", depth |-> 1]
           Go(f, i) == IF i < b THEN S0 ELSE ReadOn(f[i - 1], i)
           P(m) == \E f : f = [i \in b - 1 .. b - 1 + m |-> Go(f, i)]
           S == {m \in Nat : P(m)}
           N == L + 1 - b
<1>0. L \in Nat /\ N \in Nat /\ b - 1 + N = L /\ b \in Nat \ {0}
  BY TextIs
<1> HIDE DEF N, L
<1>1. 0 \in S
  <2> DEFINE f == [i \in b - 1 .. b - 1 + 0 |-> S0]
  <2>1. f = [i \in b - 1 .. b - 1 + 0 |-> Go(f, i)]
    BY <1>0
  <2> QED BY <2>1
<1>2. ASSUME NEW m \in 1 .. N, m - 1 \in S PROVE m \in S
  <2>1. PICK f : f = [i \in b - 1 .. b - 1 + (m - 1) |-> Go(f, i)]
    BY <1>2
  <2> DEFINE h == b - 1 + m
             g == [i \in b - 1 .. h |-> IF i < h THEN f[i] ELSE Go(f, i)]
  <2>2. h \in Nat /\ b - 1 + (m - 1) = h - 1 /\ h >= b
    BY <1>0
  <2>3. f = [i \in b - 1 .. h - 1 |-> Go(f, i)]
    <3> HIDE DEF h, Go
    <3> QED BY <2>1, <2>2
  <2> HIDE DEF h
  <2>4. \A i \in b - 1 .. h - 1 : g[i] = f[i]
    BY <1>0, <2>2
  <2>5. ASSUME NEW i \in b - 1 .. h PROVE g[i] = Go(f, i)
    <3>1. CASE i < h
      <4>1. i \in b - 1 .. h - 1
        BY <1>0, <2>2, <3>1
      <4> HIDE DEF Go
      <4>2. f[i] = Go(f, i)
        BY <2>3, <4>1
      <4> QED BY <2>4, <4>1, <4>2
    <3>2. CASE ~(i < h)
      BY <3>2
    <3> QED BY <3>1, <3>2
  <2>6. ASSUME NEW i \in b - 1 .. h PROVE Go(f, i) = Go(g, i)
    <3>1. ~(i < b) => i - 1 \in b - 1 .. h - 1
      BY <1>0, <2>2
    <3> HIDE DEF g
    <3> QED BY <2>4, <3>1
  <2>7. g = [i \in b - 1 .. h |-> g[i]]
    OBVIOUS
  <2> HIDE DEF g, Go
  <2>8. g = [i \in b - 1 .. h |-> Go(g, i)]
    BY <2>5, <2>6, <2>7
  <2>9. P(m)
    BY <2>8 DEF h
  <2> QED BY <2>9
<1>3. N \in S
  <2> HIDE DEF S
  <2>1. N \in Nat /\ N \in 0 .. N
    BY <1>0
  <2>2. \A m \in 0 .. N : m \in S
    BY <1>1, <1>2, <2>1, UpTo
  <2> QED BY <2>1, <2>2
<1>4. PICK f : f = [i \in b - 1 .. L |-> Go(f, i)]
  <2> HIDE DEF Go
  <2> QED BY <1>0, <1>3
<1> DEFINE c == Readings(b)
<1>5. c = [i \in b - 1 .. L |-> Go(c, i)]
  <2> DEFINE Was(g) == g = [i \in b - 1 .. L |-> Go(g, i)]
  <2>1. c = CHOOSE g : Was(g)
    BY Zenon DEF Readings, ReadOn, L
  <2>2. Was(f)
    BY <1>4, Zenon
  <2> HIDE DEF Was, c
  <2>3. Was(c)
    BY <2>1, <2>2
  <2> QED BY <2>3, Zenon DEF Was
<1> HIDE DEF c
<1>6. \A i \in b - 1 .. L : c[i] = Go(c, i)
  <2> HIDE DEF Go
  <2> QED BY <1>5
<1>7. \A i \in b .. L : c[i] = ReadOn(c[i - 1], i)
  <2> SUFFICES ASSUME NEW i \in b .. L PROVE c[i] = ReadOn(c[i - 1], i)
    OBVIOUS
  <2>1. i \in b - 1 .. L /\ ~(i < b)
    BY <1>0
  <2> QED BY <1>6, <2>1
<1>8. c[b - 1] = S0
  <2>1. b - 1 \in b - 1 .. L /\ b - 1 < b
    BY <1>0
  <2> QED BY <1>6, <2>1
<1> QED BY <1>7, <1>8 DEF c, L

\* The character at i begins a joined line in a block that begins at b.
Joins(b, i) == i >= b /\ Readings(b)[i].depth # 0 /\ Splice(i)

\* The two readings of a block that begins at b, after the character at i.
Agree(b, i) ==
  /\ Readings(b)[i] \in CppStates
  /\ Joins(b, i) => /\ Readings(b)[i].in \in Joined
                    /\ Scan(b)[i] = PlainStep(Erased(Readings(b)[i]), "bs")
  /\ ~Joins(b, i) => Scan(b)[i] = Erased(Readings(b)[i])

LEMMA AgreeDepth ==
  ASSUME NEW b, NEW i, Agree(b, i)
  PROVE  Scan(b)[i].depth = Readings(b)[i].depth
PROOF
<1>1. CASE Joins(b, i)
  BY <1>1, SpliceErased DEF Agree
<1>2. CASE ~Joins(b, i)
  BY <1>2 DEF Agree, Erased
<1> QED BY <1>1, <1>2

\* The first of two joined characters is a backslash, the second a line feed.
LEMMA SpliceIs ==
  ASSUME TextOK, NEW b \in 1 .. Len(text) + 1, NEW i \in b .. Len(text)
  PROVE  /\ Splice(i) => text[i] = "bs" /\ Spliced(i)
         /\ Joins(b, i - 1) => text[i] = "nl" /\ Spliced(i) /\ ~Splice(i)
         /\ Spliced(i) /\ ~Splice(i) /\ i # b => text[i] = "nl" /\ Splice(i - 1)
         /\ Spliced(i) /\ ~Splice(i) => text[i] = "nl"
PROOF
<1>0. Len(text) \in Nat /\ i \in Nat /\ i \in 1 .. Len(text) /\ b \in Nat \ {0}
  BY TextIs
<1>1. (i - 1) + 1 = i /\ peek(i) = text[i]
  BY <1>0 DEF peek
<1>2. Splice(i) => text[i] = "bs" /\ Spliced(i)
  BY DEF Splice, Spliced
<1>3. Splice(i - 1) <=> text[i - 1] = "bs" /\ text[i] = "nl"
  BY <1>1 DEF Splice
<1>4. (Joins(b, i - 1) => i > 1) /\ (i # b => i > 1)
  BY <1>0 DEF Joins
<1>5. Joins(b, i - 1) => text[i] = "nl" /\ Spliced(i) /\ ~Splice(i)
  <2>1. Joins(b, i - 1) => Splice(i - 1)
    BY DEF Joins
  <2>2. text[i] = "nl" => ~Splice(i)
    BY <1>2
  <2> QED BY <1>3, <1>4, <2>1, <2>2 DEF Spliced
<1>6. Spliced(i) /\ ~Splice(i) => text[i] = "nl" /\ text[i - 1] = "bs"
  BY DEF Spliced
<1> QED BY <1>2, <1>3, <1>5, <1>6

\* A character of a plain block.
LEMMA AgreeTurn ==
  ASSUME TextOK, NEW b \in 1 .. Len(text) + 1, Plain(b),
         NEW i \in b .. Len(text), Agree(b, i - 1)
  PROVE  Agree(b, i)
PROOF
<1> DEFINE r == Readings(b)
           f == Scan(b)
<1>0. /\ r[i] = ReadOn(r[i - 1], i)
      /\ r[i - 1] \in CppStates
      /\ f[i - 1].depth = r[i - 1].depth
      /\ f[i] = IF f[i - 1].depth = 0 THEN f[i - 1] ELSE PlainStep(f[i - 1], text[i])
      /\ i >= b
  <2>1. Reads(f, b)
    BY ScanIs
  <2>2. i >= b
    BY TextIs
  <2>3. r[i] = ReadOn(r[i - 1], i)
    BY ReadingsAre
  <2>4. f[i - 1].depth = r[i - 1].depth
    BY AgreeDepth
  <2> HIDE DEF f, r
  <2>5. f[i] = IF f[i - 1].depth = 0 THEN f[i - 1] ELSE PlainStep(f[i - 1], text[i])
    BY <2>1 DEF Reads
  <2> QED BY <2>2, <2>3, <2>4, <2>5 DEF Agree, r
<1>1. r[i - 1].in \notin {"R dq", "raw", "raw )"}
  BY <1>0 DEF CppStates, CppModes, Modes
<1>2. r[i - 1].depth # 0 => /\ text[i] = "sq" => r[i - 1].in # "1"
                            /\ text[i] = "dq" => r[i - 1].in # "R"
                            /\ Splice(i) => r[i - 1].in \in Joined
  BY DEF Plain, Joined
<1>3. /\ Joins(b, i - 1) => /\ r[i - 1].in \in Joined
                            /\ f[i - 1] = PlainStep(Erased(r[i - 1]), "bs")
      /\ ~Joins(b, i - 1) => f[i - 1] = Erased(r[i - 1])
  BY DEF Agree
<1>4. /\ r[i] \in CppStates
      /\ i >= b /\ r[i].depth # 0 /\ Splice(i) =>
           r[i].in \in Joined /\ f[i] = PlainStep(Erased(r[i]), "bs")
      /\ ~(i >= b /\ r[i].depth # 0 /\ Splice(i)) => f[i] = Erased(r[i])
      => Agree(b, i)
  BY DEF Agree, Joins
<1>5. r[i - 1].depth = 0 => ~Joins(b, i - 1)
  BY DEF Joins
<1>j. r[i - 1].depth # 0 /\ i # b /\ Splice(i - 1) => Joins(b, i - 1)
  <2>1. i # b => i - 1 >= b
    BY TextIs
  <2> QED BY <2>1 DEF Joins
<1>b. i = b => r[i - 1].in = "code"
  <2>1. r[b - 1] = [in |-> "code", depth |-> 1]
    BY ReadingsAre
  <2> QED BY <2>1
<1> HIDE DEF r, f
<1>6. CASE r[i - 1].depth = 0
  <2>1. r[i] = r[i - 1]
    BY <1>0, <1>6 DEF ReadOn
  <2>2. f[i] = f[i - 1] /\ f[i - 1] = Erased(r[i - 1])
    BY <1>0, <1>3, <1>5, <1>6
  <2> QED BY <1>0, <1>4, <1>6, <2>1, <2>2
<1>7. CASE r[i - 1].depth # 0 /\ Splice(i)
  <2>1. text[i] = "bs" /\ Spliced(i) /\ ~Joins(b, i - 1)
    BY <1>7, SpliceIs
  <2>2. r[i] = r[i - 1]
    BY <1>0, <1>1, <2>1 DEF ReadOn
  <2>3. f[i] = PlainStep(Erased(r[i - 1]), "bs")
    BY <1>0, <1>3, <1>7, <2>1
  <2> QED BY <1>0, <1>2, <1>4, <1>7, <2>2, <2>3
<1>8. CASE r[i - 1].depth # 0 /\ Spliced(i) /\ ~Splice(i)
  <2>1. text[i] = "nl"
    BY <1>8, SpliceIs
  <2>2. r[i] = r[i - 1]
    BY <1>0, <1>1, <1>8 DEF ReadOn
  <2>3. f[i] = PlainStep(f[i - 1], "nl")
    BY <1>0, <1>8, <2>1
  <2>4. CASE i = b
    <3>1. ~Joins(b, i - 1)
      <4>1. ~(i - 1 >= b)
        BY <2>4, TextIs
      <4> QED BY <4>1 DEF Joins
    <3>2. f[i] = Erased(r[i - 1])
      BY <1>0, <1>3, <1>b, <2>3, <2>4, <3>1, FeedErased
    <3> QED BY <1>0, <1>4, <1>8, <2>2, <3>2
  <2>5. CASE i # b
    <3>1. Joins(b, i - 1)
      BY <1>8, <1>j, <2>5, SpliceIs
    <3>2. f[i] = Erased(r[i - 1])
      BY <1>0, <1>3, <2>3, <3>1, SpliceErased
    <3> QED BY <1>0, <1>4, <1>8, <2>2, <3>2
  <2> QED BY <2>4, <2>5
<1>9. CASE r[i - 1].depth # 0 /\ ~Spliced(i)
  <2>1. ~Joins(b, i - 1) /\ ~Splice(i)
    BY <1>9, SpliceIs
  <2>2. r[i] = Step(r[i - 1], text[i])
    BY <1>0, <1>9 DEF ReadOn
  <2>3. f[i] = PlainStep(Erased(r[i - 1]), text[i])
    BY <1>0, <1>3, <1>9, <2>1
  <2>4. Step(r[i - 1], text[i]) \in CppStates
        /\ PlainStep(Erased(r[i - 1]), text[i]) = Erased(Step(r[i - 1], text[i]))
    BY <1>0, <1>2, <1>9, StepErased
  <2> QED BY <1>4, <2>1, <2>2, <2>3, <2>4
<1> QED BY <1>6, <1>7, <1>8, <1>9

\* A plain block ends where it does if nothing but comments and literals is
\* taken into account.
LEMMA PlainEnds ==
  ASSUME TextOK, NEW b \in 1 .. Len(text) + 1, Plain(b)
  PROVE  ClosingBrace(b) = PlainEnd(b)
PROOF
<1> DEFINE L == Len(text)
           N == L + 1 - b
           K == {n \in 0 .. N : Agree(b, b - 1 + n)}
<1>0. L \in Nat /\ N \in Nat /\ b \in Nat \ {0} /\ b - 1 + N = L
  BY TextIs
<1>1. 0 \in K
  <2>1. /\ Readings(b)[b - 1] = [in |-> "code", depth |-> 1]
        /\ Scan(b)[b - 1] = [in |-> "code", depth |-> 1]
    BY ReadingsAre, ScanIs DEF Reads
  <2>2. ~Joins(b, b - 1)
    BY <1>0 DEF Joins
  <2>3. [in |-> "code", depth |-> 1] \in CppStates
    BY DEF CppStates, CppModes, Modes
  <2>4. Erased([in |-> "code", depth |-> 1]) = [in |-> "code", depth |-> 1]
    BY DEF Erased, Erase
  <2>5. Agree(b, b - 1)
    BY <2>1, <2>2, <2>3, <2>4 DEF Agree
  <2>6. b - 1 + 0 = b - 1 /\ 0 \in 0 .. N
    BY <1>0
  <2> QED BY <2>5, <2>6
<1>2. ASSUME NEW n \in 1 .. N, n - 1 \in K PROVE n \in K
  <2> DEFINE i == b - 1 + n
  <2>1. i \in b .. L /\ i - 1 = b - 1 + (n - 1) /\ n \in 0 .. N
    BY <1>0
  <2> HIDE DEF i
  <2>2. Agree(b, i)
    BY <1>2, <2>1, AgreeTurn
  <2> QED BY <2>1, <2>2 DEF i
<1>3. \A n \in 0 .. N : n \in K
  <2> HIDE DEF K, N
  <2> QED BY <1>0, <1>1, <1>2, UpTo
<1>4. \A i \in b .. L : Scan(b)[i].depth = Readings(b)[i].depth
  <2> SUFFICES ASSUME NEW i \in b .. L PROVE Scan(b)[i].depth = Readings(b)[i].depth
    OBVIOUS
  <2>1. i - (b - 1) \in 0 .. N /\ b - 1 + (i - (b - 1)) = i
    BY <1>0
  <2>2. Agree(b, i)
    BY <1>3, <2>1
  <2> QED BY <2>2, AgreeDepth
<1>5. {i \in b .. L : Scan(b)[i].depth = 0} = {i \in b .. L : Readings(b)[i].depth = 0}
  BY <1>4
<1>6. ClosingBrace(b) = Min({i \in b .. L : Readings(b)[i].depth = 0} \cup {L + 1})
  BY DEF ClosingBrace
<1>7. PlainEnd(b) = Min({i \in b .. L : Scan(b)[i].depth = 0} \cup {L + 1})
  BY ScanIs
<1> QED BY <1>5, <1>6, <1>7

(***************************************************************************)
(* The lexer, step by step.                                                *)
(***************************************************************************)
\* PlainEnd and Scanned, of a text t.
ClosingOf(t, b) ==
  LET scan[i \in b - 1 .. Len(t)] ==
        IF i < b THEN [in |-> "code", depth |-> 1]
        ELSE IF scan[i - 1].depth = 0 THEN scan[i - 1] ELSE PlainStep(scan[i - 1], t[i])
  IN  Min({i \in b .. Len(t) : scan[i].depth = 0} \cup {Len(t) + 1})

ScanOf(t, b) ==
  CHOOSE scan : scan =
    [i \in b - 1 .. Len(t) |->
       IF i < b THEN [in |-> "code", depth |-> 1]
       ELSE IF scan[i - 1].depth = 0 THEN scan[i - 1] ELSE PlainStep(scan[i - 1], t[i])]

InStep(t, b, p, d) ==
  /\ p \in 1 .. Len(t) + 1 /\ b \in 1 .. p /\ d \in Nat \ {0}
  /\ \A i \in b - 1 .. p - 1 : ScanOf(t, b)[i].depth # 0
  /\ ScanOf(t, b)[p - 1].depth = d
  /\ p <= Len(t) => Ready(ScanOf(t, b)[p - 1].in, t[p])

LEMMA OfText ==
  /\ \A b : PlainEnd(b) = ClosingOf(text, b)
  /\ \A b, p, d : Scanned(b, p, d) <=> InStep(text, b, p, d)
PROOF
<1>1. \A b : PlainEnd(b) = ClosingOf(text, b)
  BY Zenon DEF PlainEnd, ClosingOf
<1>2. \A b : Scan(b) = ScanOf(text, b)
  BY Zenon DEF Scan, ScanOf
<1>3. \A b, p, d : Scanned(b, p, d) <=> InStep(text, b, p, d)
  BY <1>2 DEF Scanned, InStep
<1> QED BY <1>1, <1>3

\* The blocks bs of a text t end where they should.
Matched(t, bs) ==
  \A i \in DOMAIN bs : bs[i].from \in 1 .. Len(t) + 1 /\ bs[i].to = ClosingOf(t, bs[i].from)

\* The positions are in the text.
Positions ==
  /\ TextOK
  /\ pos \in 1 .. Len(text) + 1 /\ cur.to \in 1 .. Len(text) + 1
  /\ blocks \in Seq([from : Int, to : Int])

\* While the lexer reads a block it is in step with the reference.
Depths ==
  /\ place = "block" => InStep(text, from, pos, depth)
  /\ place = "failed" /\ depth > 0 =>
       from \in 1 .. Len(text) + 1 /\ ClosingOf(text, from) > Len(text)
  /\ place \notin {"block", "failed"} => depth = 0

LexInv == Positions /\ Depths /\ Matched(text, blocks)

\* Advance leaves the lexer in the text.
LEMMA AdvanceIn ==
  ASSUME TextOK, NEW p \in 1 .. Len(text) + 1, NEW errs, Advance(p, errs), text' = text
  PROVE  pos' \in 1 .. Len(text') + 1 /\ cur'.to \in 1 .. Len(text') + 1
PROOF
<1>1. cur' = next(p) /\ pos' = cur'.to
  BY DEF Advance
<1>2. next(p).to \in 1 .. Len(text) + 1
  BY NextIs
<1> QED BY <1>1, <1>2

LEMMA LexInitInv == LexInit => LexInv
PROOF
<1> SUFFICES ASSUME LexInit PROVE LexInv
  OBVIOUS
<1>1. TextOK
  BY LexerAssumption DEF LexInit, TextOK
<1>2. cur = next(1) /\ pos = cur.to /\ place = "body" /\ depth = 0 /\ blocks = <<>>
  BY DEF LexInit
<1>3. 1 \in 1 .. Len(text) + 1
  BY <1>1, TextIs
<1>4. next(1).to \in 1 .. Len(text) + 1
  BY <1>1, <1>3, NextIs
<1>5. Positions
  BY <1>1, <1>2, <1>4 DEF Positions
<1>6. Depths
  BY <1>2 DEF Depths
<1>7. Matched(text, blocks)
  BY <1>2 DEF Matched
<1> QED BY <1>5, <1>6, <1>7 DEF LexInv

\* A step of the parser's, between the blocks.
LEMMA BetweenBlocks ==
  ASSUME LexInv, ElementBody \/ Pragma
  PROVE  LexInv'
PROOF
<1>1. /\ place \notin {"block", "failed"} /\ place' # "block"
      /\ Advance(pos, 0) \/ UNCHANGED <<pos, cur>>
      /\ UNCHANGED <<text, depth, from, blocks>>
  <2>1. CASE ElementBody
    BY <2>1 DEF ElementBody, Refuse
  <2>2. CASE Pragma
    BY <2>2 DEF Pragma, Refuse
  <2> QED BY <2>1, <2>2
<1>2. TextOK /\ pos \in 1 .. Len(text) + 1 /\ depth = 0
  BY <1>1 DEF LexInv, Positions, Depths
<1>3. Positions'
  <2>1. pos' \in 1 .. Len(text') + 1 /\ cur'.to \in 1 .. Len(text') + 1
    <3>1. CASE Advance(pos, 0)
      BY <1>1, <1>2, <3>1, AdvanceIn
    <3>2. CASE UNCHANGED <<pos, cur>>
      BY <1>1, <3>2 DEF LexInv, Positions
    <3> QED BY <1>1, <3>1, <3>2
  <2> QED BY <1>1, <2>1 DEF LexInv, Positions, TextOK
<1>4. Depths'
  BY <1>1, <1>2 DEF Depths
<1>5. Matched(text', blocks')
  BY <1>1 DEF LexInv
<1> QED BY <1>3, <1>4, <1>5 DEF LexInv

LEMMA BlockBegins ==
  ASSUME LexInv, parseBraceBlock
  PROVE  LexInv'
PROOF
<1>0. /\ TextOK /\ pos \in 1 .. Len(text) + 1 /\ cur.to \in 1 .. Len(text) + 1
      /\ place = "brace" /\ depth = 0
      /\ UNCHANGED <<text, blocks>>
  BY DEF LexInv, Positions, Depths, parseBraceBlock
<1>1. CASE cur.kind = "{"
  <2>1. place' = "block" /\ depth' = 1 /\ from' = cur.to /\ pos' = cur.to /\ cur' = cur
    BY <1>1 DEF parseBraceBlock
  <2>2. InStep(text, cur.to, cur.to, 1)
    <3>1. Scanned(cur.to, cur.to, 1)
      BY <1>0, ScannedFirst
    <3> QED BY <3>1, OfText
  <2>3. Positions'
    BY <1>0, <2>1 DEF LexInv, Positions, TextOK
  <2>4. InStep(text', from', pos', depth')
    BY <1>0, <2>1, <2>2
  <2>5. Depths'
    BY <2>1, <2>4 DEF Depths
  <2> QED BY <1>0, <2>3, <2>5 DEF LexInv
<1>2. CASE cur.kind # "{"
  <2>1. place' = "failed" /\ depth' = depth /\ pos' = pos /\ cur' = cur
    BY <1>2 DEF parseBraceBlock, Refuse
  <2>2. Positions'
    BY <1>0, <2>1 DEF LexInv, Positions, TextOK
  <2>3. Depths'
    BY <1>0, <2>1 DEF Depths
  <2> QED BY <1>0, <2>2, <2>3 DEF LexInv
<1> QED BY <1>1, <1>2

LEMMA BlockGoesOn ==
  ASSUME LexInv, lexOpaqueBlock
  PROVE  LexInv'
PROOF
<1>0. /\ TextOK /\ pos \in 1 .. Len(text) + 1 /\ cur.to \in 1 .. Len(text) + 1 /\ Len(text) \in Nat
      /\ blocks \in Seq([from : Int, to : Int])
      /\ place = "block" /\ UNCHANGED <<text, from>>
  BY TextIs DEF LexInv, Positions, lexOpaqueBlock
<1>1. /\ Scanned(from, pos, depth) /\ depth \in Nat \ {0}
      /\ from \in Int /\ from \in 1 .. Len(text) + 1
  <2>1. Scanned(from, pos, depth)
    BY <1>0, OfText DEF LexInv, Depths
  <2> QED BY <1>0, <2>1 DEF Scanned
<1>2. CASE pos > Len(text) /\ Refuse("failed") /\ UNCHANGED <<depth, blocks>>
  <2>1. place' = "failed" /\ UNCHANGED <<depth, blocks, pos, cur>>
    BY <1>2 DEF Refuse
  <2>2. Positions'
    BY <1>0, <2>1 DEF Positions, TextOK
  <2>3. ClosingOf(text, from) > Len(text)
    <3>1. PlainEnd(from) > Len(text)
      BY <1>0, <1>1, <1>2, NeverCloses
    <3> QED BY <3>1, OfText
  <2>4. from' \in 1 .. Len(text') + 1 /\ ClosingOf(text', from') > Len(text')
    BY <1>0, <1>1, <2>3
  <2>5. Depths'
    BY <2>1, <2>4 DEF Depths
  <2>6. Matched(text', blocks')
    BY <1>0, <2>1 DEF LexInv
  <2> QED BY <2>2, <2>5, <2>6 DEF LexInv
<1>3. CASE /\ peek(pos) = "}" /\ depth = 1
           /\ depth' = 0
           /\ blocks' = Append(blocks, [from |-> from, to |-> pos])
           /\ place' = "body"
           /\ Advance(pos + 1, 0)
  <2> DEFINE r == [from |-> from, to |-> pos]
  <2>1. pos <= Len(text) /\ text[pos] = "}"
    <3>1. pos \in Int /\ pos \in Nat \ {0}
      BY <1>0
    <3>2. peek(pos) = "}"
      BY <1>3
    <3>3. peek(pos) # "end"
      BY <3>2
    <3>4. pos \in 1 .. Len(text) /\ peek(pos) = text[pos]
      BY <1>0, <3>1, <3>3, PeekIs
    <3>5. pos <= Len(text)
      BY <1>0, <3>4
    <3> QED BY <3>2, <3>4, <3>5
  <2>2. ClosingOf(text, from) = pos
    <3>1. Closes(pos, 1)
      BY <2>1 DEF Closes
    <3>2. Scanned(from, pos, 1)
      BY <1>1, <1>3
    <3>3. PlainEnd(from) = pos
      BY <1>0, <2>1, <3>1, <3>2, ClosesHere
    <3> QED BY <3>3, OfText
  <2>3. pos + 1 \in 1 .. Len(text) + 1
    <3>1. pos <= Len(text)
      BY <2>1
    <3> QED BY <1>0, <3>1
  <2>4. pos' \in 1 .. Len(text') + 1 /\ cur'.to \in 1 .. Len(text') + 1
    BY <1>0, <1>3, <2>3, AdvanceIn
  <2>5. r \in [from : Int, to : Int]
    BY <1>0, <1>1
  <2>6. blocks' \in Seq([from : Int, to : Int])
    <3> HIDE DEF r
    <3> QED BY <1>0, <1>3, <2>5, AppendProperties DEF r
  <2>7. Positions'
    BY <1>0, <2>4, <2>6 DEF Positions, TextOK
  <2>8. Depths'
    BY <1>3 DEF Depths
  <2>9. Matched(text', blocks')
    <3> SUFFICES ASSUME NEW i \in DOMAIN blocks'
                 PROVE  /\ blocks'[i].from \in 1 .. Len(text') + 1
                        /\ blocks'[i].to = ClosingOf(text', blocks'[i].from)
      BY DEF Matched
    <3>1. /\ Len(blocks) \in Nat /\ DOMAIN blocks = 1 .. Len(blocks)
          /\ blocks' = Append(blocks, r) /\ DOMAIN blocks' = 1 .. Len(blocks) + 1
          /\ blocks'[Len(blocks) + 1] = r
          /\ \A j \in 1 .. Len(blocks) : blocks'[j] = blocks[j]
      <4> HIDE DEF r
      <4>1. blocks' = Append(blocks, r)
        BY <1>3 DEF r
      <4> QED BY <1>0, <2>5, <4>1, AppendProperties, LenProperties
    <3>2. CASE i = Len(blocks) + 1
      <4>1. blocks'[i].to = pos /\ blocks'[i].from = from
        BY <3>1, <3>2
      <4> QED BY <1>0, <1>1, <2>2, <4>1
    <3>3. CASE i # Len(blocks) + 1
      <4>1. i \in DOMAIN blocks /\ blocks'[i] = blocks[i]
        <5> HIDE DEF r
        <5> QED BY <3>1, <3>3
      <4>2. /\ blocks[i].from \in 1 .. Len(text) + 1
            /\ blocks[i].to = ClosingOf(text, blocks[i].from)
        BY <4>1 DEF LexInv, Matched
      <4> QED BY <1>0, <4>1, <4>2
    <3> QED BY <3>2, <3>3
  <2> QED BY <2>7, <2>8, <2>9 DEF LexInv
<1>4. CASE /\ pos <= Len(text) /\ ~(peek(pos) = "}" /\ depth = 1)
           /\ depth' = CASE peek(pos) = "{" -> depth + 1
                         [] peek(pos) = "}" -> depth - 1
                         [] OTHER           -> depth
           /\ pos' = OpaqueTurn(pos)
           /\ UNCHANGED <<cur, place, blocks, reported>>
  <2>1. peek(pos) = text[pos]
    <3>1. pos \in Int
      BY <1>0
    <3> QED BY <1>0, <1>4, <3>1, PeekIs
  <2>2. depth' = Deeper(depth, text[pos])
    BY <1>4, <2>1 DEF Deeper
  <2>3. ~Closes(pos, depth)
    BY <1>4, <2>1 DEF Closes
  <2>4. Scanned(from, OpaqueTurn(pos), Deeper(depth, text[pos]))
    BY <1>0, <1>1, <1>4, <2>3, ScannedTurn
  <2>5. InStep(text, from, OpaqueTurn(pos), Deeper(depth, text[pos]))
    BY <2>4, OfText
  <2>6. pos' = OpaqueTurn(pos) /\ UNCHANGED <<cur, place, blocks>>
    BY <1>4
  <2>7. InStep(text', from', pos', depth')
    BY <1>0, <2>2, <2>5, <2>6
  <2>8. Positions'
    <3>1. pos' \in 1 .. Len(text') + 1
      BY <2>7 DEF InStep
    <3> QED BY <1>0, <2>6, <3>1 DEF Positions, TextOK
  <2>9. Depths'
    BY <1>0, <2>6, <2>7 DEF Depths
  <2>10. Matched(text', blocks')
    BY <1>0, <2>6 DEF LexInv
  <2> QED BY <2>8, <2>9, <2>10 DEF LexInv
<1> QED BY <1>2, <1>3, <1>4 DEF lexOpaqueBlock

\* Whatever the text, every block without a digit separator, a raw string or a
\* line joined where the lexer does not expect it (Plain) is passed through up
\* to the brace that closes it in C++17, and one is refused only if the text has no
\* such brace (Lexer::lexOpaqueBlock, Parser::parseBraceBlock).
THEOREM BlocksAreMatched == LexSpec => []BlocksMatch
PROOF
<1>1. LexInit => LexInv
  BY LexInitInv
<1>2. LexInv /\ [LexNext]_lexVars => LexInv'
  <2> SUFFICES ASSUME LexInv, [LexNext]_lexVars PROVE LexInv'
    OBVIOUS
  <2>1. CASE UNCHANGED lexVars
    BY <2>1 DEF lexVars, LexInv, Positions, TextOK, Depths
  <2>2. CASE ElementBody \/ Pragma
    BY <2>2, BetweenBlocks
  <2>3. CASE parseBraceBlock
    BY <2>3, BlockBegins
  <2>4. CASE lexOpaqueBlock
    BY <2>4, BlockGoesOn
  <2> QED BY <2>1, <2>2, <2>3, <2>4 DEF LexNext
<1>3. LexInv => BlocksMatch
  <2> SUFFICES ASSUME LexInv PROVE BlocksMatch
    OBVIOUS
  <2>0. TextOK
    BY DEF LexInv, Positions
  <2>1. ASSUME NEW i \in DOMAIN blocks, Plain(blocks[i].from)
        PROVE  blocks[i].to = ClosingBrace(blocks[i].from)
    <3>1. blocks[i].from \in 1 .. Len(text) + 1 /\ blocks[i].to = PlainEnd(blocks[i].from)
      BY OfText DEF LexInv, Matched
    <3> QED BY <2>0, <2>1, <3>1, PlainEnds
  <2>2. ASSUME place = "failed", depth > 0, Plain(from)
        PROVE  ClosingBrace(from) > Len(text)
    <3>1. from \in 1 .. Len(text) + 1 /\ PlainEnd(from) > Len(text)
      BY <2>2, OfText DEF LexInv, Depths
    <3> QED BY <2>0, <2>2, <3>1, PlainEnds
  <2> QED BY <2>1, <2>2 DEF BlocksMatch
<1> QED BY <1>1, <1>2, <1>3, PTL DEF LexSpec
=============================================================================
