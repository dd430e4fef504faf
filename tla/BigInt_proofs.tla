---------------------------- MODULE BigInt_proofs ----------------------------
(***************************************************************************)
(* What bigint.hpp computes, for every size of limb and number of          *)
(* limbs: the loops over limbs, the Montgomery product, both               *)
(* exponentiations and the decryption in two halves.                       *)
(*                                                                         *)
(* A loop is followed with the set of the values it may have after each    *)
(* turn (LoopInvariant).  Quotients are kept behind operators, and what is *)
(* said of remainders is said as a congruence.                             *)
(***************************************************************************)
EXTENDS BigInt, Induction, TLAPS

-----------------------------------------------------------------------------
(* Loops and powers.                                                       *)

Runs(f, n, start, turn) ==
  f = [k \in 0 .. n |-> IF k = 0 THEN start ELSE turn[k][f[k - 1]]]

LEMMA LoopIs ==
  ASSUME NEW n, NEW start, NEW turn
  PROVE  Loop(n, start, turn) = (CHOOSE f : Runs(f, n, start, turn))[n]
BY DEF Loop, Runs

LEMMA RunsAt ==
  ASSUME NEW n \in Nat, NEW start, NEW turn, NEW f, Runs(f, n, start, turn)
  PROVE  /\ f[0] = start
         /\ \A k \in 1 .. n : f[k] = turn[k][f[k - 1]]
PROOF
<1>1. \A k \in 0 .. n : f[k] = IF k = 0 THEN start ELSE turn[k][f[k - 1]]
  BY Zenon DEF Runs
<1>2. f[0] = start
  <2>1. 0 \in 0 .. n
    OBVIOUS
  <2> QED BY <1>1, <2>1, Zenon
<1>3. ASSUME NEW k \in 1 .. n PROVE f[k] = turn[k][f[k - 1]]
  <2>1. k \in 0 .. n /\ k # 0
    OBVIOUS
  <2> QED BY <1>1, <2>1, Zenon
<1> QED BY <1>2, <1>3

LEMMA LoopExists ==
  ASSUME NEW n \in Nat, NEW start, NEW turn
  PROVE  \E f : Runs(f, n, start, turn)
PROOF
<1> DEFINE S == {k \in Nat : \E f : Runs(f, k, start, turn)}
<1>1. 0 \in S
  <2> DEFINE f == [k \in 0 .. 0 |-> start]
  <2>1. f = [k \in 0 .. 0 |-> IF k = 0 THEN start ELSE turn[k][f[k - 1]]]
    OBVIOUS
  <2> QED BY <2>1 DEF Runs
<1>2. ASSUME NEW k \in 1 .. n, k - 1 \in S PROVE k \in S
  <2>1. PICK f : Runs(f, k - 1, start, turn)
    BY <1>2
  <2> DEFINE g == [j \in 0 .. k |-> IF j = 0 THEN start ELSE turn[j][f[j - 1]]]
  <2>2. ASSUME NEW j \in 1 .. k PROVE g[j - 1] = f[j - 1]
    <3>1. j - 1 \in 0 .. k - 1 /\ j - 1 \in 0 .. k
      OBVIOUS
    <3>2. g[j - 1] = IF j - 1 = 0 THEN start ELSE turn[j - 1][f[j - 1 - 1]]
      BY <3>1
    <3>3. f[j - 1] = IF j - 1 = 0 THEN start ELSE turn[j - 1][f[j - 1 - 1]]
      BY <2>1, <3>1, Zenon DEF Runs
    <3> QED BY <3>2, <3>3
  <2>3. g = [j \in 0 .. k |-> IF j = 0 THEN start ELSE turn[j][g[j - 1]]]
    <3>1. \A j \in 0 .. k : (IF j = 0 THEN start ELSE turn[j][f[j - 1]])
                             = IF j = 0 THEN start ELSE turn[j][g[j - 1]]
      <4> HIDE DEF g
      <4>1. \A j \in 0 .. k : j = 0 \/ j \in 1 .. k
        OBVIOUS
      <4> QED BY <2>2, <4>1, Zenon
    <3> QED BY <3>1, Zenon
  <2>4. Runs(g, k, start, turn)
    <3> HIDE DEF g
    <3> QED BY <2>3 DEF Runs
  <2>5. k \in Nat
    OBVIOUS
  <2> HIDE DEF g
  <2> QED BY <2>4, <2>5
<1>3. \A k \in 0 .. n : k \in S
  <2> HIDE DEF S
  <2> QED BY <1>1, <1>2, UpTo
<1>4. n \in S
  <2> HIDE DEF S
  <2> QED BY <1>3
<1> QED BY <1>4

LEMMA LoopRuns ==
  ASSUME NEW n \in Nat, NEW start, NEW turn
  PROVE  \E f : Runs(f, n, start, turn) /\ Loop(n, start, turn) = f[n]
BY LoopExists, LoopIs

\* What holds before a loop, and after a turn if it held before, holds behind the loop.
LEMMA LoopInvariant ==
  ASSUME NEW n \in Nat, NEW start, NEW turn, NEW I,
         <<0, start>> \in I,
         \A k \in 1 .. n : \A x : <<k - 1, x>> \in I => <<k, turn[k][x]>> \in I
  PROVE  <<n, Loop(n, start, turn)>> \in I
PROOF
<1>1. PICK f : Runs(f, n, start, turn) /\ Loop(n, start, turn) = f[n]
  BY LoopRuns
<1>2. f[0] = start /\ \A k \in 1 .. n : f[k] = turn[k][f[k - 1]]
  BY <1>1, RunsAt
<1> DEFINE S == {k \in 0 .. n : <<k, f[k]>> \in I}
<1>3. 0 \in S
  BY <1>2
<1>4. ASSUME NEW k \in 1 .. n, k - 1 \in S PROVE k \in S
  <2>1. <<k, turn[k][f[k - 1]]>> \in I
    BY <1>4
  <2> QED BY <1>2, <2>1
<1>5. \A k \in 0 .. n : k \in S
  <2> HIDE DEF S
  <2> QED BY <1>3, <1>4, UpTo
<1>6. n \in S
  <2> HIDE DEF S
  <2> QED BY <1>5
<1> QED BY <1>1, <1>6

LEMMA LoopNone ==
  ASSUME NEW start, NEW turn
  PROVE  Loop(0, start, turn) = start
BY LoopRuns, RunsAt

\* One turn more: the first n turns are those of less.
LEMMA LoopNext ==
  ASSUME NEW n \in Nat, NEW start, NEW turn, NEW less,
         \A k \in 1 .. n : less[k] = turn[k]
  PROVE  Loop(n + 1, start, turn) = turn[n + 1][Loop(n, start, less)]
PROOF
<1>1. PICK f : Runs(f, n + 1, start, turn) /\ Loop(n + 1, start, turn) = f[n + 1]
  <2> n + 1 \in Nat
    OBVIOUS
  <2> QED BY LoopRuns
<1>2. f[0] = start /\ \A k \in 1 .. n + 1 : f[k] = turn[k][f[k - 1]]
  BY <1>1, RunsAt
<1> DEFINE I == {<<k, f[k]>> : k \in 0 .. n}
<1>3. <<0, start>> \in I
  BY <1>2
<1>4. ASSUME NEW k \in 1 .. n, NEW x, <<k - 1, x>> \in I PROVE <<k, less[k][x]>> \in I
  <2>1. x = f[k - 1]
    BY <1>4
  <2>2. f[k] = less[k][x]
    BY <1>2, <2>1
  <2> QED BY <2>2
<1>5. <<n, Loop(n, start, less)>> \in I
  <2> HIDE DEF I
  <2> QED BY <1>3, <1>4, LoopInvariant
<1>6. Loop(n, start, less) = f[n]
  BY <1>5
<1>7. f[n + 1] = turn[n + 1][f[n]]
  BY <1>2
<1> QED BY <1>1, <1>6, <1>7

-----------------------------------------------------------------------------
LEMMA PowerZero ==
  ASSUME NEW b PROVE Power(b, 0) = 1
BY LoopNone DEF Power

LEMMA PowerType ==
  ASSUME NEW b \in Nat, NEW k \in Nat
  PROVE  Power(b, k) \in Nat
PROOF
<1> DEFINE I == Nat \X Nat
           t == [i \in 1 .. k |-> [x \in Nat |-> b * x]]
<1>1. <<0, 1>> \in I
  OBVIOUS
<1>2. ASSUME NEW i \in 1 .. k, NEW x, <<i - 1, x>> \in I
      PROVE  <<i, t[i][x]>> \in I
  <2>1. x \in Nat
    BY <1>2
  <2>2. t[i][x] = b * x
    BY <2>1
  <2> QED BY <2>1, <2>2
<1>3. <<k, Loop(k, 1, t)>> \in I
  <2> HIDE DEF I, t
  <2> QED BY <1>1, <1>2, LoopInvariant
<1> QED BY <1>3 DEF Power

LEMMA PowerNext ==
  ASSUME NEW b \in Nat, NEW k \in Nat
  PROVE  Power(b, k + 1) = b * Power(b, k)
PROOF
<1> DEFINE t(n) == [i \in 1 .. n |-> [x \in Nat |-> b * x]]
<1>1. Power(b, k) = Loop(k, 1, t(k)) /\ Power(b, k + 1) = Loop(k + 1, 1, t(k + 1))
  BY DEF Power
<1>2. \A i \in 1 .. k : t(k)[i] = t(k + 1)[i]
  OBVIOUS
<1>3. Loop(k + 1, 1, t(k + 1)) = t(k + 1)[k + 1][Loop(k, 1, t(k))]
  <2> HIDE DEF t
  <2> QED BY <1>2, LoopNext
<1>4. t(k + 1)[k + 1][Power(b, k)] = b * Power(b, k)
  BY PowerType
<1> QED BY <1>1, <1>3, <1>4

LEMMA PowerPos ==
  ASSUME NEW b \in Nat \ {0}, NEW k \in Nat
  PROVE  Power(b, k) \in Nat \ {0}
PROOF
<1> DEFINE S == {i \in Nat : Power(b, i) \in Nat \ {0}}
<1>1. 0 \in S
  BY PowerZero
<1>2. ASSUME NEW i \in 1 .. k, i - 1 \in S PROVE i \in S
  <2>1. Power(b, i - 1 + 1) = b * Power(b, i - 1)
    BY PowerNext
  <2>2. i - 1 + 1 = i /\ Power(b, i - 1) \in Nat \ {0}
    BY <1>2
  <2>3. b * Power(b, i - 1) \in Nat \ {0}
    BY <2>2
  <2> QED BY <2>1, <2>2, <2>3
<1>3. \A i \in 0 .. k : i \in S
  <2> HIDE DEF S
  <2> QED BY <1>1, <1>2, UpTo
<1> QED BY <1>3

LEMMA PowerSum ==
  ASSUME NEW b \in Nat, NEW j \in Nat, NEW k \in Nat
  PROVE  Power(b, j + k) = Power(b, j) * Power(b, k)
PROOF
<1> DEFINE S == {i \in Nat : Power(b, j + i) = Power(b, j) * Power(b, i)}
<1>1. 0 \in S
  BY PowerZero, PowerType
<1>2. ASSUME NEW i \in 1 .. k, i - 1 \in S PROVE i \in S
  <2>1. Power(b, i - 1 + 1) = b * Power(b, i - 1)
    BY PowerNext
  <2>2. Power(b, j + (i - 1) + 1) = b * Power(b, j + (i - 1))
    BY PowerNext
  <2>3. i - 1 + 1 = i /\ j + (i - 1) + 1 = j + i
    OBVIOUS
  <2>4. Power(b, j + (i - 1)) = Power(b, j) * Power(b, i - 1)
    BY <1>2
  <2>5. \A x, y \in Nat : b * (x * y) = x * (b * y)
    OBVIOUS
  <2>6. Power(b, j) \in Nat /\ Power(b, i - 1) \in Nat
    <3> i - 1 \in Nat
      OBVIOUS
    <3> QED BY PowerType
  <2> QED BY <2>1, <2>2, <2>3, <2>4, <2>5, <2>6
<1>3. \A i \in 0 .. k : i \in S
  <2> HIDE DEF S
  <2> QED BY <1>1, <1>2, UpTo
<1> QED BY <1>3

LEMMA PowerPower ==
  ASSUME NEW b \in Nat, NEW j \in Nat, NEW k \in Nat
  PROVE  Power(Power(b, j), k) = Power(b, j * k)
PROOF
<1> DEFINE S == {i \in Nat : Power(Power(b, j), i) = Power(b, j * i)}
<1>1. 0 \in S
  BY PowerZero, PowerType
<1>2. ASSUME NEW i \in 1 .. k, i - 1 \in S PROVE i \in S
  <2>1. Power(Power(b, j), i - 1 + 1) = Power(b, j) * Power(Power(b, j), i - 1)
    BY PowerNext, PowerType
  <2>2. j * (i - 1) \in Nat /\ j + j * (i - 1) = j * i
    OBVIOUS
  <2>3. Power(b, j + j * (i - 1)) = Power(b, j) * Power(b, j * (i - 1))
    BY <2>2, PowerSum
  <2>4. i - 1 + 1 = i /\ i \in Nat
    OBVIOUS
  <2> QED BY <1>2, <2>1, <2>2, <2>3, <2>4
<1>3. \A i \in 0 .. k : i \in S
  <2> HIDE DEF S
  <2> QED BY <1>1, <1>2, UpTo
<1> QED BY <1>3

LEMMA PowerProduct ==
  ASSUME NEW a \in Nat, NEW b \in Nat, NEW k \in Nat
  PROVE  Power(a * b, k) = Power(a, k) * Power(b, k)
PROOF
<1> DEFINE S == {i \in Nat : Power(a * b, i) = Power(a, i) * Power(b, i)}
<1>1. 0 \in S
  BY PowerZero
<1>2. ASSUME NEW i \in 1 .. k, i - 1 \in S PROVE i \in S
  <2>1. /\ Power(a, i - 1 + 1) = a * Power(a, i - 1)
        /\ Power(b, i - 1 + 1) = b * Power(b, i - 1)
    BY PowerNext
  <2>2. a * b \in Nat
    OBVIOUS
  <2>3. Power(a * b, i - 1 + 1) = a * b * Power(a * b, i - 1)
    BY <2>2, PowerNext
  <2>4. i - 1 + 1 = i
    OBVIOUS
  <2>5. \A x, y \in Nat : a * b * (x * y) = (a * x) * (b * y)
    OBVIOUS
  <2>6. Power(a, i - 1) \in Nat /\ Power(b, i - 1) \in Nat
    <3> i - 1 \in Nat
      OBVIOUS
    <3> QED BY PowerType
  <2>7. Power(a * b, i - 1) = Power(a, i - 1) * Power(b, i - 1)
    BY <1>2
  <2> HIDE DEF S
  <2>8. Power(a * b, i) = Power(a, i) * Power(b, i)
    BY <2>1, <2>3, <2>4, <2>5, <2>6, <2>7
  <2> QED BY <2>8 DEF S
<1>3. \A i \in 0 .. k : i \in S
  <2> HIDE DEF S
  <2> QED BY <1>1, <1>2, UpTo
<1> QED BY <1>3

-----------------------------------------------------------------------------
(* Division, congruence, and a loop over limbs.                            *)

LEMMA Division ==
  ASSUME NEW a \in Int, NEW b \in Nat \ {0}
  PROVE  /\ a \div b \in Int /\ a % b \in 0 .. b - 1
         /\ a = b * (a \div b) + (a % b)
OBVIOUS

LEMMA DivisionIs ==
  ASSUME NEW a \in Int, NEW b \in Nat \ {0}, NEW q \in Int, NEW r \in 0 .. b - 1, a = b * q + r
  PROVE  a \div b = q /\ a % b = r
OBVIOUS

LEMMA NatDivision ==
  ASSUME NEW a \in Nat, NEW b \in Nat \ {0}
  PROVE  a \div b \in Nat /\ a % b \in Nat /\ a \div b <= a
PROOF
<1>1. a = b * (a \div b) + (a % b) /\ a % b \in 0 .. b - 1 /\ a \div b \in Int
  BY Division
<1>2. \A q \in Int : q < 0 => b * q <= 0 - b
  OBVIOUS
<1>3. a \div b \in Nat
  BY <1>1, <1>2
<1>4. \A q \in Nat : q <= b * q
  OBVIOUS
<1> QED BY <1>1, <1>3, <1>4

LEMMA SmallMod ==
  ASSUME NEW b \in Nat \ {0}, NEW a \in 0 .. b - 1
  PROVE  a % b = a /\ a \div b = 0
OBVIOUS

\* a and b leave the same remainder.
Congruent(a, b, n) == a % n = b % n

LEMMA CongruentIs ==
  ASSUME NEW n \in Nat \ {0}, NEW x \in Int, NEW y \in Int, \E m \in Int : x = y + m * n
  PROVE  Congruent(x, y, n)
PROOF
<1> PICK q \in Int : x = y + q * n
  OBVIOUS
<1>1. y = n * (y \div n) + (y % n) /\ y \div n \in Int /\ y % n \in 0 .. n - 1
  BY Division
<1>2. x = n * (q + (y \div n)) + (y % n)
  <2>1. \A z \in Int : n * (q + z) = n * q + n * z
    OBVIOUS
  <2> QED BY <1>1, <2>1
<1>3. q + (y \div n) \in Int
  BY <1>1
<1> DEFINE d == q + (y \div n)
<1> HIDE DEF d
<1>4. d \in Int /\ x = n * d + (y % n)
  BY <1>2, <1>3 DEF d
<1> QED BY <1>1, <1>4, DivisionIs DEF Congruent

LEMMA CongruentBy ==
  ASSUME NEW a \in Int, NEW b \in Int, NEW n \in Nat \ {0}, Congruent(a, b, n)
  PROVE  \E q \in Int : a = b + q * n
PROOF
<1>1. \A z \in Int : z = n * (z \div n) + (z % n) /\ z \div n \in Int /\ z % n \in Int
  OBVIOUS
<1>2. \A x, y, z \in Int : n * x + z = (n * y + z) + (x - y) * n
  OBVIOUS
<1>3. a = b + ((a \div n) - (b \div n)) * n
  <2>1. n * (a \div n) + (b % n) = (n * (b \div n) + (b % n)) + ((a \div n) - (b \div n)) * n
    BY <1>1, <1>2
  <2> QED BY <1>1, <2>1 DEF Congruent
<1>4. (a \div n) - (b \div n) \in Int
  BY <1>1
<1> QED BY <1>3, <1>4

LEMMA CongruentSelf ==
  ASSUME NEW a \in Int, NEW n \in Nat \ {0}
  PROVE  Congruent(a, a, n)
BY DEF Congruent

LEMMA CongruentTurned ==
  ASSUME NEW a \in Int, NEW b \in Int, NEW n \in Nat \ {0}, Congruent(a, b, n)
  PROVE  Congruent(b, a, n)
BY DEF Congruent

LEMMA CongruentChain ==
  ASSUME NEW a \in Int, NEW b \in Int, NEW c \in Int, NEW n \in Nat \ {0},
         Congruent(a, b, n), Congruent(b, c, n)
  PROVE  Congruent(a, c, n)
BY DEF Congruent

LEMMA CongruentRest ==
  ASSUME NEW a \in Int, NEW n \in Nat \ {0}
  PROVE  Congruent(a % n, a, n) /\ Congruent(a, a % n, n)
BY Division, SmallMod DEF Congruent

LEMMA CongruentSmall ==
  ASSUME NEW n \in Nat \ {0}, NEW a \in Int, NEW b \in 0 .. n - 1, Congruent(b, a, n)
  PROVE  b = a % n
BY SmallMod DEF Congruent

LEMMA CongruentSum ==
  ASSUME NEW a \in Int, NEW b \in Int, NEW c \in Int, NEW d \in Int, NEW n \in Nat \ {0},
         Congruent(a, b, n), Congruent(c, d, n)
  PROVE  Congruent(a + c, b + d, n)
PROOF
<1>1. PICK q \in Int : a = b + q * n
  BY CongruentBy
<1>2. PICK r \in Int : c = d + r * n
  BY CongruentBy
<1> DEFINE x == a + c
           y == b + d
           z == q + r
<1>3. x = y + z * n /\ x \in Int /\ y \in Int /\ z \in Int
  BY <1>1, <1>2
<1> HIDE DEF x, y, z
<1>4. Congruent(x, y, n)
  BY <1>3, CongruentIs
<1> QED BY <1>4 DEF x, y

LEMMA CongruentProduct ==
  ASSUME NEW a \in Int, NEW b \in Int, NEW c \in Int, NEW d \in Int, NEW n \in Nat \ {0},
         Congruent(a, b, n), Congruent(c, d, n)
  PROVE  Congruent(a * c, b * d, n)
PROOF
<1>1. PICK q \in Int : a = b + q * n
  BY CongruentBy
<1>2. PICK r \in Int : c = d + r * n
  BY CongruentBy
<1> DEFINE x == a * c
           y == b * d
           z == q * d + b * r + q * r * n
<1>3. x = y + z * n /\ x \in Int /\ y \in Int /\ z \in Int
  BY <1>1, <1>2
<1> HIDE DEF x, y, z
<1>4. Congruent(x, y, n)
  BY <1>3, CongruentIs
<1> QED BY <1>4 DEF x, y

\* The remainder by a product, digit by digit.
LEMMA SplitMod ==
  ASSUME NEW x \in Int, NEW P \in Nat \ {0}, NEW B \in Nat \ {0}
  PROVE  /\ x % (B * P) = (x % P) + ((x \div P) % B) * P
         /\ x \div (B * P) = (x \div P) \div B
PROOF
<1>1. x = P * (x \div P) + (x % P) /\ x \div P \in Int /\ x % P \in 0 .. P - 1
  BY Division
<1>2. /\ x \div P = B * ((x \div P) \div B) + ((x \div P) % B)
      /\ (x \div P) \div B \in Int /\ (x \div P) % B \in 0 .. B - 1
  BY <1>1, Division
<1> DEFINE q == (x \div P) \div B
           d == (x \div P) % B
           r == x % P
<1>3. B * P \in Nat \ {0}
  OBVIOUS
<1>4. d * P + r \in 0 .. B * P - 1
  <2>1. d \in 0 .. B - 1 /\ r \in 0 .. P - 1
    BY <1>1, <1>2
  <2>2. d * P <= (B - 1) * P /\ 0 <= d * P
    BY <2>1
  <2>3. (B - 1) * P = B * P - P
    OBVIOUS
  <2> QED BY <2>1, <2>2, <2>3
<1>5. x = (B * P) * q + (d * P + r)
  <2>1. x = P * (B * q + d) + r
    BY <1>1, <1>2
  <2>2. \A y, z \in Int : P * (B * y + z) = (B * P) * y + z * P
    OBVIOUS
  <2>3. q \in Int /\ d \in Int /\ r \in Int
    BY <1>1, <1>2
  <2>4. P * (B * q + d) = (B * P) * q + d * P
    <3> HIDE DEF q, d
    <3> QED BY <2>2, <2>3
  <2> HIDE DEF q, d, r
  <2>5. \A y, z, v, w \in Int : y = z /\ w = y + v => w = z + v
    OBVIOUS
  <2>6. \A y, z, v \in Int : y + (z + v) = (y + z) + v
    OBVIOUS
  <2> QED BY <2>1, <2>3, <2>4, <2>6
<1>6. q \in Int
  BY <1>2
<1> HIDE DEF q, d, r
<1>7. x \div (B * P) = q /\ x % (B * P) = d * P + r
  BY <1>3, <1>4, <1>5, <1>6, DivisionIs
<1> QED BY <1>1, <1>2, <1>7 DEF q, d, r

\* The two operators under names that the provers leave alone.
Quot(x, n) == x \div n
Rem(x, n)  == x % n

LEMMA OfProduct ==
  ASSUME NEW x \in Int, NEW P \in Nat \ {0}, NEW B \in Nat \ {0}, NEW Q \in Nat \ {0}, Q = B * P
  PROVE  /\ Quot(x, Q) = Quot(Quot(x, P), B)
         /\ Rem(x, Q) = Rem(x, P) + Rem(Quot(x, P), B) * P
BY SplitMod, Zenon DEF Quot, Rem

-----------------------------------------------------------------------------
LEMMA BaseType == LimbBits \in Nat \ {0} /\ Base \in Nat /\ Base >= 2
PROOF
<1>1. LimbBits \in Nat \ {0}
  BY LimbAssumption, PowerPos
<1>2. Base = 2 * Power(2, LimbBits - 1)
  <2>1. LimbBits - 1 \in Nat /\ LimbBits - 1 + 1 = LimbBits
    BY <1>1
  <2> QED BY <2>1, PowerNext DEF Base
<1>3. Power(2, LimbBits - 1) \in Nat \ {0}
  BY <1>1, PowerPos
<1> QED BY <1>1, <1>2, <1>3

LEMMA BasePower ==
  ASSUME NEW k \in Nat
  PROVE  /\ Power(Base, k) \in Nat \ {0}
         /\ Power(Base, k + 1) = Base * Power(Base, k)
PROOF
<1>1. Base \in Nat /\ Base \in Nat \ {0}
  BY BaseType
<1> QED BY <1>1, PowerPos, PowerNext

LEMMA BasePos == ASSUME NEW k, k \in Nat PROVE Power(Base, k) \in Nat /\ Power(Base, k) >= 1
BY BasePower

LEMMA LimbType ==
  ASSUME NEW x, NEW i, x \in Nat, i \in Nat
  PROVE  Limb(x, i) \in Nat /\ Limb(x, i) < Base
PROOF
<1> DEFINE P == Power(Base, i)
<1>1. P \in Nat \ {0} /\ Base \in Nat \ {0} /\ x \in Int
  BY BasePower, BaseType
<1> HIDE DEF P
<1>2. x \div P \in Int
  BY <1>1, Division
<1>3. (x \div P) % Base \in 0 .. Base - 1
  BY <1>1, <1>2, Division
<1> QED BY <1>1, <1>3 DEF Limb, P

LEMMA LimbStep ==
  ASSUME NEW x \in Nat, NEW k \in Nat
  PROVE  /\ x % Power(Base, k + 1) = (x % Power(Base, k)) + Limb(x, k) * Power(Base, k)
         /\ x \div Power(Base, k + 1) = (x \div Power(Base, k)) \div Base
PROOF
<1>1. Power(Base, k) \in Nat \ {0} /\ Power(Base, k + 1) = Base * Power(Base, k)
  BY BasePower
<1>2. Base \in Nat \ {0} /\ x \in Int
  BY BaseType
<1> DEFINE P == Power(Base, k)
<1> HIDE DEF P
<1>3. /\ x % (Base * P) = (x % P) + ((x \div P) % Base) * P
      /\ x \div (Base * P) = (x \div P) \div Base
  BY <1>1, <1>2, SplitMod DEF P
<1> QED BY <1>1, <1>3 DEF Limb, P

\* What the carrying loops compute: sum[k] is the sum of the first k limbs, with
\* what comes in.
LEMMA CarriedRight ==
  ASSUME NEW N \in Nat, NEW c \in Int, NEW w, NEW sum,
         \A k \in 0 .. N : sum[k] \in Int,
         \A k \in 0 .. N - 1 : w[k] \in Int,
         sum[0] = c,
         \A k \in 0 .. N - 1 : sum[k + 1] = sum[k] + w[k] * Power(Base, k)
  PROVE  Carried(N, c, w) = <<sum[N] % Power(Base, N), sum[N] \div Power(Base, N)>>
PROOF
<1> DEFINE t == [k \in 1 .. N |-> [s \in Nat \X Int |->
                   LET v == w[k - 1] + s[2]
                   IN  <<s[1] + (v % Base) * Power(Base, k - 1), v \div Base>>]]
           at(k) == <<sum[k] % Power(Base, k), sum[k] \div Power(Base, k)>>
           I == {<<k, at(k)>> : k \in 0 .. N}
<1>1. <<0, <<0, c>>>> \in I
  <2>1. Power(Base, 0) = 1
    BY PowerZero
  <2>2. at(0) = <<0, c>>
    BY <2>1
  <2> HIDE DEF at
  <2> QED BY <2>2
<1>2. ASSUME NEW k \in 1 .. N, NEW x, <<k - 1, x>> \in I
      PROVE  <<k, t[k][x]>> \in I
  <2> DEFINE j == k - 1
             P == Power(Base, j)
             v == w[j] + (sum[j] \div P)
  <2>1. j \in 0 .. N - 1 /\ j \in Nat /\ j \in 0 .. N /\ k = j + 1
    OBVIOUS
  <2>2. x = at(j)
    <3> HIDE DEF at
    <3> QED BY <1>2
  <2>3. P \in Nat \ {0} /\ Power(Base, k) = Base * P
    BY <2>1, BasePower
  <2>4. sum[j] \in Int /\ w[j] \in Int /\ sum[k] = sum[j] + w[j] * P
    BY <2>1
  <2>5. sum[j] \div P \in Int /\ sum[j] % P \in 0 .. P - 1 /\ sum[j] = P * (sum[j] \div P) + (sum[j] % P)
    BY <2>3, <2>4, Division
  <2> DEFINE q == sum[j] \div P
             r == sum[j] % P
  <2>6. sum[k] = P * v + r
    <3>1. \A y, z, a \in Int : (P * y + z) + a * P = P * (a + y) + z
      BY <2>3
    <3>2. q \in Int /\ r \in Int /\ sum[j] = P * q + r
      BY <2>5
    <3>3. (P * q + r) + w[j] * P = P * (w[j] + q) + r
      <4> HIDE DEF P, q, r
      <4> QED BY <3>1, <3>2, <2>4
    <3> HIDE DEF P
    <3> QED BY <2>4, <3>2, <3>3
  <2>7. v \in Int
    BY <2>4, <2>5
  <2>8. sum[k] \div P = v /\ sum[k] % P = r
    <3> DEFINE z == sum[k]
    <3>1. z \in Int /\ r \in 0 .. P - 1 /\ z = P * v + r
      BY <2>1, <2>5, <2>6
    <3> HIDE DEF v, P, z, r
    <3>2. z \div P = v /\ z % P = r
      BY <2>3, <2>7, <3>1, DivisionIs
    <3> QED BY <3>2 DEF z, r
  <2>9. /\ sum[k] % Power(Base, k) = r + (v % Base) * P
        /\ sum[k] \div Power(Base, k) = v \div Base
    <3> HIDE DEF v, P
    <3>1. sum[k] \in Int
      BY <2>1
    <3>2. Base \in Nat \ {0}
      BY BaseType
    <3>3. /\ sum[k] % (Base * P) = (sum[k] % P) + ((sum[k] \div P) % Base) * P
          /\ sum[k] \div (Base * P) = (sum[k] \div P) \div Base
      BY <2>3, <3>1, <3>2, SplitMod
    <3> QED BY <2>3, <2>8, <3>3
  <2>10. t[k][x] = <<r + (v % Base) * P, v \div Base>>
    <3>1. x \in Nat \X Int /\ x[1] = r /\ x[2] = q
      BY <2>2, <2>3, <2>5
    <3> QED BY <3>1
  <2>11. t[k][x] = at(k)
    BY <2>9, <2>10
  <2> HIDE DEF t, at
  <2> QED BY <2>11
<1>3. <<N, Loop(N, <<0, c>>, t)>> \in I
  <2> HIDE DEF t, I
  <2> QED BY <1>1, <1>2, LoopInvariant
<1>4. Loop(N, <<0, c>>, t) = at(N)
  <2> HIDE DEF t, at
  <2> QED BY <1>3
<1> QED BY <1>4 DEF Carried

-----------------------------------------------------------------------------
(* Sums, differences, shifts and rows of products, limb by limb.           *)

\* The number that the first k limbs of x spell.
Low(x, k) == x % Power(Base, k)

LEMMA LowType ==
  ASSUME NEW x, NEW k, x \in Nat, k \in Nat
  PROVE  Low(x, k) \in Nat /\ Low(x, k) < Power(Base, k)
PROOF
<1>1. Power(Base, k) \in Nat \ {0} /\ x \in Int
  BY BasePower
<1> DEFINE P == Power(Base, k)
<1> HIDE DEF P
<1>2. P \in Nat \ {0} /\ x \in Int
  BY <1>1 DEF P
<1>3. x % P \in 0 .. P - 1
  BY <1>2, Division
<1> QED BY <1>2, <1>3 DEF Low, P

LEMMA LowNone == ASSUME NEW x, x \in Nat PROVE Low(x, 0) = 0
PROOF
<1>1. Power(Base, 0) = 1
  BY PowerZero
<1> QED BY <1>1 DEF Low

LEMMA LowNext ==
  ASSUME NEW x, NEW k, x \in Nat, k \in Nat
  PROVE  Low(x, k + 1) = Low(x, k) + Limb(x, k) * Power(Base, k)
BY LimbStep, Zenon DEF Low

LEMMA LowWhole ==
  ASSUME NEW x, NEW k, x \in Nat, k \in Nat, x < Power(Base, k)
  PROVE  Low(x, k) = x
PROOF
<1> DEFINE P == Power(Base, k)
<1>1. P \in Nat \ {0} /\ x \in 0 .. P - 1
  BY BasePower
<1> HIDE DEF P
<1>2. x % P = x
  BY <1>1, SmallMod
<1> QED BY <1>2 DEF Low, P

\* No limb above those of a number is set.
LEMMA LimbAbove ==
  ASSUME NEW x, NEW k, x \in Nat, k \in Nat, x < Power(Base, k)
  PROVE  Limb(x, k) = 0
PROOF
<1> DEFINE P == Power(Base, k)
<1>1. P \in Nat \ {0} /\ x \in 0 .. P - 1 /\ Base \in Nat \ {0}
  BY BasePower, BaseType
<1> HIDE DEF P
<1>2. x \div P = 0
  BY <1>1, SmallMod
<1>3. 0 % Base = 0
  BY <1>1
<1> QED BY <1>2, <1>3 DEF Limb, P

LEMMA BaseMonotone ==
  ASSUME NEW j, NEW k, j \in Nat, k \in Nat, j <= k
  PROVE  Power(Base, j) <= Power(Base, k)
PROOF
<1>1. k - j \in Nat /\ j + (k - j) = k /\ Base \in Nat
  BY BaseType
<1>2. Power(Base, k) = Power(Base, j) * Power(Base, k - j)
  BY <1>1, PowerSum
<1>3. Power(Base, j) \in Nat \ {0} /\ Power(Base, k - j) \in Nat \ {0}
  BY <1>1, BasePower
<1>4. \A p, q \in Nat \ {0} : p <= p * q
  OBVIOUS
<1> DEFINE p == Power(Base, j)
           q == Power(Base, k - j)
<1> HIDE DEF p, q
<1>5. p \in Nat \ {0} /\ q \in Nat \ {0} /\ Power(Base, k) = p * q
  BY <1>2, <1>3 DEF p, q
<1> QED BY <1>4, <1>5 DEF p

-----------------------------------------------------------------------------
LEMMA SubRight ==
  ASSUME NEW N \in Nat, NEW a \in Nat, NEW b \in Nat, a < Power(Base, N), b < Power(Base, N)
  PROVE  sub(N, a, b) = (a - b) % Power(Base, N)
PROOF
<1> DEFINE w == [i \in 0 .. N - 1 |-> Limb(a, i) - Limb(b, i)]
           sum == [k \in 0 .. N |-> Low(a, k) - Low(b, k)]
<1>1. \A k \in 0 .. N : sum[k] \in Int
  BY LowType
<1>2. \A k \in 0 .. N - 1 : w[k] \in Int /\ Limb(a, k) \in Int /\ Limb(b, k) \in Int
  BY LimbType
<1>3. sum[0] = 0
  BY LowNone
<1>4. ASSUME NEW k \in 0 .. N - 1 PROVE sum[k + 1] = sum[k] + w[k] * Power(Base, k)
  <2> DEFINE P == Power(Base, k)
  <2>0. k \in Nat
    OBVIOUS
  <2>1. P \in Int /\ Low(a, k) \in Int /\ Low(b, k) \in Int 
    BY <2>0, BasePos, LowType
  <2>2. Low(a, k + 1) = Low(a, k) + Limb(a, k) * P /\ Low(b, k + 1) = Low(b, k) + Limb(b, k) * P
    BY LowNext
  <2> HIDE DEF P
  <2>3. \A x, y, u, v \in Int : (x + u * P) - (y + v * P) = (x - y) + (u - v) * P
    BY <2>1
  <2>4. Low(a, k + 1) - Low(b, k + 1) = (Low(a, k) - Low(b, k)) + (Limb(a, k) - Limb(b, k)) * P
    BY <1>2, <2>1, <2>2, <2>3
  <2> QED BY <2>4 DEF P
<1>5. Carried(N, 0, w) = <<sum[N] % Power(Base, N), sum[N] \div Power(Base, N)>>
  <2> HIDE DEF w, sum
  <2> QED BY <1>1, <1>2, <1>3, <1>4, CarriedRight
<1>6. sum[N] = a - b
  BY LowWhole
<1> HIDE DEF sum
<1> QED BY <1>5, <1>6 DEF sub

\* The sum of a limb times y, and t.
LEMMA AddRowRight ==
  ASSUME NEW N \in Nat, NEW t \in Nat, NEW x \in Nat, NEW y \in Nat,
         t < Power(Base, N + 2), y < Power(Base, N)
  PROVE  AddRow(N, t, x, y) = (t + x * y) % Power(Base, N + 2)
PROOF
<1> DEFINE M == N + 2
           w == [j \in 0 .. N + 1 |-> Limb(t, j) + (IF j < N THEN x * Limb(y, j) ELSE 0)]
           sum == [k \in 0 .. M |-> Low(t, k) + x * Low(y, k)]
<1>0. M \in Nat /\ 0 .. M - 1 = 0 .. N + 1
  OBVIOUS
<1>1. \A k \in 0 .. M : sum[k] \in Int
  BY LowType
<1>2. \A k \in 0 .. M - 1 : w[k] = Limb(t, k) + x * Limb(y, k) /\ Limb(t, k) \in Int /\ Limb(y, k) \in Int
  <2> SUFFICES ASSUME NEW k \in 0 .. M - 1
               PROVE  w[k] = Limb(t, k) + x * Limb(y, k) /\ Limb(t, k) \in Int /\ Limb(y, k) \in Int
    OBVIOUS
  <2>1. Limb(t, k) \in Int /\ Limb(y, k) \in Int
    BY LimbType
  <2>2. CASE k < N
    BY <1>0, <2>1, <2>2
  <2>3. CASE ~(k < N)
    <3>1. Power(Base, N) <= Power(Base, k) /\ Power(Base, N) \in Nat /\ Power(Base, k) \in Nat
      BY <2>3, BaseMonotone, BasePos
    <3>2. y < Power(Base, k)
      BY <3>1
    <3>3. Limb(y, k) = 0
      BY <3>2, LimbAbove
    <3> QED BY <1>0, <2>1, <2>3, <3>3
  <2> QED BY <2>2, <2>3
<1>3. sum[0] = 0
  BY LowNone
<1>4. ASSUME NEW k \in 0 .. M - 1 PROVE sum[k + 1] = sum[k] + w[k] * Power(Base, k)
  <2> DEFINE P == Power(Base, k)
  <2>0. k \in Nat
    OBVIOUS
  <2>1. P \in Int /\ Low(t, k) \in Int /\ Low(y, k) \in Int /\ k + 1 \in 0 .. M
    BY <2>0, BasePos, LowType
  <2>2. Low(t, k + 1) = Low(t, k) + Limb(t, k) * P /\ Low(y, k + 1) = Low(y, k) + Limb(y, k) * P
    BY LowNext
  <2> HIDE DEF P
  <2>3. \A z, v, a, b \in Int : (z + a * P) + x * (v + b * P) = (z + x * v) + (a + x * b) * P
    BY <2>1
  <2>4. Low(t, k + 1) + x * Low(y, k + 1) = (Low(t, k) + x * Low(y, k)) + (Limb(t, k) + x * Limb(y, k)) * P
    BY <1>2, <2>1, <2>2, <2>3
  <2>5. sum[k + 1] = sum[k] + (Limb(t, k) + x * Limb(y, k)) * P
    BY <2>1, <2>4
  <2> QED BY <1>2, <2>5 DEF P
<1>5. \A k \in 0 .. M - 1 : w[k] \in Int
  BY <1>2
<1>6. Carried(M, 0, w) = <<sum[M] % Power(Base, M), sum[M] \div Power(Base, M)>>
  <2> HIDE DEF w, sum, M
  <2> QED BY <1>0, <1>1, <1>3, <1>4, <1>5, CarriedRight
<1>7. sum[M] = t + x * y
  <2>1. y < Power(Base, M)
    <3>1. Power(Base, N) <= Power(Base, M) /\ Power(Base, N) \in Nat /\ Power(Base, M) \in Nat
      BY BaseMonotone, BasePos
    <3> QED BY <3>1
  <2> QED BY <2>1, <1>0, LowWhole
<1> HIDE DEF sum
<1> QED BY <1>6, <1>7 DEF AddRow

LEMMA AddRight ==
  ASSUME NEW N \in Nat, NEW a \in Nat, NEW b \in Nat, a < Power(Base, N), b < Power(Base, N)
  PROVE  add(N, a, b) = (a + b) % Power(Base, N)
PROOF
<1> DEFINE w == [i \in 0 .. N - 1 |-> Limb(a, i) + Limb(b, i)]
           sum == [k \in 0 .. N |-> Low(a, k) + Low(b, k)]
<1>1. \A k \in 0 .. N : sum[k] \in Int
  BY LowType
<1>2. \A k \in 0 .. N - 1 : w[k] \in Int /\ Limb(a, k) \in Int /\ Limb(b, k) \in Int
  BY LimbType
<1>3. sum[0] = 0
  BY LowNone
<1>4. ASSUME NEW k \in 0 .. N - 1 PROVE sum[k + 1] = sum[k] + w[k] * Power(Base, k)
  <2> DEFINE P == Power(Base, k)
  <2>0. k \in Nat
    OBVIOUS
  <2>1. P \in Int /\ Low(a, k) \in Int /\ Low(b, k) \in Int 
    BY <2>0, BasePos, LowType
  <2>2. Low(a, k + 1) = Low(a, k) + Limb(a, k) * P /\ Low(b, k + 1) = Low(b, k) + Limb(b, k) * P
    BY LowNext
  <2> HIDE DEF P
  <2>3. \A x, y, u, v \in Int : (x + u * P) + (y + v * P) = (x + y) + (u + v) * P
    BY <2>1
  <2>4. Low(a, k + 1) + Low(b, k + 1) = (Low(a, k) + Low(b, k)) + (Limb(a, k) + Limb(b, k)) * P
    BY <1>2, <2>1, <2>2, <2>3
  <2> QED BY <2>4 DEF P
<1>5. Carried(N, 0, w) = <<sum[N] % Power(Base, N), sum[N] \div Power(Base, N)>>
  <2> HIDE DEF w, sum
  <2> QED BY <1>1, <1>2, <1>3, <1>4, CarriedRight
<1>6. sum[N] = a + b
  BY LowWhole
<1> HIDE DEF sum
<1> QED BY <1>5, <1>6 DEF add

LEMMA ShiftedRight ==
  ASSUME NEW N \in Nat, NEW x \in Nat, NEW b \in 0 .. 1, x < Power(Base, N)
  PROVE  Shifted(N, x, b) = <<(2 * x + b) % Power(Base, N), (2 * x + b) \div Power(Base, N)>>
PROOF
<1> DEFINE w == [i \in 0 .. N - 1 |-> 2 * Limb(x, i)]
           sum == [k \in 0 .. N |-> 2 * Low(x, k) + b]
<1>1. \A k \in 0 .. N : sum[k] \in Int
  BY LowType
<1>2. \A k \in 0 .. N - 1 : w[k] \in Int /\ Limb(x, k) \in Int
  BY LimbType
<1>3. sum[0] = b
  BY LowNone
<1>4. ASSUME NEW k \in 0 .. N - 1 PROVE sum[k + 1] = sum[k] + w[k] * Power(Base, k)
  <2> DEFINE P == Power(Base, k)
  <2>0. k \in Nat
    OBVIOUS
  <2>1. P \in Int /\ Low(x, k) \in Int 
    BY <2>0, BasePos, LowType
  <2>2. Low(x, k + 1) = Low(x, k) + Limb(x, k) * P
    BY LowNext
  <2> HIDE DEF P
  <2>3. \A y, u \in Int : 2 * (y + u * P) + b = (2 * y + b) + (2 * u) * P
    BY <2>1
  <2>4. 2 * Low(x, k + 1) + b = (2 * Low(x, k) + b) + (2 * Limb(x, k)) * P
    BY <1>2, <2>1, <2>2, <2>3
  <2> QED BY <2>4 DEF P
<1>5. Carried(N, b, w) = <<sum[N] % Power(Base, N), sum[N] \div Power(Base, N)>>
  <2> HIDE DEF w, sum
  <2> QED BY <1>1, <1>2, <1>3, <1>4, CarriedRight
<1>6. sum[N] = 2 * x + b
  BY LowWhole
<1> HIDE DEF sum
<1> QED BY <1>5, <1>6 DEF Shifted

-----------------------------------------------------------------------------
(* Comparing, and taking the modulus away.                                 *)

\* A set of numbers below N has a greatest.
LEMMA MaxBelow ==
  ASSUME NEW N \in Nat, NEW S, S # {}, \A i \in S : i \in Nat /\ i <= N
  PROVE  Max(S) \in S /\ \A i \in S : Max(S) >= i
PROOF
<1> DEFINE T == {N - i : i \in S}
<1>1. T # {} /\ T \in SUBSET Nat
  OBVIOUS
<1>2. PICK y \in T : \A z \in T : y <= z
  <2> HIDE DEF T
  <2> QED BY <1>1, LeastNumber
<1>3. PICK x \in S : y = N - x
  OBVIOUS
<1>4. \A i \in S : x >= i
  <2> SUFFICES ASSUME NEW i \in S PROVE x >= i
    OBVIOUS
  <2>1. N - i \in T
    OBVIOUS
  <2>2. y <= N - i
    BY <1>2, <2>1
  <2> QED BY <1>3, <2>2
<1>5. \E m \in S : \A i \in S : m >= i
  BY <1>4
<1> QED BY <1>5 DEF Max

LEMMA CmpRight ==
  ASSUME NEW N \in Nat, NEW a \in Nat, NEW b \in Nat, a < Power(Base, N), b < Power(Base, N)
  PROVE  cmp(N, a, b) >= 0 <=> a >= b
PROOF
<1> DEFINE D == {i \in 0 .. N - 1 : Limb(a, i) # Limb(b, i)}
<1>1. Low(a, N) = a /\ Low(b, N) = b
  BY LowWhole
<1>2. CASE D = {}
  <2> DEFINE S == {k \in 0 .. N : Low(a, k) = Low(b, k)}
  <2>1. 0 \in S
    BY LowNone
  <2>2. ASSUME NEW k \in 1 .. N, k - 1 \in S PROVE k \in S
    <3>1. k - 1 \in Nat /\ k - 1 + 1 = k /\ k - 1 \in 0 .. N - 1
      OBVIOUS
    <3>2. Limb(a, k - 1) = Limb(b, k - 1)
      BY <1>2, <3>1
    <3>3. /\ Low(a, k - 1 + 1) = Low(a, k - 1) + Limb(a, k - 1) * Power(Base, k - 1)
          /\ Low(b, k - 1 + 1) = Low(b, k - 1) + Limb(b, k - 1) * Power(Base, k - 1)
      BY <3>1, LowNext, Zenon
    <3> QED BY <2>2, <3>1, <3>2, <3>3
  <2>3. N \in S
    <3> HIDE DEF S
    <3> QED BY <2>1, <2>2, UpTo
  <2>4. cmp(N, a, b) = 0
    BY <1>2 DEF cmp
  <2> QED BY <1>1, <2>3, <2>4
<1>3. CASE D # {}
  <2> DEFINE top == Max(D)
  <2>1. top \in D /\ \A i \in D : top >= i
    <3>1. \A i \in D : i \in Nat /\ i <= N
      OBVIOUS
    <3> HIDE DEF D
    <3> QED BY <1>3, <3>1, MaxBelow
  <2>2. cmp(N, a, b) = IF Limb(a, top) < Limb(b, top) THEN -1 ELSE 1
    BY <1>3 DEF cmp
  <2> HIDE DEF top
  <2>3. /\ top \in 0 .. N - 1 /\ top \in Nat /\ Limb(a, top) # Limb(b, top)
        /\ \A i \in 0 .. N - 1 : i > top => Limb(a, i) = Limb(b, i)
    BY <2>1
  <2> DEFINE A(k) == Low(a, k) - Low(b, k)
             S == {k \in 0 .. N : k >= top + 1 => A(k) = A(top + 1)}
  <2>4. 0 \in S
    BY <2>3
  <2>5. ASSUME NEW k \in 1 .. N, k - 1 \in S PROVE k \in S
    <3> SUFFICES ASSUME k - 1 >= top + 1 PROVE A(k) = A(top + 1)
      BY <2>3
    <3>1. k - 1 \in Nat /\ k - 1 + 1 = k /\ k - 1 \in 0 .. N - 1
      OBVIOUS
    <3>2. Limb(a, k - 1) = Limb(b, k - 1)
      BY <2>3, <3>1
    <3>3. /\ Low(a, k - 1 + 1) = Low(a, k - 1) + Limb(a, k - 1) * Power(Base, k - 1)
          /\ Low(b, k - 1 + 1) = Low(b, k - 1) + Limb(b, k - 1) * Power(Base, k - 1)
      BY <3>1, LowNext, Zenon
    <3>4. Low(a, k - 1) \in Nat /\ Low(b, k - 1) \in Nat
      BY <3>1, LowType
    <3>5. Limb(a, k - 1) \in Nat /\ Power(Base, k - 1) \in Nat
      BY <3>1, LimbType, BasePos
    <3>6. Limb(a, k - 1) * Power(Base, k - 1) \in Int
      BY <3>5
    <3>7. A(k) = A(k - 1)
      BY <3>1, <3>2, <3>3, <3>4, <3>6
    <3>8. A(k - 1) = A(top + 1)
      BY <2>5
    <3> HIDE DEF A
    <3> QED BY <3>7, <3>8
  <2>6. N \in S
    <3> HIDE DEF S
    <3> QED BY <2>4, <2>5, UpTo
  <2>7. a - b = A(top + 1)
    BY <1>1, <2>3, <2>6
  <2> DEFINE P == Power(Base, top)
             la == Limb(a, top)
             lb == Limb(b, top)
             ra == Low(a, top)
             rb == Low(b, top)
  <2>8. Low(a, top + 1) = ra + la * P /\ Low(b, top + 1) = rb + lb * P
    BY <2>3, LowNext, Zenon
  <2>9. la \in Nat /\ lb \in Nat /\ P \in Nat /\ P >= 1
    BY <2>3, LimbType, BasePos
  <2>10. ra \in Nat /\ rb \in Nat /\ ra < P /\ rb < P
    BY <2>3, LowType
  <2>11. cmp(N, a, b) = (IF la < lb THEN -1 ELSE 1) /\ la # lb /\ a - b = (ra + la * P) - (rb + lb * P)
    BY <2>2, <2>3, <2>7, <2>8
  <2> HIDE DEF P, la, lb, ra, rb
  <2>12. CASE la < lb
    <3>1. la * P + P <= lb * P
      <4>1. \A x, y \in Nat : x < y => x * P + P <= y * P
        <5> SUFFICES ASSUME NEW x \in Nat, NEW y \in Nat, x < y PROVE x * P + P <= y * P
          OBVIOUS
        <5>1. (x + 1) * P <= y * P
          BY <2>9
        <5> QED BY <5>1, <2>9
      <4> QED BY <4>1, <2>9, <2>12
    <3> QED BY <3>1, <2>9, <2>10, <2>11, <2>12
  <2>13. CASE lb < la
    <3>1. lb * P + P <= la * P
      <4>1. \A x, y \in Nat : x < y => x * P + P <= y * P
        <5> SUFFICES ASSUME NEW x \in Nat, NEW y \in Nat, x < y PROVE x * P + P <= y * P
          OBVIOUS
        <5>1. (x + 1) * P <= y * P
          BY <2>9
        <5> QED BY <5>1, <2>9
      <4> QED BY <4>1, <2>9, <2>13
    <3> QED BY <3>1, <2>9, <2>10, <2>11, <2>13
  <2> QED BY <2>9, <2>11, <2>12, <2>13
<1> QED BY <1>2, <1>3

\* x, with high above it, stands for y: n is subtracted once, if y is not below it.
LEMMA ReducedRight ==
  ASSUME NEW N \in Nat, NEW high \in Nat, NEW x \in Nat, NEW n \in Nat \ {0}, NEW y \in Nat,
         x < Power(Base, N), n < Power(Base, N), y = high * Power(Base, N) + x, y <= 2 * n
  PROVE  Reduced(N, high, x, n) = IF y >= n THEN y - n ELSE y
PROOF
<1> DEFINE P == Power(Base, N)
<1>1. P \in Nat /\ P >= 1 /\ P \in Nat \ {0}
  BY BasePos
<1>2. cmp(N, x, n) >= 0 <=> x >= n
  BY CmpRight
<1>3. sub(N, x, n) = (x - n) % P
  BY SubRight
<1>4. y = high * P + x /\ x < P /\ n < P
  OBVIOUS
<1> HIDE DEF P
<1>5. CASE high = 0
  <2>1. y = x
    BY <1>1, <1>4, <1>5
  <2>2. CASE x >= n
    <3>1. x - n \in 0 .. P - 1
      BY <1>1, <1>4, <2>2
    <3>2. (x - n) % P = x - n
      BY <1>1, <3>1, SmallMod
    <3> QED BY <1>2, <1>3, <2>1, <2>2, <3>2 DEF Reduced, AtLeast
  <2>3. CASE ~(x >= n)
    BY <1>2, <1>5, <2>1, <2>3 DEF Reduced, AtLeast
  <2> QED BY <2>2, <2>3
<1>6. CASE high # 0
  <2>1. high = 1
    <3>1. high >= 2 => high * P >= 2 * P
      BY <1>1
    <3> QED BY <1>1, <1>4, <1>6, <3>1
  <2>2. y = P + x /\ y >= n
    BY <1>1, <1>4, <2>1
  <2>3. x - n = P * (-1) + (y - n) /\ y - n \in 0 .. P - 1
    BY <1>1, <1>4, <2>2
  <2> DEFINE z == x - n
             r == y - n
             q == -1
  <2>4. z \in Int /\ q \in Int /\ r \in 0 .. P - 1 /\ z = P * q + r
    BY <2>3
  <2> HIDE DEF z, r, q
  <2>5. z % P = r
    BY <1>1, <2>4, DivisionIs
  <2> QED BY <1>3, <1>6, <2>2, <2>5 DEF Reduced, AtLeast, z, r
<1> QED BY <1>5, <1>6

LEMMA ReducedMod ==
  ASSUME NEW N \in Nat, NEW high \in Nat, NEW x \in Nat, NEW n \in Nat \ {0}, NEW y \in Nat,
         x < Power(Base, N), n < Power(Base, N), y = high * Power(Base, N) + x, y <= 2 * n
  PROVE  /\ Reduced(N, high, x, n) \in 0 .. n
         /\ y < 2 * n => Reduced(N, high, x, n) < n
         /\ Congruent(Reduced(N, high, x, n), y, n)
PROOF
<1>1. Reduced(N, high, x, n) = IF y >= n THEN y - n ELSE y
  BY ReducedRight
<1>2. Congruent(y, y, n)
  BY CongruentSelf
<1>3. Congruent(y - n, y, n)
  <2> DEFINE z == y - n
  <2>1. z \in Int /\ y \in Int /\ z = y + (-1) * n
    OBVIOUS
  <2> HIDE DEF z
  <2>2. \E m \in Int : z = y + m * n
    BY <2>1
  <2>3. Congruent(z, y, n)
    BY <2>1, <2>2, CongruentIs
  <2> QED BY <2>3 DEF z
<1> QED BY <1>1, <1>2, <1>3

-----------------------------------------------------------------------------
(* Bits of a number.                                                       *)

\* x without its lowest i bits.
High(x, i) == x \div Power(2, i)

LEMMA TwoPos == ASSUME NEW k, k \in Nat PROVE Power(2, k) \in Nat /\ Power(2, k) >= 1
BY PowerPos

LEMMA HighType == ASSUME NEW x, NEW i, x \in Nat, i \in Nat PROVE High(x, i) \in Nat
PROOF
<1> DEFINE P == Power(2, i)
<1>1. P \in Nat \ {0}
  BY TwoPos
<1> HIDE DEF P
<1>2. x \div P \in Nat
  BY <1>1, NatDivision
<1> QED BY <1>2 DEF High, P

LEMMA HighNone == ASSUME NEW x, x \in Nat PROVE High(x, 0) = x
PROOF
<1>1. Power(2, 0) = 1
  BY PowerZero
<1>2. x \div 1 = x
  OBVIOUS
<1> QED BY <1>1, <1>2 DEF High

LEMMA HighSmall ==
  ASSUME NEW x, NEW i, x \in Nat, i \in Nat, x < Power(2, i)
  PROVE  High(x, i) = 0
PROOF
<1> DEFINE P == Power(2, i)
<1>1. P \in Nat \ {0} /\ x \in 0 .. P - 1
  BY TwoPos
<1> HIDE DEF P
<1>2. x \div P = 0
  BY <1>1, SmallMod
<1> QED BY <1>2 DEF High, P

LEMMA BaseTwo ==
  ASSUME NEW k \in Nat
  PROVE  LimbBits * k \in Nat /\ Power(Base, k) = Power(2, LimbBits * k)
PROOF
<1>1. LimbBits \in Nat /\ LimbBits * k \in Nat
  BY BaseType
<1>2. Power(Power(2, LimbBits), k) = Power(2, LimbBits * k)
  BY <1>1, PowerPower
<1> QED BY <1>1, <1>2 DEF Base

\* The bit that the code takes out of a limb is the number's.
LEMMA BitRight ==
  ASSUME NEW x, NEW i, x \in Nat, i \in Nat
  PROVE  bit(x, i) = High(x, i) % 2
PROOF
<1> DEFINE j == i \div LimbBits
           r == i % LimbBits
<1>1. LimbBits \in Nat \ {0} /\ LimbBits \in Nat
  BY BaseType
<1>2. /\ j \in Nat /\ r \in Nat /\ r <= LimbBits - 1
      /\ i = LimbBits * j + r
  <2>1. i \div LimbBits \in Int /\ i % LimbBits \in 0 .. LimbBits - 1
        /\ i = LimbBits * (i \div LimbBits) + (i % LimbBits)
    BY <1>1, Division
  <2>2. i \div LimbBits \in Nat
    BY <1>1, NatDivision
  <2> QED BY <1>1, <2>1, <2>2
<1> HIDE DEF j, r
<1> DEFINE P == Power(Base, j)
           D == Power(2, r)
           F == Power(2, (LimbBits - 1) - r)
           z == x \div P
           v == z \div D
<1>3. P \in Nat /\ P \in Nat \ {0} /\ D \in Nat /\ D \in Nat \ {0} /\ F \in Nat \ {0}
  <2>1. (LimbBits - 1) - r \in Nat
    BY <1>1, <1>2
  <2> QED BY <1>2, <2>1, BasePos, TwoPos
<1>4. Base = (2 * F) * D
  <2>1. (LimbBits - 1) - r \in Nat /\ r + ((LimbBits - 1) - r) = LimbBits - 1 /\ LimbBits - 1 \in Nat /\ LimbBits - 1 + 1 = LimbBits
    BY <1>1, <1>2
  <2>2. Power(2, LimbBits - 1) = Power(2, r) * Power(2, (LimbBits - 1) - r)
    BY <1>2, <2>1, PowerSum
  <2>3. Power(2, LimbBits) = 2 * Power(2, LimbBits - 1)
    BY <2>1, PowerNext
  <2>4. \A y, k \in Nat : 2 * (y * k) = (2 * k) * y
    OBVIOUS
  <2>5. Power(2, LimbBits - 1) = D * F
    BY <2>2
  <2>6. Base = 2 * (D * F)
    BY <2>3, <2>5 DEF Base
  <2> HIDE DEF D, F
  <2> QED BY <2>4, <2>6, <1>3
<1>5. Power(2, i) = D * P
  <2>1. LimbBits * j \in Nat /\ P = Power(2, LimbBits * j)
    BY <1>2, BaseTwo
  <2>2. Power(2, r + LimbBits * j) = Power(2, r) * Power(2, LimbBits * j)
    BY <1>2, <2>1, PowerSum
  <2>3. r + LimbBits * j = i
    BY <1>2, <2>1
  <2> QED BY <2>1, <2>2, <2>3
<1> HIDE DEF P, D, F
<1>6. z \in Nat
  BY <1>3, NatDivision
<1> HIDE DEF z
<1>7. v \in Nat /\ z % D \in 0 .. D - 1
  <2>1. v \in Nat
    BY <1>3, <1>6, NatDivision
  <2>2. z % D \in 0 .. D - 1
    BY <1>3, <1>6
  <2> QED BY <2>1, <2>2
<1> HIDE DEF v
<1>8. Limb(x, j) = z % Base
  BY DEF Limb, z, P
<1>9. z % Base = (z % D) + (v % (2 * F)) * D
  <2> DEFINE G == 2 * F
  <2>1. G \in Nat \ {0} /\ z \in Int
    BY <1>3, <1>6
  <2> HIDE DEF G
  <2>2. z % (G * D) = (z % D) + ((z \div D) % G) * D
    BY <1>3, <2>1, SplitMod
  <2> QED BY <1>4, <2>2 DEF v, G
<1>10. v % (2 * F) = (v % 2) + ((v \div 2) % F) * 2
  <2> DEFINE G == 2 * F
             two == 2
  <2>1. G \in Nat \ {0} /\ two \in Nat \ {0} /\ G = F * two /\ v \in Int
    BY <1>3, <1>7
  <2> HIDE DEF G, two
  <2>2. Rem(v, G) = Rem(v, two) + Rem(Quot(v, two), F) * two
    BY <1>3, <2>1, OfProduct
  <2> QED BY <2>2 DEF G, two, Quot, Rem
<1> DEFINE lo == z % D
           g == v % (2 * F)
           c == v % 2
           h == (v \div 2) % F
<1>11. lo \in 0 .. D - 1 /\ c \in 0 .. 1 /\ h \in Int /\ g = c + h * 2 /\ g \in Int /\ Limb(x, j) = lo + g * D
  <2>1. v \div 2 \in Int
    BY <1>7
  <2>2. h \in Int
    BY <1>3, <2>1, Division
  <2>3. c \in 0 .. 1
    BY <1>7
  <2> QED BY <1>7, <1>8, <1>9, <1>10, <2>2, <2>3
<1> HIDE DEF lo, g, c, h
<1>12. Limb(x, j) \div D = g
  <2> DEFINE y == lo + g * D
  <2>1. y = D * g + lo /\ y \in Int
    BY <1>3, <1>11
  <2> HIDE DEF y
  <2>2. y \div D = g
    BY <1>3, <1>11, <2>1, DivisionIs
  <2> QED BY <1>11, <2>2 DEF y
<1>13. g % 2 = c
  BY <1>11
<1>14. High(x, i) = v
  <2> DEFINE Q == Power(2, i)
  <2>1. Q \in Nat \ {0} /\ Q = D * P
    BY <1>5, TwoPos
  <2> HIDE DEF Q
  <2>2. Quot(x, Q) = Quot(Quot(x, P), D)
    BY <1>3, <2>1, OfProduct
  <2> QED BY <2>2 DEF High, v, z, Q, Quot
<1> QED BY <1>12, <1>13, <1>14 DEF bit, c, j, r, D

LEMMA HighNext ==
  ASSUME NEW x, NEW i, x \in Nat, i \in Nat
  PROVE  bit(x, i) \in 0 .. 1 /\ High(x, i) = 2 * High(x, i + 1) + bit(x, i)
PROOF
<1> DEFINE P == Power(2, i)
           z == x \div P
<1>1. P \in Nat \ {0} /\ Power(2, i + 1) = 2 * P /\ x \in Int
  BY TwoPos, PowerNext
<1> DEFINE Q == Power(2, i + 1)
           two == 2
<1> HIDE DEF P, Q, two
<1>2. x \div Q = (x \div P) \div 2
  <2>1. Q \in Nat \ {0} /\ two \in Nat \ {0} /\ Q = two * P
    BY <1>1 DEF Q, two
  <2>2. Quot(x, Q) = Quot(Quot(x, P), two)
    BY <1>1, <2>1, OfProduct
  <2> QED BY <2>2 DEF two, Quot
<1>3. High(x, i) = z /\ High(x, i + 1) = z \div 2 /\ bit(x, i) = z % 2
  BY <1>1, <1>2, BitRight DEF High, P, Q
<1>4. z \in Int
  BY <1>3, HighType
<1> HIDE DEF z
<1> QED BY <1>3, <1>4

LEMMA BitlenRight ==
  ASSUME NEW N \in Nat, NEW x \in Nat, x < Power(Base, N)
  PROVE  bitlen(N, x) \in 0 .. N * LimbBits /\ High(x, bitlen(N, x)) = 0
PROOF
<1> DEFINE M == N * LimbBits
           S == {0} \cup {i + 1 : i \in {j \in 0 .. M - 1 : bit(x, j) = 1}}
           L == Max(S)
<1>1. M \in Nat /\ M = LimbBits * N
  BY BaseType
<1> HIDE DEF M
<1>2. S # {} /\ \A i \in S : i \in Nat /\ i <= M
  BY <1>1
<1>3. L \in S /\ \A i \in S : L >= i
  <2> HIDE DEF S
  <2> QED BY <1>1, <1>2, MaxBelow
<1>4. L \in 0 .. M
  BY <1>1, <1>2, <1>3
<1>5. ASSUME NEW j \in 0 .. M - 1, j >= L PROVE bit(x, j) = 0
  <2>1. bit(x, j) # 1
    <3> SUFFICES ASSUME bit(x, j) = 1 PROVE FALSE
      OBVIOUS
    <3>1. j + 1 \in S
      OBVIOUS
    <3> HIDE DEF S
    <3> QED BY <1>3, <1>4, <1>5, <3>1
  <2>2. j \in Nat
    OBVIOUS
  <2> QED BY <2>1, <2>2, HighNext
<1> HIDE DEF L
\* Downwards from the top.
<1> DEFINE Z == {k \in 0 .. M - L : High(x, M - k) = 0}
<1>6. 0 \in Z
  <2>1. x < Power(2, M)
    BY <1>1, BaseTwo
  <2> QED BY <1>1, <1>4, <2>1, HighSmall
<1>7. ASSUME NEW k \in 1 .. M - L, k - 1 \in Z PROVE k \in Z
  <2>1. M - k \in 0 .. M - 1 /\ M - k >= L /\ M - k \in Nat /\ (M - k) + 1 = M - (k - 1)
    BY <1>1, <1>4
  <2>2. bit(x, M - k) = 0
    BY <1>5, <2>1
  <2>3. High(x, (M - k) + 1) = 0
    BY <1>7, <2>1
  <2>4. High(x, M - k) = 2 * High(x, (M - k) + 1) + bit(x, M - k)
    BY <2>1, HighNext, Zenon
  <2> QED BY <2>1, <2>2, <2>3, <2>4
<1>8. M - L \in Z
  <2>1. M - L \in Nat
    BY <1>1, <1>4
  <2> HIDE DEF Z
  <2> QED BY <1>6, <1>7, <2>1, UpTo
<1>9. High(x, L) = 0
  <2>1. M - (M - L) = L
    BY <1>1, <1>4
  <2> QED BY <1>8, <2>1
<1>10. bitlen(N, x) = L
  BY DEF bitlen, L, M
<1> QED BY <1>4, <1>9, <1>10 DEF M

-----------------------------------------------------------------------------
(* The inverse of the modulus, by Hensel steps.                            *)

LEMMA CongruentDivisor ==
  ASSUME NEW y \in Int, NEW M \in Nat \ {0}, NEW D \in Nat \ {0}, \E f \in Int : M = f * D
  PROVE  Congruent(y % M, y, D)
PROOF
<1>1. PICK f \in Int : M = f * D
  OBVIOUS
<1> DEFINE r == y % M
           q == y \div M
<1>2. r \in Int /\ q \in Int /\ y = M * q + r
  OBVIOUS
<1> HIDE DEF r, q
<1> DEFINE m == 0 - f * q
<1>3. m \in Int /\ r = y + m * D
  <2>1. M * q = (f * q) * D
    BY <1>1, <1>2
  <2>2. (0 - f * q) * D = 0 - (f * q) * D
    BY <1>1, <1>2
  <2>3. f * q \in Int /\ (f * q) * D \in Int
    BY <1>1, <1>2
  <2> QED BY <1>2, <2>1, <2>2, <2>3
<1> HIDE DEF m
<1>4. Congruent(r, y, D)
  BY <1>2, <1>3, CongruentIs
<1> QED BY <1>4 DEF r

LEMMA TwoMonotone ==
  ASSUME NEW j \in Nat, NEW k \in Nat, j <= k
  PROVE  Power(2, j) <= Power(2, k) /\ \E f \in Nat : Power(2, k) = f * Power(2, j)
PROOF
<1>1. k - j \in Nat /\ j + (k - j) = k
  OBVIOUS
<1>2. Power(2, k) = Power(2, j) * Power(2, k - j)
  BY <1>1, PowerSum
<1> DEFINE p == Power(2, j)
           q == Power(2, k - j)
<1>3. p \in Nat /\ q \in Nat /\ q >= 1
  BY <1>1, TwoPos
<1>4. Power(2, k) = p * q
  BY <1>2
<1> HIDE DEF p, q
<1>5. p * q = q * p /\ p <= p * q
  BY <1>3
<1> QED BY <1>3, <1>4, <1>5 DEF p

\* Every Hensel step doubles the number of bits in which the inverse is right.
LEMMA HenselStep ==
  ASSUME NEW a \in Int, NEW x \in Int, NEW D \in Nat \ {0}, NEW M \in Nat \ {0},
         Congruent(a * x, 1, D), \E f \in Int : M = f * (D * D)
  PROVE  Congruent(a * ((x * ((2 - a * x) % M)) % M), 1, D * D)
PROOF
<1> DEFINE E == D * D
           u == (2 - a * x) % M
           v == (x * u) % M
<1>1. E \in Nat \ {0} /\ \E f \in Int : M = f * E
  OBVIOUS
<1> DEFINE c == a * x
           d == 2 - c
<1>2. c \in Int /\ d \in Int
  OBVIOUS
<1>3. u \in Int /\ v \in Int /\ Congruent(u, d, E)
  <2>1. u = d % M
    OBVIOUS
  <2> HIDE DEF E, d
  <2>2. Congruent(d % M, d, E)
    BY <1>1, <1>2, CongruentDivisor
  <2>3. u \in Int
    BY <1>2, <2>1
  <2> HIDE DEF u
  <2>4. v \in Int
    BY <2>3
  <2> QED BY <2>1, <2>2, <2>3, <2>4
<1> HIDE DEF u
<1>4. Congruent(v, x * u, E)
  <2> DEFINE w == x * u
  <2>1. w \in Int
    BY <1>3
  <2> HIDE DEF E, w
  <2>2. Congruent(w % M, w, E)
    BY <1>1, <2>1, CongruentDivisor
  <2> QED BY <2>2 DEF w
<1> HIDE DEF v, E, d
<1>5. Congruent(x * u, x * d, E)
  BY <1>1, <1>2, <1>3, CongruentSelf, CongruentProduct
<1>6. Congruent(v, x * d, E)
  <2> DEFINE w == x * u
             z == x * d
  <2>1. w \in Int /\ z \in Int
    BY <1>2, <1>3
  <2> HIDE DEF w, z
  <2>2. Congruent(v, w, E) /\ Congruent(w, z, E)
    BY <1>4, <1>5 DEF w, z
  <2>3. Congruent(v, z, E)
    BY <1>1, <1>3, <2>1, <2>2, CongruentChain
  <2> QED BY <2>3 DEF z
<1>7. Congruent(a * v, a * (x * d), E)
  <2> DEFINE z == x * d
  <2>1. z \in Int
    BY <1>2
  <2> HIDE DEF z
  <2>2. Congruent(v, z, E) /\ Congruent(a, a, E)
    BY <1>1, <1>6, CongruentSelf DEF z
  <2>3. Congruent(a * v, a * z, E)
    BY <1>1, <1>3, <2>1, <2>2, CongruentProduct
  <2> QED BY <2>3 DEF z
<1>8. Congruent(a * (x * d), 1, E)
  <2>1. PICK q \in Int : c = 1 + q * D
    <3> DEFINE one == 1
    <3>1. Congruent(c, one, D) /\ one \in Int
      OBVIOUS
    <3> HIDE DEF c, one
    <3>2. \E q \in Int : c = one + q * D
      BY <1>2, <3>1, CongruentBy
    <3> QED BY <3>2 DEF one
  <2> DEFINE z == a * (x * d)
             m == 0 - q * q
             one == 1
  <2>2. z = c * d
    BY <1>2
  <2>3. c * d = 1 + m * E
    <3>1. (1 + q * D) * (2 - (1 + q * D)) = 1 + (0 - q * q) * (D * D)
      OBVIOUS
    <3> QED BY <2>1, <3>1 DEF d, E
  <2>4. z \in Int /\ m \in Int /\ one \in Int /\ z = one + m * E
    <3>1. m \in Int
      OBVIOUS
    <3>2. z \in Int
      BY <1>2
    <3> HIDE DEF z, m, c, d, E
    <3> QED BY <2>2, <2>3, <3>1, <3>2
  <2> HIDE DEF z, m, one
  <2>5. Congruent(z, one, E)
    BY <1>1, <2>4, CongruentIs
  <2> QED BY <2>5 DEF z, one
<1>9. Congruent(a * v, 1, E)
  <2> DEFINE w == a * v
             z == a * (x * d)
             one == 1
  <2>1. w \in Int /\ z \in Int /\ one \in Int
    BY <1>2, <1>3
  <2> HIDE DEF w, z, one
  <2>2. Congruent(w, z, E) /\ Congruent(z, one, E)
    BY <1>7, <1>8 DEF w, z, one
  <2>3. Congruent(w, one, E)
    BY <1>1, <2>1, <2>2, CongruentChain
  <2> QED BY <2>3 DEF w, one
<1> QED BY <1>9 DEF v, u, E

LEMMA InverseRight ==
  ASSUME NEW n \in Nat, n % 2 = 1
  PROVE  /\ compute_n_inv(n) \in Nat /\ compute_n_inv(n) < Base
         /\ Congruent(n * compute_n_inv(n) + 1, 0, Base)
PROOF
<1> DEFINE a == Limb(n, 0)
           D(k) == Power(2, Power(2, k))
           hensel == [x \in Nat |-> (x * ((2 - a * x) % Base)) % Base]
           turn == [k \in 1 .. HenselSteps |-> hensel]
           I == {s \in (0 .. HenselSteps) \X Nat : Congruent(a * s[2], 1, D(s[1]))}
           X == Loop(HenselSteps, 1, turn)
<1>1. Base \in Nat /\ Base \in Nat \ {0} /\ Base >= 2 /\ LimbBits \in Nat \ {0}
  BY BaseType
<1>2. HenselSteps \in Nat /\ D(HenselSteps) = Base
  BY LimbAssumption DEF Base
<1>3. a = n % Base /\ a \in Nat
  <2>1. Power(Base, 0) = 1
    BY PowerZero
  <2>2. n \div 1 = n
    OBVIOUS
  <2>3. a = n % Base
    BY <2>1, <2>2 DEF Limb
  <2> QED BY <2>3, LimbType
<1>4. Congruent(a, n, Base)
  <2>1. Congruent(n % Base, n, Base)
    <3>1. n \in Int
      OBVIOUS
    <3> QED BY <1>1, <3>1, CongruentRest, Zenon
  <2> HIDE DEF a
  <2> QED BY <1>3, <2>1, Zenon
<1> HIDE DEF a
<1>5. Congruent(a * 1, 1, D(0))
  <2>1. D(0) = 2
    <3>1. Power(2, 0) = 1 /\ Power(2, 0 + 1) = 2 * Power(2, 0)
      BY PowerZero, PowerNext
    <3> QED BY <3>1
  <2>2. \E f \in Int : Base = f * 2
    <3>1. LimbBits - 1 \in Nat /\ LimbBits - 1 + 1 = LimbBits
      BY <1>1
    <3>2. Base = 2 * Power(2, LimbBits - 1)
      BY <3>1, PowerNext DEF Base
    <3>3. Power(2, LimbBits - 1) \in Nat
      BY <3>1, TwoPos
    <3> QED BY <3>2, <3>3
  <2> DEFINE two == 2
             one == 1
  <2>3. two \in Nat \ {0} /\ one \in Int /\ n \in Int
    OBVIOUS
  <2>4. Congruent(n % Base, n, two)
    <3>1. \E f \in Int : Base = f * two
      BY <2>2
    <3> HIDE DEF two
    <3> QED BY <1>1, <2>3, <3>1, CongruentDivisor
  <2>5. Congruent(a * 1, 1, 2)
    <3>1. a % 2 = n % 2
      BY <1>3, <2>4 DEF Congruent
    <3>2. a * 1 = a /\ 1 % 2 = 1
      BY <1>3
    <3> QED BY <3>1, <3>2 DEF Congruent
  <2> QED BY <2>1, <2>5
<1>6. <<0, 1>> \in I
  BY <1>2, <1>5
<1>7. ASSUME NEW k \in 1 .. HenselSteps, NEW x, <<k - 1, x>> \in I
      PROVE  <<k, turn[k][x]>> \in I
  <2> DEFINE j == k - 1
             d == D(j)
             y == hensel[x]
  <2>1. j \in Nat /\ j + 1 = k /\ k \in Nat /\ k <= HenselSteps
    BY <1>2
  <2>2. x \in Nat /\ Congruent(a * x, 1, d)
    BY <1>7
  <2>3. Power(2, j) \in Nat /\ Power(2, k) \in Nat /\ Power(2, k) = Power(2, j) + Power(2, j)
    <3>1. Power(2, j + 1) = 2 * Power(2, j) /\ Power(2, j) \in Nat
      BY <2>1, PowerNext, TwoPos
    <3> QED BY <2>1, <3>1
  <2>4. D(k) = d * d /\ d \in Nat \ {0}
    <3>1. Power(2, Power(2, j) + Power(2, j)) = d * d
      BY <2>3, PowerSum
    <3> QED BY <2>3, <3>1, TwoPos
  <2>5. \E f \in Int : Base = f * (d * d)
    <3>1. Power(2, k) <= Power(2, HenselSteps) /\ Power(2, HenselSteps) \in Nat
      BY <1>2, <2>1, TwoMonotone, TwoPos
    <3>2. \E f \in Nat : D(HenselSteps) = f * D(k)
      BY <2>3, <3>1, TwoMonotone
    <3> QED BY <1>2, <2>4, <3>2
  <2>6. y = (x * ((2 - a * x) % Base)) % Base
    BY <2>2
  <2> HIDE DEF d
  <2>7. Congruent(a * ((x * ((2 - a * x) % Base)) % Base), 1, d * d)
    <3>1. a \in Int /\ x \in Int
      BY <1>3, <2>2
    <3> QED BY <1>1, <2>2, <2>4, <2>5, <3>1, HenselStep, Zenon
  <2>8. y \in Nat
    <3>1. (2 - a * x) % Base \in Nat
      <4> DEFINE z == 2 - a * x
      <4>1. z \in Int
        BY <1>3, <2>2
      <4> HIDE DEF z
      <4>2. z % Base \in 0 .. Base - 1
        BY <1>1, <4>1, Division
      <4> QED BY <1>1, <4>2 DEF z
    <3> DEFINE z == x * ((2 - a * x) % Base)
    <3>2. z \in Int
      BY <2>2, <3>1
    <3> HIDE DEF z
    <3>3. z % Base \in 0 .. Base - 1
      BY <1>1, <3>2, Division
    <3> QED BY <1>1, <2>6, <3>3 DEF z
  <2>9. turn[k][x] = y
    OBVIOUS
  <2> HIDE DEF y, D, hensel, turn
  <2>10. Congruent(a * y, 1, D(k))
    BY <2>4, <2>6, <2>7
  <2> QED BY <2>8, <2>9, <2>10
<1>8. <<HenselSteps, X>> \in I
  <2> HIDE DEF turn, I
  <2> QED BY <1>2, <1>6, <1>7, LoopInvariant
<1> HIDE DEF turn
<1>9. X \in Nat /\ Congruent(a * X, 1, Base)
  BY <1>2, <1>8
<1> DEFINE ni == (0 - X) % Base
<1>10. compute_n_inv(n) = ni
  BY DEF compute_n_inv, X, turn, a
<1> HIDE DEF X
<1> DEFINE z == 0 - X
<1>11. ni \in Nat /\ ni < Base /\ Congruent(ni, z, Base)
  <2>1. z \in Int
    BY <1>9
  <2> HIDE DEF z
  <2>2. z % Base \in 0 .. Base - 1 /\ Congruent(z % Base, z, Base)
    BY <1>1, <2>1, Division, CongruentRest
  <2> QED BY <1>1, <2>2 DEF z
<1> HIDE DEF ni
<1>12. Congruent(n * ni, a * z, Base)
  <2>1. z \in Int /\ a \in Int /\ n \in Int /\ ni \in Int
    BY <1>3, <1>9, <1>11
  <2> HIDE DEF z
  <2>2. Congruent(n, a, Base)
    BY <1>1, <1>4, <2>1, CongruentTurned
  <2> QED BY <1>1, <1>11, <2>1, <2>2, CongruentProduct, Zenon
<1>13. Congruent(n * ni + 1, a * z + 1, Base)
  <2> DEFINE u == n * ni
             w == a * z
             one == 1
  <2>1. u \in Int /\ w \in Int /\ one \in Int
    BY <1>3, <1>9, <1>11
  <2> HIDE DEF u, w, one
  <2>2. Congruent(u, w, Base) /\ Congruent(one, one, Base)
    BY <1>1, <1>12, <2>1, CongruentSelf DEF u, w
  <2>3. Congruent(u + one, w + one, Base)
    BY <1>1, <2>1, <2>2, CongruentSum
  <2> QED BY <2>3 DEF u, w, one
<1>14. Congruent(a * z + 1, 0, Base)
  <2> DEFINE c == a * X
             one == 1
             w == a * z + 1
             zero == 0
  <2>1. c \in Int /\ one \in Int /\ Congruent(c, one, Base) /\ w = 1 - c /\ zero \in Int
    BY <1>3, <1>9
  <2> HIDE DEF c, one, w, zero
  <2>2. PICK q \in Int : c = one + q * Base
    BY <1>1, <2>1, CongruentBy
  <2> DEFINE m == 0 - q
  <2>3. m \in Int /\ w \in Int /\ w = zero + m * Base
    <3>1. q * Base \in Int /\ (0 - q) * Base = 0 - q * Base
      BY <1>1
    <3> QED BY <2>1, <2>2, <3>1 DEF one, zero
  <2> HIDE DEF m
  <2>4. Congruent(w, zero, Base)
    BY <1>1, <2>1, <2>3, CongruentIs
  <2> QED BY <2>4 DEF w, zero
<1>15. Congruent(n * ni + 1, 0, Base)
  <2> DEFINE u == n * ni + 1
             w == a * z + 1
             zero == 0
  <2>1. u \in Int /\ w \in Int /\ zero \in Int
    BY <1>3, <1>9, <1>11
  <2> HIDE DEF u, w, zero
  <2>2. Congruent(u, w, Base) /\ Congruent(w, zero, Base)
    BY <1>13, <1>14 DEF u, w, zero
  <2>3. Congruent(u, zero, Base)
    BY <1>1, <2>1, <2>2, CongruentChain
  <2> QED BY <2>3 DEF u, zero
<1> QED BY <1>10, <1>11, <1>15

-----------------------------------------------------------------------------
(* The Montgomery product.                                                 *)

\* A row of a Montgomery product adds a limb times b, and the multiple of n
\* that makes the sum divisible by Base; and the sum stays below b + n.
LEMMA MontRowRight ==
  ASSUME NEW N, NEW t, NEW ai, NEW b, NEW n, NEW ni,
         N \in Nat, t \in Nat, ai \in Nat, b \in Nat, n \in Nat, ni \in Nat,
         ai < Base, b <= n, n < Power(Base, N), t < b + n, Congruent(n * ni + 1, 0, Base)
  PROVE  /\ MontRow(N, t, ai, b, n, ni) \in Nat /\ MontRow(N, t, ai, b, n, ni) < b + n
         /\ Congruent(MontRow(N, t, ai, b, n, ni) * Base, t + ai * b, n)
PROOF
<1> DEFINE P == Power(Base, N)
           P1 == Power(Base, N + 1)
           P2 == Power(Base, N + 2)
           s == AddRow(N, t, ai, b)
           l == Limb(s, 0)
           m == (l * ni) % Base
           s2 == AddRow(N, s, m, n)
           q == s2 \div Base
           B == Base
<1>1. B \in Nat /\ B >= 2 /\ B \in Nat \ {0}
  BY BaseType
<1>2. P \in Nat /\ P >= 1 /\ P1 = B * P /\ P2 = B * (B * P)
  <2>1. N + 1 \in Nat /\ (N + 1) + 1 = N + 2
    OBVIOUS
  <2>2. Power(Base, (N + 1) + 1) = Base * Power(Base, N + 1)
    BY <2>1, BasePower
  <2>3. Power(Base, N + 1) = Base * Power(Base, N) /\ Power(Base, N) \in Nat /\ Power(Base, N) >= 1
    BY BasePower
  <2> QED BY <2>1, <2>2, <2>3
<1>3. B * P >= 2 * P /\ B * (B * P) >= 2 * (B * P) /\ B * P \in Nat /\ B * (B * P) \in Nat
  <2>1. \A x \in Nat : B * x >= 2 * x /\ B * x \in Nat
    BY <1>1
  <2> HIDE DEF B, P
  <2> QED BY <1>2, <2>1
<1> HIDE DEF P, P1, P2
<1>4. ai * b \in Nat /\ ai * b <= B * b - b /\ B * b \in Nat /\ B * n \in Nat /\ B * b <= B * P - B /\ B * n <= B * P - B
  <2>1. ai * b <= (B - 1) * b
    BY <1>1
  <2>2. (B - 1) * b = B * b - b
    BY <1>1
  <2>3. \A x \in Nat : x <= P - 1 => B * x <= B * (P - 1)
    BY <1>1, <1>2
  <2>4. b <= P - 1 /\ n <= P - 1
    BY <1>2 DEF P
  <2>5. B * (P - 1) = B * P - B
    BY <1>1, <1>2
  <2> QED BY <1>1, <2>1, <2>2, <2>3, <2>4, <2>5
<1>5. t + ai * b < P2 /\ t + ai * b \in Nat /\ t < P2 /\ b < P /\ n < P
  BY <1>1, <1>2, <1>3, <1>4 DEF P
<1>6. s = t + ai * b
  <2>1. s = (t + ai * b) % P2
    BY <1>5, AddRowRight DEF P, P2
  <2> DEFINE z == t + ai * b
  <2>2. z \in 0 .. P2 - 1 /\ P2 \in Nat \ {0}
    BY <1>1, <1>2, <1>3, <1>5
  <2> HIDE DEF z, s
  <2>3. z % P2 = z
    BY <2>2, SmallMod
  <2> QED BY <2>1, <2>3 DEF z
<1> HIDE DEF s
<1>7. s \in Nat /\ s < P2
  BY <1>5, <1>6
<1>8. l = s % B /\ l \in Nat
  <2>1. Power(Base, 0) = 1
    BY PowerZero
  <2>2. s \div 1 = s
    BY <1>7
  <2>3. l = s % B
    BY <2>1, <2>2 DEF Limb
  <2> QED BY <1>7, <2>3, LimbType
<1>9. Congruent(l, s, B)
  <2>1. s \in Int
    BY <1>7
  <2>2. Congruent(s % B, s, B)
    BY <1>1, <2>1, CongruentRest, Zenon
  <2> HIDE DEF l, B
  <2> QED BY <1>8, <2>2, Zenon
<1> HIDE DEF l
<1>10. m \in Nat /\ m <= B - 1 /\ Congruent(m, l * ni, B)
  <2> DEFINE z == l * ni
  <2>1. z \in Int
    BY <1>8
  <2> HIDE DEF z, B
  <2>2. z % B \in 0 .. B - 1
    BY <1>1, <2>1, Division
  <2>3. Congruent(z % B, z, B)
    BY <1>1, <2>1, CongruentRest
  <2> QED BY <1>1, <2>2, <2>3 DEF z, B
<1> HIDE DEF m
<1>11. m * n \in Nat /\ m * n <= B * n - n
  <2>1. m * n <= (B - 1) * n
    BY <1>1, <1>10
  <2>2. (B - 1) * n = B * n - n
    BY <1>1
  <2> QED BY <1>10, <2>1, <2>2
<1>12. s + m * n < P2 /\ s + m * n \in Nat /\ s + m * n < B * b + B * n
  BY <1>1, <1>2, <1>3, <1>4, <1>5, <1>6, <1>7, <1>11
<1>13. s2 = s + m * n
  <2>1. s2 = (s + m * n) % P2
    BY <1>5, <1>7, <1>10, AddRowRight DEF P, P2
  <2> DEFINE z == s + m * n
  <2>2. z \in 0 .. P2 - 1 /\ P2 \in Nat \ {0}
    BY <1>1, <1>2, <1>3, <1>12
  <2> HIDE DEF z, s2
  <2>3. z % P2 = z
    BY <2>2, SmallMod
  <2> QED BY <2>1, <2>3 DEF z
<1> HIDE DEF s2
<1>14. Congruent(s2, 0, B)
  <2> DEFINE c == l * ni
             d == s * ni
             e == m * n
             f == d * n
             g == n * ni + 1
             h == s * g
             zero == 0
             k == s * zero
  <2>1. c \in Int /\ d \in Int /\ e \in Int /\ f \in Int /\ g \in Int /\ h \in Int /\ s \in Int /\ n \in Int
        /\ zero \in Int /\ m \in Int /\ l \in Int /\ ni \in Int
    BY <1>7, <1>8, <1>10
  <2>2. Congruent(c, d, B)
    <3>1. Congruent(ni, ni, B)
      BY <1>1, CongruentSelf
    <3> HIDE DEF B
    <3> QED BY <1>1, <1>9, <2>1, <3>1, CongruentProduct, Zenon
  <2>3. h = s + f
    <3>1. \A x, y \in Int : s * (n * x + 1) = s + (s * x) * n
      BY <1>7
    <3> QED BY <3>1
  <2>4. k = zero
    BY <1>7
  <2> HIDE DEF c, d, B
  <2>5. Congruent(m, d, B)
    BY <1>1, <1>10, <2>1, <2>2, CongruentChain DEF c
  <2>6. Congruent(e, f, B)
    <3>1. Congruent(n, n, B)
      BY <1>1, CongruentSelf
    <3> QED BY <1>1, <2>1, <2>5, <3>1, CongruentProduct, Zenon
  <2> HIDE DEF e, f
  <2>7. Congruent(s + e, s + f, B)
    <3>1. Congruent(s, s, B)
      BY <1>1, <2>1, CongruentSelf
    <3> QED BY <1>1, <2>1, <2>6, <3>1, CongruentSum, Zenon
  <2> HIDE DEF g, zero
  <2>8. Congruent(h, k, B)
    <3>1. Congruent(s, s, B) /\ Congruent(g, zero, B)
      BY <1>1, <2>1, CongruentSelf DEF g, zero, B
    <3> QED BY <1>1, <2>1, <3>1, CongruentProduct, Zenon
  <2> HIDE DEF h, k
  <2>9. Congruent(s2, h, B) /\ Congruent(h, zero, B) /\ s2 \in Int
    BY <1>12, <1>13, <2>3, <2>4, <2>7, <2>8 DEF e
  <2>10. Congruent(s2, zero, B)
    BY <1>1, <2>1, <2>9, CongruentChain
  <2> QED BY <2>10 DEF zero
<1>15. q \in Nat /\ s2 = B * q
  <2>1. s2 \in Nat
    BY <1>12, <1>13
  <2>2. s2 % B = 0
    <3>1. 0 % B = 0
      BY <1>1
    <3> QED BY <1>14, <3>1 DEF Congruent
  <2>3. s2 = B * (s2 \div B) + (s2 % B) /\ s2 \div B \in Int
    <3>1. s2 \in Int
      BY <2>1
    <3> HIDE DEF B
    <3> QED BY <1>1, <3>1, Division
  <2>4. s2 \div B \in Nat /\ s2 = B * (s2 \div B)
    <3> DEFINE y == s2 \div B
               w == s2 % B
    <3>0. y \in Int /\ s2 = B * y + w /\ w = 0
      BY <2>2, <2>3
    <3> HIDE DEF y, w, B
    <3>1. y \in Int /\ s2 = B * y /\ s2 >= 0
      BY <1>1, <2>1, <3>0
    <3>2. \A x \in Int : x < 0 => B * x < 0
      BY <1>1
    <3>3. y \in Nat
      BY <3>1, <3>2
    <3> QED BY <3>1, <3>3, Zenon DEF y
  <2> QED BY <2>4, Zenon
<1> HIDE DEF q
<1>16. q < b + n
  <2>1. B * q < B * (b + n)
    <3>1. B * (b + n) = B * b + B * n
      BY <1>1
    <3> QED BY <1>12, <1>13, <1>15, <3>1
  <2>2. \A x, y \in Nat : B * x < B * y => x < y
    <3> SUFFICES ASSUME NEW x \in Nat, NEW y \in Nat, x >= y PROVE B * x >= B * y
      BY <1>1
    <3> QED BY <1>1
  <2>3. b + n \in Nat
    OBVIOUS
  <2> HIDE DEF B
  <2> QED BY <1>15, <2>1, <2>2, <2>3
<1>17. q % P1 = q
  <2>1. q \in 0 .. P1 - 1 /\ P1 \in Nat \ {0}
    BY <1>1, <1>2, <1>3, <1>5, <1>15, <1>16
  <2> QED BY <2>1, SmallMod
<1>18. MontRow(N, t, ai, b, n, ni) = q
  BY <1>17 DEF MontRow, q, s2, m, l, s, P1
<1>19. q * Base = (t + ai * b) + m * n
  BY <1>1, <1>6, <1>13, <1>15
<1>20. Congruent(q * Base, t + ai * b, n)
  <2> DEFINE u == q * Base
             v == t + ai * b
  <2>1. u \in Int /\ v \in Int /\ u = v + m * n /\ m \in Int /\ n \in Nat \ {0}
    <3>1. n # 0
      BY <1>15, <1>16
    <3> QED BY <1>1, <1>10, <1>15, <1>19, <3>1
  <2> HIDE DEF u, v
  <2>2. \E z \in Int : u = v + z * n
    BY <2>1
  <2>3. Congruent(u, v, n)
    BY <2>1, <2>2, CongruentIs
  <2> QED BY <2>3 DEF u, v
<1> QED BY <1>15, <1>16, <1>18, <1>20

\* The Montgomery product.
LEMMA MontMulRight ==
  ASSUME NEW N, NEW a, NEW b, NEW n,
         N \in Nat, a \in Nat, b \in Nat, n \in Nat,
         a < Power(Base, N), b <= n, n < Power(Base, N), n % 2 = 1
  PROVE  LET r == mont_mul(N, a, b, n, compute_n_inv(n))
         IN  r \in Nat /\ r < n /\ Congruent(r * Power(Base, N), a * b, n)
PROOF
<1> DEFINE ni == compute_n_inv(n)
           P == Power(Base, N)
           turn == [i \in 1 .. N |-> [s \in Nat |-> MontRow(N, s, Limb(a, i - 1), b, n, ni)]]
           I == {s \in (0 .. N) \X Nat :
                   s[2] < b + n /\ Congruent(s[2] * Power(Base, s[1]), Low(a, s[1]) * b, n)}
           t == Loop(N, 0, turn)
<1>1. ni \in Nat /\ Congruent(n * ni + 1, 0, Base)
  BY InverseRight
<1>2. n \in Nat \ {0} /\ n \in Int /\ b \in Int
  OBVIOUS
<1> HIDE DEF ni
<1>3. <<0, 0>> \in I
  <2>1. Low(a, 0) = 0 /\ Power(Base, 0) = 1
    BY LowNone, PowerZero
  <2>2. 0 * Power(Base, 0) = 0 /\ Low(a, 0) * b = 0
    BY <2>1
  <2>3. Congruent(0, 0, n)
    BY <1>2, CongruentSelf
  <2> QED BY <1>2, <2>2, <2>3
<1>4. ASSUME NEW k \in 1 .. N, NEW x, <<k - 1, x>> \in I
      PROVE  <<k, turn[k][x]>> \in I
  <2> DEFINE j == k - 1
             ai == Limb(a, j)
             y == MontRow(N, x, ai, b, n, ni)
             Q == Power(Base, j)
             lo == Low(a, j)
  <2>1. j \in Nat /\ j + 1 = k /\ x \in Nat /\ x < b + n /\ Congruent(x * Q, lo * b, n)
    BY <1>4
  <2>2. ai \in Nat /\ ai < Base /\ lo \in Nat /\ Q \in Nat
    BY <2>1, LimbType, LowType, BasePos
  <2>3. Power(Base, k) = Base * Q
    BY <2>1, BasePower
  <2>4. Low(a, k) = lo + ai * Q
    <3>1. Low(a, j + 1) = Low(a, j) + Limb(a, j) * Power(Base, j)
      BY <2>1, LowNext
    <3> QED BY <2>1, <3>1
  <2> HIDE DEF ai, j
  <2>5. y \in Nat /\ y < b + n /\ Congruent(y * Base, x + ai * b, n)
    BY <1>1, <2>1, <2>2, MontRowRight
  <2> HIDE DEF y, Q, lo
  <2> DEFINE c == x * Q
             d == lo * b
             e == (ai * Q) * b
             f == c + e
             g == d + e
             yb == y * Base
             sum == x + ai * b
             h == yb * Q
  <2>7. /\ c \in Int /\ d \in Int /\ e \in Int /\ f \in Int /\ g \in Int /\ h \in Int
        /\ yb \in Int /\ sum \in Int /\ Q \in Int
    BY <1>2, <2>1, <2>2, <2>5, BaseType
  <2>8. y * Power(Base, k) = h
    <3>1. y * (Base * Q) = (y * Base) * Q
      BY <2>2, <2>5, BaseType
    <3> QED BY <2>3, <3>1
  <2>6. sum * Q = f
    BY <2>1, <2>2
  <2>9. Low(a, k) * b = g
    <3>1. (lo + ai * Q) * b = lo * b + (ai * Q) * b
      BY <2>2
    <3> QED BY <2>4, <3>1, Zenon DEF g, d, e
  <2>10. Congruent(c, d, n)
    BY <2>1 DEF Q, lo
  <2> HIDE DEF c, d, e
  <2>11. Congruent(f, g, n)
    <3>1. Congruent(e, e, n)
      BY <1>2, <2>7, CongruentSelf
    <3> QED BY <1>2, <2>7, <2>10, <3>1, CongruentSum
  <2> HIDE DEF yb, sum
  <2>12. Congruent(h, f, n)
    <3>1. Congruent(Q, Q, n) /\ Congruent(yb, sum, n)
      BY <1>2, <2>5, <2>7, CongruentSelf DEF yb, sum
    <3>2. Congruent(yb * Q, sum * Q, n)
      BY <1>2, <2>7, <3>1, CongruentProduct
    <3> QED BY <2>6, <3>2
  <2>13. Congruent(h, g, n)
    BY <1>2, <2>7, <2>11, <2>12, CongruentChain
  <2>14. turn[k][x] = y
    BY <2>1 DEF y, ai, j
  <2> HIDE DEF turn
  <2> QED BY <2>5, <2>8, <2>9, <2>13, <2>14
<1>5. <<N, t>> \in I
  <2> HIDE DEF turn, I
  <2> QED BY <1>3, <1>4, LoopInvariant
<1> HIDE DEF turn
<1>6. t \in Nat /\ t < b + n /\ Congruent(t * P, Low(a, N) * b, n)
  BY <1>5
<1>7. Low(a, N) = a
  BY LowWhole
<1> HIDE DEF t
<1> DEFINE hi == Limb(t, N)
           lo == t % P
           r == Reduced(N, hi, lo, n)
<1>8. P \in Nat /\ P >= 1 /\ P \in Nat \ {0} /\ Base \in Nat /\ Base >= 2 /\ Base \in Nat \ {0} /\ n < P
  BY BasePos, BaseType
<1>9. t \div P \in Nat /\ lo \in Nat /\ lo < P /\ t = P * (t \div P) + lo
  <2>1. t \in Int
    BY <1>6
  <2> HIDE DEF P
  <2>2. t \div P \in Int /\ t % P \in 0 .. P - 1 /\ t = P * (t \div P) + (t % P)
    BY <1>8, <2>1, Division
  <2>3. t \div P \in Nat
    BY <1>6, <1>8, NatDivision
  <2> QED BY <1>8, <2>2, <2>3
<1>10. hi = t \div P
  <2> DEFINE q == t \div P
  <2> HIDE DEF q, P
  <2>1. q \in Nat /\ P * q < 2 * P
    <3>1. q \in Nat /\ t = P * q + lo
      BY <1>9 DEF q
    <3>2. P * q \in Nat
      BY <1>8, <3>1
    <3> QED BY <1>6, <1>8, <1>9, <3>1, <3>2
  <2>2. q < 2
    <3>1. q >= 2 => P * q >= P * 2
      BY <1>8, <2>1
    <3> QED BY <1>8, <2>1, <3>1
  <2>3. q \in 0 .. Base - 1
    BY <1>8, <2>1, <2>2
  <2>4. q % Base = q
    BY <1>8, <2>3, SmallMod
  <2> QED BY <2>4 DEF q, Limb, P
<1>11. t = hi * P + lo /\ hi \in Nat
  BY <1>8, <1>9, <1>10
<1> HIDE DEF hi, lo
<1>12. r \in Nat /\ r < n /\ Congruent(r, t, n)
  <2>1. t < 2 * n /\ t <= 2 * n
    BY <1>6
  <2>2. r \in 0 .. n /\ r < n /\ Congruent(r, t, n)
    BY <1>2, <1>6, <1>8, <1>9, <1>11, <2>1, ReducedMod
  <2> QED BY <2>2
<1>13. mont_mul(N, a, b, n, ni) = r
  BY DEF mont_mul, t, turn, r, hi, lo
<1> HIDE DEF r
<1>14. Congruent(r * P, a * b, n)
  <2> DEFINE u == r * P
             v == t * P
             w == a * b
  <2>1. u \in Int /\ v \in Int /\ w \in Int /\ r \in Int /\ t \in Int /\ P \in Int
    BY <1>2, <1>6, <1>8, <1>12
  <2> HIDE DEF P
  <2>2. Congruent(u, v, n)
    <3>1. Congruent(P, P, n)
      BY <1>2, <2>1, CongruentSelf
    <3> QED BY <1>2, <1>12, <2>1, <3>1, CongruentProduct, Zenon
  <2>3. Congruent(v, w, n)
    BY <1>6, <1>7
  <2> HIDE DEF u, v, w
  <2>4. Congruent(u, w, n)
    BY <1>2, <2>1, <2>2, <2>3, CongruentChain
  <2> QED BY <2>4 DEF u, w
<1> QED BY <1>12, <1>13, <1>14 DEF ni

-----------------------------------------------------------------------------
(* Powers of two modulo n, and powers of the base that cancel.             *)

LEMMA DoubledRight ==
  ASSUME NEW N, NEW x, NEW n,
         N \in Nat, x \in Nat, n \in Nat \ {0}, n < Power(Base, N), x <= n
  PROVE  Doubled(N, x, n) \in Nat /\ Doubled(N, x, n) < n /\ Congruent(Doubled(N, x, n), 2 * x, n)
PROOF
<1> DEFINE P == Power(Base, N)
           y == 2 * x
           lo == y % P
           hi == y \div P
           r1 == Reduced(N, hi, lo, n)
           r2 == Reduced(N, 0, r1, n)
<1>1. P \in Nat /\ P \in Nat \ {0} /\ P >= 1 /\ x < P /\ n < P /\ y \in Nat /\ y \in Int /\ y <= 2 * n
  BY BasePos
<1>2. Shifted(N, x, 0) = <<lo, hi>>
  <2>1. 0 \in 0 .. 1 /\ y + 0 = y
    BY <1>1
  <2>2. Shifted(N, x, 0) = <<(y + 0) % P, (y + 0) \div P>>
    BY <1>1, <2>1, ShiftedRight
  <2> HIDE DEF y
  <2> QED BY <2>1, <2>2
<1> HIDE DEF P, y
<1>3. lo \in Nat /\ lo < P /\ hi \in Nat /\ y = hi * P + lo
  <2>1. hi \in Int /\ lo \in 0 .. P - 1 /\ y = P * hi + lo
    BY <1>1, Division
  <2>2. hi \in Nat
    BY <1>1, NatDivision, Zenon
  <2> HIDE DEF hi, lo
  <2>3. P * hi = hi * P
    BY <1>1, <2>2
  <2> QED BY <1>1, <2>1, <2>2, <2>3
<1> HIDE DEF lo, hi
<1>4. r1 \in 0 .. n /\ Congruent(r1, y, n)
  BY <1>1, <1>3, ReducedMod DEF P
<1> HIDE DEF r1
<1>5. r2 < n /\ r2 \in 0 .. n /\ Congruent(r2, r1, n)
  <2> DEFINE zero == 0
  <2>1. r1 \in Nat /\ r1 < P /\ r1 = zero * P + r1 /\ r1 <= 2 * n /\ r1 < 2 * n /\ zero \in Nat
    BY <1>1, <1>4
  <2> HIDE DEF zero
  <2>2. Reduced(N, zero, r1, n) \in 0 .. n /\ Reduced(N, zero, r1, n) < n /\ Congruent(Reduced(N, zero, r1, n), r1, n)
    BY <1>1, <2>1, ReducedMod DEF P
  <2> QED BY <2>2 DEF zero
<1>6. Doubled(N, x, n) = r2
  BY <1>2 DEF Doubled, r1
<1> HIDE DEF r2
<1>7. Congruent(r2, y, n)
  <2>1. r1 \in Int /\ r2 \in Int
    BY <1>4, <1>5
  <2> QED BY <1>1, <1>4, <1>5, <2>1, CongruentChain
<1>8. Congruent(Doubled(N, x, n), 2 * x, n)
  BY <1>6, <1>7, Zenon DEF y
<1> QED BY <1>5, <1>6, <1>8

LEMMA PowerOfTwoRight ==
  ASSUME NEW N, NEW steps, NEW n,
         N \in Nat, steps \in Nat \ {0}, n \in Nat \ {0}, n < Power(Base, N)
  PROVE  PowerOfTwo(N, steps, n) = Power(2, steps) % n
PROOF
<1> DEFINE turn == [k \in 1 .. steps |-> [x \in Nat |-> Doubled(N, x, n)]]
           I == {s \in (0 .. steps) \X Nat :
                   /\ s[2] <= n /\ (s[1] # 0 => s[2] < n)
                   /\ Congruent(s[2], Power(2, s[1]), n)}
           X == Loop(steps, 1, turn)
<1>1. <<0, 1>> \in I
  <2>1. Power(2, 0) = 1
    BY PowerZero
  <2>2. Congruent(1, 1, n)
    BY CongruentSelf
  <2> QED BY <2>1, <2>2
<1>2. ASSUME NEW k \in 1 .. steps, NEW x, <<k - 1, x>> \in I
      PROVE  <<k, turn[k][x]>> \in I
  <2> DEFINE j == k - 1
             y == Doubled(N, x, n)
             p == Power(2, j)
             two == 2
             c == two * x
             d == two * p
  <2>1. j \in Nat /\ j + 1 = k /\ x \in Nat /\ x <= n /\ Congruent(x, p, n)
    BY <1>2
  <2>2. y \in Nat /\ y < n /\ Congruent(y, c, n)
    BY <2>1, DoubledRight
  <2>3. d = Power(2, k) /\ p \in Nat
    BY <2>1, PowerNext, TwoPos
  <2>4. c \in Int /\ d \in Int /\ x \in Int /\ p \in Int /\ two \in Int
    BY <2>1, <2>3
  <2> HIDE DEF p, y, two
  <2>5. Congruent(c, d, n)
    <3>1. Congruent(two, two, n)
      BY <2>4, CongruentSelf
    <3> QED BY <2>1, <2>4, <3>1, CongruentProduct
  <2> HIDE DEF c, d
  <2>6. Congruent(y, d, n)
    BY <2>2, <2>4, <2>5, CongruentChain
  <2>7. turn[k][x] = y
    BY <2>1 DEF y
  <2> HIDE DEF turn
  <2> QED BY <2>2, <2>3, <2>6, <2>7
<1>3. <<steps, X>> \in I
  <2> HIDE DEF turn, I
  <2> QED BY <1>1, <1>2, LoopInvariant
<1> HIDE DEF turn
<1>4. X \in Nat /\ X < n /\ Congruent(X, Power(2, steps), n)
  BY <1>3
<1>5. PowerOfTwo(N, steps, n) = X
  BY DEF PowerOfTwo, X, turn
<1> HIDE DEF X
<1>6. X \in 0 .. n - 1 /\ Power(2, steps) \in Int
  BY <1>4, TwoPos
<1> QED BY <1>4, <1>5, <1>6, CongruentSmall, Zenon

LEMMA SomeLimb ==
  ASSUME NEW N, NEW n, N \in Nat, n \in Nat \ {0}, n < Power(Base, N)
  PROVE  N \in Nat \ {0}
PROOF
<1>1. Power(Base, 0) = 1
  BY PowerZero
<1> QED BY <1>1

LEMMA RModRight ==
  ASSUME NEW N, NEW n, N \in Nat, n \in Nat \ {0}, n < Power(Base, N)
  PROVE  /\ compute_R_mod_n(N, n) = Power(Base, N) % n
         /\ compute_R2_mod_n(N, n) = (Power(Base, N) * Power(Base, N)) % n
PROOF
<1>1. N \in Nat \ {0} /\ LimbBits \in Nat \ {0}
  BY SomeLimb, BaseType
<1>2. Power(Base, N) = Power(2, LimbBits * N)
  BY BaseTwo
<1> DEFINE s == N * LimbBits
<1>3. s \in Nat \ {0} /\ s \in Nat /\ s = LimbBits * N /\ 2 * N * LimbBits = s + s /\ s + s \in Nat \ {0}
  <2>1. \A x, y \in Nat \ {0} : x * y \in Nat \ {0} /\ x * y = y * x /\ 2 * x * y = x * y + x * y
    OBVIOUS
  <2>2. s \in Nat \ {0} /\ s = LimbBits * N /\ 2 * N * LimbBits = s + s
    BY <1>1, <2>1
  <2> QED BY <2>2
<1> HIDE DEF s
<1>4. Power(2, s) = Power(Base, N) /\ Power(2, s + s) = Power(Base, N) * Power(Base, N)
  BY <1>2, <1>3, PowerSum
<1>5. PowerOfTwo(N, s, n) = Power(2, s) % n /\ PowerOfTwo(N, s + s, n) = Power(2, s + s) % n
  BY <1>3, PowerOfTwoRight
<1> QED BY <1>3, <1>4, <1>5 DEF compute_R_mod_n, compute_R2_mod_n, s

-----------------------------------------------------------------------------
LEMMA CongruentPower ==
  ASSUME NEW x \in Nat, NEW y \in Nat, NEW n \in Nat \ {0}, Congruent(x, y, n), NEW k \in Nat
  PROVE  Congruent(Power(x, k), Power(y, k), n)
PROOF
<1> DEFINE S == {i \in Nat : Congruent(Power(x, i), Power(y, i), n)}
<1>1. 0 \in S
  <2>1. Power(x, 0) = 1 /\ Power(y, 0) = 1
    BY PowerZero
  <2>2. Congruent(1, 1, n)
    BY CongruentSelf
  <2> QED BY <2>1, <2>2
<1>2. ASSUME NEW i \in 1 .. k, i - 1 \in S PROVE i \in S
  <2> DEFINE j == i - 1
             p == Power(x, j)
             q == Power(y, j)
  <2>1. j \in Nat /\ j + 1 = i /\ Congruent(p, q, n)
    BY <1>2
  <2>2. Power(x, i) = x * p /\ Power(y, i) = y * q
    BY <2>1, PowerNext
  <2>3. p \in Int /\ q \in Int /\ x \in Int /\ y \in Int
    BY <2>1, PowerType
  <2> HIDE DEF p, q
  <2>4. Congruent(x * p, y * q, n)
    BY <2>1, <2>3, CongruentProduct
  <2> QED BY <2>2, <2>4
<1>3. k \in S
  <2> HIDE DEF S
  <2> QED BY <1>1, <1>2, UpTo
<1> QED BY <1>3

LEMMA PowerOne == ASSUME NEW k \in Nat PROVE Power(1, k) = 1
PROOF
<1> DEFINE S == {i \in Nat : Power(1, i) = 1}
<1>1. 0 \in S
  BY PowerZero
<1>2. ASSUME NEW i \in 1 .. k, i - 1 \in S PROVE i \in S
  <2>1. i - 1 \in Nat /\ i - 1 + 1 = i
    OBVIOUS
  <2>2. Power(1, i - 1 + 1) = 1 * Power(1, i - 1)
    BY <2>1, PowerNext
  <2> QED BY <1>2, <2>1, <2>2
<1>3. k \in S
  <2> HIDE DEF S
  <2> QED BY <1>1, <1>2, UpTo
<1> QED BY <1>3

\* Powers of Base have an inverse modulo an odd number.
LEMMA BaseInverse ==
  ASSUME NEW n \in Nat, n % 2 = 1, NEW N \in Nat
  PROVE  \E U \in Nat : Congruent(Power(Base, N) * U, 1, n)
PROOF
<1> DEFINE ni == compute_n_inv(n)
           z == n * ni + 1
           zero == 0
           one == 1
<1>1. ni \in Nat /\ Congruent(z, 0, Base)
  BY InverseRight
<1>2. Base \in Nat /\ Base >= 2 /\ Base \in Nat \ {0} /\ n \in Nat \ {0}
  BY BaseType
<1>3. z \in Int /\ zero \in Int /\ z >= 1
  BY <1>1
<1>4. PICK q \in Int : z = zero + q * Base
  <2>1. Congruent(z, zero, Base)
    BY <1>1
  <2> HIDE DEF z, zero
  <2> QED BY <1>2, <1>3, <2>1, CongruentBy
<1>5. q \in Nat
  <2>1. \A x \in Int : x < 0 => x * Base < 0
    BY <1>2
  <2> HIDE DEF z
  <2> QED BY <1>2, <1>3, <1>4, <2>1 DEF zero
<1> DEFINE B == Base * q
<1>6. B \in Nat /\ B = n * ni + 1
  BY <1>2, <1>4, <1>5
<1> HIDE DEF z, ni
<1>7. Congruent(B, one, n)
  <2>1. ni \in Int /\ B = one + ni * n /\ B \in Int /\ one \in Int
    BY <1>1, <1>6
  <2> HIDE DEF B, one
  <2>2. \E m \in Int : B = one + m * n
    BY <2>1
  <2> QED BY <1>2, <2>1, <2>2, CongruentIs
<1>8. Congruent(Power(B, N), Power(one, N), n)
  <2>1. one \in Nat
    OBVIOUS
  <2> HIDE DEF B, one
  <2> QED BY <1>2, <1>6, <1>7, <2>1, CongruentPower
<1>9. Power(B, N) = Power(Base, N) * Power(q, N)
  BY <1>2, <1>5, PowerProduct
<1>10. Power(one, N) = 1 /\ Power(q, N) \in Nat
  BY <1>5, PowerOne, PowerType
<1> HIDE DEF B, one
<1>11. Congruent(Power(Base, N) * Power(q, N), 1, n)
  BY <1>8, <1>9, <1>10
<1> QED BY <1>10, <1>11

LEMMA CancelPower ==
  ASSUME NEW x \in Int, NEW y \in Int, NEW n \in Nat, n % 2 = 1, NEW N \in Nat,
         Congruent(x * Power(Base, N), y * Power(Base, N), n)
  PROVE  Congruent(x, y, n)
PROOF
<1> DEFINE P == Power(Base, N)
<1>1. P \in Nat /\ n \in Nat \ {0}
  BY BasePos
<1>2. PICK U \in Nat : Congruent(P * U, 1, n)
  BY BaseInverse
<1> DEFINE one == 1
           pu == P * U
           xp == x * P
           yp == y * P
           xu == x * pu
           yu == y * pu
<1>3. /\ pu \in Int /\ xp \in Int /\ yp \in Int /\ xu \in Int /\ yu \in Int /\ one \in Int
      /\ x * one = x /\ y * one = y /\ U \in Int
  BY <1>1
<1>4. xp * U = xu /\ yp * U = yu
  BY <1>1
<1>5. Congruent(xp, yp, n) /\ Congruent(pu, one, n)
  BY <1>2
<1> HIDE DEF xp, yp, pu, one
<1>6. Congruent(xp * U, yp * U, n)
  <2>1. Congruent(U, U, n)
    BY <1>1, <1>3, CongruentSelf
  <2> QED BY <1>1, <1>3, <1>5, <2>1, CongruentProduct
<1>7. Congruent(x * pu, x * one, n) /\ Congruent(y * pu, y * one, n)
  <2>1. Congruent(x, x, n) /\ Congruent(y, y, n)
    BY <1>1, CongruentSelf
  <2> QED BY <1>1, <1>3, <1>5, <2>1, CongruentProduct
<1> HIDE DEF xu, yu
<1>8. Congruent(xu, yu, n) /\ Congruent(xu, x, n) /\ Congruent(yu, y, n)
  BY <1>3, <1>4, <1>6, <1>7 DEF xu, yu
<1>9. Congruent(x, xu, n)
  BY <1>1, <1>3, <1>8, CongruentTurned
<1>10. Congruent(x, yu, n)
  BY <1>1, <1>3, <1>8, <1>9, CongruentChain
<1> QED BY <1>1, <1>3, <1>8, <1>10, CongruentChain

-----------------------------------------------------------------------------
(* Numbers in Montgomery form, and both exponentiations.                   *)

\* u in Montgomery form.
Mont(N, n, u) == (u * Power(Base, N)) % n

\* An odd modulus of N limbs.
Modulus(N, n) == N \in Nat /\ n \in Nat \ {0} /\ n < Power(Base, N) /\ n % 2 = 1

LEMMA MontType ==
  ASSUME NEW N, NEW n, NEW u, Modulus(N, n), u \in Nat
  PROVE  /\ Mont(N, n, u) \in Nat /\ Mont(N, n, u) < n
         /\ Congruent(Mont(N, n, u), u * Power(Base, N), n)
PROOF
<1> DEFINE z == u * Power(Base, N)
<1>1. z \in Int /\ n \in Nat \ {0}
  BY BasePos DEF Modulus
<1> HIDE DEF z
<1>2. z % n \in 0 .. n - 1 /\ Congruent(z % n, z, n)
  BY <1>1, Division, CongruentRest
<1> QED BY <1>1, <1>2 DEF Mont, z

\* What is congruent to a number's Montgomery form, below n, is that form.
LEMMA MontIs ==
  ASSUME NEW N, NEW n, NEW u, NEW r, Modulus(N, n), u \in Nat, r \in Nat, r < n,
         Congruent(r, u * Power(Base, N), n)
  PROVE  r = Mont(N, n, u)
PROOF
<1> DEFINE z == u * Power(Base, N)
<1>1. z \in Int /\ n \in Nat \ {0} /\ r \in 0 .. n - 1
  BY BasePos DEF Modulus
<1> HIDE DEF z
<1>2. r = z % n
  BY <1>1, CongruentSmall DEF z
<1> QED BY <1>2 DEF Mont, z

\* The product of two Montgomery forms is the form of the product.
LEMMA MontTimes ==
  ASSUME NEW N, NEW n, NEW u, NEW v, Modulus(N, n), u \in Nat, v \in Nat
  PROVE  mont_mul(N, Mont(N, n, u), Mont(N, n, v), n, compute_n_inv(n)) = Mont(N, n, u * v)
PROOF
<1> DEFINE P == Power(Base, N)
           x == Mont(N, n, u)
           y == Mont(N, n, v)
           r == mont_mul(N, x, y, n, compute_n_inv(n))
<1>1. N \in Nat /\ n \in Nat /\ n \in Nat \ {0} /\ n < P /\ n % 2 = 1 /\ P \in Nat
  BY BasePos DEF Modulus
<1>2. x \in Nat /\ x < n /\ y \in Nat /\ y < n /\ Congruent(x, u * P, n) /\ Congruent(y, v * P, n)
  BY MontType
<1> HIDE DEF x, y
<1>3. x < Power(Base, N) /\ y <= n
  BY <1>1, <1>2
<1>4. r \in Nat /\ r < n /\ Congruent(r * P, x * y, n)
  BY <1>1, <1>2, <1>3, MontMulRight
<1> HIDE DEF P, r
<1> DEFINE up == u * P
           vp == v * P
           w == u * v
           z == w * P
<1>5. up \in Int /\ vp \in Int /\ w \in Nat /\ z \in Int /\ x \in Int /\ y \in Int /\ r \in Int
  BY <1>1, <1>2, <1>4
<1>6. up * vp = z * P
  BY <1>1
<1>7. Congruent(x * y, up * vp, n)
  <2> HIDE DEF up, vp
  <2> QED BY <1>1, <1>2, <1>5, CongruentProduct DEF up, vp
<1>8. Congruent(r * P, z * P, n)
  <2> DEFINE a == r * P
             b == x * y
             c == up * vp
             d == z * P
  <2>1. a \in Int /\ b \in Int /\ c \in Int /\ Congruent(a, b, n) /\ Congruent(b, c, n) /\ c = d
    BY <1>1, <1>4, <1>5, <1>6, <1>7
  <2> HIDE DEF a, b, c, d
  <2>2. Congruent(a, c, n)
    BY <1>1, <2>1, CongruentChain
  <2>3. Congruent(a, d, n)
    BY <2>1, <2>2
  <2> QED BY <2>3 DEF a, d
<1> HIDE DEF z, w
<1>9. Congruent(r, z, n)
  BY <1>1, <1>5, <1>8, CancelPower DEF P
<1>10. r = Mont(N, n, w)
  BY <1>4, <1>5, <1>9, MontIs DEF z, P
<1> QED BY <1>10 DEF w, r, x, y

LEMMA ToMont ==
  ASSUME NEW N, NEW n, NEW m, Modulus(N, n), m \in Nat, m < Power(Base, N)
  PROVE  mont_mul(N, m, compute_R2_mod_n(N, n), n, compute_n_inv(n)) = Mont(N, n, m)
PROOF
<1> DEFINE P == Power(Base, N)
           pp == P * P
           y == compute_R2_mod_n(N, n)
           r == mont_mul(N, m, y, n, compute_n_inv(n))
<1>1. N \in Nat /\ n \in Nat /\ n \in Nat \ {0} /\ n < P /\ n % 2 = 1 /\ P \in Nat
  BY BasePos DEF Modulus
<1>2. y = pp % n /\ pp \in Int
  BY <1>1, RModRight
<1> HIDE DEF y, pp
<1>3. y \in Nat /\ y <= n /\ Congruent(y, pp, n)
  <2>1. pp % n \in 0 .. n - 1 /\ Congruent(pp % n, pp, n)
    BY <1>1, <1>2, Division, CongruentRest
  <2> QED BY <1>1, <1>2, <2>1
<1>4. r \in Nat /\ r < n /\ Congruent(r * P, m * y, n)
  BY <1>1, <1>3, MontMulRight
<1> HIDE DEF P, r
<1> DEFINE z == m * P
           a == r * P
           b == m * y
           c == m * pp
           d == z * P
<1>5. z \in Int /\ a \in Int /\ b \in Int /\ c \in Int /\ r \in Int /\ y \in Int /\ m \in Int
  BY <1>1, <1>2, <1>3, <1>4
<1>6. c = d
  BY <1>1 DEF pp
<1>7. Congruent(b, c, n)
  <2>1. Congruent(m, m, n)
    BY <1>1, <1>5, CongruentSelf
  <2> QED BY <1>1, <1>2, <1>3, <1>5, <2>1, CongruentProduct
<1>8. Congruent(a, d, n)
  <2> HIDE DEF a, b, c, d
  <2>1. Congruent(a, c, n)
    BY <1>1, <1>4, <1>5, <1>7, CongruentChain DEF a, b
  <2> QED BY <1>6, <2>1
<1> HIDE DEF z
<1>9. Congruent(r, z, n)
  BY <1>1, <1>5, <1>8, CancelPower DEF P
<1>10. r = Mont(N, n, m)
  BY <1>4, <1>5, <1>9, MontIs DEF z, P
<1> QED BY <1>10 DEF r, y

LEMMA FromMont ==
  ASSUME NEW N, NEW n, NEW u, Modulus(N, n), u \in Nat
  PROVE  mont_mul(N, Mont(N, n, u), 1, n, compute_n_inv(n)) = u % n
PROOF
<1> DEFINE P == Power(Base, N)
           x == Mont(N, n, u)
           one == 1
           r == mont_mul(N, x, one, n, compute_n_inv(n))
<1>1. N \in Nat /\ n \in Nat /\ n \in Nat \ {0} /\ n < P /\ n % 2 = 1 /\ P \in Nat /\ one \in Nat /\ one <= n
  BY BasePos DEF Modulus
<1>2. x \in Nat /\ x < n /\ Congruent(x, u * P, n)
  BY MontType
<1> HIDE DEF x, one
<1>3. x < Power(Base, N)
  BY <1>1, <1>2
<1>4. r \in Nat /\ r < n /\ Congruent(r * P, x * one, n)
  BY <1>1, <1>2, <1>3, MontMulRight
<1>5. x * one = x
  BY <1>2 DEF one
<1> HIDE DEF P, r
<1>6. Congruent(r * P, u * P, n)
  <2> DEFINE a == r * P
             c == u * P
  <2>1. a \in Int /\ c \in Int /\ x \in Int /\ Congruent(a, x, n) /\ Congruent(x, c, n)
    BY <1>1, <1>2, <1>4, <1>5
  <2> HIDE DEF a, c
  <2>2. Congruent(a, c, n)
    BY <1>1, <2>1, CongruentChain
  <2> QED BY <2>2 DEF a, c
<1>7. Congruent(r, u, n) /\ r \in 0 .. n - 1 /\ u \in Int
  <2>1. r \in Int /\ u \in Int /\ r \in 0 .. n - 1
    BY <1>1, <1>4
  <2> QED BY <1>1, <1>6, <2>1, CancelPower DEF P
<1>8. r = u % n
  BY <1>1, <1>7, CongruentSmall
<1> QED BY <1>8 DEF r, x, one

LEMMA MontOne ==
  ASSUME NEW N, NEW n, Modulus(N, n)
  PROVE  compute_R_mod_n(N, n) = Mont(N, n, 1)
PROOF
<1>1. compute_R_mod_n(N, n) = Power(Base, N) % n
  BY RModRight DEF Modulus
<1>2. 1 * Power(Base, N) = Power(Base, N)
  BY BasePos DEF Modulus
<1> QED BY <1>1, <1>2 DEF Mont

-----------------------------------------------------------------------------
\* A bit of the exponent more: square, and multiply if the bit is set.
BitStep(m, e, i) ==
  LET h == High(e, i + 1)
      p == Power(m, h)
  IN  /\ h \in Nat /\ p \in Nat
      /\ bit(e, i) = 1 => Power(m, High(e, i)) = (p * p) * m
      /\ bit(e, i) # 1 => bit(e, i) = 0 /\ Power(m, High(e, i)) = p * p
      /\ Power(m, h + 1) = p * m

LEMMA PowerBit ==
  ASSUME NEW m, NEW e, NEW i, m \in Nat, e \in Nat, i \in Nat
  PROVE  BitStep(m, e, i)
PROOF
<1> DEFINE h == High(e, i + 1)
           p == Power(m, h)
<1>1. h \in Nat /\ i + 1 \in Nat
  BY HighType
<1>2. bit(e, i) \in 0 .. 1 /\ High(e, i) = 2 * h + bit(e, i)
  BY HighNext
<1> HIDE DEF h
<1>3. p \in Nat /\ Power(m, h + h) = p * p
  BY <1>1, PowerType, PowerSum
<1>4. Power(m, h + h + 1) = m * Power(m, h + h) /\ Power(m, h + 1) = m * p
  <2>1. h + h \in Nat
    BY <1>1
  <2> QED BY <1>1, <2>1, PowerNext
<1>5. m * (p * p) = (p * p) * m /\ m * p = p * m
  BY <1>3
<1>6. bit(e, i) = 1 => High(e, i) = h + h + 1
  BY <1>1, <1>2
<1>7. bit(e, i) # 1 => bit(e, i) = 0 /\ High(e, i) = h + h
  BY <1>1, <1>2
<1> HIDE DEF p
<1>8. bit(e, i) = 1 => Power(m, High(e, i)) = (p * p) * m
  BY <1>3, <1>4, <1>5, <1>6 DEF p
<1>9. bit(e, i) # 1 => bit(e, i) = 0 /\ Power(m, High(e, i)) = p * p
  BY <1>3, <1>7 DEF p
<1>10. Power(m, h + 1) = p * m
  BY <1>4, <1>5 DEF p
<1> QED BY <1>1, <1>3, <1>8, <1>9, <1>10 DEF h, p, BitStep

LEMMA ModexpPower ==
  ASSUME NEW N, NEW m, NEW e, NEW n, Modulus(N, n),
         m \in Nat, m < Power(Base, N), e \in Nat, e < Power(Base, N)
  PROVE  modexp(N, m, e, n) = Power(m, e) % n
PROOF
<1> DEFINE n_inv  == compute_n_inv(n)
           m_mont == mont_mul(N, m, compute_R2_mod_n(N, n), n, n_inv)
           blen   == bitlen(N, e)
           turn   == [k \in 1 .. blen |-> [x \in Nat |->
                        LET sq == mont_mul(N, x, x, n, n_inv)
                        IN  IF bit(e, blen - k) = 1 THEN mont_mul(N, sq, m_mont, n, n_inv) ELSE sq]]
           R == compute_R_mod_n(N, n)
           at(k) == Mont(N, n, Power(m, High(e, blen - k)))
           I == {<<k, at(k)>> : k \in 0 .. blen}
<1>1. N \in Nat /\ LimbBits \in Nat /\ N * LimbBits \in Nat
  BY BaseType DEF Modulus
<1>2. blen \in Nat /\ High(e, blen) = 0
  BY <1>1, BitlenRight
<1>3. m_mont = Mont(N, n, m) /\ R = Mont(N, n, 1)
  BY ToMont, MontOne
<1> HIDE DEF blen, n_inv, m_mont, R
<1>4. <<0, R>> \in I
  <2>1. blen - 0 = blen /\ Power(m, 0) = 1
    BY <1>2, PowerZero
  <2>2. at(0) = R
    BY <1>2, <1>3, <2>1
  <2> HIDE DEF at
  <2> QED BY <1>2, <2>2
<1>5. ASSUME NEW k \in 1 .. blen, NEW x, <<k - 1, x>> \in I
      PROVE  <<k, turn[k][x]>> \in I
  <2> DEFINE i == blen - k
             h == High(e, i + 1)
             p == Power(m, h)
             sq == mont_mul(N, x, x, n, n_inv)
  <2>1. i \in Nat /\ i + 1 = blen - (k - 1) /\ k \in 0 .. blen
    BY <1>2
  <2>2. x = at(k - 1)
    <3> HIDE DEF at
    <3> QED BY <1>5
  <2>3. x = Mont(N, n, p)
    BY <2>1, <2>2
  <2>4. /\ h \in Nat /\ p \in Nat
        /\ bit(e, i) = 1 => Power(m, High(e, i)) = (p * p) * m
        /\ bit(e, i) # 1 => bit(e, i) = 0 /\ Power(m, High(e, i)) = p * p
    <3>1. BitStep(m, e, i)
      BY <2>1, PowerBit
    <3> HIDE DEF i
    <3> QED BY <3>1 DEF BitStep
  <2> HIDE DEF p, h
  <2>5. x \in Nat /\ p * p \in Nat
    BY <2>3, <2>4, MontType
  <2>6. sq = Mont(N, n, p * p)
    BY <2>3, <2>4, MontTimes DEF n_inv
  <2>7. mont_mul(N, sq, m_mont, n, n_inv) = Mont(N, n, (p * p) * m)
    <3> DEFINE w == p * p
    <3>1. w \in Nat
      BY <2>5
    <3> HIDE DEF w
    <3>2. mont_mul(N, Mont(N, n, w), Mont(N, n, m), n, n_inv) = Mont(N, n, w * m)
      BY <3>1, MontTimes DEF n_inv
    <3>3. sq = Mont(N, n, w)
      BY <2>6 DEF w
    <3> HIDE DEF sq
    <3> QED BY <1>3, <3>2, <3>3 DEF w
  <2>8. turn[k][x] = IF bit(e, i) = 1 THEN mont_mul(N, sq, m_mont, n, n_inv) ELSE sq
    BY <2>5
  <2>9. turn[k][x] = Mont(N, n, Power(m, High(e, i)))
    <3> HIDE DEF turn, sq
    <3> QED BY <2>4, <2>6, <2>7, <2>8
  <2>10. turn[k][x] = at(k)
    BY <2>9
  <2> HIDE DEF turn, at
  <2> QED BY <2>1, <2>10
<1>6. <<blen, Loop(blen, R, turn)>> \in I
  <2> HIDE DEF turn, I
  <2> QED BY <1>2, <1>4, <1>5, LoopInvariant
<1>7. Loop(blen, R, turn) = at(blen)
  <2> HIDE DEF turn, at
  <2> QED BY <1>6
<1>8. at(blen) = Mont(N, n, Power(m, e))
  <2>1. blen - blen = 0 /\ High(e, 0) = e
    BY <1>2, HighNone
  <2> QED BY <2>1
<1>9. mont_mul(N, Mont(N, n, Power(m, e)), 1, n, n_inv) = Power(m, e) % n
  BY PowerType, FromMont DEF n_inv
<1>10. modexp(N, m, e, n) = mont_mul(N, Loop(blen, R, turn), 1, n, n_inv)
  BY DEF modexp, n_inv, blen, R, m_mont
<1> HIDE DEF turn, at
<1> QED BY <1>7, <1>8, <1>9, <1>10

LEMMA ModexpConsttimePower ==
  ASSUME NEW N, NEW m, NEW e, NEW n, Modulus(N, n),
         m \in Nat, m < Power(Base, N), e \in Nat, e < Power(Base, N)
  PROVE  modexp_consttime(N, m, e, n) = Power(m, e) % n
PROOF
<1> DEFINE n_inv == compute_n_inv(n)
           bits  == N * LimbBits
           turn  == [k \in 1 .. bits |-> [x \in Nat \X Nat |->
                       LadderTurn(N, x, bit(e, bits - k), n, n_inv)]]
           start == <<compute_R_mod_n(N, n), mont_mul(N, m, compute_R2_mod_n(N, n), n, n_inv)>>
           low(k) == High(e, bits - k)
           at(k) == <<Mont(N, n, Power(m, low(k))), Mont(N, n, Power(m, low(k) + 1))>>
           I == {<<k, at(k)>> : k \in 0 .. bits}
<1>1. N \in Nat /\ bits \in Nat /\ bits = LimbBits * N
  BY BaseType DEF Modulus
<1>2. High(e, bits) = 0
  <2>1. e < Power(2, bits)
    BY <1>1, BaseTwo
  <2> HIDE DEF bits
  <2> QED BY <1>1, <2>1, HighSmall
<1>3. start = <<Mont(N, n, 1), Mont(N, n, m)>>
  BY ToMont, MontOne
<1> HIDE DEF bits, n_inv, start
<1>4. <<0, start>> \in I
  <2>1. bits - 0 = bits /\ Power(m, 0) = 1 /\ Power(m, 0 + 1) = m * Power(m, 0) /\ m * 1 = m
    BY <1>1, PowerZero, PowerNext
  <2>2. at(0) = start
    BY <1>2, <1>3, <2>1
  <2> HIDE DEF at
  <2> QED BY <1>1, <2>2
<1>5. ASSUME NEW k \in 1 .. bits, NEW x, <<k - 1, x>> \in I
      PROVE  <<k, turn[k][x]>> \in I
  <2> DEFINE i == bits - k
             b == bit(e, i)
             h == High(e, i + 1)
             p == Power(m, h)
             q == Power(m, h + 1)
  <2>1. i \in Nat /\ i + 1 = bits - (k - 1) /\ k \in 0 .. bits
    BY <1>1
  <2>2. x = at(k - 1)
    <3> HIDE DEF at
    <3> QED BY <1>5
  <2>3. x = <<Mont(N, n, p), Mont(N, n, q)>>
    BY <2>1, <2>2
  <2>4. /\ h \in Nat /\ p \in Nat /\ q = p * m
        /\ b = 1 => Power(m, High(e, i)) = (p * p) * m
        /\ b # 1 => b = 0 /\ Power(m, High(e, i)) = p * p
    <3>1. /\ h \in Nat /\ p \in Nat /\ q = p * m
          /\ bit(e, i) = 1 => Power(m, High(e, i)) = (p * p) * m
          /\ bit(e, i) # 1 => bit(e, i) = 0 /\ Power(m, High(e, i)) = p * p
      <4>1. BitStep(m, e, i)
        BY <2>1, PowerBit
      <4> HIDE DEF i
      <4> QED BY <4>1 DEF BitStep
    <3> QED BY <3>1
  <2>5. High(e, i) \in Nat /\ Power(m, High(e, i) + 1) = m * Power(m, High(e, i))
    BY <2>1, HighType, PowerNext
  <2> HIDE DEF p, h, b, q, i
  <2>6. q \in Nat
    BY <2>4
  <2>7. x \in Nat \X Nat
    BY <2>3, <2>4, <2>6, MontType
  <2>8. turn[k][x] = LadderTurn(N, x, b, n, n_inv)
    BY <2>7 DEF b, i
  <2>9. /\ mont_mul(N, Mont(N, n, p), Mont(N, n, p), n, n_inv) = Mont(N, n, p * p)
        /\ mont_mul(N, Mont(N, n, p), Mont(N, n, q), n, n_inv) = Mont(N, n, p * q)
        /\ mont_mul(N, Mont(N, n, q), Mont(N, n, q), n, n_inv) = Mont(N, n, q * q)
        /\ mont_mul(N, Mont(N, n, q), Mont(N, n, p), n, n_inv) = Mont(N, n, q * p)
    BY <2>4, <2>6, MontTimes DEF n_inv
  <2>10. CASE b = 1
    <3>1. turn[k][x] = <<Mont(N, n, q * p), Mont(N, n, q * q)>>
      BY <2>3, <2>8, <2>9, <2>10 DEF LadderTurn, Products, const_time_swap
    <3>2. q * p = (p * p) * m /\ q * q = m * ((p * p) * m)
      BY <2>4
    <3>3. turn[k][x] = at(k)
      <4> HIDE DEF turn
      <4> QED BY <2>4, <2>5, <2>10, <3>1, <3>2 DEF i
    <3> HIDE DEF turn, at
    <3> QED BY <2>1, <3>3
  <2>11. CASE b # 1
    <3>1. turn[k][x] = <<Mont(N, n, p * p), Mont(N, n, p * q)>>
      BY <2>3, <2>8, <2>9, <2>4, <2>11 DEF LadderTurn, Products, const_time_swap
    <3>2. p * q = m * (p * p)
      BY <2>4
    <3>3. turn[k][x] = at(k)
      <4> HIDE DEF turn
      <4> QED BY <2>4, <2>5, <2>11, <3>1, <3>2 DEF i
    <3> HIDE DEF turn, at
    <3> QED BY <2>1, <3>3
  <2> QED BY <2>10, <2>11
<1>6. <<bits, Loop(bits, start, turn)>> \in I
  <2> HIDE DEF turn, I
  <2> QED BY <1>1, <1>4, <1>5, LoopInvariant
<1>7. Loop(bits, start, turn) = at(bits)
  <2> HIDE DEF turn, at
  <2> QED BY <1>6
<1>8. at(bits)[1] = Mont(N, n, Power(m, e))
  <2>1. bits - bits = 0 /\ High(e, 0) = e
    BY <1>1, HighNone
  <2> QED BY <2>1
<1>9. mont_mul(N, Mont(N, n, Power(m, e)), 1, n, n_inv) = Power(m, e) % n
  BY PowerType, FromMont DEF n_inv
<1>10. modexp_consttime(N, m, e, n) = mont_mul(N, Loop(bits, start, turn)[1], 1, n, n_inv)
  BY DEF modexp_consttime, n_inv, bits, start
<1> HIDE DEF turn, at
<1> QED BY <1>7, <1>8, <1>9, <1>10

-----------------------------------------------------------------------------
(* Powers modulo n, by halving.                                            *)

\* One turn of PowMod, from h, with or without the base.
Squared(h, b, k, n) == (((h * h) % n) * (IF k % 2 = 1 THEN b % n ELSE 1)) % n

Halving(f, b, e, n) ==
  f = [k \in 0 .. e |-> IF k = 0 THEN 1 % n ELSE Squared(f[k \div 2], b, k, n)]

LEMMA PowModIs ==
  ASSUME NEW b, NEW e, NEW n
  PROVE  PowMod(b, e, n) = (CHOOSE f : Halving(f, b, e, n))[e]
BY DEF PowMod, Halving, Squared

LEMMA RestsProduct ==
  ASSUME NEW x \in Int, NEW y \in Int, NEW u \in Int, NEW v \in Int, NEW n \in Nat \ {0},
         Congruent(x, u, n), Congruent(y, v, n)
  PROVE  /\ Congruent((x * y) % n, u * v, n)
         /\ (x * y) % n = (u * v) % n
PROOF
<1> DEFINE a == x * y
           c == u * v
<1>1. a \in Int /\ c \in Int
  OBVIOUS
<1>2. Congruent(a, c, n)
  BY CongruentProduct
<1> HIDE DEF a, c
<1>3. a % n = c % n
  BY <1>2 DEF Congruent
<1>4. Congruent(c % n, c, n)
  BY <1>1, CongruentRest
<1> QED BY <1>3, <1>4 DEF a, c

\* The base, for an odd exponent.
Factor(b, k) == IF k % 2 = 1 THEN b ELSE 1

\* A turn of PowMod takes p modulo n to p squared, with or without b, modulo n.
TurnRight(p, b, k, n) == Squared(p % n, b, k, n) = ((p * p) * Factor(b, k)) % n

LEMMA TurnIsRight ==
  ASSUME NEW p, NEW b, NEW k, NEW n, p \in Nat, b \in Nat, k \in Nat, n \in Nat \ {0}
  PROVE  TurnRight(p, b, k, n)
PROOF
<1> DEFINE h  == p % n
           hh == (h * h) % n
           pp == p * p
           x  == IF k % 2 = 1 THEN b % n ELSE 1
           y  == Factor(b, k)
<1>0. p \in Int
  OBVIOUS
<1>1. h \in Int /\ p \in Int /\ Congruent(h, p, n)
  <2>1. h \in Int
    BY <1>0
  <2>2. Congruent(h, p, n)
    BY <1>0, CongruentRest, Zenon
  <2> QED BY <1>0, <2>1, <2>2
<1> HIDE DEF h
<1>2. Congruent(hh, pp, n)
  BY <1>1, RestsProduct
<1>3. hh \in Int /\ pp \in Int
  <2> DEFINE z == h * h
  <2>1. z \in Int
    BY <1>1
  <2> HIDE DEF z
  <2>2. z % n \in Int
    BY <2>1, Division
  <2> QED BY <2>2 DEF z
<1>4. x \in Int /\ y \in Int /\ Congruent(x, y, n)
  <2> DEFINE one == 1
  <2>0. one \in Int
    OBVIOUS
  <2> HIDE DEF one
  <2>4. b \in Int
    OBVIOUS
  <2>5. Congruent(b % n, b, n)
    BY <2>4, CongruentRest, Zenon
  <2>1. Congruent(one, one, n) /\ b % n \in Int /\ b \in Int /\ Congruent(b % n, b, n)
    BY <2>0, <2>4, <2>5, CongruentSelf
  <2>2. CASE k % 2 = 1
    BY <2>1, <2>2 DEF Factor
  <2>3. CASE k % 2 # 1
    BY <2>1, <2>3 DEF one, Factor
  <2> QED BY <2>2, <2>3
<1> HIDE DEF hh, pp, x, y
<1>5. (hh * x) % n = (pp * y) % n
  BY <1>2, <1>3, <1>4, RestsProduct
<1> QED BY <1>5 DEF TurnRight, Squared, hh, pp, x, y, h

LEMMA PowerHalf ==
  ASSUME NEW b \in Nat, NEW k \in Nat, k # 0
  PROVE  /\ k \div 2 \in Nat /\ k \div 2 < k /\ k \div 2 <= k
         /\ Power(b, k) = (Power(b, k \div 2) * Power(b, k \div 2)) * Factor(b, k)
PROOF
<1> DEFINE j == k \div 2
           p == Power(b, j)
<1>1. j \in Nat /\ j < k /\ k = IF k % 2 = 1 THEN j + j + 1 ELSE j + j
  OBVIOUS
<1> HIDE DEF j
<1>2. p \in Nat /\ j + j \in Nat /\ Power(b, j + j) = p * p
  BY <1>1, PowerType, PowerSum
<1>3. Power(b, j + j + 1) = b * Power(b, j + j)
  BY <1>2, PowerNext
<1> HIDE DEF p
<1>4. b * (p * p) = (p * p) * b /\ (p * p) * 1 = p * p
  BY <1>2
<1>5. CASE k % 2 = 1
  <2>1. k = j + j + 1
    BY <1>1, <1>5
  <2>2. Power(b, k) = (p * p) * b
    BY <1>2, <1>3, <1>4, <2>1
  <2> QED BY <1>5, <2>2 DEF p, j, Factor
<1>6. CASE k % 2 # 1
  <2>1. k = j + j
    BY <1>1, <1>6
  <2>2. Power(b, k) = (p * p) * 1
    BY <1>2, <1>4, <2>1
  <2> QED BY <1>6, <2>2 DEF p, j, Factor
<1> QED BY <1>1, <1>5, <1>6 DEF j

LEMMA PowModRight ==
  ASSUME NEW b \in Nat, NEW e \in Nat, NEW n \in Nat \ {0}
  PROVE  PowMod(b, e, n) = Power(b, e) % n
PROOF
<1> DEFINE g == [k \in 0 .. e |-> Power(b, k) % n]
           f == CHOOSE a : Halving(a, b, e, n)
<1>1. ASSUME NEW k \in 0 .. e, k # 0
      PROVE  k \div 2 \in 0 .. e /\ k \div 2 < k /\ Squared(g[k \div 2], b, k, n) = g[k]
  <2> DEFINE j == k \div 2
             p == Power(b, j)
  <2>1. k \in Nat
    OBVIOUS
  <2>2. /\ j \in Nat /\ j < k /\ j <= k
        /\ Power(b, k) = (p * p) * Factor(b, k)
    BY <1>1, <2>1, PowerHalf
  <2>3. j \in 0 .. e /\ p \in Nat
    <3> HIDE DEF j
    <3> QED BY <2>2, PowerType
  <2>4. g[j] = p % n /\ g[k] = Power(b, k) % n
    BY <2>3, Zenon
  <2> HIDE DEF p, g, j
  <2>5. Squared(g[j], b, k, n) = Power(b, k) % n
    <3>1. p \in Nat /\ k \in Nat /\ b \in Nat /\ n \in Nat \ {0}
      BY <2>1, <2>3
    <3>2. TurnRight(p, b, k, n)
      BY <3>1, TurnIsRight
    <3> QED BY <2>2, <2>4, <3>2 DEF TurnRight
  <2> QED BY <2>2, <2>3, <2>4, <2>5 DEF j
<1>2. 0 \in 0 .. e /\ g[0] = 1 % n
  BY PowerZero
<1>3. Halving(g, b, e, n)
  <2>1. \A k \in 0 .. e : g[k] = IF k = 0 THEN 1 % n ELSE Squared(g[k \div 2], b, k, n)
    <3> HIDE DEF g
    <3> QED BY <1>1, <1>2, Zenon
  <2>2. g = [k \in 0 .. e |-> g[k]]
    OBVIOUS
  <2> HIDE DEF g
  <2>3. g = [k \in 0 .. e |-> IF k = 0 THEN 1 % n ELSE Squared(g[k \div 2], b, k, n)]
    BY <2>1, <2>2, Zenon
  <2> QED BY <2>3 DEF Halving
<1>4. Halving(f, b, e, n)
  <2> HIDE DEF g
  <2> QED BY <1>3
<1> HIDE DEF f
<1>5. \A k \in 0 .. e : f[k] = IF k = 0 THEN 1 % n ELSE Squared(f[k \div 2], b, k, n)
  BY <1>4, Zenon DEF Halving
<1> DEFINE D == {k \in 0 .. e : f[k] # g[k]}
<1>6. D = {}
  <2> SUFFICES ASSUME D # {} PROVE FALSE
    OBVIOUS
  <2>1. D \in SUBSET Nat
    OBVIOUS
  <2>2. PICK k \in D : \A j \in D : k <= j
    <3> HIDE DEF D
    <3> QED BY <2>1, LeastNumber
  <2>3. k \in 0 .. e /\ f[k] # g[k]
    OBVIOUS
  <2>4. k # 0
    <3> HIDE DEF g, D
    <3> QED BY <1>2, <1>5, <2>3
  <2>5. k \div 2 \in 0 .. e /\ k \div 2 < k /\ Squared(g[k \div 2], b, k, n) = g[k]
    <3> HIDE DEF g, D
    <3> QED BY <1>1, <2>3, <2>4
  <2> DEFINE j == k \div 2
  <2>6. j \notin D
    <3>1. j \in 0 .. e /\ j < k
      BY <2>5
    <3> HIDE DEF j, D
    <3> QED BY <2>2, <2>3, <3>1
  <2>7. f[j] = g[j]
    <3> HIDE DEF g, j
    <3> QED BY <2>5, <2>6 DEF j
  <2>8. f[k] = Squared(f[j], b, k, n)
    <3> HIDE DEF g, D
    <3> QED BY <1>5, <2>3, <2>4, Zenon
  <2> HIDE DEF g, D
  <2> QED BY <2>3, <2>5, <2>7, <2>8
<1>7. f[e] = g[e] /\ g[e] = Power(b, e) % n
  <2>1. e \in 0 .. e
    OBVIOUS
  <2>2. f[e] = g[e]
    <3> HIDE DEF f, g
    <3> QED BY <1>6, <2>1
  <2> QED BY <2>1, <2>2
<1> QED BY <1>7, PowModIs DEF f

-----------------------------------------------------------------------------
(* Numbers of 2M limbs.                                                    *)

-----------------------------------------------------------------------------
(* The two halves of an RSA key.                                           *)

LEMMA ReduceRight ==
  ASSUME NEW N, NEW M, NEW src, NEW n, N \in Nat, M \in Nat, src \in Nat, src < Power(Base, N),
         n \in Nat \ {0}, n < Power(Base, M)
  PROVE  reduce_to_M(N, M, src, n) = src % n
PROOF
<1> DEFINE bits == N * LimbBits
           turn == [k \in 1 .. bits |-> [x \in Nat |->
                      LET s == Shifted(M, x, bit(src, bits - k)) IN Reduced(M, s[2], s[1], n)]]
           I == {s \in (0 .. bits) \X Nat : s[2] < n /\ Congruent(s[2], High(src, bits - s[1]), n)}
           X == Loop(bits, 0, turn)
<1>1. bits \in Nat /\ High(src, bits) = 0
  <2>1. bits \in Nat /\ bits = LimbBits * N
    BY BaseType
  <2>2. src < Power(2, bits)
    BY <2>1, BaseTwo
  <2> HIDE DEF bits
  <2> QED BY <2>1, <2>2, HighSmall
<1> HIDE DEF bits
<1>2. <<0, 0>> \in I
  <2>1. bits - 0 = bits
    BY <1>1
  <2>2. Congruent(0, 0, n)
    BY CongruentSelf
  <2> QED BY <1>1, <2>1, <2>2
<1>3. ASSUME NEW k \in 1 .. bits, NEW x, <<k - 1, x>> \in I
      PROVE  <<k, turn[k][x]>> \in I
  <2> DEFINE i == bits - k
             P == Power(Base, M)
             b == bit(src, i)
             h == High(src, i + 1)
             two == 2
             c == two * x
             d == two * h
             y == c + b
             hi == y \div P
             lo == y % P
             r == Reduced(M, hi, lo, n)
  <2>1. i \in Nat /\ i + 1 = bits - (k - 1) /\ x \in Nat /\ x < n /\ Congruent(x, h, n)
    BY <1>1, <1>3
  <2>2. b \in 0 .. 1 /\ High(src, i) = d + b /\ h \in Nat
    BY <2>1, HighNext, HighType
  <2>3. P \in Nat /\ P \in Nat \ {0} /\ n < P /\ x < P
    BY <2>1, BasePos
  <2> HIDE DEF b, h
  <2>4. y \in Nat /\ y \in Int /\ y < 2 * n /\ y <= 2 * n
    BY <2>1, <2>2
  <2>5. Shifted(M, x, b) = <<lo, hi>>
    BY <2>1, <2>2, <2>3, ShiftedRight
  <2>6. turn[k][x] = r
    BY <2>1, <2>5 DEF b
  <2> HIDE DEF P, turn, y
  <2>7. lo \in Nat /\ lo < P /\ hi \in Nat /\ y = hi * P + lo
    <3>1. hi \in Int /\ lo \in 0 .. P - 1 /\ y = P * hi + lo
      BY <2>3, <2>4, Division
    <3>2. hi \in Nat
      BY <2>3, <2>4, NatDivision, Zenon
    <3> HIDE DEF hi, lo
    <3>3. P * hi = hi * P
      BY <2>3, <3>2
    <3> QED BY <2>3, <3>1, <3>2, <3>3
  <2> HIDE DEF lo, hi
  <2>8. r \in 0 .. n /\ r < n /\ Congruent(r, y, n)
    BY <2>3, <2>4, <2>7, ReducedMod DEF P
  <2> HIDE DEF r
  <2>9. Congruent(y, High(src, i), n)
    <3>1. two \in Int /\ x \in Int /\ h \in Int /\ b \in Int /\ c \in Int /\ d \in Int
      BY <2>1, <2>2
    <3> HIDE DEF two
    <3>2. Congruent(two, two, n) /\ Congruent(b, b, n)
      BY <3>1, CongruentSelf
    <3>3. Congruent(c, d, n)
      BY <2>1, <3>1, <3>2, CongruentProduct
    <3> HIDE DEF c, d
    <3>4. Congruent(c + b, d + b, n)
      BY <3>1, <3>2, <3>3, CongruentSum
    <3> QED BY <2>2, <3>4 DEF y, c
  <2>10. Congruent(r, High(src, i), n)
    <3>1. r \in Int /\ High(src, i) \in Int
      BY <2>1, <2>8, HighType
    <3> QED BY <2>4, <2>8, <2>9, <3>1, CongruentChain
  <2> QED BY <2>1, <2>6, <2>8, <2>10
<1>4. <<bits, X>> \in I
  <2> HIDE DEF turn, I
  <2> QED BY <1>1, <1>2, <1>3, LoopInvariant
<1>5. X \in Nat /\ X < n /\ Congruent(X, src, n)
  <2>1. bits - bits = 0 /\ High(src, 0) = src
    BY <1>1, HighNone
  <2> HIDE DEF turn
  <2> QED BY <1>4, <2>1
<1>6. reduce_to_M(N, M, src, n) = X
  BY DEF reduce_to_M, X, turn, bits
<1> HIDE DEF X
<1>7. X \in 0 .. n - 1 /\ src \in Int
  BY <1>5
<1> QED BY <1>5, <1>6, <1>7, CongruentSmall, Zenon

LEMMA ProductRowRight ==
  ASSUME NEW M \in Nat, NEW o \in Nat, NEW x \in Nat, NEW q \in Nat, NEW i \in Nat, i < M,
         o < Power(Base, 2 * M), q < Power(Base, M),
         o + (x * q) * Power(Base, i) < Power(Base, 2 * M)
  PROVE  ProductRow(M, o, x, q, i) = o + (x * q) * Power(Base, i)
PROOF
<1> DEFINE L == 2 * M
           Pi == Power(Base, i)
           w == [k \in 0 .. L - 1 |->
                   Limb(o, k) + (IF k \in i .. i + M - 1 THEN x * Limb(q, k - i) ELSE 0)]
           part(k) == IF k < i THEN 0 ELSE Low(q, k - i)
           sum == [k \in 0 .. L |-> Low(o, k) + (x * part(k)) * Pi]
<1>0. L \in Nat /\ Pi \in Nat /\ i <= L /\ L - i >= M /\ L - i \in Nat
  BY BasePos
<1>1. \A k \in 0 .. L : part(k) \in Nat /\ Low(o, k) \in Nat
  BY LowType
<1>2. \A k \in 0 .. L : sum[k] \in Int
  <2> SUFFICES ASSUME NEW k \in 0 .. L PROVE sum[k] \in Int
    OBVIOUS
  <2>1. part(k) \in Nat /\ Low(o, k) \in Nat
    BY <1>1
  <2> HIDE DEF part
  <2> QED BY <1>0, <2>1
<1>3. sum[0] = 0
  <2>1. part(0) = 0
    <3>1. CASE i = 0
      BY <3>1, LowNone
    <3>2. CASE i # 0
      BY <3>2
    <3> QED BY <3>1, <3>2
  <2>2. Low(o, 0) = 0
    BY LowNone
  <2> HIDE DEF part
  <2> QED BY <1>0, <2>1, <2>2
<1>4. ASSUME NEW k \in 0 .. L - 1
      PROVE  w[k] \in Int /\ sum[k + 1] = sum[k] + w[k] * Power(Base, k)
  <2> DEFINE P == Power(Base, k)
             a == Low(o, k)
             l == Limb(o, k)
             v == part(k)
  <2>0. k \in Nat /\ k \in 0 .. L /\ k + 1 \in 0 .. L
    BY <1>0
  <2>1. P \in Int /\ a \in Int /\ l \in Int /\ v \in Int
    BY <1>1, <2>0, BasePos, LowType, LimbType
  <2>2. Low(o, k + 1) = a + l * P
    BY <2>0, LowNext
  <2>3. sum[k] = a + (x * v) * Pi
    BY <2>0
  <2>4. sum[k + 1] = (a + l * P) + (x * part(k + 1)) * Pi
    BY <2>0, <2>2
  <2>5. CASE k < i
    <3>1. v = 0 /\ part(k + 1) = 0
      <4>1. CASE k + 1 < i
        BY <2>5, <4>1
      <4>2. CASE ~(k + 1 < i)
        <5>1. (k + 1) - i = 0
          BY <2>0, <2>5, <4>2
        <5> QED BY <2>5, <4>2, <5>1, LowNone
      <4> QED BY <4>1, <4>2
    <3>2. w[k] = l
      BY <2>1, <2>5
    <3> HIDE DEF part, sum, w, P, Pi, a, l, v
    <3> QED BY <1>0, <2>1, <2>3, <2>4, <3>1, <3>2 DEF P
  <2>6. CASE ~(k < i)
    <3> DEFINE j == k - i
               z == Limb(q, j)
               Pj == Power(Base, j)
    <3>1. j \in Nat /\ j + i = k /\ k + 1 - i = j + 1 /\ ~(k + 1 < i)
      BY <2>0, <2>6
    <3>2. v = Low(q, j) /\ part(k + 1) = Low(q, j + 1)
      BY <2>6, <3>1
    <3>3. z \in Int /\ Pj \in Int /\ Low(q, j + 1) = Low(q, j) + z * Pj
      BY <3>1, LimbType, BasePos, LowNext
    <3>4. P = Pj * Pi
      <4>1. Base \in Nat
        BY BaseType
      <4> QED BY <3>1, <4>1, PowerSum
    <3>5. w[k] = l + x * z
      <4>1. CASE k \in i .. i + M - 1
        BY <4>1
      <4>2. CASE k \notin i .. i + M - 1
        <5>1. j >= M
          BY <2>0, <2>6, <4>2
        <5>2. Power(Base, M) <= Power(Base, j) /\ Power(Base, M) \in Nat /\ Power(Base, j) \in Nat
          BY <3>1, <5>1, BaseMonotone, BasePos
        <5>3. q < Power(Base, j)
          BY <5>2
        <5>4. z = 0
          BY <3>1, <5>3, LimbAbove
        <5>5. x * z = 0
          BY <5>4
        <5> QED BY <4>2, <5>5
      <4> QED BY <4>1, <4>2
    <3> HIDE DEF part, sum, w, P, Pi, a, l, v, z, Pj, j
    <3>6. \A aa, ll, vv, zz, pp, qq \in Int :
            (aa + ll * (pp * qq)) + (x * (vv + zz * pp)) * qq
              = (aa + (x * vv) * qq) + (ll + x * zz) * (pp * qq)
      OBVIOUS
    <3>7. (a + l * P) + (x * (v + z * Pj)) * Pi = (a + (x * v) * Pi) + (l + x * z) * P
      <4>1. Pi \in Int
        BY <1>0
      <4> QED BY <2>1, <3>3, <3>4, <3>6, <4>1
    <3>8. w[k] \in Int
      BY <2>1, <3>3, <3>5
    <3> QED BY <2>3, <2>4, <3>2, <3>3, <3>5, <3>7, <3>8 DEF P
  <2> QED BY <2>5, <2>6
<1>5. Carried(L, 0, w) = <<sum[L] % Power(Base, L), sum[L] \div Power(Base, L)>>
  <2> HIDE DEF w, sum, L
  <2> QED BY <1>0, <1>2, <1>3, <1>4, CarriedRight
<1> DEFINE res == o + (x * q) * Pi
<1>6. sum[L] = res
  <2>1. q < Power(Base, L - i)
    <3>1. Power(Base, M) <= Power(Base, L - i) /\ Power(Base, M) \in Nat /\ Power(Base, L - i) \in Nat
      BY <1>0, BaseMonotone, BasePos
    <3> QED BY <3>1
  <2>2. Low(q, L - i) = q /\ Low(o, L) = o
    BY <1>0, <2>1, LowWhole
  <2>3. part(L) = q
    BY <1>0, <2>2
  <2> HIDE DEF part
  <2> QED BY <1>0, <2>2, <2>3
<1>7. res % Power(Base, L) = res
  <2> DEFINE P == Power(Base, L)
  <2>1. P \in Nat \ {0} /\ res \in 0 .. P - 1
    <3>1. P \in Nat /\ P >= 1 /\ res < P
      BY <1>0, BasePos
    <3>2. res \in Nat
      <4>1. x * q \in Nat
        OBVIOUS
      <4> HIDE DEF Pi
      <4>2. \A z \in Nat : o + z * Pi \in Nat
        BY <1>0
      <4> QED BY <4>1, <4>2
    <3> HIDE DEF P, res
    <3> QED BY <3>1, <3>2
  <2> HIDE DEF P, res
  <2> QED BY <2>1, SmallMod DEF P
<1> HIDE DEF sum
<1> QED BY <1>5, <1>6, <1>7 DEF ProductRow

-----------------------------------------------------------------------------
(* Garner's formula.                                                       *)

LEMMA Below ==
  ASSUME NEW a \in Nat, NEW b \in Nat, NEW c \in Nat, NEW d \in Nat, a < b, c < d
  PROVE  a * c < b * d
PROOF
<1>1. a * c <= a * d
  OBVIOUS
<1>2. a * d < b * d
  <2>1. d >= 1 /\ a + 1 <= b
    OBVIOUS
  <2>2. (a + 1) * d <= b * d
    BY <2>1
  <2>3. (a + 1) * d = a * d + d
    OBVIOUS
  <2>4. a * d \in Nat /\ b * d \in Nat
    OBVIOUS
  <2> QED BY <2>1, <2>2, <2>3, <2>4
<1>3. a * c \in Nat /\ a * d \in Nat /\ b * d \in Nat
  OBVIOUS
<1> QED BY <1>1, <1>2, <1>3

LEMMA DoublePower ==
  ASSUME NEW M, M \in Nat
  PROVE  2 * M \in Nat /\ Power(Base, 2 * M) = Power(Base, M) * Power(Base, M)
PROOF
<1>1. 2 * M = M + M /\ Base \in Nat
  BY BaseType
<1> QED BY <1>1, PowerSum

LEMMA ProductRight ==
  ASSUME NEW M, NEW h, NEW q, M \in Nat, h \in Nat, q \in Nat, h < Power(Base, M), q < Power(Base, M)
  PROVE  Product(M, h, q) = h * q
PROOF
<1> DEFINE turn == [k \in 1 .. M |-> [o \in Nat |-> ProductRow(M, o, Limb(h, k - 1), q, k - 1)]]
           at(k) == Low(h, k) * q
           I == {<<k, at(k)>> : k \in 0 .. M}
<1>1. <<0, 0>> \in I
  <2>1. at(0) = 0
    BY LowNone
  <2> HIDE DEF at
  <2> QED BY <2>1
<1>2. ASSUME NEW k \in 1 .. M, NEW o, <<k - 1, o>> \in I
      PROVE  <<k, turn[k][o]>> \in I
  <2> DEFINE i == k - 1
             P == Power(Base, M)
             Pi == Power(Base, i)
             a == Low(h, i)
             x == Limb(h, i)
  <2>1. i \in Nat /\ i < M /\ i + 1 = k /\ k \in Nat /\ k <= M /\ k \in 0 .. M
    OBVIOUS
  <2>2. o = a * q
    <3>1. o = at(k - 1)
      <4> HIDE DEF at
      <4> QED BY <1>2
    <3> QED BY <3>1
  <2>3. a \in Nat /\ x \in Nat /\ Pi \in Nat /\ P \in Nat
    BY <2>1, LowType, LimbType, BasePos
  <2>4. Low(h, k) = a + x * Pi /\ Low(h, k) \in Nat /\ Low(h, k) < P
    <3>1. Power(Base, k) <= P /\ Power(Base, k) \in Nat /\ Low(h, k) < Power(Base, k) /\ Low(h, k) \in Nat
      BY <2>1, BaseMonotone, BasePos, LowType
    <3>2. Low(h, k) = a + x * Pi
      BY <2>1, LowNext
    <3> QED BY <2>3, <3>1, <3>2
  <2> HIDE DEF a, x, Pi
  <2>5. Power(Base, 2 * M) = P * P
    BY DoublePower
  <2>6. at(k) \in Nat /\ at(k) < P * P
    <3>1. q < P
      OBVIOUS
    <3> HIDE DEF P
    <3> QED BY <2>3, <2>4, <3>1, Below
  <2>7. at(k) = o + (x * q) * Pi
    <3>1. (a + x * Pi) * q = a * q + (x * q) * Pi
      BY <2>3
    <3> QED BY <2>2, <2>4, <3>1
  <2>8. o \in Nat /\ o < P * P
    <3>1. a * q \in Nat
      BY <2>3
    <3>2. (x * q) * Pi \in Nat
      <4>1. x * q \in Nat
        BY <2>3
      <4>2. \A z \in Nat : z * Pi \in Nat
        BY <2>3
      <4> QED BY <4>1, <4>2
    <3>3. P * P \in Nat
      BY <2>3
    <3> HIDE DEF at
    <3> QED BY <2>2, <2>6, <2>7, <3>1, <3>2, <3>3
  <2>9. ProductRow(M, o, x, q, i) = o + (x * q) * Pi
    <3>1. o + (x * q) * Power(Base, i) < Power(Base, 2 * M) /\ o < Power(Base, 2 * M)
      <4> HIDE DEF at, P
      <4> QED BY <2>5, <2>6, <2>7, <2>8 DEF Pi
    <3> QED BY <2>1, <2>3, <2>8, <3>1, ProductRowRight, SMTT(30) DEF Pi
  <2>10. turn[k][o] = at(k)
    <3>1. turn[k][o] = ProductRow(M, o, x, q, i)
      BY <2>8 DEF x
    <3> HIDE DEF turn, at
    <3> QED BY <2>7, <2>9, <3>1
  <2> HIDE DEF turn, at
  <2> QED BY <2>1, <2>10
<1>3. <<M, Loop(M, 0, turn)>> \in I
  <2> HIDE DEF turn, I
  <2> QED BY <1>1, <1>2, LoopInvariant
<1>4. Loop(M, 0, turn) = at(M)
  <2> HIDE DEF turn, at
  <2> QED BY <1>3
<1>5. at(M) = h * q
  BY LowWhole
<1> QED BY <1>4, <1>5 DEF Product

\* The difference is right unless m2 exceeds m1 by more than p: then Base^M too much.
LEMMA CrtDiffRight ==
  ASSUME NEW M \in Nat, NEW m1 \in Nat, NEW m2 \in Nat, NEW p \in Nat \ {0},
         m1 < p, p < Power(Base, M), m2 < Power(Base, M)
  PROVE  /\ CrtDiff(M, m1, m2, p) \in Nat /\ CrtDiff(M, m1, m2, p) < Power(Base, M)
         /\ m2 <= m1 + p => Congruent(CrtDiff(M, m1, m2, p), m1 - m2, p)
         /\ m2 > m1 + p => Congruent(CrtDiff(M, m1, m2, p), (m1 - m2) + Power(Base, M), p)
PROOF
<1> DEFINE P == Power(Base, M)
           D == CrtDiff(M, m1, m2, p)
<1>1. P \in Nat /\ P \in Nat \ {0} /\ m1 < P
  BY BasePos
<1>2. cmp(M, m1, m2) >= 0 <=> m1 >= m2
  BY <1>1, CmpRight
<1>3. sub(M, m1, m2) = (m1 - m2) % P /\ sub(M, m2, m1) = (m2 - m1) % P
  BY <1>1, SubRight
<1>4. p < P /\ m2 < P
  OBVIOUS
<1>5. CASE m1 >= m2
  <2> DEFINE z == m1 - m2
  <2>1. z \in 0 .. P - 1 /\ z \in Int
    BY <1>1, <1>4, <1>5
  <2> HIDE DEF P
  <2>2. D = z % P
    BY <1>2, <1>3, <1>5 DEF CrtDiff
  <2> HIDE DEF z, D
  <2>3. D = z
    BY <1>1, <2>1, <2>2, SmallMod
  <2>4. Congruent(z, z, p)
    BY <2>1, CongruentSelf
  <2>5. m2 <= m1 + p /\ ~(m2 > m1 + p)
    BY <1>5
  <2>6. D \in Nat /\ D < P /\ Congruent(D, z, p)
    BY <1>1, <2>1, <2>3, <2>4
  <2> QED BY <2>5, <2>6 DEF z, D, P
<1>6. CASE ~(m1 >= m2)
  <2> DEFINE v == m2 - m1
             z == p - v
             y == m1 - m2
  <2>1. v \in 0 .. P - 1 /\ v \in Nat /\ v < P /\ z \in Int /\ y \in Int /\ z = p + y
    BY <1>1, <1>4, <1>6
  <2> HIDE DEF P
  <2>2. v % P = v
    BY <1>1, <2>1, SmallMod
  <2>3. D = sub(M, p, v)
    BY <1>2, <1>3, <1>6, <2>2 DEF CrtDiff
  <2>4. sub(M, p, v) = z % P
    BY <1>4, <2>1, SubRight DEF P
  <2>5. Congruent(z, y, p)
    <3>1. z = y + 1 * p
      BY <2>1
    <3> HIDE DEF z, y
    <3>2. \E m \in Int : z = y + m * p
      BY <2>1, <3>1
    <3> QED BY <2>1, <3>2, CongruentIs
  <2>6. CASE m2 <= m1 + p
    <3>1. z \in 0 .. P - 1
      <4>1. v <= p
        BY <2>6
      <4> HIDE DEF v
      <4> QED BY <1>1, <1>4, <2>1, <4>1
    <3> HIDE DEF z, y, D
    <3>2. D = z
      BY <1>1, <2>3, <2>4, <3>1, SmallMod
    <3>3. D \in Nat /\ D < P
      BY <1>1, <3>1, <3>2
    <3> QED BY <2>5, <2>6, <3>2, <3>3 DEF D, P, y
  <2>7. CASE ~(m2 <= m1 + p)
    <3> DEFINE r == z + P
               q == -1
    <3>1. r \in 0 .. P - 1 /\ r \in Int /\ q \in Int /\ z = P * q + r
      BY <1>1, <1>4, <2>1, <2>7
    <3> HIDE DEF z, y, D, q
    <3>2. D = r
      <4> HIDE DEF r
      <4> QED BY <1>1, <2>1, <2>3, <2>4, <3>1, DivisionIs
    <3>3. Congruent(r, y + P, p)
      <4>1. P \in Int
        BY <1>1
      <4>2. Congruent(P, P, p)
        BY <4>1, CongruentSelf
      <4> QED BY <2>1, <2>5, <4>1, <4>2, CongruentSum
    <3>4. D \in Nat /\ D < P
      <4> HIDE DEF r
      <4> QED BY <1>1, <3>1, <3>2
    <3> QED BY <2>7, <3>2, <3>3, <3>4 DEF D, P, y
  <2> QED BY <2>6, <2>7
<1> QED BY <1>5, <1>6

\* Garner's formula on the two residues.
LEMMA GarnerRight ==
  ASSUME NEW M, NEW m1, NEW m2, NEW p, NEW q, NEW qi,
         Modulus(M, p), Modulus(M, q), m1 \in Nat, m1 < p, m2 \in Nat, m2 < q,
         qi \in Nat, qi < Power(Base, M)
  PROVE  /\ CrtDiff(M, m1, m2, p) \in Nat
         /\ Garner(M, m1, m2, p, q, qi) = m2 + ((CrtDiff(M, m1, m2, p) * qi) % p) * q
         /\ Garner(M, m1, m2, p, q, qi) \in Nat
         /\ Garner(M, m1, m2, p, q, qi) < p * q
PROOF
<1> DEFINE P == Power(Base, M)
           D == CrtDiff(M, m1, m2, p)
           pi == compute_n_inv(p)
           R2 == compute_R2_mod_n(M, p)
           h == (D * qi) % p
<1>1. /\ M \in Nat /\ P \in Nat /\ p \in Nat \ {0} /\ p < P /\ q \in Nat \ {0} /\ q < P
      /\ m2 < P /\ p \in Nat /\ q \in Nat
  BY BasePos DEF Modulus
<1>2. D \in Nat /\ D < P
  BY <1>1, CrtDiffRight
<1> HIDE DEF D
<1>3. mont_mul(M, D, R2, p, pi) = Mont(M, p, D) /\ mont_mul(M, qi, R2, p, pi) = Mont(M, p, qi)
  BY <1>2, ToMont
<1>4. mont_mul(M, Mont(M, p, D), Mont(M, p, qi), p, pi) = Mont(M, p, D * qi)
  BY <1>2, MontTimes
<1>5. D * qi \in Nat
  BY <1>2
<1>6. mont_mul(M, Mont(M, p, D * qi), 1, p, pi) = h
  BY <1>5, FromMont
<1>7. h \in Nat /\ h < p
  <2> DEFINE z == D * qi
  <2>1. z \in Int
    BY <1>5
  <2> HIDE DEF z
  <2>2. z % p \in 0 .. p - 1
    BY <1>1, <2>1, Division
  <2> QED BY <1>1, <2>2 DEF z
<1>8. Garner(M, m1, m2, p, q, qi) = add(2 * M, m2, Product(M, h, q))
  <2>1. mont_mul(M, mont_mul(M, mont_mul(M, D, R2, p, pi), mont_mul(M, qi, R2, p, pi), p, pi), 1, p, pi) = h
    BY <1>3, <1>4, <1>6
  <2> HIDE DEF h, pi, R2
  <2> QED BY <2>1, Zenon DEF Garner, D, pi, R2
<1> HIDE DEF h
<1>9. Product(M, h, q) = h * q
  <2>1. h < P
    BY <1>1, <1>7
  <2> QED BY <1>1, <1>7, <2>1, ProductRight
<1> DEFINE hq == h * q
           r == m2 + hq
<1>10. hq \in Nat /\ r \in Nat /\ r < p * q
  <2>1. hq \in Nat
    BY <1>1, <1>7
  <2>2. hq + q <= p * q
    <3>1. (h + 1) * q <= p * q
      BY <1>1, <1>7
    <3>2. (h + 1) * q = h * q + q
      BY <1>1, <1>7
    <3> QED BY <3>1, <3>2
  <2>3. p * q \in Nat
    BY <1>1
  <2> HIDE DEF hq
  <2> QED BY <1>1, <2>1, <2>2, <2>3
<1>11. p * q < P * P /\ Power(Base, 2 * M) = P * P /\ 2 * M \in Nat /\ P * P \in Nat /\ p * q \in Nat
  <2>1. Power(Base, 2 * M) = P * P /\ 2 * M \in Nat
    BY <1>1, DoublePower
  <2> HIDE DEF P
  <2>2. p * q < P * P
    BY <1>1, Below
  <2> QED BY <1>1, <2>1, <2>2
<1> HIDE DEF hq
<1>12. add(2 * M, m2, hq) = r
  <2> DEFINE PP == P * P
             L == 2 * M
             pq == p * q
  <2>1. /\ PP \in Nat /\ pq \in Nat /\ pq < PP /\ Power(Base, L) = PP /\ L \in Nat
        /\ r \in Nat /\ r < pq /\ hq \in Nat /\ m2 \in Nat /\ r = m2 + hq
    BY <1>10, <1>11
  <2> HIDE DEF PP, L, pq, r
  <2>2. m2 < PP /\ hq < PP /\ r \in 0 .. PP - 1 /\ PP \in Nat \ {0}
    BY <2>1
  <2>3. add(L, m2, hq) = (m2 + hq) % Power(Base, L)
    BY <2>1, <2>2, AddRight
  <2>4. r % PP = r
    BY <2>2, SmallMod
  <2> QED BY <2>1, <2>3, <2>4 DEF L
<1> QED BY <1>2, <1>8, <1>9, <1>10, <1>12 DEF hq, h, D

-----------------------------------------------------------------------------
(* Residues modulo two primes.                                             *)

\* Two residues that agree modulo both primes are the same.
LEMMA CrtUnique ==
  ASSUME NEW p, NEW q, NEW qi, NEW x, NEW y, p \in Nat \ {0}, q \in Nat \ {0}, qi \in Nat,
         (q * qi) % p = 1, x \in Nat, y \in Nat, x < p * q, y < p * q,
         Congruent(x, y, p), Congruent(x, y, q)
  PROVE  x = y
PROOF
<1>1. x \in Int /\ y \in Int /\ p \in Int /\ q \in Int /\ qi \in Int
  OBVIOUS
<1> p \in Nat \ {0} /\ q \in Nat \ {0}
  OBVIOUS
<1>2. PICK s \in Int : x = y + s * p
  <2>1. Congruent(x, y, p) /\ p \in Nat \ {0}
    OBVIOUS
  <2>2. \A n \in Nat \ {0} : Congruent(x, y, n) => \E f \in Int : x = y + f * n
    BY <1>1, CongruentBy
  <2> QED BY <2>1, <2>2
<1>3. PICK t \in Int : x = y + t * q
  <2>1. Congruent(x, y, q) /\ q \in Nat \ {0}
    OBVIOUS
  <2>2. \A n \in Nat \ {0} : Congruent(x, y, n) => \E f \in Int : x = y + f * n
    BY <1>1, CongruentBy
  <2> QED BY <2>1, <2>2
<1>4. PICK k \in Int : q * qi = 1 + k * p
  <2> DEFINE z == q * qi
             one == 1
  <2>1. z \in Int /\ z % p = one
    BY <1>1
  <2> HIDE DEF z
  <2>2. z = p * (z \div p) + (z % p) /\ z \div p \in Int
    BY <2>1, Division
  <2> DEFINE j == z \div p
  <2> HIDE DEF j
  <2>3. z = 1 + j * p /\ j \in Int
    BY <2>1, <2>2, <1>1 DEF j
  <2> QED BY <2>3 DEF z
<1> DEFINE w == s * qi - t * k
<1>5. t = p * w
  <2>1. t * q = s * p
    <3> DEFINE a == t * q
               b == s * p
    <3>1. a \in Int /\ b \in Int /\ x = y + a /\ x = y + b
      BY <1>1, <1>2, <1>3
    <3> HIDE DEF a, b
    <3>2. a = b
      BY <1>1, <3>1
    <3> QED BY <3>2 DEF a, b
  <2>2. (t * q) * qi = t * (q * qi)
    BY <1>1
  <2>3. t * (1 + k * p) = t + t * k * p
    BY <1>1
  <2>4. (s * p) * qi = t + t * k * p
    BY <1>4, <2>1, <2>2, <2>3
  <2>5. (s * p) * qi = p * (s * qi) /\ t * k * p = p * (t * k)
    BY <1>1
  <2>6. p * (s * qi - t * k) = p * (s * qi) - p * (t * k)
    BY <1>1
  <2> DEFINE a == p * (s * qi)
             b == p * (t * k)
  <2>7. a \in Int /\ b \in Int
    BY <1>1
  <2>8. a = t + b /\ p * w = a - b
    BY <2>4, <2>5, <2>6
  <2> HIDE DEF a, b, w
  <2> QED BY <2>7, <2>8
<1>6. w \in Int
  BY <1>1
<1> HIDE DEF w
<1> DEFINE pq == p * q
<1>7. x = y + w * pq /\ pq \in Nat /\ x < pq /\ y < pq
  <2>1. (p * w) * q = w * (p * q)
    BY <1>1, <1>6
  <2> QED BY <1>1, <1>3, <1>5, <2>1
<1> HIDE DEF pq
<1>8. w = 0
  <2>1. w >= 1 => w * pq >= pq
    BY <1>6, <1>7
  <2>2. w <= -1 => w * pq <= -pq
    BY <1>6, <1>7
  <2>3. w * pq \in Int
    BY <1>6, <1>7
  <2> DEFINE v == w * pq
  <2> HIDE DEF v
  <2>4. (w >= 1 => v >= pq) /\ (w <= -1 => v <= -pq) /\ v \in Int /\ x = y + v
    BY <1>7, <2>1, <2>2, <2>3 DEF v
  <2> QED BY <1>1, <1>6, <1>7, <2>4
<1>9. w * pq = 0
  BY <1>7, <1>8
<1> QED BY <1>1, <1>7, <1>9

\* What Garner's formula comes to modulo p, if D stands for v there.
LEMMA GarnerModP ==
  ASSUME NEW p, NEW q, NEW qi, NEW D, NEW v, NEW m2, p \in Nat \ {0}, q \in Nat, qi \in Nat, D \in Nat,
         v \in Int, m2 \in Nat, (q * qi) % p = 1, Congruent(D, v, p)
  PROVE  Congruent(m2 + ((D * qi) % p) * q, m2 + v, p)
PROOF
<1> DEFINE z == D * qi
           h == z % p
           qq == q * qi
           one == 1
           hq == h * q
           zq == z * q
           dd == D * qq
           d1 == D * one
<1>1. z \in Int /\ qq \in Int /\ one \in Int /\ q \in Int /\ D \in Int /\ m2 \in Int
  OBVIOUS
<1>2. zq = dd /\ d1 = D
  OBVIOUS
<1>3. qq % p = one
  OBVIOUS
<1> HIDE DEF z, qq, one
<1>4. h \in Int /\ Congruent(h, z, p)
  <2>1. h \in Int
    BY <1>1, Division
  <2>2. Congruent(z % p, z, p)
    BY <1>1, CongruentRest, Zenon
  <2> QED BY <2>1, <2>2
<1>5. Congruent(qq, one, p)
  <2>1. Congruent(qq, qq % p, p)
    BY <1>1, CongruentRest, Zenon
  <2> QED BY <1>3, <2>1
<1> HIDE DEF h
<1>6. hq \in Int /\ zq \in Int /\ dd \in Int /\ d1 \in Int
  BY <1>1, <1>4
<1>7. Congruent(hq, zq, p)
  <2>1. Congruent(q, q, p)
    BY <1>1, CongruentSelf
  <2> QED BY <1>1, <1>4, <2>1, CongruentProduct
<1>8. Congruent(dd, d1, p)
  <2>1. Congruent(D, D, p)
    BY <1>1, CongruentSelf
  <2> QED BY <1>1, <1>5, <2>1, CongruentProduct
<1> HIDE DEF hq, zq, dd, d1
<1>9. Congruent(hq, d1, p)
  BY <1>2, <1>6, <1>7, <1>8, CongruentChain
<1>10. Congruent(hq, v, p)
  BY <1>1, <1>2, <1>6, <1>9, CongruentChain
<1>11. Congruent(m2 + hq, m2 + v, p)
  <2>1. Congruent(m2, m2, p)
    BY <1>1, CongruentSelf
  <2> QED BY <1>1, <1>6, <1>10, <2>1, CongruentSum
<1> QED BY <1>11 DEF hq, h, z

\* What one half of the key is asked for: the power e of I modulo p.
HalfJob(M, I, e, p) ==
  Modulus(M, p) /\ I \in Nat /\ I < Power(Base, 2 * M) /\ e \in Nat /\ e < Power(Base, M)

\* One half of the key: the message is reduced, and raised to the half exponent.
LEMMA HalfRight ==
  ASSUME NEW M, NEW I, NEW e, NEW p, HalfJob(M, I, e, p)
  PROVE  /\ modexp_consttime(M, reduce_to_M(2 * M, M, I, p), e, p) = PowMod(I, e, p)
         /\ PowMod(I, e, p) \in Nat /\ PowMod(I, e, p) < p
PROOF
<1> DEFINE c == I % p
           u == Power(I, e)
           v == Power(c, e)
<1> Modulus(M, p) /\ I \in Nat /\ I < Power(Base, 2 * M) /\ e \in Nat /\ e < Power(Base, M)
  BY DEF HalfJob
<1>1. M \in Nat /\ p \in Nat \ {0} /\ p < Power(Base, M) /\ 2 * M \in Nat /\ I \in Int
  BY DEF Modulus
<1>2. reduce_to_M(2 * M, M, I, p) = c
  BY <1>1, ReduceRight
<1>3. c \in Nat /\ c < p
  <2>1. c \in 0 .. p - 1
    BY <1>1, Division
  <2> QED BY <1>1, <2>1
<1>4. Congruent(c, I, p)
  BY <1>1, CongruentRest, Zenon
<1> HIDE DEF c
<1>5. c < Power(Base, M)
  BY <1>1, <1>3, BasePos
<1>6. modexp_consttime(M, c, e, p) = v % p
  BY <1>3, <1>5, ModexpConsttimePower
<1>7. u \in Nat /\ v \in Nat
  BY <1>3, PowerType
<1>8. PowMod(I, e, p) = u % p
  BY <1>1, PowModRight
<1>9. Congruent(v, u, p)
  BY <1>1, <1>3, <1>4, CongruentPower
<1> HIDE DEF u, v
<1>10. v % p = u % p
  BY <1>9 DEF Congruent
<1>11. u % p \in Nat /\ u % p < p
  <2>1. u \in Int
    BY <1>7
  <2>2. u % p \in 0 .. p - 1
    BY <1>1, <2>1, Division
  <2> QED BY <1>1, <2>2
<1> QED BY <1>2, <1>6, <1>8, <1>10, <1>11

\* The power modulo p * q, modulo p.
LEMMA PowModHalf ==
  ASSUME NEW I, NEW d, NEW p, NEW q, I \in Nat, d \in Nat, p \in Nat \ {0}, q \in Nat \ {0}
  PROVE  /\ PowMod(I, d, p * q) \in Nat /\ PowMod(I, d, p * q) < p * q
         /\ Congruent(PowMod(I, d, p * q), PowMod(I, d, p), p)
         /\ Congruent(PowMod(I, d, p * q), PowMod(I, d, q), q)
PROOF
<1> DEFINE n == p * q
           u == Power(I, d)
           y == PowMod(I, d, n)
<1>1. n \in Nat \ {0} /\ n = q * p /\ u \in Nat
  <2>1. \A a, b \in Nat \ {0} : a * b \in Nat \ {0} /\ a * b = b * a
    OBVIOUS
  <2> QED BY <2>1, PowerType
<1>2. u \in Int
  BY <1>1
<1> HIDE DEF n
<1>3. y = u % n /\ PowMod(I, d, p) = u % p /\ PowMod(I, d, q) = u % q
  BY <1>1, PowModRight
<1> HIDE DEF u, y
<1>4. u % n \in 0 .. n - 1 /\ u % p \in Int /\ u % q \in Int
  <2>1. u % n \in 0 .. n - 1
    BY <1>1, <1>2, Division
  <2>2. \A z \in Int, k \in Nat \ {0} : z % k \in Int
    OBVIOUS
  <2> QED BY <1>2, <2>1, <2>2
<1>5. Congruent(u % n, u, n) /\ Congruent(u, u % p, p) /\ Congruent(u, u % q, q)
  <2>1. Congruent(u % n, u, n)
    BY <1>1, <1>2, CongruentRest, Zenon
  <2>2. Congruent(u, u % p, p)
    BY <1>2, CongruentRest, Zenon
  <2>3. Congruent(u, u % q, q)
    BY <1>2, CongruentRest, Zenon
  <2> QED BY <2>1, <2>2, <2>3
<1>6. y \in Nat /\ y < n /\ y \in Int /\ Congruent(y, u, n)
  BY <1>1, <1>3, <1>4, <1>5
<1>7. Congruent(y, u, p) /\ Congruent(y, u, q)
  <2>1. p \in Nat \ {0} /\ q \in Nat \ {0} /\ p \in Int /\ q \in Int
    OBVIOUS
  <2>2. n = p * q
    BY DEF n
  <2>3. \E f \in Int : n = f * q
    BY <2>1, <2>2
  <2>4. \E f \in Int : n = f * p
    BY <1>1, <2>1
  <2>5. Congruent(u % n, u, q)
    BY <1>1, <1>2, <2>1, <2>3, CongruentDivisor, Zenon
  <2>6. Congruent(u % n, u, p)
    BY <1>1, <1>2, <2>1, <2>4, CongruentDivisor, Zenon
  <2> QED BY <1>3, <2>5, <2>6
<1> DEFINE a == PowMod(I, d, p)
           b == PowMod(I, d, q)
<1>8. a \in Int /\ b \in Int /\ Congruent(u, a, p) /\ Congruent(u, b, q)
  BY <1>3, <1>4, <1>5
<1> HIDE DEF a, b
<1>9. Congruent(y, a, p) /\ Congruent(y, b, q)
  BY <1>2, <1>6, <1>7, <1>8, CongruentChain
<1> QED BY <1>6, <1>9 DEF y, n, a, b


\* Both residues of Garner's formula, if the difference it starts from stands for v.
LEMMA GarnerResidues ==
  ASSUME NEW M, NEW m1, NEW m2, NEW p, NEW q, NEW qi, NEW v,
         Modulus(M, p), Modulus(M, q), m1 \in Nat, m1 < p, m2 \in Nat, m2 < q,
         qi \in Nat, qi < Power(Base, M), (q * qi) % p = 1, v \in Int,
         Congruent(CrtDiff(M, m1, m2, p), v, p)
  PROVE  /\ Garner(M, m1, m2, p, q, qi) \in Nat
         /\ Garner(M, m1, m2, p, q, qi) < p * q
         /\ Congruent(Garner(M, m1, m2, p, q, qi), m2 + v, p)
         /\ Congruent(Garner(M, m1, m2, p, q, qi), m2, q)
PROOF
<1> DEFINE D == CrtDiff(M, m1, m2, p)
           x == Garner(M, m1, m2, p, q, qi)
           z == D * qi
           h == z % p
<1>1. p \in Nat \ {0} /\ q \in Nat \ {0} /\ p \in Int /\ q \in Int /\ q \in Nat
  BY DEF Modulus
<1>2. D \in Nat /\ x = m2 + h * q /\ x \in Nat /\ x < p * q
  <2>1. /\ CrtDiff(M, m1, m2, p) \in Nat
        /\ Garner(M, m1, m2, p, q, qi) = m2 + ((CrtDiff(M, m1, m2, p) * qi) % p) * q
        /\ Garner(M, m1, m2, p, q, qi) \in Nat
        /\ Garner(M, m1, m2, p, q, qi) < p * q
    <3> HIDE DEF D, x, z, h
    <3> QED BY GarnerRight
  <2> QED BY <2>1, Zenon
<1>3. Congruent(m2 + h * q, m2 + v, p)
  <2>1. Congruent(D, v, p) /\ (q * qi) % p = 1
    OBVIOUS
  <2> HIDE DEF D
  <2> QED BY <1>1, <1>2, <2>1, GarnerModP, Zenon
<1>4. h \in Int
  <2>1. z \in Int
    BY <1>2
  <2> HIDE DEF z
  <2>2. z % p \in 0 .. p - 1
    BY <1>1, <2>1, Division
  <2> QED BY <1>1, <2>2
<1> HIDE DEF h, D, x
<1>5. Congruent(x, m2, q)
  <2>1. x \in Int /\ m2 \in Int /\ x = m2 + h * q
    BY <1>2
  <2>2. \E f \in Int : x = m2 + f * q
    BY <1>4, <2>1
  <2> QED BY <1>1, <2>1, <2>2, CongruentIs
<1> QED BY <1>2, <1>3, <1>5 DEF x

\* The exponents of the two halves, whose residues rsa_crt_decrypt recombines.
LEMMA CrtIsGarner ==
  ASSUME NEW M, NEW I, NEW p, NEW q, NEW dp, NEW dq, NEW qi,
         HalfJob(M, I, dp, p), HalfJob(M, I, dq, q)
  PROVE  /\ rsa_crt_decrypt(M, I, p, q, dp, dq, qi) = Garner(M, PowMod(I, dp, p), PowMod(I, dq, q), p, q, qi)
         /\ PowMod(I, dp, p) \in Nat /\ PowMod(I, dp, p) < p
         /\ PowMod(I, dq, q) \in Nat /\ PowMod(I, dq, q) < q
PROOF
<1>1. /\ modexp_consttime(M, reduce_to_M(2 * M, M, I, p), dp, p) = PowMod(I, dp, p)
      /\ PowMod(I, dp, p) \in Nat /\ PowMod(I, dp, p) < p
  BY HalfRight, Zenon
<1>2. /\ modexp_consttime(M, reduce_to_M(2 * M, M, I, q), dq, q) = PowMod(I, dq, q)
      /\ PowMod(I, dq, q) \in Nat /\ PowMod(I, dq, q) < q
  BY HalfRight, Zenon
<1>3. rsa_crt_decrypt(M, I, p, q, dp, dq, qi) =
        Garner(M, modexp_consttime(M, reduce_to_M(2 * M, M, I, p), dp, p),
                  modexp_consttime(M, reduce_to_M(2 * M, M, I, q), dq, q), p, q, qi)
  BY Zenon DEF rsa_crt_decrypt
<1> QED BY <1>1, <1>2, <1>3, Zenon

\* A power of the base is not 0 modulo an odd number above 1.
LEMMA BaseNotZero ==
  ASSUME NEW M, NEW p, Modulus(M, p), p > 1, NEW m \in Int
  PROVE  ~Congruent(m + Power(Base, M), m, p)
PROOF
<1> DEFINE P == Power(Base, M)
<1>1. p \in Nat \ {0} /\ p \in Int /\ p \in Nat /\ M \in Nat /\ p % 2 = 1
  BY DEF Modulus
<1>2. P \in Int
  BY <1>1, BasePos
<1>3. PICK U \in Nat : Congruent(P * U, 1, p)
  BY <1>1, BaseInverse
<1> HIDE DEF P
<1> SUFFICES ASSUME Congruent(m + P, m, p) PROVE FALSE
  BY DEF P
<1> DEFINE w == m + P
           zero == 0
           one == 1
           minus == -m
<1>4. minus \in Int /\ w \in Int /\ zero \in Int /\ one \in Int /\ U \in Int /\ minus + w = P /\ minus + m = zero
  BY <1>2
<1>5. Congruent(minus + w, minus + m, p)
  <2>1. Congruent(w, m, p)
    OBVIOUS
  <2> HIDE DEF w, minus
  <2>2. Congruent(minus, minus, p)
    BY <1>1, <1>4, CongruentSelf
  <2> QED BY <1>1, <1>4, <2>1, <2>2, CongruentSum
<1> DEFINE a == P * U
           b == zero * U
<1>6. a \in Int /\ b \in Int /\ b = zero
  BY <1>2
<1>7. Congruent(a, b, p)
  <2> HIDE DEF w, minus, zero
  <2>1. Congruent(P, zero, p)
    BY <1>4, <1>5
  <2>2. Congruent(U, U, p)
    BY <1>1, <1>4, CongruentSelf
  <2> QED BY <1>1, <1>2, <1>4, <2>1, <2>2, CongruentProduct
<1>8. a % p = 0 % p /\ a % p = 1 % p
  BY <1>3, <1>6, <1>7 DEF Congruent
<1>9. 0 % p = 0 /\ 1 % p = 1
  BY <1>1
<1> QED BY <1>8, <1>9


\* What ties a key's half exponents and its inverse to its exponent, for the
\* message I.
Halves(I, d, p, q, dp, dq, qi) ==
  /\ p > 1 /\ (q * qi) % p = 1
  /\ PowMod(I, dp, p) = PowMod(I, d, p) /\ PowMod(I, dq, q) = PowMod(I, d, q)

\* The decryption in two halves yields the power, unless m2 exceeds m1 by more than p.
LEMMA CrtPower ==
  ASSUME NEW M, NEW I, NEW d, NEW p, NEW q, NEW dp, NEW dq, NEW qi,
         Modulus(M, p), Modulus(M, q), I \in Nat, I < Power(Base, 2 * M), d \in Nat,
         dp \in Nat, dp < Power(Base, M), dq \in Nat, dq < Power(Base, M),
         qi \in Nat, qi < Power(Base, M), Halves(I, d, p, q, dp, dq, qi)
  PROVE  rsa_crt_decrypt(M, I, p, q, dp, dq, qi) = PowMod(I, d, p * q)
           <=> ~(PowMod(I, dq, q) > PowMod(I, dp, p) + p)
PROOF
<1> DEFINE m1 == PowMod(I, dp, p)
           m2 == PowMod(I, dq, q)
           x == rsa_crt_decrypt(M, I, p, q, dp, dq, qi)
           y == PowMod(I, d, p * q)
           D == CrtDiff(M, m1, m2, p)
           P == Power(Base, M)
<1>1. /\ p \in Nat \ {0} /\ q \in Nat \ {0} /\ p \in Int /\ q \in Int
      /\ p < P /\ q < P /\ M \in Nat
  BY DEF Modulus
<1>2. x = Garner(M, m1, m2, p, q, qi) /\ m1 \in Nat /\ m1 < p /\ m2 \in Nat /\ m2 < q
  <2>1. /\ rsa_crt_decrypt(M, I, p, q, dp, dq, qi) = Garner(M, PowMod(I, dp, p), PowMod(I, dq, q), p, q, qi)
        /\ PowMod(I, dp, p) \in Nat /\ PowMod(I, dp, p) < p
        /\ PowMod(I, dq, q) \in Nat /\ PowMod(I, dq, q) < q
    <3>1. HalfJob(M, I, dp, p) /\ HalfJob(M, I, dq, q)
      BY DEF HalfJob
    <3> HIDE DEF m1, m2, x, y, D, P
    <3> QED BY <3>1, CrtIsGarner
  <2> QED BY <2>1, Zenon
<1>3. y \in Nat /\ y < p * q /\ Congruent(y, m1, p) /\ Congruent(y, m2, q)
  <2>1. PowMod(I, d, p) = m1 /\ PowMod(I, d, q) = m2
    BY DEF Halves
  <2>2. /\ PowMod(I, d, p * q) \in Nat /\ PowMod(I, d, p * q) < p * q
        /\ Congruent(PowMod(I, d, p * q), PowMod(I, d, p), p)
        /\ Congruent(PowMod(I, d, p * q), PowMod(I, d, q), q)
    BY <1>1, PowModHalf, Zenon
  <2> QED BY <2>1, <2>2, Zenon
<1>4. (q * qi) % p = 1 /\ p > 1
  BY DEF Halves
<1> HIDE DEF m1, m2, x, y, P
<1>5. P \in Nat /\ P \in Int /\ m2 < P
  <2>1. P \in Nat
    BY <1>1, BasePos DEF P
  <2> QED BY <1>1, <1>2, <2>1
<1>6. /\ m2 <= m1 + p => Congruent(D, m1 - m2, p)
      /\ m2 > m1 + p => Congruent(D, (m1 - m2) + P, p)
  <2>1. m1 < p /\ p < Power(Base, M) /\ m2 < Power(Base, M)
    BY <1>1, <1>2, <1>5 DEF P
  <2> HIDE DEF D
  <2> QED BY <1>1, <1>2, <2>1, CrtDiffRight DEF D, P
<1> HIDE DEF D
<1>7. ASSUME NEW v \in Int, Congruent(D, v, p)
      PROVE  /\ x \in Nat /\ x < p * q /\ Congruent(x, m2 + v, p) /\ Congruent(x, m2, q)
  BY <1>2, <1>4, <1>7, GarnerResidues DEF D
<1>8. CASE m2 <= m1 + p
  <2>1. m1 - m2 \in Int /\ m2 + (m1 - m2) = m1
    BY <1>2
  <2>2. x \in Nat /\ x < p * q /\ Congruent(x, m2 + (m1 - m2), p) /\ Congruent(x, m2, q)
    BY <1>6, <1>7, <1>8, <2>1
  <2>3. Congruent(x, m1, p)
    BY <2>1, <2>2
  <2>4. x \in Int /\ y \in Int /\ m1 \in Int /\ m2 \in Int
    BY <1>2, <1>3, <2>2
  <2>5. Congruent(m1, y, p) /\ Congruent(m2, y, q)
    BY <1>1, <1>3, <2>4, CongruentTurned
  <2>6. Congruent(x, y, p) /\ Congruent(x, y, q)
    BY <1>1, <2>2, <2>3, <2>4, <2>5, CongruentChain
  <2>7. x = y
    BY <1>1, <1>3, <1>4, <2>2, <2>6, CrtUnique, Zenon
  <2> QED BY <1>1, <1>2, <1>8, <2>7 DEF x, y, m1, m2
<1>9. CASE m2 > m1 + p
  <2> DEFINE v == (m1 - m2) + P
             w == m1 + P
  <2>1. v \in Int /\ w \in Int /\ m2 + v = w
    BY <1>2, <1>5
  <2>2. Congruent(D, v, p)
    BY <1>6, <1>9
  <2> HIDE DEF v
  <2>3. x \in Nat /\ Congruent(x, m2 + v, p)
    BY <1>7, <2>1, <2>2
  <2>4. x # y
    <3> SUFFICES ASSUME x = y PROVE FALSE
      OBVIOUS
    <3>1. x \in Int /\ y \in Int /\ m1 \in Int /\ Congruent(x, w, p) /\ Congruent(x, m1, p)
      BY <1>2, <1>3, <2>1, <2>3
    <3> HIDE DEF w
    <3>2. Congruent(w, x, p)
      BY <1>1, <2>1, <3>1, CongruentTurned
    <3>3. Congruent(w, m1, p)
      BY <1>1, <2>1, <3>1, <3>2, CongruentChain
    <3>4. ~Congruent(m1 + Power(Base, M), m1, p)
      BY <1>4, <3>1, BaseNotZero
    <3> QED BY <3>3, <3>4 DEF w, P
  <2> QED BY <1>1, <1>2, <1>9, <2>4 DEF x, y, m1, m2
<1> QED BY <1>1, <1>2, <1>8, <1>9
=============================================================================
