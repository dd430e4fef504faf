------------------------------- MODULE BigInt -------------------------------
(***************************************************************************)
(* bigint.hpp: arithmetic on numbers of N limbs, least significant first,  *)
(* with the carries and borrows between limbs that the C++ loops hand on.  *)
(* A limb has LimbBits bits (64 in the code); the code's six Hensel steps  *)
(* are HenselSteps, as many as it takes to double one bit to LimbBits.     *)
(* A number is kept as the natural number its limbs spell: Limb takes a    *)
(* limb out, Carried puts a loop's output limbs together.  N, the template *)
(* parameter, is the first argument.                                       *)
(***************************************************************************)
EXTENDS Integers, FiniteSetsExt

CONSTANTS LimbBits, HenselSteps

\* A loop of so many turns, numbered from 1: turn[k] takes the value that the
\* loop works on through turn k.
Loop(turns, start, turn) ==
  LET x[k \in 0 .. turns] == IF k = 0 THEN start ELSE turn[k][x[k - 1]]
  IN  x[turns]

Power(b, k) == Loop(k, 1, [i \in 1 .. k |-> [x \in Nat |-> b * x]])

ASSUME LimbAssumption ==
  HenselSteps \in Nat /\ LimbBits = Power(2, HenselSteps)

Base == Power(2, LimbBits)

Limb(x, i) == (x \div Power(Base, i)) % Base

\* A loop over N limbs that hands on a carry, c at first: what comes to w[i] in
\* limb i leaves its lowest limb there.  The number, and the carry or, below 0,
\* the borrow that is left.
Carried(N, c, w) ==
  Loop(N, <<0, c>>, [k \in 1 .. N |-> [s \in Nat \X Int |->
    LET v == w[k - 1] + s[2]
    IN  <<s[1] + (v % Base) * Power(Base, k - 1), v \div Base>>]])

\* b^e modulo n, by halving e: what the algorithms below, and libcrypto, compute.
PowMod(b, e, n) ==
  LET f[k \in 0 .. e] ==
        IF k = 0 THEN 1 % n
        ELSE LET h == f[k \div 2]
             IN  (((h * h) % n) * (IF k % 2 = 1 THEN b % n ELSE 1)) % n
  IN  f[e]

bit(x, i) == (Limb(x, i \div LimbBits) \div Power(2, i % LimbBits)) % 2

bitlen(N, x) == Max({0} \cup {i + 1 : i \in {j \in 0 .. N * LimbBits - 1 : bit(x, j) = 1}})

\* The topmost limb in which a and b differ decides.
cmp(N, a, b) ==
  LET differ == {i \in 0 .. N - 1 : Limb(a, i) # Limb(b, i)}
      top    == Max(differ)
  IN  IF differ = {} THEN 0 ELSE IF Limb(a, top) < Limb(b, top) THEN -1 ELSE 1

\* The carry out of the topmost limb is lost, as by every caller.
add(N, a, b) == Carried(N, 0, [i \in 0 .. N - 1 |-> Limb(a, i) + Limb(b, i)])[1]

\* Mutant: no limb passes a borrow on.
MutSub(N, a, b) ==
  Carried(N, 0, [i \in 0 .. N - 1 |-> (Limb(a, i) - Limb(b, i)) % Base])[1]

sub(N, a, b) == Carried(N, 0, [i \in 0 .. N - 1 |-> Limb(a, i) - Limb(b, i)])[1]

\* t + x * y, for a limb x, y of N limbs and t of N + 2.
AddRow(N, t, x, y) ==
  Carried(N + 2, 0, [j \in 0 .. N + 1 |->
    Limb(t, j) + (IF j < N THEN x * Limb(y, j) ELSE 0)])[1]

\* One limb of a Montgomery product: add a[i] * b, then the multiple of n
\* that clears the lowest limb, which is shifted out.
MontRow(N, t, ai, b, n, n_inv) ==
  LET s == AddRow(N, t, ai, b)
  IN  (AddRow(N, s, (Limb(s, 0) * n_inv) % Base, n) \div Base) % Power(Base, N + 1)

\* Mutant: what is above the topmost limb is not looked at.
MutAtLeast(N, high, x, n) == cmp(N, x, n) >= 0

\* x, with the limb or bit above it, is not below n.
AtLeast(N, high, x, n) == high # 0 \/ cmp(N, x, n) >= 0

Reduced(N, high, x, n) == IF AtLeast(N, high, x, n) THEN sub(N, x, n) ELSE x

\* a * b / Base^N modulo n.
mont_mul(N, a, b, n, n_inv) ==
  LET t == Loop(N, 0, [i \in 1 .. N |-> [s \in Nat |->
             MontRow(N, s, Limb(a, i - 1), b, n, n_inv)]])
  IN  Reduced(N, Limb(t, N), t % Power(Base, N), n)

\* -1/n modulo Base, for odd n: every step doubles the number of good bits.
compute_n_inv(n) ==
  LET hensel == [x \in Nat |-> (x * ((2 - Limb(n, 0) * x) % Base)) % Base]
  IN  (0 - Loop(HenselSteps, 1, [k \in 1 .. HenselSteps |-> hensel])) % Base

\* x shifted left by a bit, with b coming in; and the bit that goes out.
Shifted(N, x, b) == Carried(N, b, [i \in 0 .. N - 1 |-> 2 * Limb(x, i)])

\* One turn of the loops below: n is subtracted at most twice.
Doubled(N, x, n) ==
  LET s == Shifted(N, x, 0)
  IN  Reduced(N, 0, Reduced(N, s[2], s[1], n), n)

PowerOfTwo(N, steps, n) ==
  Loop(steps, 1, [k \in 1 .. steps |-> [x \in Nat |-> Doubled(N, x, n)]])

compute_R_mod_n(N, n)  == PowerOfTwo(N, N * LimbBits, n)
compute_R2_mod_n(N, n) == PowerOfTwo(N, 2 * N * LimbBits, n)

const_time_swap(r, cond) == IF cond = 1 THEN <<r[2], r[1]>> ELSE r

\* The ladder's two products, of a pair that has been swapped or not.
Products(N, s, n, n_inv) ==
  <<mont_mul(N, s[1], s[1], n, n_inv), mont_mul(N, s[1], s[2], n, n_inv)>>

\* Mutant: the swap after the two products is missing.
MutLadderTurn(N, r, b, n, n_inv) == Products(N, const_time_swap(r, b), n, n_inv)

LadderTurn(N, r, b, n, n_inv) ==
  const_time_swap(Products(N, const_time_swap(r, b), n, n_inv), b)

\* The powering ladder, from the top bit of e down.
modexp_consttime(N, m, e, n) ==
  LET n_inv == compute_n_inv(n)
      bits  == N * LimbBits
      turn  == [k \in 1 .. bits |-> [x \in Nat \X Nat |->
                  LadderTurn(N, x, bit(e, bits - k), n, n_inv)]]
      start == <<compute_R_mod_n(N, n), mont_mul(N, m, compute_R2_mod_n(N, n), n, n_inv)>>
  IN  mont_mul(N, Loop(bits, start, turn)[1], 1, n, n_inv)

\* Square and multiply, from the top set bit of e down.
modexp(N, m, e, n) ==
  LET n_inv  == compute_n_inv(n)
      m_mont == mont_mul(N, m, compute_R2_mod_n(N, n), n, n_inv)
      blen   == bitlen(N, e)
      turn   == [k \in 1 .. blen |-> [x \in Nat |->
                   LET sq == mont_mul(N, x, x, n, n_inv)
                   IN  IF bit(e, blen - k) = 1 THEN mont_mul(N, sq, m_mont, n, n_inv) ELSE sq]]
  IN  mont_mul(N, Loop(blen, compute_R_mod_n(N, n), turn), 1, n, n_inv)

\* src, of N limbs, modulo n, of M limbs, bit by bit from the top.
reduce_to_M(N, M, src, n) ==
  LET bits == N * LimbBits
  IN  Loop(bits, 0, [k \in 1 .. bits |-> [x \in Nat |->
        LET s == Shifted(M, x, bit(src, bits - k)) IN Reduced(M, s[2], s[1], n)]])

\* Mutant: p is not added to a negative difference.
MutCrtDiff(M, m1, m2, p) == sub(M, m1, m2)

\* m1 - m2 modulo p, if m2 - m1 is at most p.
CrtDiff(M, m1, m2, p) ==
  IF cmp(M, m1, m2) >= 0 THEN sub(M, m1, m2) ELSE sub(M, p, sub(M, m2, m1))

\* o, of 2M limbs, and x times q, of M limbs, from limb i up.  The limb above,
\* which the carry goes to, is still 0.
ProductRow(M, o, x, q, i) ==
  Carried(2 * M, 0, [k \in 0 .. 2 * M - 1 |->
    Limb(o, k) + (IF k \in i .. i + M - 1 THEN x * Limb(q, k - i) ELSE 0)])[1]

\* The product of h and q, row by row.
Product(M, h, q) ==
  Loop(M, 0, [k \in 1 .. M |-> [o \in Nat |-> ProductRow(M, o, Limb(h, k - 1), q, k - 1)]])

\* Garner's recombination of the two residues.
Garner(M, m1, m2, p, q, qInv) ==
  LET p_inv == compute_n_inv(p)
      R2    == compute_R2_mod_n(M, p)
      d     == mont_mul(M, CrtDiff(M, m1, m2, p), R2, p, p_inv)
      h     == mont_mul(M, mont_mul(M, d, mont_mul(M, qInv, R2, p, p_inv), p, p_inv), 1, p, p_inv)
  IN  add(2 * M, m2, Product(M, h, q))

\* c^d modulo p * q.
rsa_crt_decrypt(M, c, p, q, dp, dq, qInv) ==
  Garner(M, modexp_consttime(M, reduce_to_M(2 * M, M, c, p), dp, p),
            modexp_consttime(M, reduce_to_M(2 * M, M, c, q), dq, q), p, q, qInv)
=============================================================================
