---------------------------- MODULE Crypto_proofs ----------------------------
(***************************************************************************)
(* The users of bigint.hpp and sha1.hpp, for every size of limb and block  *)
(* and every input.                                                        *)
(*                                                                         *)
(* RSA_ModExp_1024: its state is what square and multiply have made of the *)
(* job that its first Flits flits spelled, in Montgomery form, so that     *)
(* what it emits is the power (ElemInv).                                   *)
(*                                                                         *)
(* The engine: nothing is locked, but a thread keeps its answer to itself  *)
(* until it returns, so every answer is what its hook computed (RightInv). *)
(*                                                                         *)
(* SHA-1: the bytes compressed so far and those in the buffer are, in this *)
(* order, the message so far (ShaInv).                                     *)
(***************************************************************************)
EXTENDS BigInt_proofs, SslEngine, RsaElement, Sha1, SequenceTheorems

-----------------------------------------------------------------------------
(* The element: its flits, and what it keeps of a job.                     *)

-----------------------------------------------------------------------------
(* RSA_ModExp_1024.                                                        *)

States == {"COLLECT", "INIT", "FIND_BIT", "SQUARE", "MAYBE_MUL", "NEXT_BIT", "FINAL", "EMIT"}

\* What flit i of an operand is worth.
FlitPower(i) == Power(FlitBase, i)

\* The jobs answered in full.
Answered == Len(outs) \div Flits

ElemTypeOK ==
  /\ feed \in Seq(Job)
  /\ fed \in [Ports -> Nat]
  /\ input \in [Ports -> Nat \cup {Empty}]
  /\ st \in [state : States, idx : [Ports -> 0 .. Flits], out_idx : 0 .. Flits - 1,
             bit_idx : Int, buf : [Ports -> Nat], c_buf : Nat,
             m_mont : Nat, r_mont : Nat, n_inv : Nat]
  /\ outs \in Seq([data : Nat, sop : BOOLEAN, eop : BOOLEAN])

\* What has been read from a port is what has been taken since the last answer,
\* and the flit that waits there.
PortInv(p) ==
  /\ fed[p] = Flits * Answered + st.idx[p] + (IF input[p] = Empty THEN 0 ELSE 1)
  /\ fed[p] <= Flits * Len(feed)
  /\ input[p] # Empty => input[p] = FlitOf(p, fed[p] - 1)

\* The flits taken are those of the job that is not yet answered.
BufInv(p) ==
  /\ st.buf[p] < FlitPower(Flits)
  /\ st.idx[p] > 0 =>
       Rem(st.buf[p], FlitPower(st.idx[p])) = Rem(feed[Answered + 1][p], FlitPower(st.idx[p]))

\* An operand is left alone until the answer is out.
OutInv ==
  /\ Len(outs) = Flits * Answered + st.out_idx
  /\ st.state # "COLLECT" => \A p \in Ports : st.idx[p] = Flits
  /\ st.state # "EMIT" => st.out_idx = 0

Form(k) == Mont(LIMBS, st.buf[3], PowMod(st.buf[1], k, st.buf[3]))

\* What the states hand on.
StateInv ==
  /\ st.state \notin {"COLLECT", "INIT"} =>
       /\ st.n_inv = compute_n_inv(st.buf[3])
       /\ st.m_mont = Mont(LIMBS, st.buf[3], st.buf[1])
  /\ st.state = "FIND_BIT" => st.r_mont = Mont(LIMBS, st.buf[3], 1)
  /\ st.state \in {"SQUARE", "MAYBE_MUL", "NEXT_BIT"} => st.bit_idx \in Nat
  /\ st.state = "SQUARE" => st.r_mont = Form(High(st.buf[2], st.bit_idx + 1))
  /\ st.state = "MAYBE_MUL" => st.r_mont = Form(2 * High(st.buf[2], st.bit_idx + 1))
  /\ st.state = "NEXT_BIT" => st.r_mont = Form(High(st.buf[2], st.bit_idx))
  /\ st.state = "FINAL" => st.r_mont = Form(st.buf[2])
  /\ st.state = "EMIT" => st.c_buf = PowMod(st.buf[1], st.buf[2], st.buf[3])

ElemInv ==
  /\ ElemTypeOK
  /\ \A p \in Ports : PortInv(p) /\ BufInv(p)
  /\ OutInv
  /\ StateInv
  /\ ElementRight

-----------------------------------------------------------------------------
(* Operands and their flits.                                               *)

LEMMA FlitsType ==
  /\ Flits \in Nat \ {0} /\ LimbsPerFlit \in Nat \ {0} /\ LIMBS \in Nat
  /\ FlitBase \in Nat \ {0}
  /\ Power(FlitBase, Flits) = Power(Base, LIMBS)
PROOF
<1>1. Flits \in Nat \ {0} /\ LimbsPerFlit \in Nat \ {0} /\ LIMBS = LimbsPerFlit * Flits
  BY FlitAssumption DEF LIMBS
<1>2. LIMBS \in Nat /\ Flits \in Nat /\ LimbsPerFlit \in Nat /\ Base \in Nat
  BY <1>1, BaseType
<1>3. FlitBase \in Nat \ {0}
  BY <1>2, BasePos DEF FlitBase
<1>4. Power(Power(Base, LimbsPerFlit), Flits) = Power(Base, LimbsPerFlit * Flits)
  BY <1>2, PowerPower
<1> QED BY <1>1, <1>2, <1>3, <1>4 DEF FlitBase

LEMMA FlitPowerType ==
  ASSUME NEW i, i \in Nat
  PROVE  /\ FlitPower(i) \in Nat /\ FlitPower(i) >= 1
         /\ FlitPower(i + 1) = FlitBase * FlitPower(i)
PROOF
<1>1. FlitBase \in Nat /\ FlitBase \in Nat \ {0}
  BY FlitsType
<1> QED BY <1>1, PowerPos, PowerNext DEF FlitPower

LEMMA SliceRight ==
  ASSUME NEW u, NEW i, u \in Nat, i \in Nat
  PROVE  /\ Slice(u, i) \in Nat /\ Slice(u, i) < FlitBase
         /\ Rem(u, FlitPower(i)) \in Nat /\ Rem(u, FlitPower(i)) < FlitPower(i)
         /\ Rem(u, FlitPower(i + 1)) = Rem(u, FlitPower(i)) + Slice(u, i) * FlitPower(i)
PROOF
<1> DEFINE P == FlitPower(i)
           B == FlitBase
           Q == FlitPower(i + 1)
           z == Quot(u, P)
<1>1. P \in Nat \ {0} /\ B \in Nat \ {0} /\ Q = B * P /\ Q \in Nat \ {0}
  <2>1. i + 1 \in Nat
    OBVIOUS
  <2> QED BY <2>1, FlitPowerType, FlitsType
<1>2. u \in Int
  OBVIOUS
<1> HIDE DEF P, B, Q
<1>3. u % P \in 0 .. P - 1 /\ z \in Int
  BY <1>1, <1>2, Division DEF Quot
<1> HIDE DEF z
<1>4. z % B \in 0 .. B - 1
  BY <1>1, <1>3, Division
<1>5. Rem(u, Q) = Rem(u, P) + Rem(z, B) * P
  BY <1>1, <1>2, OfProduct DEF z
<1>6. Slice(u, i) = Rem(z, B)
  BY Zenon DEF Slice, z, Rem, Quot, P, B, FlitPower
<1>7. Rem(z, B) \in Nat /\ Rem(z, B) < B /\ Rem(u, P) \in Nat /\ Rem(u, P) < P
  BY <1>1, <1>3, <1>4 DEF Rem
<1> QED BY <1>5, <1>6, <1>7 DEF P, B, Q

LEMMA RemNone == ASSUME NEW u, u \in Nat PROVE Rem(u, FlitPower(0)) = 0
PROOF
<1>1. FlitPower(0) = 1
  BY PowerZero DEF FlitPower
<1>2. u % 1 = 0
  OBVIOUS
<1> QED BY <1>1, <1>2 DEF Rem

LEMMA RemWhole ==
  ASSUME NEW u, u \in Nat, u < FlitPower(Flits)
  PROVE  Rem(u, FlitPower(Flits)) = u
PROOF
<1> DEFINE P == FlitPower(Flits)
<1>1. P \in Nat \ {0} /\ u \in 0 .. P - 1
  BY FlitPowerType, FlitsType
<1> HIDE DEF P
<1>2. u % P = u
  BY <1>1, SmallMod
<1> QED BY <1>2 DEF Rem, P

LEMMA SetSliceRight ==
  ASSUME NEW x, NEW i, NEW v, x \in Nat, i \in Nat, i < Flits, v \in Nat, v < FlitBase,
         x < FlitPower(Flits)
  PROVE  /\ SetSlice(x, i, v) \in Nat /\ SetSlice(x, i, v) < FlitPower(Flits)
         /\ Rem(SetSlice(x, i, v), FlitPower(i + 1)) = Rem(x, FlitPower(i)) + v * FlitPower(i)
PROOF
<1> DEFINE P == FlitPower(i)
           B == FlitBase
           Q == FlitPower(i + 1)
           R == FlitPower(Flits - (i + 1))
           s == Slice(x, i)
           a == Rem(x, P)
           k == x \div Q
           r == SetSlice(x, i, v)
<1>1. P \in Nat \ {0} /\ B \in Nat \ {0} /\ Q = B * P /\ Q \in Nat \ {0} /\ R \in Nat \ {0}
  <2>1. i + 1 \in Nat /\ Flits - (i + 1) \in Nat
    BY FlitsType
  <2> QED BY <2>1, FlitPowerType, FlitsType
<1>2. FlitPower(Flits) = Q * R
  <2>1. FlitBase \in Nat /\ i + 1 \in Nat /\ Flits - (i + 1) \in Nat
    BY FlitsType
  <2>2. (i + 1) + (Flits - (i + 1)) = Flits
    BY FlitsType
  <2>3. Power(FlitBase, (i + 1) + (Flits - (i + 1))) = Power(FlitBase, i + 1) * Power(FlitBase, Flits - (i + 1))
    BY <2>1, PowerSum
  <2> QED BY <2>2, <2>3 DEF FlitPower
<1>3. s \in Nat /\ s < B /\ a \in Nat /\ a < P /\ Rem(x, Q) = a + s * P
  BY SliceRight
<1>4. r = x + (v - s) * P
  BY DEF SetSlice, FlitPower
<1> HIDE DEF P, B, Q, R, s, a, r
<1>5. k \in Nat /\ x = Q * k + (a + s * P) /\ v < B /\ v \in Nat
  <2>1. x \in Int /\ x \in Nat
    OBVIOUS
  <2>2. x \div Q \in Nat /\ x = Q * (x \div Q) + (x % Q)
    BY <1>1, <2>1, Division, NatDivision
  <2>3. x % Q = a + s * P
    BY <1>3 DEF Rem
  <2> QED BY <2>2, <2>3 DEF B
<1> HIDE DEF k
<1> DEFINE w == a + v * P
<1>6. w \in Nat /\ w <= Q - 1 /\ r = Q * k + w
  <2>1. r = Q * k + (a + s * P) + (v - s) * P
    BY <1>4, <1>5
  <2>2. (a + s * P) + (v - s) * P = a + v * P
    BY <1>1, <1>3, <1>5
  <2>3. Q * k \in Nat /\ v * P \in Nat /\ s * P \in Nat /\ (v - s) * P \in Int
    BY <1>1, <1>3, <1>5
  <2>4. r = Q * k + w
    BY <1>3, <2>1, <2>2, <2>3
  <2>5. v * P <= (B - 1) * P
    BY <1>1, <1>5
  <2>6. (B - 1) * P = B * P - P
    BY <1>1
  <2> QED BY <1>1, <1>3, <2>3, <2>4, <2>5, <2>6
<1>7. r \in Nat /\ r \in Int /\ Q * k \in Nat
  BY <1>1, <1>5, <1>6
<1> HIDE DEF w
<1>8. r % Q = w
  <2>1. w \in 0 .. Q - 1 /\ k \in Int
    BY <1>1, <1>5, <1>6
  <2> QED BY <1>1, <1>6, <1>7, <2>1, DivisionIs
<1>9. r < Q * R
  <2>1. Q * k < Q * R
    <3>1. x < Q * R
      BY <1>2
    <3>2. s * P \in Nat /\ Q * R \in Nat
      BY <1>1, <1>3
    <3> QED BY <1>3, <1>5, <1>7, <3>1, <3>2
  <2>2. k < R
    <3> SUFFICES ASSUME k >= R PROVE FALSE
      BY <1>1, <1>5
    <3>1. Q * k >= Q * R
      BY <1>1, <1>5
    <3>2. Q * k \in Nat /\ Q * R \in Nat
      BY <1>1, <1>7
    <3> QED BY <2>1, <3>1, <3>2
  <2>3. Q * (k + 1) <= Q * R
    BY <1>1, <1>5, <2>2
  <2>4. Q * (k + 1) = Q * k + Q /\ Q * R \in Nat
    BY <1>1, <1>5
  <2> QED BY <1>1, <1>6, <1>7, <2>3, <2>4
<1> QED BY <1>2, <1>7, <1>8, <1>9 DEF Rem, Q, P, w, r, a

-----------------------------------------------------------------------------
(* Collecting a job.                                                       *)

LEMMA AnsweredType == ASSUME ElemTypeOK PROVE Answered \in Nat /\ Len(outs) \in Nat
PROOF
<1>1. Len(outs) \in Nat /\ Flits \in Nat \ {0}
  BY FlitsType DEF ElemTypeOK
<1> QED BY <1>1, NatDivision DEF Answered

LEMMA JobType ==
  ASSUME ElemTypeOK, NEW j, j \in Nat, j < Len(feed), NEW p, p \in Ports
  PROVE  /\ feed[j + 1] \in Job
         /\ feed[j + 1][p] \in Nat /\ feed[j + 1][p] < FlitPower(Flits)
PROOF
<1>1. feed[j + 1] \in Job
  <2>1. feed \in Seq(Job) /\ j + 1 \in 1 .. Len(feed)
    BY DEF ElemTypeOK
  <2> QED BY <2>1
<1>2. feed[j + 1][p] \in Operand
  BY <1>1 DEF Job, Ports
<1>3. FlitPower(Flits) = Power(Base, LIMBS) /\ FlitPower(Flits) \in Nat
  BY FlitsType, FlitPowerType DEF FlitPower
<1> QED BY <1>1, <1>2, <1>3 DEF Operand

LEMMA FlitOfJob ==
  ASSUME NEW j, NEW i, NEW p, j \in Nat, i \in Nat, i < Flits
  PROVE  FlitOf(p, Flits * j + i) = Slice(feed[j + 1][p], i)
PROOF
<1> DEFINE F == Flits
           k == F * j + i
<1>1. F \in Nat \ {0} /\ k \in Int /\ j \in Int /\ i \in 0 .. F - 1
  BY FlitsType
<1>2. k \div F = j /\ k % F = i
  <2> HIDE DEF F, k
  <2>1. k = F * j + i
    BY DEF k, F
  <2> QED BY <1>1, <2>1, DivisionIs
<1> QED BY <1>2 DEF FlitOf

LEMMA FlitOfType ==
  ASSUME ElemTypeOK, NEW k, NEW p, k \in Nat, k < Flits * Len(feed), p \in Ports
  PROVE  FlitOf(p, k) \in Nat /\ FlitOf(p, k) < FlitBase
PROOF
<1> DEFINE F == Flits
           L == Len(feed)
           j == k \div F
           i == k % F
<1>1. F \in Nat \ {0} /\ L \in Nat /\ k \in Int /\ k < F * L
  BY FlitsType DEF ElemTypeOK
<1> HIDE DEF F, L
<1>2. j \in Nat /\ i \in Nat /\ k = F * j + i
  BY <1>1, Division, NatDivision
<1> HIDE DEF j, i
<1>3. j < L
  <2> SUFFICES ASSUME j >= L PROVE FALSE
    BY <1>1, <1>2
  <2>1. F * j >= F * L /\ F * j \in Nat /\ F * L \in Nat
    BY <1>1, <1>2
  <2> QED BY <1>1, <1>2, <2>1
<1>4. feed[j + 1][p] \in Nat
  BY <1>2, <1>3, JobType DEF L
<1>5. FlitOf(p, k) = Slice(feed[j + 1][p], i)
  BY DEF FlitOf, j, i, F
<1> QED BY <1>2, <1>4, <1>5, SliceRight

\* What holds of a port once it has been read, or not.
ReadInv(h, p) ==
  /\ h[p] \in Nat \cup {Empty}
  /\ fed'[p] \in Nat
  /\ fed'[p] = Flits * Answered + st.idx[p] + (IF h[p] = Empty THEN 0 ELSE 1)
  /\ fed'[p] <= Flits * Len(feed)
  /\ h[p] # Empty => h[p] = FlitOf(p, fed'[p] - 1) /\ h[p] < FlitBase

LEMMA AfterReadRight ==
  ASSUME ElemTypeOK, NEW S, NEW p, p \in Ports, PortInv(p), Iterate(S)
  PROVE  ReadInv(AfterRead(S), p)
PROOF
<1> DEFINE h == AfterRead(S)
           c == Flits * Answered + st.idx[p]
           M == Flits * Len(feed)
<1>0. c \in Nat
  <2>1. Answered \in Nat /\ st.idx[p] \in Nat /\ Flits \in Nat
    BY AnsweredType, FlitsType DEF ElemTypeOK
  <2> QED BY <2>1
<1>1. fed[p] \in Nat /\ input[p] \in Nat \cup {Empty}
  BY DEF ElemTypeOK
<1>2. fed[p] = c + (IF input[p] = Empty THEN 0 ELSE 1) /\ fed[p] <= M
      /\ (input[p] # Empty => input[p] = FlitOf(p, fed[p] - 1))
  BY DEF PortInv
<1>3. M \in Nat
  BY FlitsType DEF ElemTypeOK
<1>4. CASE p \in S
  <2>1. input[p] = Empty /\ fed[p] < M /\ fed'[p] = fed[p] + 1 /\ h[p] = FlitOf(p, fed[p])
    BY <1>4 DEF Iterate, AfterRead
  <2>2. h[p] \in Nat /\ h[p] < FlitBase
    BY <1>1, <2>1, FlitOfType
  <2>3. fed[p] = c
    <3> HIDE DEF c
    <3> QED BY <1>0, <1>2, <2>1
  <2>4. h[p] # Empty
    BY <2>2 DEF Empty
  <2> HIDE DEF h, c, M
  <2>5. fed'[p] - 1 = fed[p] /\ fed'[p] = c + 1 /\ fed'[p] <= M /\ fed'[p] \in Nat
    BY <1>1, <1>3, <2>1, <2>3
  <2>6. fed'[p] = c + (IF h[p] = Empty THEN 0 ELSE 1)
    BY <2>4, <2>5
  <2> QED BY <2>1, <2>2, <2>5, <2>6 DEF ReadInv, h, c, M
<1>5. CASE p \notin S
  <2>1. fed'[p] = fed[p] /\ h[p] = input[p]
    BY <1>5 DEF Iterate, AfterRead
  <2>2. ASSUME h[p] # Empty PROVE h[p] < FlitBase
    <3>1. fed[p] = c + 1
      BY <1>2, <2>1, <2>2
    <3> HIDE DEF c, M
    <3>3. fed[p] - 1 \in Nat /\ fed[p] - 1 < M
      BY <1>0, <1>1, <1>2, <1>3, <3>1
    <3>4. h[p] = FlitOf(p, fed[p] - 1)
      BY <1>2, <2>1, <2>2
    <3> QED BY <3>3, <3>4, FlitOfType DEF M
  <2> HIDE DEF h, c, M
  <2> QED BY <1>1, <1>2, <2>1, <2>2 DEF ReadInv, h, c, M
<1> QED BY <1>4, <1>5

\* A port after Collect.
LEMMA CollectPort ==
  ASSUME ElemTypeOK, NEW S, NEW p, p \in Ports, BufInv(p), Iterate(S), Collect(S),
         ReadInv(AfterRead(S), p)
  PROVE  /\ input'[p] \in Nat \cup {Empty} /\ st'.idx[p] \in 0 .. Flits /\ st'.buf[p] \in Nat
         /\ PortInv(p)' /\ BufInv(p)'
PROOF
<1> DEFINE h == AfterRead(S)
           i == st.idx[p]
           x == st.buf[p]
           c == Flits * Answered
           M == Flits * Len(feed)
<1>1. /\ input'[p] = IF p \in Takes(h) THEN Empty ELSE h[p]
      /\ st'.idx[p] = IF p \in Takes(h) THEN i + 1 ELSE i
      /\ st'.buf[p] = IF p \in Takes(h) THEN SetSlice(x, i, h[p]) ELSE x
  BY DEF Collect, ElemTypeOK
<1>2. outs' = outs /\ Answered' = Answered
  BY DEF Collect, Answered
<1>3. i \in Nat /\ i <= Flits /\ x \in Nat /\ c \in Nat /\ Flits \in Nat /\ M \in Nat
  <2>1. Answered \in Nat /\ Len(feed) \in Nat /\ Flits \in Nat
    BY AnsweredType, FlitsType DEF ElemTypeOK
  <2>2. c \in Nat /\ M \in Nat
    BY <2>1
  <2> QED BY <2>1, <2>2 DEF ElemTypeOK
<1>4. feed' = feed
  BY DEF Iterate
<1>5. /\ h[p] \in Nat \cup {Empty} /\ fed'[p] \in Nat
      /\ fed'[p] = c + i + (IF h[p] = Empty THEN 0 ELSE 1)
      /\ fed'[p] <= M
      /\ h[p] # Empty => h[p] = FlitOf(p, fed'[p] - 1) /\ h[p] < FlitBase
  BY DEF ReadInv
<1>7. x < FlitPower(Flits) /\ (i > 0 => Rem(x, FlitPower(i)) = Rem(feed[Answered + 1][p], FlitPower(i)))
  BY DEF BufInv
<1>8. CASE p \in Takes(h)
  <2> DEFINE v == h[p]
             u == feed[Answered + 1][p]
  <2>1. i < Flits /\ v # Empty /\ v \in Nat /\ v < FlitBase /\ v = FlitOf(p, fed'[p] - 1)
    BY <1>5, <1>8 DEF Takes
  <2>2. input'[p] = Empty /\ st'.idx[p] = i + 1 /\ st'.buf[p] = SetSlice(x, i, v)
    BY <1>1, <1>8
  <2>3. fed'[p] = c + i + 1 /\ fed'[p] - 1 = c + i
    <3> HIDE DEF c, i
    <3> QED BY <1>3, <1>5, <2>1
  <2>4. v = Slice(u, i) /\ u \in Nat
    <3>1. v = Slice(u, i)
      <4>1. FlitOf(p, Flits * Answered + i) = Slice(feed[Answered + 1][p], i)
        BY <1>3, <2>1, AnsweredType, FlitOfJob
      <4> QED BY <2>1, <2>3, <4>1
    <3>2. Answered < Len(feed)
      <4>1. Answered \in Nat /\ Len(feed) \in Nat
        BY AnsweredType DEF ElemTypeOK
      <4>2. c < M
        <5> HIDE DEF c, i, M
        <5> QED BY <1>3, <1>5, <2>3
      <4> HIDE DEF Answered
      <4> SUFFICES ASSUME Answered >= Len(feed) PROVE FALSE
        BY <4>1
      <4>3. Flits * Answered >= Flits * Len(feed)
        BY <1>3, <4>1
      <4> QED BY <1>3, <4>2, <4>3
    <3>3. u \in Nat
      BY <3>2, AnsweredType, JobType
    <3> QED BY <3>1, <3>3
  <2> HIDE DEF u, v, x, i, h
  <2>5. /\ SetSlice(x, i, v) \in Nat /\ SetSlice(x, i, v) < FlitPower(Flits)
        /\ Rem(SetSlice(x, i, v), FlitPower(i + 1)) = Rem(x, FlitPower(i)) + v * FlitPower(i)
    BY <1>3, <1>7, <2>1, SetSliceRight
  <2>6. Rem(u, FlitPower(i + 1)) = Rem(u, FlitPower(i)) + v * FlitPower(i)
    BY <1>3, <2>4, SliceRight
  <2>7. Rem(x, FlitPower(i)) = Rem(u, FlitPower(i))
    <3>1. CASE i = 0
      BY <1>3, <2>4, <3>1, RemNone
    <3>2. CASE i > 0
      BY <1>7, <3>2 DEF u
    <3> QED BY <1>3, <3>1, <3>2
  <2>8. st'.buf[p] \in Nat /\ st'.idx[p] \in 0 .. Flits
    BY <1>3, <2>1, <2>2, <2>5
  <2>9. BufInv(p)'
    <3>1. st'.buf[p] < FlitPower(Flits)
      BY <2>2, <2>5
    <3>2. Rem(st'.buf[p], FlitPower(st'.idx[p])) = Rem(feed'[Answered' + 1][p], FlitPower(st'.idx[p]))
      BY <1>2, <1>4, <2>2, <2>5, <2>6, <2>7 DEF u
    <3> QED BY <3>1, <3>2 DEF BufInv
  <2>10. PortInv(p)'
    <3>1. fed'[p] = Flits * Answered' + st'.idx[p] + 0
      <4> HIDE DEF c
      <4>1. fed'[p] = c + (i + 1) + 0
        BY <1>3, <2>3
      <4> QED BY <1>2, <2>2, <4>1 DEF c
    <3>2. fed'[p] <= Flits * Len(feed')
      BY <1>4, <1>5
    <3> QED BY <2>2, <3>1, <3>2 DEF PortInv
  <2> QED BY <2>2, <2>8, <2>9, <2>10
<1>9. CASE p \notin Takes(h)
  <2>1. input'[p] = h[p] /\ st'.idx[p] = i /\ st'.buf[p] = x
    BY <1>1, <1>9
  <2> HIDE DEF h, i, x
  <2>2. BufInv(p)'
    BY <1>2, <1>4, <1>7, <2>1 DEF BufInv
  <2>3. PortInv(p)'
    <3>1. fed'[p] = Flits * Answered' + st'.idx[p] + (IF input'[p] = Empty THEN 0 ELSE 1)
      BY <1>2, <1>5, <2>1
    <3>2. fed'[p] <= Flits * Len(feed')
      BY <1>4, <1>5
    <3>3. input'[p] # Empty => input'[p] = FlitOf(p, fed[p] - 1)'
      BY <1>4, <1>5, <2>1 DEF FlitOf
    <3> QED BY <3>1, <3>2, <3>3 DEF PortInv
  <2> QED BY <1>3, <1>5, <2>1, <2>2, <2>3
<1> QED BY <1>8, <1>9

\* A port that is read while the element computes.
LEMMA BusyPort ==
  ASSUME ElemTypeOK, NEW S, NEW p, p \in Ports, BufInv(p), Iterate(S), input' = AfterRead(S),
         ReadInv(AfterRead(S), p), st'.idx[p] = st.idx[p], st'.buf[p] = st.buf[p],
         Answered' = Answered
  PROVE  PortInv(p)' /\ BufInv(p)'
PROOF
<1> DEFINE h == AfterRead(S)
<1>1. feed' = feed /\ input'[p] = h[p]
  BY DEF Iterate
<1> HIDE DEF h
<1>2. /\ fed'[p] = Flits * Answered + st.idx[p] + (IF h[p] = Empty THEN 0 ELSE 1)
      /\ fed'[p] <= Flits * Len(feed)
      /\ h[p] # Empty => h[p] = FlitOf(p, fed'[p] - 1)
  BY DEF ReadInv, h
<1>3. input'[p] # Empty => input'[p] = FlitOf(p, fed[p] - 1)'
  BY <1>1, <1>2 DEF FlitOf
<1>4. PortInv(p)'
  BY <1>1, <1>2, <1>3 DEF PortInv
<1>5. BufInv(p)'
  BY <1>1 DEF BufInv
<1> QED BY <1>4, <1>5

\* A port when the last flit of the answer goes out.
LEMMA LastPort ==
  ASSUME ElemTypeOK, NEW S, NEW p, p \in Ports, BufInv(p), Iterate(S), input' = AfterRead(S),
         ReadInv(AfterRead(S), p), st.idx[p] = Flits, st'.idx[p] = 0, st'.buf[p] = st.buf[p],
         Answered' = Answered + 1
  PROVE  PortInv(p)' /\ BufInv(p)'
PROOF
<1> DEFINE h == AfterRead(S)
<1>1. feed' = feed /\ input'[p] = h[p]
  BY DEF Iterate
<1> HIDE DEF h
<1>2. /\ fed'[p] = Flits * Answered + Flits + (IF h[p] = Empty THEN 0 ELSE 1)
      /\ fed'[p] <= Flits * Len(feed)
      /\ h[p] # Empty => h[p] = FlitOf(p, fed'[p] - 1)
  BY DEF ReadInv, h
<1>3. input'[p] # Empty => input'[p] = FlitOf(p, fed[p] - 1)'
  BY <1>1, <1>2 DEF FlitOf
<1>4. Flits * Answered + Flits = Flits * (Answered + 1) + 0
  <2>1. Flits \in Nat /\ Answered \in Nat
    BY FlitsType, AnsweredType
  <2> HIDE DEF Answered
  <2> QED BY <2>1
<1>5. PortInv(p)'
  BY <1>1, <1>2, <1>3, <1>4 DEF PortInv
<1>6. BufInv(p)'
  BY <1>1 DEF BufInv
<1> QED BY <1>5, <1>6

-----------------------------------------------------------------------------
(* The job in Montgomery form.                                             *)

\* The element has its job.
PortsInv == \A p \in Ports : PortInv(p) /\ BufInv(p)

LEMMA JobRight ==
  ASSUME ElemTypeOK, PortsInv, OutInv, st.state # "COLLECT"
  PROVE  /\ Answered < Len(feed)
         /\ \A p \in Ports : st.idx[p] = Flits /\ st.buf[p] = feed[Answered + 1][p]
         /\ Modulus(LIMBS, st.buf[3])
         /\ st.buf[1] \in Nat /\ st.buf[1] < Power(Base, LIMBS)
         /\ st.buf[2] \in Nat /\ st.buf[2] < Power(Base, LIMBS)
PROOF
<1>1. \A p \in Ports : st.idx[p] = Flits
  BY DEF OutInv
<1>2. 1 \in Ports /\ 2 \in Ports /\ 3 \in Ports
  BY DEF Ports
<1>3. Answered \in Nat /\ Len(feed) \in Nat /\ Flits \in Nat \ {0}
  BY AnsweredType, FlitsType DEF ElemTypeOK
<1>4. Answered < Len(feed)
  <2>1. Flits * Answered + Flits + (IF input[1] = Empty THEN 0 ELSE 1) <= Flits * Len(feed)
    BY <1>1, <1>2 DEF PortsInv, PortInv
  <2> HIDE DEF Answered
  <2> SUFFICES ASSUME Answered >= Len(feed) PROVE FALSE
    BY <1>3
  <2>2. Flits * Answered >= Flits * Len(feed) /\ Flits * Answered \in Nat /\ Flits * Len(feed) \in Nat
    BY <1>3
  <2> QED BY <1>3, <2>1, <2>2
<1>5. ASSUME NEW p \in Ports PROVE st.buf[p] = feed[Answered + 1][p]
  <2> DEFINE x == st.buf[p]
             u == feed[Answered + 1][p]
  <2>1. x \in Nat /\ x < FlitPower(Flits) /\ Rem(x, FlitPower(Flits)) = Rem(u, FlitPower(Flits))
    <3>1. x \in Nat
      BY DEF ElemTypeOK
    <3>2. BufInv(p) /\ st.idx[p] = Flits /\ Flits > 0
      BY <1>1, <1>3 DEF PortsInv
    <3> QED BY <3>1, <3>2 DEF BufInv
  <2>2. u \in Nat /\ u < FlitPower(Flits)
    BY <1>3, <1>4, JobType
  <2> HIDE DEF x, u
  <2>3. Rem(x, FlitPower(Flits)) = x /\ Rem(u, FlitPower(Flits)) = u
    BY <2>1, <2>2, RemWhole
  <2> QED BY <2>1, <2>3 DEF x, u
<1>6. feed[Answered + 1] \in Job
  BY <1>2, <1>3, <1>4, JobType
<1>7. /\ st.buf[1] \in Operand /\ st.buf[2] \in Operand
      /\ st.buf[3] \in Operand /\ st.buf[3] % 2 = 1
  BY <1>2, <1>5, <1>6 DEF Job
<1>8. \A n \in Nat : n % 2 = 1 => n # 0
  OBVIOUS
<1>9. LIMBS \in Nat /\ Power(Base, LIMBS) \in Nat
  BY FlitsType, BasePos
<1>10. Modulus(LIMBS, st.buf[3])
  BY <1>7, <1>8, <1>9 DEF Modulus, Operand
<1> QED BY <1>1, <1>4, <1>5, <1>7, <1>9, <1>10 DEF Operand

-----------------------------------------------------------------------------
LEMMA FormPower ==
  ASSUME NEW N, NEW n, NEW m, NEW k, Modulus(N, n), m \in Nat, k \in Nat
  PROVE  /\ Power(m, k) \in Nat
         /\ PowMod(m, k, n) \in Nat
         /\ Mont(N, n, PowMod(m, k, n)) = Mont(N, n, Power(m, k))
PROOF
<1> DEFINE u == Power(m, k)
           r == PowMod(m, k, n)
<1>1. u \in Nat /\ n \in Nat \ {0} /\ N \in Nat
  BY PowerType DEF Modulus
<1>2. r = u % n
  BY <1>1, PowModRight
<1> HIDE DEF u, r
<1>3. r \in Nat /\ Congruent(r, u, n)
  <2>1. u \in Int
    BY <1>1
  <2>2. u % n \in 0 .. n - 1
    BY <1>1, <2>1, Division
  <2>3. Congruent(u % n, u, n)
    BY <1>1, <2>1, CongruentRest, Zenon
  <2> QED BY <1>1, <1>2, <2>2, <2>3
<1>4. Mont(N, n, r) = Mont(N, n, u)
  <2> DEFINE x == Mont(N, n, r)
             P == Power(Base, N)
             a == r * P
             b == u * P
  <2>1. x \in Nat /\ x < n /\ Congruent(x, a, n)
    BY <1>3, MontType
  <2>2. P \in Int /\ r \in Int /\ u \in Int
    BY <1>1, <1>3, BasePos
  <2> HIDE DEF P, x
  <2>3. Congruent(P, P, n)
    BY <1>1, <2>2, CongruentSelf
  <2>4. Congruent(a, b, n)
    BY <1>1, <1>3, <2>2, <2>3, CongruentProduct
  <2>5. a \in Int /\ b \in Int /\ x \in Int
    BY <2>1, <2>2
  <2>6. Congruent(x, b, n)
    <3> HIDE DEF a, b
    <3> QED BY <1>1, <2>1, <2>4, <2>5, CongruentChain
  <2>7. x = Mont(N, n, u)
    BY <1>1, <2>1, <2>6, MontIs DEF P
  <2> QED BY <2>7 DEF x
<1> QED BY <1>1, <1>3, <1>4 DEF u, r

\* The element's products, as steps of the power.
LEMMA FormSteps ==
  ASSUME NEW k, k \in Nat, Modulus(LIMBS, st.buf[3]), st.buf[1] \in Nat,
         st.n_inv = compute_n_inv(st.buf[3])
  PROVE  /\ Form(k) \in Nat
         /\ Times(Form(k), Form(k)) = Form(2 * k)
         /\ Times(Form(k), Mont(LIMBS, st.buf[3], st.buf[1])) = Form(k + 1)
         /\ Times(Form(k), 1) = PowMod(st.buf[1], k, st.buf[3])
PROOF
<1> DEFINE N == LIMBS
           n == st.buf[3]
           m == st.buf[1]
           p == Power(m, k)
<1>1. Modulus(N, n) /\ m \in Nat /\ k \in Nat /\ n \in Nat \ {0}
  BY DEF Modulus
<1> HIDE DEF N, n, m
<1>2. p \in Nat /\ Mont(N, n, PowMod(m, k, n)) = Mont(N, n, p)
  BY <1>1, FormPower
<1>3. Form(k) = Mont(N, n, p)
  BY <1>2 DEF Form, N, n, m
<1>4. Form(2 * k) = Mont(N, n, p * p)
  <2>1. 2 * k \in Nat /\ 2 * k = k + k
    BY <1>1
  <2>2. Mont(N, n, PowMod(m, 2 * k, n)) = Mont(N, n, Power(m, 2 * k))
    BY <1>1, <2>1, FormPower
  <2>3. Power(m, k + k) = p * p
    BY <1>1, PowerSum
  <2> QED BY <2>1, <2>2, <2>3 DEF Form, N, n, m
<1>5. Form(k + 1) = Mont(N, n, p * m)
  <2>1. k + 1 \in Nat
    BY <1>1
  <2>2. Mont(N, n, PowMod(m, k + 1, n)) = Mont(N, n, Power(m, k + 1))
    BY <1>1, <2>1, FormPower
  <2>3. Power(m, k + 1) = m * p
    BY <1>1, PowerNext
  <2>4. m * p = p * m
    BY <1>1, <1>2
  <2> QED BY <2>2, <2>3, <2>4 DEF Form, N, n, m
<1>6. PowMod(m, k, n) = p % n
  BY <1>1, PowModRight
<1> HIDE DEF p
<1>7. \A x, y : Times(x, y) = mont_mul(N, x, y, n, compute_n_inv(n))
  BY DEF Times, N, n
<1>8. /\ mont_mul(N, Mont(N, n, p), Mont(N, n, p), n, compute_n_inv(n)) = Mont(N, n, p * p)
      /\ mont_mul(N, Mont(N, n, p), Mont(N, n, m), n, compute_n_inv(n)) = Mont(N, n, p * m)
      /\ mont_mul(N, Mont(N, n, p), 1, n, compute_n_inv(n)) = p % n
      /\ Mont(N, n, p) \in Nat
  BY <1>1, <1>2, MontTimes, FromMont, MontType
<1> QED BY <1>3, <1>4, <1>5, <1>6, <1>7, <1>8 DEF N, n, m

LEMMA FormStart ==
  ASSUME Modulus(LIMBS, st.buf[3]), st.buf[1] \in Nat
  PROVE  Form(0) = Mont(LIMBS, st.buf[3], 1)
PROOF
<1>1. Power(st.buf[1], 0) = 1
  BY PowerZero
<1> QED BY <1>1, FormPower DEF Form

-----------------------------------------------------------------------------
(* Computing.                                                              *)

\* What a step of the computation leaves alone; the state that it ends in.
Computes(s) ==
  /\ st'.state = s /\ s # "COLLECT" /\ UNCHANGED outs
  /\ st'.out_idx = 0 /\ st'.idx = st.idx /\ st'.buf = st.buf
  /\ st' \in [state : States, idx : [Ports -> 0 .. Flits], out_idx : 0 .. Flits - 1,
              bit_idx : Int, buf : [Ports -> Nat], c_buf : Nat,
              m_mont : Nat, r_mont : Nat, n_inv : Nat]
  /\ StateInv'

\* The facts that the computing states start from.
Ready ==
  /\ Modulus(LIMBS, st.buf[3])
  /\ st.buf[1] \in Nat /\ st.buf[1] < Power(Base, LIMBS)
  /\ st.buf[2] \in Nat /\ st.buf[2] < Power(Base, LIMBS)

LEMMA InitJobRight ==
  ASSUME ElemTypeOK, OutInv, Ready, InitJob
  PROVE  Computes("FIND_BIT")
PROOF
<1> DEFINE N == LIMBS
           n == st.buf[3]
           m == st.buf[1]
           ni == compute_n_inv(n)
           mm == mont_mul(N, m, compute_R2_mod_n(N, n), n, ni)
           rm == compute_R_mod_n(N, n)
<1>1. mm = Mont(N, n, m) /\ rm = Mont(N, n, 1)
  BY ToMont, MontOne DEF Ready
<1>2. ni \in Nat /\ mm \in Nat /\ rm \in Nat
  <2>1. mm \in Nat /\ rm \in Nat
    BY <1>1, MontType DEF Ready
  <2>2. ni \in Nat
    BY InverseRight DEF Ready, Modulus
  <2> QED BY <2>1, <2>2
<1> HIDE DEF ni, mm, rm
<1>3. /\ st.state = "INIT" /\ UNCHANGED outs
      /\ st' = [st EXCEPT !.n_inv = ni, !.m_mont = mm, !.r_mont = rm, !.state = "FIND_BIT"]
  BY DEF InitJob, ni, mm, rm
<1>4. /\ st'.state = "FIND_BIT" /\ st'.out_idx = 0 /\ st'.idx = st.idx /\ st'.buf = st.buf
      /\ st'.n_inv = ni /\ st'.m_mont = mm /\ st'.r_mont = rm
  BY <1>3 DEF ElemTypeOK, OutInv
<1>5. st' \in [state : States, idx : [Ports -> 0 .. Flits], out_idx : 0 .. Flits - 1,
               bit_idx : Int, buf : [Ports -> Nat], c_buf : Nat,
               m_mont : Nat, r_mont : Nat, n_inv : Nat]
  BY <1>2, <1>3 DEF ElemTypeOK, States
<1>6. StateInv'
  BY <1>1, <1>4 DEF StateInv, ni
<1> QED BY <1>3, <1>4, <1>5, <1>6 DEF Computes

LEMMA BitRightState ==
  ASSUME ElemTypeOK, OutInv, Ready, StateInv, NEW b, b \in Int, b >= -1,
         st.state \in {"FIND_BIT", "NEXT_BIT"}, st' = Bit(b), UNCHANGED outs,
         st.r_mont = Form(High(st.buf[2], b + 1))
  PROVE  \E s \in {"FINAL", "SQUARE"} : Computes(s)
PROOF
<1> DEFINE s == IF b < 0 THEN "FINAL" ELSE "SQUARE"
<1>1. st' = [st EXCEPT !.bit_idx = b, !.state = s]
  BY DEF Bit
<1>2. s \in {"FINAL", "SQUARE"}
  OBVIOUS
<1>3. /\ st'.state = s /\ st'.out_idx = 0 /\ st'.idx = st.idx /\ st'.buf = st.buf
      /\ st'.n_inv = st.n_inv /\ st'.m_mont = st.m_mont /\ st'.r_mont = st.r_mont
      /\ st'.bit_idx = b
  BY <1>1 DEF ElemTypeOK, OutInv
<1>4. st' \in [state : States, idx : [Ports -> 0 .. Flits], out_idx : 0 .. Flits - 1,
               bit_idx : Int, buf : [Ports -> Nat], c_buf : Nat,
               m_mont : Nat, r_mont : Nat, n_inv : Nat]
  BY <1>1 DEF ElemTypeOK, States
<1>5. \A k : Form(k)' = Form(k')
  BY <1>3 DEF Form
<1>6. st.n_inv = compute_n_inv(st.buf[3]) /\ st.m_mont = Mont(LIMBS, st.buf[3], st.buf[1])
  BY DEF StateInv
<1>7. StateInv'
  <2>1. CASE b < 0
    <3>1. b + 1 = 0 /\ s = "FINAL"
      BY <2>1
    <3>2. High(st.buf[2], b + 1) = st.buf[2]
      BY <3>1, HighNone DEF Ready
    <3>3. st'.r_mont = Form(st.buf[2])'
      BY <1>3, <3>2 DEF Form
    <3> HIDE DEF s
    <3> QED BY <1>3, <1>6, <3>1, <3>3 DEF StateInv
  <2>2. CASE b >= 0
    <3>1. b \in Nat /\ s = "SQUARE"
      BY <2>2
    <3>2. st'.r_mont = Form(High(st.buf[2], st.bit_idx + 1))'
      BY <1>3 DEF Form
    <3> HIDE DEF s
    <3> QED BY <1>3, <1>6, <3>1, <3>2 DEF StateInv
  <2> QED BY <2>1, <2>2
<1> HIDE DEF s
<1>8. Computes(s)
  BY <1>2, <1>3, <1>4, <1>7 DEF Computes
<1> QED BY <1>2, <1>8

LEMMA FindBitRight ==
  ASSUME ElemTypeOK, OutInv, Ready, StateInv, FindBit
  PROVE  \E s \in {"FINAL", "SQUARE"} : Computes(s)
PROOF
<1> DEFINE L == bitlen(LIMBS, st.buf[2])
           b == L - 1
<1>1. st.state = "FIND_BIT" /\ st' = Bit(b) /\ UNCHANGED outs
  BY DEF FindBit
<1>2. L \in Nat /\ High(st.buf[2], L) = 0
  <2>1. LIMBS * LimbBits \in Nat /\ LIMBS \in Nat
    BY FlitsType, BaseType
  <2> QED BY <2>1, BitlenRight DEF Ready
<1> HIDE DEF L
<1>3. b \in Int /\ b >= -1 /\ b + 1 = L
  BY <1>2
<1>4. st.r_mont = Form(High(st.buf[2], b + 1))
  BY <1>1, <1>2, <1>3, FormStart DEF StateInv, Ready
<1> HIDE DEF b
<1> QED BY <1>1, <1>3, <1>4, BitRightState

LEMMA NextBitRight ==
  ASSUME ElemTypeOK, OutInv, Ready, StateInv, NextBit
  PROVE  \E s \in {"FINAL", "SQUARE"} : Computes(s)
PROOF
<1> DEFINE b == st.bit_idx - 1
<1>1. st.state = "NEXT_BIT" /\ st' = Bit(b) /\ UNCHANGED outs
  BY DEF NextBit
<1>2. st.bit_idx \in Nat
  BY <1>1 DEF StateInv
<1>3. b \in Int /\ b >= -1 /\ b + 1 = st.bit_idx
  BY <1>2
<1>4. st.r_mont = Form(High(st.buf[2], b + 1))
  BY <1>1, <1>3 DEF StateInv
<1> HIDE DEF b
<1> QED BY <1>1, <1>3, <1>4, BitRightState

\* A step that only changes r_mont.
LEMMA StepProductRight ==
  ASSUME ElemTypeOK, OutInv, Ready, StateInv, NEW r, NEW s,
         r \in Nat, s \in {"MAYBE_MUL", "NEXT_BIT"},
         st.state \in {"SQUARE", "MAYBE_MUL"}, UNCHANGED outs,
         st' = [st EXCEPT !.r_mont = r, !.state = s],
         s = "MAYBE_MUL" => r = Form(2 * High(st.buf[2], st.bit_idx + 1)),
         s = "NEXT_BIT" => r = Form(High(st.buf[2], st.bit_idx))
  PROVE  Computes(s)
PROOF
<1>1. /\ st'.state = s /\ st'.out_idx = 0 /\ st'.idx = st.idx /\ st'.buf = st.buf
      /\ st'.n_inv = st.n_inv /\ st'.m_mont = st.m_mont /\ st'.r_mont = r
      /\ st'.bit_idx = st.bit_idx
  BY DEF ElemTypeOK, OutInv
<1>2. st' \in [state : States, idx : [Ports -> 0 .. Flits], out_idx : 0 .. Flits - 1,
               bit_idx : Int, buf : [Ports -> Nat], c_buf : Nat,
               m_mont : Nat, r_mont : Nat, n_inv : Nat]
  BY DEF ElemTypeOK, States
<1>3. /\ st.n_inv = compute_n_inv(st.buf[3]) /\ st.m_mont = Mont(LIMBS, st.buf[3], st.buf[1])
      /\ st.bit_idx \in Nat
  BY DEF StateInv
<1>4. s = "MAYBE_MUL" => st'.r_mont = Form(2 * High(st.buf[2], st.bit_idx + 1))'
  BY <1>1 DEF Form
<1>5. s = "NEXT_BIT" => st'.r_mont = Form(High(st.buf[2], st.bit_idx))'
  BY <1>1 DEF Form
<1>6. StateInv'
  BY <1>1, <1>3, <1>4, <1>5 DEF StateInv
<1> QED BY <1>1, <1>2, <1>6 DEF Computes

LEMMA SquareRight ==
  ASSUME ElemTypeOK, OutInv, Ready, StateInv, Square
  PROVE  Computes("MAYBE_MUL")
PROOF
<1> DEFINE h == High(st.buf[2], st.bit_idx + 1)
           r == Times(st.r_mont, st.r_mont)
<1>1. st.state = "SQUARE" /\ UNCHANGED outs /\ st' = [st EXCEPT !.r_mont = r, !.state = "MAYBE_MUL"]
  BY DEF Square
<1>2. st.bit_idx \in Nat /\ st.r_mont = Form(h) /\ st.n_inv = compute_n_inv(st.buf[3])
  BY <1>1 DEF StateInv
<1>3. h \in Nat /\ 2 * h \in Nat
  <2>1. h \in Nat
    BY <1>2, HighType DEF Ready
  <2> HIDE DEF h
  <2> QED BY <2>1
<1> HIDE DEF h
<1>4. r = Form(2 * h) /\ Form(2 * h) \in Nat
  BY <1>2, <1>3, FormSteps DEF Ready
<1> HIDE DEF r
<1> QED BY <1>1, <1>4, StepProductRight DEF h

LEMMA MaybeMulRight ==
  ASSUME ElemTypeOK, OutInv, Ready, StateInv, MaybeMul
  PROVE  Computes("NEXT_BIT")
PROOF
<1> DEFINE e == st.buf[2]
           b == st.bit_idx
           h == High(e, b + 1)
           r == IF bit(e, b) = 1 THEN Times(st.r_mont, st.m_mont) ELSE st.r_mont
<1>1. st.state = "MAYBE_MUL" /\ UNCHANGED outs /\ st' = [st EXCEPT !.r_mont = r, !.state = "NEXT_BIT"]
  BY DEF MaybeMul
<1>2. /\ b \in Nat /\ st.r_mont = Form(2 * h) /\ st.n_inv = compute_n_inv(st.buf[3])
      /\ st.m_mont = Mont(LIMBS, st.buf[3], st.buf[1])
  BY <1>1 DEF StateInv
<1>3. h \in Nat /\ bit(e, b) \in 0 .. 1 /\ High(e, b) = 2 * h + bit(e, b)
  BY <1>2, HighType, HighNext DEF Ready
<1> HIDE DEF h, e, b
<1>4. 2 * h \in Nat /\ 2 * h + 1 \in Nat /\ 2 * h + 0 = 2 * h
  BY <1>3
<1>5. /\ Form(2 * h) \in Nat /\ Form(2 * h + 1) \in Nat
      /\ Times(Form(2 * h), Mont(LIMBS, st.buf[3], st.buf[1])) = Form(2 * h + 1)
  BY <1>2, <1>4, FormSteps DEF Ready
<1>6. r = Form(High(e, b)) /\ r \in Nat
  <2>1. CASE bit(e, b) = 1
    BY <1>2, <1>3, <1>5, <2>1
  <2>2. CASE bit(e, b) # 1
    <3>1. bit(e, b) = 0
      BY <1>3, <2>2
    <3> QED BY <1>2, <1>3, <1>4, <1>5, <2>2, <3>1
  <2> QED BY <2>1, <2>2
<1> HIDE DEF r
<1> QED BY <1>1, <1>6, StepProductRight DEF e, b

LEMMA FinalRight ==
  ASSUME ElemTypeOK, OutInv, Ready, StateInv, Final
  PROVE  Computes("EMIT")
PROOF
<1> DEFINE r == Times(st.r_mont, 1)
<1>1. st.state = "FINAL" /\ UNCHANGED outs /\ st' = [st EXCEPT !.c_buf = r, !.state = "EMIT"]
  BY DEF Final
<1>2. /\ st.r_mont = Form(st.buf[2]) /\ st.n_inv = compute_n_inv(st.buf[3])
      /\ st.m_mont = Mont(LIMBS, st.buf[3], st.buf[1])
  BY <1>1 DEF StateInv
<1>3. r = PowMod(st.buf[1], st.buf[2], st.buf[3])
  BY <1>2, FormSteps DEF Ready
<1>4. r \in Nat
  BY <1>3, FormPower DEF Ready
<1> HIDE DEF r
<1>5. /\ st'.state = "EMIT" /\ st'.out_idx = 0 /\ st'.idx = st.idx /\ st'.buf = st.buf
      /\ st'.n_inv = st.n_inv /\ st'.m_mont = st.m_mont /\ st'.c_buf = r
  BY <1>1 DEF ElemTypeOK, OutInv
<1>6. st' \in [state : States, idx : [Ports -> 0 .. Flits], out_idx : 0 .. Flits - 1,
               bit_idx : Int, buf : [Ports -> Nat], c_buf : Nat,
               m_mont : Nat, r_mont : Nat, n_inv : Nat]
  BY <1>1, <1>4 DEF ElemTypeOK, States
<1>7. StateInv'
  BY <1>2, <1>3, <1>5 DEF StateInv
<1> QED BY <1>1, <1>5, <1>6, <1>7 DEF Computes

-----------------------------------------------------------------------------
(* The element's steps.                                                    *)

LEMMA ElementRightKept ==
  ASSUME ElementRight, feed' = feed, outs' = outs
  PROVE  ElementRight'
BY DEF ElementRight

LEMMA CollectStep ==
  ASSUME ElemInv, NEW S, Iterate(S), Collect(S)
  PROVE  ElemInv'
PROOF
<1>1. /\ ElemTypeOK /\ OutInv /\ ElementRight
      /\ \A p \in Ports : PortInv(p) /\ BufInv(p)
  BY DEF ElemInv, PortsInv
<1>2. \A p \in Ports : ReadInv(AfterRead(S), p)
  BY <1>1, AfterReadRight
<1>3. \A p \in Ports : /\ input'[p] \in Nat \cup {Empty} /\ st'.idx[p] \in 0 .. Flits
                       /\ st'.buf[p] \in Nat /\ PortInv(p)' /\ BufInv(p)'
  BY <1>1, <1>2, CollectPort
<1> DEFINE h == AfterRead(S)
           i == [p \in Ports |-> IF p \in Takes(h) THEN st.idx[p] + 1 ELSE st.idx[p]]
           b == [p \in Ports |-> IF p \in Takes(h) THEN SetSlice(st.buf[p], st.idx[p], h[p]) ELSE st.buf[p]]
           s == IF Collected(i) THEN "INIT" ELSE st.state
<1>4. /\ st.state = "COLLECT" /\ outs' = outs /\ feed' = feed
      /\ st' = [st EXCEPT !.buf = b, !.idx = i, !.state = s]
      /\ input' = [p \in Ports |-> IF p \in Takes(h) THEN Empty ELSE h[p]]
      /\ fed' = [p \in Ports |-> IF p \in S THEN fed[p] + 1 ELSE fed[p]]
  BY DEF Collect, Iterate
<1>5. s \in {"COLLECT", "INIT"} /\ (s # "COLLECT" => Collected(i))
  BY <1>4
<1>6. b = [p \in Ports |-> b[p]] /\ i = [p \in Ports |-> i[p]]
  OBVIOUS
<1> HIDE DEF h, i, b, s
<1>7. st'.idx = i /\ st'.buf = b /\ st'.state = s /\ st'.out_idx = st.out_idx
  BY <1>1, <1>4 DEF ElemTypeOK
<1>8. i \in [Ports -> 0 .. Flits] /\ b \in [Ports -> Nat]
  BY <1>3, <1>6, <1>7, Zenon
<1>9. ElemTypeOK'
  <2>1. st' \in [state : States, idx : [Ports -> 0 .. Flits], out_idx : 0 .. Flits - 1,
                 bit_idx : Int, buf : [Ports -> Nat], c_buf : Nat,
                 m_mont : Nat, r_mont : Nat, n_inv : Nat]
    BY <1>1, <1>4, <1>5, <1>8 DEF ElemTypeOK, States
  <2>2. input' \in [Ports -> Nat \cup {Empty}]
    BY <1>3, <1>4
  <2>3. fed' \in [Ports -> Nat]
    BY <1>1, <1>4 DEF ElemTypeOK
  <2> QED BY <1>1, <1>4, <2>1, <2>2, <2>3 DEF ElemTypeOK
<1>10. OutInv'
  <2>1. st.out_idx = 0 /\ Len(outs) = Flits * Answered + st.out_idx
    BY <1>1, <1>4 DEF OutInv
  <2>2. Answered' = Answered
    BY <1>4 DEF Answered
  <2> QED BY <1>4, <1>5, <1>7, <2>1, <2>2 DEF OutInv, Collected
<1>11. StateInv'
  BY <1>5, <1>7 DEF StateInv
<1>12. ElementRight'
  BY <1>1, <1>4, ElementRightKept
<1> QED BY <1>3, <1>9, <1>10, <1>11, <1>12 DEF ElemInv, PortsInv

LEMMA ReadType ==
  ASSUME ElemTypeOK, NEW S, Iterate(S), input' = AfterRead(S),
         \A p \in Ports : ReadInv(AfterRead(S), p)
  PROVE  input' \in [Ports -> Nat \cup {Empty}] /\ fed' \in [Ports -> Nat] /\ feed' = feed
PROOF
<1>1. input' = [p \in Ports |-> input'[p]]
  BY DEF AfterRead
<1>2. \A p \in Ports : input'[p] \in Nat \cup {Empty}
  BY DEF ReadInv
<1>3. input' \in [Ports -> Nat \cup {Empty}]
  BY <1>1, <1>2, Zenon
<1>4. fed' \in [Ports -> Nat]
  BY DEF Iterate, ElemTypeOK
<1> QED BY <1>3, <1>4 DEF Iterate

LEMMA ComputeStep ==
  ASSUME ElemInv, NEW S, Iterate(S), input' = AfterRead(S), NEW s, Computes(s),
         st.state \notin {"COLLECT", "EMIT"}
  PROVE  ElemInv'
PROOF
<1>1. /\ ElemTypeOK /\ OutInv /\ ElementRight
      /\ \A p \in Ports : PortInv(p) /\ BufInv(p)
  BY DEF ElemInv, PortsInv
<1>2. \A p \in Ports : ReadInv(AfterRead(S), p)
  BY <1>1, AfterReadRight
<1>3. /\ st'.state = s /\ s # "COLLECT" /\ outs' = outs
      /\ st'.out_idx = 0 /\ st'.idx = st.idx /\ st'.buf = st.buf /\ StateInv'
  BY DEF Computes
<1>4. Answered' = Answered
  BY <1>3 DEF Answered
<1>5. PortsInv'
  BY <1>1, <1>2, <1>3, <1>4, BusyPort DEF PortsInv
<1>6. ElemTypeOK' /\ feed' = feed
  BY <1>1, <1>2, <1>3, ReadType DEF ElemTypeOK, Computes
<1>7. OutInv'
  <2>1. Len(outs) = Flits * Answered + 0
    <3>1. st.out_idx = 0 \/ st.state = "EMIT"
      BY <1>1 DEF OutInv
    <3>2. st.state # "EMIT"
      OBVIOUS
    <3> QED BY <1>1, <3>1, <3>2 DEF OutInv
  <2>2. \A p \in Ports : st'.idx[p] = Flits
    BY <1>1, <1>3 DEF OutInv
  <2> QED BY <1>3, <1>4, <2>1, <2>2 DEF OutInv
<1>8. ElementRight'
  BY <1>1, <1>3, <1>6, ElementRightKept
<1> QED BY <1>3, <1>5, <1>6, <1>7, <1>8 DEF ElemInv, PortsInv

LEMMA EmitStep ==
  ASSUME ElemInv, NEW S, Iterate(S), input' = AfterRead(S), Emit
  PROVE  ElemInv'
PROOF
<1>1. /\ ElemTypeOK /\ OutInv /\ ElementRight /\ PortsInv /\ StateInv
      /\ \A p \in Ports : PortInv(p) /\ BufInv(p)
  BY DEF ElemInv, PortsInv
<1>2. \A p \in Ports : ReadInv(AfterRead(S), p)
  BY <1>1, AfterReadRight
<1>3. /\ st.state = "EMIT" /\ outs' = Append(outs, OutFlit)
      /\ st' = IF st.out_idx + 1 < Flits THEN [st EXCEPT !.out_idx = @ + 1]
               ELSE [st EXCEPT !.out_idx = 0, !.idx = [p \in Ports |-> 0], !.state = "COLLECT"]
  BY DEF Emit
<1> DEFINE o == st.out_idx
           L == Len(outs)
           A == Answered
<1>4. /\ o \in Nat /\ o < Flits /\ L = Flits * A + o /\ Flits \in Nat \ {0} /\ Flits \in Nat
      /\ A \in Nat /\ L \in Nat
  <2>1. o \in 0 .. Flits - 1
    BY <1>1 DEF ElemTypeOK
  <2> QED BY <1>1, <2>1, FlitsType, AnsweredType DEF OutInv
<1>5. /\ A < Len(feed)
      /\ \A p \in Ports : st.idx[p] = Flits /\ st.buf[p] = feed[A + 1][p]
      /\ Modulus(LIMBS, st.buf[3]) /\ st.buf[1] \in Nat /\ st.buf[2] \in Nat
  BY <1>1, <1>3, JobRight
<1>6. Len(outs') = L + 1 /\ Answered' = (L + 1) \div Flits
  <2>1. Len(outs') = L + 1
    BY <1>1, <1>3 DEF ElemTypeOK
  <2> QED BY <2>1 DEF Answered
<1>7. L \div Flits = A /\ L % Flits = o
  <2> HIDE DEF A, L, o
  <2>1. o \in 0 .. Flits - 1 /\ L \in Int /\ A \in Int
    BY <1>4
  <2> QED BY <1>4, <2>1, DivisionIs
<1>8. input' \in [Ports -> Nat \cup {Empty}] /\ fed' \in [Ports -> Nat] /\ feed' = feed
  BY <1>1, <1>2, ReadType
<1>9. st.c_buf = PowMod(st.buf[1], st.buf[2], st.buf[3]) /\ st.c_buf \in Nat
  BY <1>1, <1>3 DEF StateInv, ElemTypeOK
<1>10. outs' \in Seq([data : Nat, sop : BOOLEAN, eop : BOOLEAN])
  <2>1. OutFlit \in [data : Nat, sop : BOOLEAN, eop : BOOLEAN]
    BY <1>4, <1>9, SliceRight DEF OutFlit
  <2> QED BY <1>1, <1>3, <2>1 DEF ElemTypeOK
<1>11. ElementRight'
  <2> SUFFICES ASSUME NEW k \in 1 .. Len(outs')
               PROVE  LET job == feed'[(k - 1) \div Flits + 1]
                          i   == (k - 1) % Flits
                      IN  outs'[k] = [data |-> Slice(PowMod(job[1], job[2], job[3]), i),
                                      sop |-> i = 0, eop |-> i = Flits - 1]
    BY DEF ElementRight
  <2>1. CASE k \in 1 .. L
    <3>1. outs'[k] = outs[k]
      BY <1>1, <1>3, <2>1 DEF ElemTypeOK
    <3> HIDE DEF L
    <3> QED BY <1>1, <1>8, <2>1, <3>1 DEF ElementRight, L
  <2>2. CASE k = L + 1
    <3>1. outs'[k] = OutFlit
      BY <1>1, <1>3, <2>2 DEF ElemTypeOK
    <3>2. k - 1 = L
      BY <1>4, <2>2
    <3>3. (k - 1) \div Flits + 1 = A + 1 /\ (k - 1) % Flits = o
      BY <1>7, <3>2
    <3>4. o + 1 = Flits <=> o = Flits - 1
      BY <1>4
    <3>5. 1 \in Ports /\ 2 \in Ports /\ 3 \in Ports
      BY DEF Ports
    <3>6. st.c_buf = PowMod(feed'[A + 1][1], feed'[A + 1][2], feed'[A + 1][3])
      BY <1>5, <1>8, <1>9, <3>5
    <3>7. OutFlit = [data |-> Slice(st.c_buf, o), sop |-> o = 0, eop |-> o = Flits - 1]
      BY <3>4 DEF OutFlit
    <3> HIDE DEF o, A
    <3> QED BY <3>1, <3>3, <3>6, <3>7
  <2> QED BY <1>4, <1>6, <2>1, <2>2
<1>12. CASE o + 1 < Flits
  <2>1. st' = [st EXCEPT !.out_idx = o + 1]
    BY <1>3, <1>12
  <2>2. /\ st'.state = "EMIT" /\ st'.out_idx = o + 1 /\ st'.idx = st.idx /\ st'.buf = st.buf
        /\ st'.n_inv = st.n_inv /\ st'.m_mont = st.m_mont /\ st'.c_buf = st.c_buf
    BY <1>1, <1>3, <2>1 DEF ElemTypeOK
  <2>3. ElemTypeOK'
    <3>1. o + 1 \in 0 .. Flits - 1
      BY <1>4, <1>12
    <3> HIDE DEF o
    <3>2. st' \in [state : States, idx : [Ports -> 0 .. Flits], out_idx : 0 .. Flits - 1,
                   bit_idx : Int, buf : [Ports -> Nat], c_buf : Nat,
                   m_mont : Nat, r_mont : Nat, n_inv : Nat]
      BY <1>1, <2>1, <3>1 DEF ElemTypeOK
    <3> QED BY <1>1, <1>8, <1>10, <3>2 DEF ElemTypeOK
  <2>4. Answered' = A /\ Len(outs') = Flits * Answered' + (o + 1)
    <3> HIDE DEF A, L, o
    <3>1. o + 1 \in 0 .. Flits - 1 /\ L + 1 \in Int /\ A \in Int /\ L + 1 = Flits * A + (o + 1)
      BY <1>4, <1>12
    <3>2. (L + 1) \div Flits = A
      BY <1>4, <3>1, DivisionIs
    <3> QED BY <1>6, <3>1, <3>2
  <2>5. PortsInv'
    BY <1>1, <1>2, <2>2, <2>4, BusyPort DEF PortsInv
  <2>6. OutInv'
    BY <1>1, <1>3, <2>2, <2>4 DEF OutInv
  <2>7. StateInv'
    BY <1>1, <1>3, <2>2 DEF StateInv
  <2> QED BY <1>11, <2>3, <2>5, <2>6, <2>7 DEF ElemInv, PortsInv
<1>13. CASE ~(o + 1 < Flits)
  <2>1. st' = [st EXCEPT !.out_idx = 0, !.idx = [p \in Ports |-> 0], !.state = "COLLECT"]
    BY <1>3, <1>13
  <2>2. /\ st'.state = "COLLECT" /\ st'.out_idx = 0 /\ st'.idx = [p \in Ports |-> 0]
        /\ st'.buf = st.buf
    BY <1>1, <2>1 DEF ElemTypeOK
  <2>3. ElemTypeOK'
    <3>1. 0 \in 0 .. Flits - 1 /\ [p \in Ports |-> 0] \in [Ports -> 0 .. Flits]
      BY <1>4
    <3>2. st' \in [state : States, idx : [Ports -> 0 .. Flits], out_idx : 0 .. Flits - 1,
                   bit_idx : Int, buf : [Ports -> Nat], c_buf : Nat,
                   m_mont : Nat, r_mont : Nat, n_inv : Nat]
      BY <1>1, <2>1, <3>1 DEF ElemTypeOK, States
    <3> QED BY <1>1, <1>8, <1>10, <3>2 DEF ElemTypeOK
  <2>4. Answered' = A + 1 /\ Len(outs') = Flits * Answered' + 0
    <3> HIDE DEF A, L, o
    <3>1. 0 \in 0 .. Flits - 1 /\ L + 1 \in Int /\ A + 1 \in Int /\ L + 1 = Flits * (A + 1) + 0
      <4>1. o + 1 = Flits
        BY <1>4, <1>13
      <4> QED BY <1>4, <4>1
    <3>2. (L + 1) \div Flits = A + 1
      BY <1>4, <3>1, DivisionIs
    <3> QED BY <1>6, <3>1, <3>2
  <2>5. PortsInv'
    <3> SUFFICES ASSUME NEW p \in Ports PROVE PortInv(p)' /\ BufInv(p)'
      BY DEF PortsInv
    <3>1. st.idx[p] = Flits /\ st'.idx[p] = 0 /\ st'.buf[p] = st.buf[p]
      BY <1>5, <2>2
    <3> QED BY <1>1, <1>2, <2>4, <3>1, LastPort
  <2>6. OutInv'
    BY <2>2, <2>4 DEF OutInv
  <2>7. StateInv'
    BY <2>2 DEF StateInv
  <2> QED BY <1>11, <2>3, <2>5, <2>6, <2>7 DEF ElemInv, PortsInv
<1> QED BY <1>12, <1>13

LEMMA ElemInitInv == ElemInit => ElemInv
PROOF
<1> SUFFICES ASSUME ElemInit PROVE ElemInv
  OBVIOUS
<1>1. feed \in Seq(Job)
  BY FeedAssumption DEF ElemInit
<1>2. Flits \in Nat /\ Flits \in Nat \ {0} /\ FlitPower(Flits) >= 1 /\ FlitPower(Flits) \in Nat
  BY FlitsType, FlitPowerType
<1>3. ElemTypeOK
  BY <1>1, <1>2 DEF ElemInit, ElemTypeOK, States, Empty
<1>4. Answered = 0 /\ Len(outs) = 0
  <2>1. Len(outs) = 0
    BY DEF ElemInit
  <2>2. 0 \div Flits = 0
    <3>1. 0 \in 0 .. Flits - 1
      BY <1>2
    <3> QED BY <1>2, <3>1, SmallMod
  <2> QED BY <2>1, <2>2 DEF Answered
<1>5. ASSUME NEW p \in Ports PROVE PortInv(p) /\ BufInv(p)
  <2>1. fed[p] = 0 /\ input[p] = Empty /\ st.idx[p] = 0 /\ st.buf[p] = 0
    BY DEF ElemInit
  <2>2. Len(feed) \in Nat /\ Flits * 0 = 0 /\ 0 <= Flits * Len(feed)
    BY <1>1, <1>2
  <2>3. PortInv(p)
    BY <1>4, <2>1, <2>2 DEF PortInv
  <2>4. BufInv(p)
    BY <1>2, <2>1 DEF BufInv
  <2> QED BY <2>3, <2>4
<1>6. OutInv
  BY <1>2, <1>4 DEF OutInv, ElemInit
<1>7. StateInv
  BY DEF StateInv, ElemInit
<1>8. ElementRight
  BY <1>4 DEF ElementRight
<1> QED BY <1>3, <1>5, <1>6, <1>7, <1>8 DEF ElemInv, PortsInv

LEMMA ElemStep == ElemInv /\ [ElemNext]_elemVars => ElemInv'
PROOF
<1> SUFFICES ASSUME ElemInv, [ElemNext]_elemVars PROVE ElemInv'
  OBVIOUS
<1>1. CASE UNCHANGED elemVars
  <2>1. feed' = feed /\ fed' = fed /\ input' = input /\ st' = st /\ outs' = outs
    BY <1>1 DEF elemVars
  <2> QED BY <2>1 DEF ElemInv, PortsInv, ElemTypeOK, PortInv, BufInv, OutInv, StateInv,
       ElementRight, Answered, FlitOf, Form
<1>2. ASSUME NEW S, Iterate(S) PROVE ElemInv'
  <2>1. CASE Collect(S)
    BY <1>2, <2>1, CollectStep
  <2>2. CASE input' = AfterRead(S) /\ Emit
    BY <1>2, <2>2, EmitStep
  <2>3. ASSUME input' = AfterRead(S),
               InitJob \/ FindBit \/ Square \/ MaybeMul \/ NextBit \/ Final
        PROVE  ElemInv'
    <3>1. st.state \notin {"COLLECT", "EMIT"}
      BY <2>3 DEF InitJob, FindBit, Square, MaybeMul, NextBit, Final
    <3>2. ElemTypeOK /\ OutInv /\ StateInv /\ PortsInv
      BY DEF ElemInv, PortsInv
    <3>3. Ready
      BY <3>1, <3>2, JobRight DEF Ready
    <3>4. \E s : Computes(s)
      BY <2>3, <3>2, <3>3, InitJobRight, FindBitRight, SquareRight, MaybeMulRight, NextBitRight,
         FinalRight
    <3> QED BY <1>2, <2>3, <3>1, <3>4, ComputeStep
  <2> QED BY <1>2, <2>1, <2>2, <2>3 DEF Iterate
<1> QED BY <1>1, <1>2 DEF ElemNext

LEMMA MontFormHolds == ElemInv => MontForm
PROOF
<1> SUFFICES ASSUME ElemInv, st.state \in {"SQUARE", "MAYBE_MUL", "NEXT_BIT", "FINAL"}
             PROVE  MontForm
  BY DEF MontForm
<1> DEFINE job == feed[Len(outs) \div Flits + 1]
<1>1. ElemTypeOK /\ OutInv /\ StateInv /\ PortsInv
  BY DEF ElemInv, PortsInv
<1>2. st.buf[1] = job[1] /\ st.buf[2] = job[2] /\ st.buf[3] = job[3]
  BY <1>1, JobRight DEF Ports, Answered
<1>3. \A k : Form(k) = (PowMod(job[1], k, job[3]) * Power(Base, LIMBS)) % job[3]
  <2> HIDE DEF job
  <2> QED BY <1>2 DEF Form, Mont
<1>4. /\ st.state = "SQUARE" => st.r_mont = Form(job[2] \div Power(2, st.bit_idx + 1))
      /\ st.state = "MAYBE_MUL" => st.r_mont = Form(2 * (job[2] \div Power(2, st.bit_idx + 1)))
      /\ st.state = "NEXT_BIT" => st.r_mont = Form(job[2] \div Power(2, st.bit_idx))
      /\ st.state = "FINAL" => st.r_mont = Form(job[2])
  <2> HIDE DEF job
  <2> QED BY <1>1, <1>2 DEF StateInv, High
<1> HIDE DEF job
<1> QED BY <1>3, <1>4 DEF MontForm, job

THEOREM ElementsAnswer == ElemSpec => []ElementRight
PROOF
<1>1. ElemInit => ElemInv
  BY ElemInitInv
<1>2. ElemInv /\ [ElemNext]_elemVars => ElemInv'
  BY ElemStep
<1>3. ElemInv => ElementRight
  BY DEF ElemInv
<1> QED BY <1>1, <1>2, <1>3, PTL DEF ElemSpec

THEOREM MontgomeryKept == ElemSpec => []MontForm
PROOF
<1>1. ElemInit => ElemInv
  BY ElemInitInv
<1>2. ElemInv /\ [ElemNext]_elemVars => ElemInv'
  BY ElemStep
<1>3. ElemInv => MontForm
  BY MontFormHolds
<1> QED BY <1>1, <1>2, <1>3, PTL DEF ElemSpec

-----------------------------------------------------------------------------
(* The engine: the shims, the hooks and the answers.                       *)

LEMMA WidthType ==
  ASSUME NEW N \in Widths
  PROVE  N \in Nat /\ N \div 2 \in Nat /\ N = 2 * (N \div 2)
PROOF
<1>1. N \in Nat /\ N % 2 = 0
  BY EngineAssumption
<1> QED BY <1>1

\* A number that is odd, and has its limbs, is a modulus the algorithms take.
LEMMA FitModulus ==
  ASSUME NEW N, NEW n, N \in Nat, n \in Nat, n % 2 = 1, Fits(n, N)
  PROVE  Modulus(N, n)
PROOF
<1>1. n # 0
  OBVIOUS
<1> QED BY <1>1 DEF Modulus, Fits

LEMMA ShimRight ==
  ASSUME NEW m, NEW e, NEW n, NEW N, m \in Nat, e \in Nat, n \in Nat,
         Fits(m, N), Fits(e, N), Fits(n, N)
  PROVE  /\ openclicknp_modexp(m, e, n, N) # Error => openclicknp_modexp(m, e, n, N) = PowMod(m, e, n) /\ n % 2 = 1
         /\ openclicknp_modexp_consttime(m, e, n, N) # Error =>
              openclicknp_modexp_consttime(m, e, n, N) = PowMod(m, e, n) /\ n % 2 = 1
PROOF
<1>1. CASE ~(N \in Widths /\ n % 2 = 1)
  BY <1>1 DEF openclicknp_modexp, openclicknp_modexp_consttime
<1>2. CASE N \in Widths /\ n % 2 = 1
  <2>1. Modulus(N, n) /\ m < Power(Base, N) /\ e < Power(Base, N)
    BY <1>2, WidthType, FitModulus DEF Fits
  <2>2. modexp(N, m, e, n) = Power(m, e) % n
    BY <2>1, ModexpPower
  <2>3. modexp_consttime(N, m, e, n) = Power(m, e) % n
    BY <2>1, ModexpConsttimePower
  <2>4. PowMod(m, e, n) = Power(m, e) % n
    <3>1. n \in Nat \ {0}
      BY <2>1 DEF Modulus
    <3> QED BY <3>1, PowModRight
  <2> QED BY <1>2, <2>2, <2>3, <2>4 DEF openclicknp_modexp, openclicknp_modexp_consttime
<1> QED BY <1>1, <1>2

Exps == [op : {"bn_mod_exp"}, a : Nat, p : Nat, m : Nat, consttime : BOOLEAN]
Keys == [op : {"rsa_mod_exp"}, I : Nat, n : Nat, d : Nat, crt_params : BOOLEAN,
         p : Nat, q : Nat, dp : Nat, dq : Nat, qi : Nat]

LEMMA FallbackRight ==
  ASSUME NEW a, NEW p, NEW m
  PROVE  /\ Fallback(a, p, m).path = "unsupported"
         /\ Fallback(a, p, m).out = IF m % 2 = 0 THEN Error ELSE PowMod(a, p, m)
BY DEF Fallback, BN_mod_exp_mont

LEMMA ExpRight ==
  ASSUME NEW r \in Exps
  PROVE  ocnp_bn_mod_exp(r).out = IF r.m % 2 = 0 THEN Error ELSE PowMod(r.a, r.p, r.m)
PROOF
<1> DEFINE N  == round_up_limbs_for_bits(BN_num_bits(r.m))
           rc == IF r.consttime THEN openclicknp_modexp_consttime(r.a, r.p, r.m, N)
                 ELSE openclicknp_modexp(r.a, r.p, r.m, N)
           refused == N = 0 \/ ~Fits(r.a, N) \/ ~Fits(r.p, N) \/ ~Fits(r.m, N) \/ rc = Error
<1>1. ocnp_bn_mod_exp(r) =
        IF refused THEN Fallback(r.a, r.p, r.m)
        ELSE [path |-> IF r.consttime THEN "modexp_consttime" ELSE "modexp", out |-> rc]
  BY DEF ocnp_bn_mod_exp
<1>2. r.a \in Nat /\ r.p \in Nat /\ r.m \in Nat
  BY DEF Exps
<1>3. CASE refused
  <2> HIDE DEF refused, rc, N
  <2>1. ocnp_bn_mod_exp(r) = Fallback(r.a, r.p, r.m)
    BY <1>1, <1>3
  <2> QED BY <2>1, FallbackRight
<1>4. CASE ~refused
  <2>1. Fits(r.a, N) /\ Fits(r.p, N) /\ Fits(r.m, N) /\ rc # Error
    BY <1>4
  <2>2. ocnp_bn_mod_exp(r).out = rc
    <3> HIDE DEF refused, rc, N
    <3> QED BY <1>1, <1>4
  <2> HIDE DEF refused, N
  <2>3. rc = PowMod(r.a, r.p, r.m) /\ r.m % 2 = 1
    BY <1>2, <2>1, ShimRight
  <2> HIDE DEF rc
  <2> QED BY <2>2, <2>3
<1> QED BY <1>3, <1>4

LEMMA CrtShimRight ==
  ASSUME NEW r \in Keys, NEW N, r.crt_params, ValidKey(r), Fits(r.I, N),
         \A x \in {r.p, r.q, r.dp, r.dq, r.qi} : Fits(x, N \div 2)
  PROVE  LET rc == openclicknp_rsa_crt(r.I, r.p, r.q, r.dp, r.dq, r.qi, N)
         IN  rc = Error \/ (rc = PowMod(r.I, r.d, r.n) <=> ~Underflows(r))
PROOF
<1> DEFINE rc == openclicknp_rsa_crt(r.I, r.p, r.q, r.dp, r.dq, r.qi, N)
           M == N \div 2
<1>1. CASE ~(N \in Widths /\ r.p % 2 = 1 /\ r.q % 2 = 1)
  BY <1>1 DEF openclicknp_rsa_crt
<1>2. CASE N \in Widths /\ r.p % 2 = 1 /\ r.q % 2 = 1
  <2>1. M \in Nat /\ N = 2 * M
    BY <1>2, WidthType
  <2>2. /\ r.I \in Nat /\ r.d \in Nat /\ r.p \in Nat /\ r.q \in Nat
        /\ r.dp \in Nat /\ r.dq \in Nat /\ r.qi \in Nat
    BY DEF Keys
  <2>3. Fits(r.p, M) /\ Fits(r.q, M) /\ Fits(r.dp, M) /\ Fits(r.dq, M) /\ Fits(r.qi, M)
    BY Zenon
  <2>4. rc = rsa_crt_decrypt(M, r.I, r.p, r.q, r.dp, r.dq, r.qi)
    BY <1>2 DEF openclicknp_rsa_crt
  <2> HIDE DEF rc, M
  <2>5. Modulus(M, r.p) /\ Modulus(M, r.q)
    BY <1>2, <2>1, <2>2, <2>3, FitModulus
  <2>6. /\ r.I < Power(Base, 2 * M) /\ r.dp < Power(Base, M) /\ r.dq < Power(Base, M)
        /\ r.qi < Power(Base, M)
    BY <2>1, <2>3 DEF Fits
  <2>7. Halves(r.I, r.d, r.p, r.q, r.dp, r.dq, r.qi) /\ r.n = r.p * r.q
    BY DEF Halves, ValidKey
  <2> DEFINE I == r.I
             d == r.d
             p == r.p
             q == r.q
             dp == r.dp
             dq == r.dq
             qi == r.qi
  <2>8. /\ Modulus(M, p) /\ Modulus(M, q) /\ I \in Nat /\ I < Power(Base, 2 * M) /\ d \in Nat
        /\ dp \in Nat /\ dp < Power(Base, M) /\ dq \in Nat /\ dq < Power(Base, M)
        /\ qi \in Nat /\ qi < Power(Base, M) /\ Halves(I, d, p, q, dp, dq, qi)
        /\ rc = rsa_crt_decrypt(M, I, p, q, dp, dq, qi)
        /\ PowMod(r.I, r.d, r.n) = PowMod(I, d, p * q)
        /\ Underflows(r) <=> PowMod(I, dq, q) > PowMod(I, dp, p) + p
    BY <2>2, <2>4, <2>5, <2>6, <2>7 DEF Underflows
  <2> HIDE DEF I, d, p, q, dp, dq, qi
  <2>9. rsa_crt_decrypt(M, I, p, q, dp, dq, qi) = PowMod(I, d, p * q)
          <=> ~(PowMod(I, dq, q) > PowMod(I, dp, p) + p)
    BY <2>8, CrtPower
  <2> QED BY <2>8, <2>9 DEF rc
<1> QED BY <1>1, <1>2

LEMMA KeyRight ==
  ASSUME NEW r \in Keys, ValidKey(r)
  PROVE  LET h == ocnp_rsa_mod_exp(r)
         IN  h.out = PowMod(r.I, r.d, r.n) <=> ~(h.path = "crt" /\ Underflows(r))
PROOF
<1> DEFINE h  == ocnp_rsa_mod_exp(r)
           N  == round_up_limbs_for_bits(BN_num_bits(r.n))
           rc == openclicknp_rsa_crt(r.I, r.p, r.q, r.dp, r.dq, r.qi, N)
           refused == \/ ~r.crt_params \/ N = 0
                      \/ ~Fits(r.I, N) \/ \E x \in {r.p, r.q, r.dp, r.dq, r.qi} : ~Fits(x, N \div 2)
                      \/ rc = Error
<1>1. h = IF refused THEN Fallback(r.I, r.d, r.n) ELSE [path |-> "crt", out |-> rc]
  BY DEF ocnp_rsa_mod_exp
<1>2. r.n \in Nat /\ r.n % 2 = 1
  BY DEF Keys, ValidKey
<1>3. CASE refused
  <2> HIDE DEF refused, h
  <2>1. h = Fallback(r.I, r.d, r.n)
    BY <1>1, <1>3
  <2>2. h.path = "unsupported" /\ h.out = PowMod(r.I, r.d, r.n)
    BY <1>2, <2>1, FallbackRight
  <2> QED BY <2>2 DEF h
<1>4. CASE ~refused
  <2>1. /\ r.crt_params /\ Fits(r.I, N) /\ rc # Error
        /\ \A x \in {r.p, r.q, r.dp, r.dq, r.qi} : Fits(x, N \div 2)
    BY <1>4, Zenon
  <2>2. h = [path |-> "crt", out |-> rc]
    <3> HIDE DEF refused, rc, h
    <3> QED BY <1>1, <1>4
  <2> HIDE DEF refused, N, h
  <2>3. rc = PowMod(r.I, r.d, r.n) <=> ~Underflows(r)
    BY <2>1, CrtShimRight
  <2> HIDE DEF rc
  <2> QED BY <2>2, <2>3 DEF h
<1> QED BY <1>3, <1>4

\* A hook's way and its answer are right.
LEMMA HookRight ==
  ASSUME NEW r \in Requests, r.op # "aes"
  PROVE  Right(r, Hook(r).path, Hook(r).out)
PROOF
<1>1. CASE r \in Exps
  <2>1. r.op = "bn_mod_exp"
    BY <1>1 DEF Exps
  <2> QED BY <1>1, <2>1, ExpRight DEF Right, Hook
<1>2. CASE r \in Keys /\ ValidKey(r)
  <2>1. r.op = "rsa_mod_exp"
    BY <1>2 DEF Keys
  <2> QED BY <1>2, <2>1, KeyRight DEF Right, Hook
<1>3. CASE r \in [op : {"aes"}, inl : Nat]
  BY <1>3
<1> QED BY <1>1, <1>2, <1>3 DEF Requests, Exps, Keys

Places == {"idle", "load", "store", "new", "hooks", "publish", "cipher"}

\* Of a thread, the request it is in, and what it is about to answer with.
ThreadRight(t) ==
  /\ pc[t] # "idle" => todo[t] # <<>>
  /\ pc[t] \in {"load", "store"} => Right(Head(todo[t]), path[t], out[t])
  /\ pc[t] \in {"new", "hooks", "publish", "cipher"} => Head(todo[t]).op = "aes"

RightInv ==
  /\ pc \in [Threads -> Places]
  /\ path = [t \in Threads |-> path[t]]
  /\ out = [t \in Threads |-> out[t]]
  /\ todo \in [Threads -> Seq(Requests)]
  /\ \A t \in Threads : ThreadRight(t)
  /\ RsaRight

LEMMA HeadTail ==
  ASSUME NEW s \in Seq(Requests), s # <<>>
  PROVE  Head(s) \in Requests /\ Tail(s) \in Seq(Requests)
OBVIOUS

LEMMA RightInit == Init => RightInv
PROOF
<1> SUFFICES ASSUME Init PROVE RightInv
  OBVIOUS
<1>1. todo \in [Threads -> Seq(Requests)]
  BY RequestAssumption DEF Init
<1>2. /\ pc = [t \in Threads |-> "idle"] /\ answers = {}
      /\ path = [t \in Threads |-> path[t]] /\ out = [t \in Threads |-> out[t]]
  BY DEF Init
<1> QED BY <1>1, <1>2 DEF RightInv, ThreadRight, RsaRight, Places

\* An AES request asks for no power.
LEMMA AesRight ==
  ASSUME NEW r, r.op = "aes", NEW way, NEW res
  PROVE  Right(r, way, res)
BY DEF Right

\* A step of t that answers nothing.
LEMMA RightKept ==
  ASSUME RightInv, NEW t \in Threads, NEW v \in Places, todo[t] # <<>>,
         pc' = [pc EXCEPT ![t] = v], UNCHANGED <<todo, answers>>,
         path' = [path EXCEPT ![t] = path'[t]], out' = [out EXCEPT ![t] = out'[t]],
         v \in {"load", "store"} => Right(Head(todo[t]), path'[t], out'[t]),
         v \in {"new", "hooks", "publish", "cipher"} => Head(todo[t]).op = "aes"
  PROVE  RightInv'
PROOF
<1>1. /\ pc' \in [Threads -> Places] /\ path' = [s \in Threads |-> path'[s]]
      /\ out' = [s \in Threads |-> out'[s]] /\ todo' \in [Threads -> Seq(Requests)]
  BY DEF RightInv
<1>2. RsaRight'
  BY DEF RightInv, RsaRight
<1>3. ASSUME NEW s \in Threads PROVE ThreadRight(s)'
  <2>1. CASE s = t
    <3>1. pc'[s] = v /\ todo'[s] = todo[t]
      BY <2>1 DEF RightInv
    <3> QED BY <2>1, <3>1 DEF ThreadRight
  <2>2. CASE s # t
    <3>1. pc'[s] = pc[s] /\ path'[s] = path[s] /\ out'[s] = out[s] /\ todo'[s] = todo[s]
      BY <2>2 DEF RightInv
    <3>2. ThreadRight(s)
      BY DEF RightInv
    <3> QED BY <3>1, <3>2 DEF ThreadRight
  <2> QED BY <2>1, <2>2
<1> QED BY <1>1, <1>2, <1>3 DEF RightInv

\* A step of t that answers its request.
LEMMA RightAnswered ==
  ASSUME RightInv, NEW t \in Threads, NEW res, todo[t] # <<>>, Answer(t, res),
         Right(Head(todo[t]), path[t], res), path' = path,
         out' = [out EXCEPT ![t] = out'[t]]
  PROVE  RightInv'
PROOF
<1>1. /\ todo' = [todo EXCEPT ![t] = Tail(todo[t])] /\ pc' = [pc EXCEPT ![t] = "idle"]
      /\ answers' = answers \cup {[req |-> Head(todo[t]), path |-> path[t], out |-> res]}
  BY DEF Answer
<1>2. Tail(todo[t]) \in Seq(Requests)
  BY HeadTail DEF RightInv
<1>3. /\ pc' \in [Threads -> Places] /\ path' = [s \in Threads |-> path'[s]]
      /\ out' = [s \in Threads |-> out'[s]] /\ todo' \in [Threads -> Seq(Requests)]
  BY <1>1, <1>2 DEF RightInv, Places
<1>4. RsaRight'
  <2> SUFFICES ASSUME NEW x \in answers' PROVE Right(x.req, x.path, x.out)
    BY DEF RsaRight
  <2>1. CASE x \in answers
    BY <2>1 DEF RightInv, RsaRight
  <2>2. CASE x = [req |-> Head(todo[t]), path |-> path[t], out |-> res]
    BY <2>2
  <2> QED BY <1>1, <2>1, <2>2
<1>5. ASSUME NEW s \in Threads PROVE ThreadRight(s)'
  <2>1. CASE s = t
    <3>1. pc'[s] = "idle"
      BY <1>1, <2>1 DEF RightInv
    <3> QED BY <3>1 DEF ThreadRight
  <2>2. CASE s # t
    <3>1. pc'[s] = pc[s] /\ path'[s] = path[s] /\ out'[s] = out[s] /\ todo'[s] = todo[s]
      BY <1>1, <2>2 DEF RightInv
    <3>2. ThreadRight(s)
      BY DEF RightInv
    <3> QED BY <3>1, <3>2 DEF ThreadRight
  <2> QED BY <2>1, <2>2
<1> QED BY <1>3, <1>4, <1>5 DEF RightInv

LEMMA RightStep ==
  ASSUME RightInv, NEW t \in Threads, Thread(t)
  PROVE  RightInv'
PROOF
<1>1. ThreadRight(t) /\ t \in Threads
  BY DEF RightInv
<1>2. path = [path EXCEPT ![t] = path[t]] /\ out = [out EXCEPT ![t] = out[t]]
  BY DEF RightInv
<1>3. CASE CallRsa(t)
  <2> DEFINE r == Head(todo[t])
             h == Hook(r)
  <2>1. r \in Requests /\ r.op # "aes" /\ todo[t] # <<>>
    BY <1>3, HeadTail DEF CallRsa, RightInv
  <2>2. Right(r, h.path, h.out)
    BY <2>1, HookRight
  <2>3. path' = [path EXCEPT ![t] = h.path] /\ out' = [out EXCEPT ![t] = h.out]
    BY <1>3 DEF CallRsa
  <2> HIDE DEF h
  <2>4. /\ path'[t] = h.path /\ out'[t] = h.out
        /\ path' = [path EXCEPT ![t] = path'[t]] /\ out' = [out EXCEPT ![t] = out'[t]]
    BY <2>3 DEF RightInv
  <2>5. pc' = [pc EXCEPT ![t] = "load"] /\ UNCHANGED <<todo, answers>>
    BY <1>3 DEF CallRsa
  <2>6. Right(Head(todo[t]), path'[t], out'[t])
    BY <2>2, <2>4
  <2> QED BY <2>1, <2>4, <2>5, <2>6, RightKept DEF Places
<1>4. CASE Load(t)
  <2>1. /\ pc[t] = "load" /\ pc' = [pc EXCEPT ![t] = "store"]
        /\ UNCHANGED <<todo, answers, path, out>>
    BY <1>4 DEF Load
  <2>2. todo[t] # <<>> /\ Right(Head(todo[t]), path'[t], out'[t])
    BY <1>1, <2>1 DEF ThreadRight
  <2> QED BY <1>2, <2>1, <2>2, RightKept DEF Places
<1>5. CASE Store(t)
  <2>1. pc[t] = "store" /\ UNCHANGED <<path, out>>
    BY <1>5 DEF Store
  <2>2. todo[t] # <<>> /\ Right(Head(todo[t]), path[t], out[t])
    BY <1>1, <2>1 DEF ThreadRight
  <2>3. CASE left[t] > 1
    <3>1. pc' = [pc EXCEPT ![t] = "load"] /\ UNCHANGED <<todo, answers>>
      BY <1>5, <2>3 DEF Store
    <3> QED BY <1>2, <2>1, <2>2, <3>1, RightKept DEF Places
  <2>4. CASE ~(left[t] > 1)
    <3>1. Answer(t, out[t])
      BY <1>5, <2>4 DEF Store
    <3> QED BY <1>2, <2>1, <2>2, <3>1, RightAnswered
  <2> QED BY <2>3, <2>4
<1>6. CASE AskCipher(t)
  <2>1. /\ todo[t] # <<>> /\ Head(todo[t]).op = "aes" /\ UNCHANGED <<todo, answers, out>>
        /\ path' = [path EXCEPT ![t] = "aes_blocks"]
    BY <1>6 DEF AskCipher
  <2>2. path' = [path EXCEPT ![t] = path'[t]]
    BY <2>1 DEF RightInv
  <2>3. PICK v \in {"cipher", "new"} : pc' = [pc EXCEPT ![t] = v]
    BY <1>6 DEF AskCipher
  <2> QED BY <1>2, <2>1, <2>2, <2>3, RightKept DEF Places
<1>7. CASE NewCipher(t) \/ SetHooks(t) \/ Publish(t) \/ DoCipher(t)
  <2>1. /\ pc[t] \in {"new", "hooks", "publish", "cipher"} /\ path' = path
        /\ todo[t] # <<>> /\ Head(todo[t]).op = "aes"
    BY <1>1, <1>7 DEF NewCipher, SetHooks, Publish, DoCipher, ThreadRight
  <2>2. out' = [out EXCEPT ![t] = out'[t]]
    BY <1>7 DEF NewCipher, SetHooks, Publish, DoCipher, RightInv
  <2>3. \A way, res : Right(Head(todo[t]), way, res)
    BY <2>1, AesRight
  <2>4. \/ \E v \in Places : pc' = [pc EXCEPT ![t] = v] /\ UNCHANGED <<todo, answers>>
        \/ \E res : Answer(t, res)
    BY <1>7 DEF NewCipher, SetHooks, Publish, DoCipher, Places
  <2>5. CASE \E v \in Places : pc' = [pc EXCEPT ![t] = v] /\ UNCHANGED <<todo, answers>>
    BY <1>2, <2>1, <2>2, <2>3, <2>5, RightKept
  <2>6. CASE \E res : Answer(t, res)
    BY <1>2, <2>1, <2>2, <2>3, <2>6, RightAnswered
  <2> QED BY <2>4, <2>5, <2>6
<1> QED BY <1>3, <1>4, <1>5, <1>6, <1>7 DEF Thread

\* The engine's answers are the powers that were asked for, through every way a
\* request may take, for every width of limb and number, every key whose parts
\* belong together and every interleaving of threads; the one exception is a
\* second residue that exceeds the first by more than p.
THEOREM PowersRight == Spec => []RsaRight
PROOF
<1>1. RightInv /\ [Next]_vars => RightInv'
  <2> SUFFICES ASSUME RightInv, [Next]_vars PROVE RightInv'
    OBVIOUS
  <2>1. CASE UNCHANGED vars
    BY <2>1 DEF vars, threadVars, RightInv, ThreadRight, RsaRight
  <2> QED BY <2>1, RightStep DEF Next
<1> QED BY RightInit, <1>1, PTL DEF Spec, RightInv

-----------------------------------------------------------------------------
(* The engine: its counters and its cipher.                                *)

\* Where the threads are and what the counters hold.
CountTypeOK ==
  /\ pc \in [Threads -> Places]
  /\ path \in [Threads -> Counters]
  /\ held \in [Threads -> Nat]
  /\ count \in [Counters -> Nat]
  /\ bumps \in [Counters -> Nat]

\* What a thread has loaded of a counter never exceeds the number of bumps.
HeldOK == \A t \in Threads : pc[t] = "store" => held[t] <= bumps[path[t]]

CountInv == CountTypeOK /\ Confirmed /\ HeldOK

\* Whatever a hook does, it ends in one of the counters.
LEMMA HookPath ==
  ASSUME NEW r
  PROVE  ocnp_bn_mod_exp(r).path \in Counters /\ ocnp_rsa_mod_exp(r).path \in Counters
<1>1. \A a, p, m : Fallback(a, p, m).path \in Counters
  BY DEF Fallback, Counters
<1>2. ocnp_bn_mod_exp(r).path \in Counters
  BY <1>1 DEF ocnp_bn_mod_exp, Counters
<1>3. ocnp_rsa_mod_exp(r).path \in Counters
  BY <1>1 DEF ocnp_rsa_mod_exp, Counters
<1> QED
  BY <1>2, <1>3

LEMMA CountInit == Init => CountInv
  BY DEF Init, CountInv, CountTypeOK, Confirmed, HeldOK, Places, Counters

\* A step after which nobody but t has moved, t is not about to store and the
\* counters are as they were.
LEMMA CountKept ==
  ASSUME CountInv, NEW t \in Threads, NEW v \in Places \ {"store"},
         pc' = [pc EXCEPT ![t] = v],
         path' = path \/ \E c \in Counters : path' = [path EXCEPT ![t] = c],
         UNCHANGED <<held, count, bumps>>
  PROVE  CountInv'
<1>1. CountTypeOK'
  BY DEF CountInv, CountTypeOK, Places
<1>2. Confirmed'
  BY DEF CountInv, Confirmed
<1>3. HeldOK'
  BY DEF CountInv, CountTypeOK, HeldOK, Places
<1> QED
  BY <1>1, <1>2, <1>3 DEF CountInv

LEMMA CountCallRsa ==
  ASSUME CountInv, NEW t \in Threads, CallRsa(t)
  PROVE  CountInv'
<1>1. PICK c : c \in Counters /\ path' = [path EXCEPT ![t] = c]
  BY HookPath DEF CallRsa, Hook
<1>2. pc' = [pc EXCEPT ![t] = "load"] /\ UNCHANGED <<held, count, bumps>>
  BY DEF CallRsa
<1> QED
  BY <1>1, <1>2, CountKept DEF Places

LEMMA CountLoad ==
  ASSUME CountInv, NEW t \in Threads, Load(t)
  PROVE  CountInv'
<1> USE DEF Load, CountInv
<1>1. CountTypeOK'
  BY DEF CountTypeOK, Places
<1>2. Confirmed'
  BY DEF Confirmed
<1>3. HeldOK'
  BY DEF HeldOK, CountTypeOK, Confirmed
<1> QED
  BY <1>1, <1>2, <1>3

LEMMA CountStore ==
  ASSUME CountInv, NEW t \in Threads, Store(t)
  PROVE  CountInv'
<1> DEFINE c == path[t]
<1>1. /\ c \in Counters /\ held[t] \in Nat /\ held[t] <= bumps[c]
      /\ count' = [count EXCEPT ![c] = held[t] + 1]
      /\ bumps' = [bumps EXCEPT ![c] = bumps[c] + 1]
      /\ UNCHANGED <<path, held>>
  BY DEF Store, Bumped, CountInv, CountTypeOK, HeldOK
<1>2. PICK v \in {"load", "idle"} : pc' = [pc EXCEPT ![t] = v]
  BY DEF Store, Answer
<1>3. CountTypeOK'
  BY <1>1, <1>2 DEF CountInv, CountTypeOK, Places
<1>4. Confirmed'
  BY <1>1 DEF CountInv, CountTypeOK, Confirmed
<1>5. HeldOK'
  BY <1>1, <1>2 DEF CountInv, CountTypeOK, HeldOK
<1> QED
  BY <1>3, <1>4, <1>5 DEF CountInv

LEMMA CountCipher ==
  ASSUME CountInv, NEW t \in Threads,
         AskCipher(t) \/ NewCipher(t) \/ SetHooks(t) \/ Publish(t) \/ DoCipher(t)
  PROVE  CountInv'
<1>1. UNCHANGED <<held, count, bumps>>
  BY DEF AskCipher, NewCipher, SetHooks, Publish, DoCipher
<1>2. \E v \in Places \ {"store"} : pc' = [pc EXCEPT ![t] = v]
  BY DEF AskCipher, NewCipher, SetHooks, Publish, DoCipher, Answer, Places
<1>3. path' = path \/ path' = [path EXCEPT ![t] = "aes_blocks"]
  BY DEF AskCipher, NewCipher, SetHooks, Publish, DoCipher
<1>4. "aes_blocks" \in Counters
  BY DEF Counters
<1> QED
  BY <1>1, <1>2, <1>3, <1>4, CountKept

\* The engine's counters show that it is called: although threads overwrite
\* each other's increments, a counter that has been bumped never shows zero,
\* and none shows more than the calls there were.
THEOREM CountersConfirm == Spec => []Confirmed
<1>1. CountInv /\ [Next]_vars => CountInv'
  <2> SUFFICES ASSUME CountInv, [Next]_vars PROVE CountInv'
    OBVIOUS
  <2>1. ASSUME NEW t \in Threads, Thread(t) PROVE CountInv'
    BY <2>1, CountCallRsa, CountLoad, CountStore, CountCipher DEF Thread
  <2>2. CASE UNCHANGED vars
    BY <2>2 DEF vars, threadVars, CountInv, CountTypeOK, Confirmed, HeldOK
  <2> QED
    BY <2>1, <2>2 DEF Next
<1> QED
  BY CountInit, <1>1, PTL DEF Spec, CountInv

-----------------------------------------------------------------------------
\* A thread that is about to publish its object has set all of its hooks.
CipherInv ==
  /\ pc \in [Threads -> Places]
  /\ using \in [Threads -> Threads \cup {Nobody}]
  /\ cipher \in Threads \cup {Nobody}
  /\ CipherComplete
  /\ \A t \in Threads : pc[t] = "publish" => t \in complete

LEMMA CipherInit == Init => CipherInv
  BY DEF Init, CipherInv, CipherComplete, Places

\* A step after which t is neither publishing nor holding a cipher.
LEMMA CipherKept ==
  ASSUME CipherInv, NEW t \in Threads, NEW v \in Places \ {"publish", "cipher"},
         pc' = [pc EXCEPT ![t] = v], UNCHANGED <<cipher, complete, using>>
  PROVE  CipherInv'
  BY DEF CipherInv, CipherComplete, Places

LEMMA CipherStep ==
  ASSUME CipherInv, NEW t \in Threads, Thread(t)
  PROVE  CipherInv'
<1>1. CASE CallRsa(t) \/ Load(t) \/ Store(t) \/ NewCipher(t) \/ DoCipher(t)
  <2>1. UNCHANGED <<cipher, complete, using>>
    BY <1>1 DEF CallRsa, Load, Store, NewCipher, DoCipher
  <2>2. \E v \in Places \ {"publish", "cipher"} : pc' = [pc EXCEPT ![t] = v]
    BY <1>1 DEF CallRsa, Load, Store, NewCipher, DoCipher, Answer, Places
  <2> QED
    BY <2>1, <2>2, CipherKept
<1>2. CASE AskCipher(t)
  BY <1>2 DEF AskCipher, CipherInv, CipherComplete, Places
<1>3. CASE SetHooks(t)
  BY <1>3 DEF SetHooks, CipherInv, CipherComplete, Places
<1>4. CASE Publish(t)
  BY <1>4 DEF Publish, CipherInv, CipherComplete, Places
<1> QED
  BY <1>1, <1>2, <1>3, <1>4 DEF Thread

\* However many threads ask for the cipher at once, none is handed an object
\* of which a hook is missing.
THEOREM CipherAlwaysComplete == Spec => []CipherComplete
<1>1. CipherInv /\ [Next]_vars => CipherInv'
  <2> SUFFICES ASSUME CipherInv, [Next]_vars PROVE CipherInv'
    OBVIOUS
  <2>1. CASE UNCHANGED vars
    BY <2>1 DEF vars, threadVars, CipherInv, CipherComplete
  <2> QED
    BY <2>1, CipherStep DEF Next
<1> QED
  BY CipherInit, <1>1, PTL DEF Spec, CipherInv

-----------------------------------------------------------------------------
(* SHA-1.                                                                  *)

\* The bytes that can be in a message or its padding.
Byte ==
  {0, 2 ^ (ByteBits - 1)} \cup {n % 2 ^ ByteBits : n \in Int}
    \cup {(n \div 2 ^ (ByteBits * (LengthSize - i))) % 2 ^ ByteBits
            : n \in Nat, i \in 1 .. LengthSize}

Text == Seq(Byte)

-----------------------------------------------------------------------------
(* Sequences and numbers.                                                  *)

LEMMA Assoc ==
  ASSUME NEW x \in Text, NEW y \in Text, NEW z \in Text
  PROVE  (x \o y) \o z = x \o (y \o z)
BY ConcatAssociative DEF Text

LEMMA Concat ==
  ASSUME NEW x \in Text, NEW y \in Text
  PROVE  x \o y \in Text /\ Len(x \o y) = Len(x) + Len(y)
BY ConcatProperties DEF Text

LEMMA EmptyText ==
  /\ <<>> \in Text /\ Len(<<>>) = 0
  /\ \A x \in Text : x \o <<>> = x /\ <<>> \o x = x /\ (Len(x) = 0 => x = <<>>)
BY EmptySeq, ConcatEmptySeq DEF Text

LEMMA Lengths == \A x \in Text : Len(x) \in Nat
BY LenProperties DEF Text

\* A text is cut into its first n bytes and the others.
LEMMA Cut ==
  ASSUME NEW x \in Text, NEW n \in 0 .. Len(x)
  PROVE  /\ SubSeq(x, 1, n) \in Text /\ SubSeq(x, n + 1, Len(x)) \in Text
         /\ Len(SubSeq(x, 1, n)) = n
         /\ Len(SubSeq(x, n + 1, Len(x))) = Len(x) - n
         /\ SubSeq(x, 1, n) \o SubSeq(x, n + 1, Len(x)) = x
PROOF
<1> DEFINE L == Len(x)
           a == SubSeq(x, 1, n)
           b == SubSeq(x, n + 1, L)
<1>1. L \in Nat /\ n \in Nat /\ n <= L
  BY Lengths
<1>2. \A i \in 1 .. L : x[i] \in Byte
  BY ElementOfSeq DEF Text
<1>3. /\ a \in Text /\ Len(a) = n
      /\ \A i \in 1 .. n : a[i] = x[i]
  BY <1>1, <1>2, SubSeqProperties DEF Text
<1>4. /\ b \in Text /\ Len(b) = L - n
      /\ \A i \in 1 .. L - n : b[i] = x[n + i]
  BY <1>1, <1>2, SubSeqProperties DEF Text
<1> HIDE DEF a, b, L
<1>5. /\ a \o b \in Text /\ Len(a \o b) = L
      /\ \A i \in 1 .. L : (a \o b)[i] = IF i <= n THEN a[i] ELSE b[i - n]
  <2>1. /\ a \o b \in Text /\ Len(a \o b) = Len(a) + Len(b)
        /\ \A i \in 1 .. Len(a) + Len(b) :
             (a \o b)[i] = IF i <= Len(a) THEN a[i] ELSE b[i - Len(a)]
    BY <1>3, <1>4, ConcatProperties DEF Text
  <2>2. Len(a) + Len(b) = L /\ Len(a) = n
    BY <1>1, <1>3, <1>4
  <2> QED BY <2>1, <2>2
<1>6. \A i \in 1 .. L : (a \o b)[i] = x[i]
  BY <1>1, <1>3, <1>4, <1>5
<1>7. a \o b = x
  BY <1>5, <1>6, SeqEqual DEF Text, L
<1> QED BY <1>3, <1>4, <1>7 DEF a, b, L

\* What is left of a length after its full blocks is unique.
LEMMA Remainder ==
  ASSUME NEW B \in Nat \ {0}, NEW m \in Nat, NEW n \in Nat,
         NEW a \in 0 .. B - 1, NEW b \in 0 .. B - 1, B * m + a = B * n + b
  PROVE  m = n /\ a = b
PROOF
<1>1. B * (m - n) = b - a
  OBVIOUS
<1>2. CASE m - n >= 1
  <2>1. B * (m - n) >= B
    BY <1>2
  <2> QED BY <1>1, <2>1
<1>3. CASE m - n <= -1
  <2>1. B * (m - n) <= -B
    BY <1>3
  <2> QED BY <1>1, <2>1
<1>4. CASE m = n
  BY <1>1, <1>4
<1> QED BY <1>2, <1>3, <1>4

LEMMA RestOfSum ==
  ASSUME NEW B \in Nat \ {0}, NEW n \in Nat, NEW r \in 0 .. B - 1
  PROVE  (B * n + r) % B = r
OBVIOUS

-----------------------------------------------------------------------------
(* The loop of update.                                                     *)

LEMMA TurnsExist ==
  ASSUME NEW x, NEW N \in Nat
  PROVE  \E f : f = [k \in 0 .. N |-> IF k = 0 THEN x ELSE Turn(f[k - 1])]
PROOF
<1> DEFINE P(n) == \E f : f = [k \in 0 .. n |-> IF k = 0 THEN x ELSE Turn(f[k - 1])]
           S == {n \in Nat : P(n)}
<1>1. 0 \in S
  <2> DEFINE f == [k \in 0 .. 0 |-> x]
  <2>1. f = [k \in 0 .. 0 |-> IF k = 0 THEN x ELSE Turn(f[k - 1])]
    OBVIOUS
  <2> QED BY <2>1
<1>2. ASSUME NEW m \in 1 .. N, m - 1 \in S PROVE m \in S
  <2>1. PICK f : f = [k \in 0 .. m - 1 |-> IF k = 0 THEN x ELSE Turn(f[k - 1])]
    BY <1>2
  <2> DEFINE g == [k \in 0 .. m |-> IF k < m THEN f[k] ELSE Turn(f[m - 1])]
  <2>2. ASSUME NEW k \in 0 .. m
        PROVE  g[k] = IF k = 0 THEN x ELSE Turn(g[k - 1])
    <3>1. CASE k = 0
      BY <2>1, <3>1
    <3>2. CASE k \in 1 .. m - 1
      <4>1. f[k] = Turn(f[k - 1])
        BY <2>1, <3>2
      <4>2. g[k] = f[k] /\ g[k - 1] = f[k - 1]
        BY <3>2
      <4> QED BY <3>2, <4>1, <4>2
    <3>3. CASE k = m
      <4>1. g[k] = Turn(f[m - 1]) /\ g[k - 1] = f[m - 1]
        BY <3>3
      <4> QED BY <3>3, <4>1
    <3> QED BY <3>1, <3>2, <3>3
  <2>3. g = [k \in 0 .. m |-> IF k = 0 THEN x ELSE Turn(g[k - 1])]
    <3>1. g = [k \in 0 .. m |-> g[k]]
      OBVIOUS
    <3> HIDE DEF g
    <3>2. \A k \in 0 .. m : g[k] = IF k = 0 THEN x ELSE Turn(g[k - 1])
      BY <2>2
    <3>3. [k \in 0 .. m |-> g[k]] = [k \in 0 .. m |-> IF k = 0 THEN x ELSE Turn(g[k - 1])]
      BY <3>2, Zenon
    <3> QED BY <3>1, <3>3, Zenon
  <2> HIDE DEF g
  <2>4. P(m)
    BY <2>3, Zenon
  <2>5. m \in Nat
    OBVIOUS
  <2> HIDE DEF P
  <2> QED BY <2>4, <2>5
<1> HIDE DEF S
<1>3. N \in S
  BY <1>1, <1>2, UpTo
<1> QED BY <1>3 DEF S

\* A context after whole blocks have been compressed: n bytes were added, and
\* those that were compressed or are in the buffer are m.
Holds(c, m, n) ==
  /\ c \in [h : Text, total_bytes : {n}, buf : Text]
  /\ c.h \o c.buf = m
  /\ Len(c.buf) \in 0 .. BlockSize - 1
  /\ \E b \in Nat : Len(c.h) = BlockSize * b

LEMMA Sizes ==
  /\ BlockSize \in Nat \ {0} /\ LengthSize \in Nat /\ LengthSize < BlockSize /\ LengthSize > 0
BY Sha1Assumption

\* Data that fit the buffer go into it.
LEMMA BufferRight ==
  ASSUME NEW c, NEW m, NEW n, Holds(c, m, n), NEW d \in Text,
         Len(c.buf) + Len(d) <= BlockSize
  PROVE  Holds(Buffer(c, d), m \o d, n)
PROOF
<1> DEFINE h == c.h
           f == c.buf
           g == f \o d
<1>1. /\ h \in Text /\ f \in Text /\ m = h \o f
      /\ c = [h |-> h, total_bytes |-> n, buf |-> f]
  BY DEF Holds
<1>2. g \in Text /\ Len(g) = Len(f) + Len(d) /\ Len(g) \in 0 .. BlockSize
  BY <1>1, Concat, Lengths, Sizes
<1>3. PICK b \in Nat : Len(h) = BlockSize * b
  BY DEF Holds
<1>7. Buffer(c, d) = IF Len(g) = BlockSize
                     THEN [c EXCEPT !.h = compress(@, g), !.buf = <<>>]
                     ELSE [c EXCEPT !.buf = g]
  BY DEF Buffer
<1> HIDE DEF h, f
<1>4. m \o d = h \o g
  BY <1>1, Assoc
<1> HIDE DEF g
<1>5. CASE Len(g) = BlockSize
  <2> DEFINE e == [h |-> h \o g, total_bytes |-> n, buf |-> <<>>]
  <2>1. Buffer(c, d) = e
    BY <1>1, <1>5, <1>7 DEF compress
  <2>2. h \o g \in Text /\ Len(h \o g) = BlockSize * (b + 1)
    <3>1. h \o g \in Text /\ Len(h \o g) = Len(h) + Len(g)
      BY <1>1, <1>2, Concat
    <3> QED BY <1>3, <1>5, <3>1, Sizes
  <2>3. (h \o g) \o <<>> = h \o g /\ <<>> \in Text /\ Len(<<>>) = 0
    BY <2>2, EmptyText
  <2>4. b + 1 \in Nat
    BY <1>3
  <2>5. /\ e \in [h : Text, total_bytes : {n}, buf : Text]
        /\ e.h = h \o g /\ e.buf = <<>>
    BY <2>2, <2>3
  <2>6. 0 \in 0 .. BlockSize - 1
    BY Sizes
  <2> HIDE DEF e
  <2>7. Holds(e, h \o g, n)
    BY <2>2, <2>3, <2>4, <2>5, <2>6 DEF Holds
  <2> QED BY <1>4, <2>1, <2>7
<1>6. CASE Len(g) # BlockSize
  <2> DEFINE e == [h |-> h, total_bytes |-> n, buf |-> g]
  <2>1. Buffer(c, d) = e
    BY <1>1, <1>6, <1>7
  <2>2. Holds(e, h \o g, n)
    BY <1>1, <1>2, <1>3, <1>6, Sizes, SMTT(30) DEF Holds
  <2> QED BY <1>4, <2>1, <2>2
<1> QED BY <1>5, <1>6

\* A turn takes data, if any are left, from the front.
LEMMA UpdateTurn ==
  ASSUME NEW t, NEW a, NEW n, NEW m, Holds(t.ctx, a, n), t.left \in Text, a \o t.left = m
  PROVE  /\ Turn(t).left \in Text
         /\ \E x : Holds(Turn(t).ctx, x, n) /\ x \o Turn(t).left = m
         /\ t.left # <<>> => Len(Turn(t).left) < Len(t.left)
         /\ t.left = <<>> => Turn(t) = t
PROOF
<1>1. CASE t.left = <<>>
  BY <1>1 DEF Turn
<1>2. CASE t.left # <<>>
  <2> DEFINE room == BlockSize - Len(t.ctx.buf)
             take == IF room > Len(t.left) THEN Len(t.left) ELSE room
             d == SubSeq(t.left, 1, take)
             l == SubSeq(t.left, take + 1, Len(t.left))
  <2>1. Turn(t) = [ctx |-> Buffer(t.ctx, d), left |-> l]
    BY <1>2 DEF Turn
  <2>2. Len(t.left) \in Nat \ {0} /\ Len(t.ctx.buf) \in 0 .. BlockSize - 1
    BY <1>2, Lengths, EmptyText DEF Holds
  <2>3. take \in 1 .. Len(t.left) /\ Len(t.ctx.buf) + take <= BlockSize
    <3> DEFINE lt == Len(t.left)
               lb == Len(t.ctx.buf)
    <3>1. lt \in Nat \ {0} /\ lb \in 0 .. BlockSize - 1
      BY <2>2
    <3>2. take = IF BlockSize - lb > lt THEN lt ELSE BlockSize - lb
      OBVIOUS
    <3> HIDE DEF lt, lb, take
    <3>3. take \in 1 .. lt /\ lb + take <= BlockSize
      BY <3>1, <3>2, Sizes
    <3> QED BY <3>3 DEF lt, lb
  <2> HIDE DEF take
  <2>10. take \in 0 .. Len(t.left)
    BY <2>2, <2>3
  <2>4. /\ d \in Text /\ l \in Text /\ Len(d) = take /\ Len(l) = Len(t.left) - take
        /\ d \o l = t.left
    BY <2>10, Cut
  <2> HIDE DEF d, l
  <2>5. Holds(Buffer(t.ctx, d), a \o d, n)
    BY <2>3, <2>4, BufferRight
  <2>6. a \in Text
    <3>1. t.ctx.h \in Text /\ t.ctx.buf \in Text /\ a = t.ctx.h \o t.ctx.buf
      BY DEF Holds
    <3> QED BY <3>1, Concat
  <2>7. (a \o d) \o l = a \o (d \o l)
    BY <2>4, <2>6, Assoc
  <2>8. (a \o d) \o l = m
    BY <2>4, <2>7
  <2>9. Len(l) < Len(t.left)
    BY <2>2, <2>3, <2>4
  <2>11. Turn(t).ctx = Buffer(t.ctx, d) /\ Turn(t).left = l
    BY <2>1
  <2> QED BY <1>2, <2>4, <2>5, <2>8, <2>9, <2>11
<1> QED BY <1>1, <1>2

\* update adds the data, whatever their length, to what the context holds.
LEMMA UpdateRight ==
  ASSUME NEW c, NEW m, NEW n \in Nat, Holds(c, m, n), NEW data \in Text
  PROVE  Holds(update(c, data), m \o data, n + Len(data))
PROOF
<1> DEFINE N == Len(data)
           turns[k \in 0 .. N] == IF k = 0 THEN [ctx |-> c, left |-> data] ELSE Turn(turns[k - 1])
           Q(k) == /\ turns[k].left \in Text
                   /\ \E x : Holds(turns[k].ctx, x, n) /\ x \o turns[k].left = m \o data
                   /\ Len(turns[k].left) <= N - k
           S == {k \in 0 .. N : Q(k)}
<1>1. N \in Nat
  BY Lengths
<1>2. update(c, data) = [turns[N].ctx EXCEPT !.total_bytes = @ + N]
  BY DEF update
<1>3. turns = [k \in 0 .. N |-> IF k = 0 THEN [ctx |-> c, left |-> data] ELSE Turn(turns[k - 1])]
  <2> DEFINE start == [ctx |-> c, left |-> data]
  <2>1. \E f : f = [k \in 0 .. N |-> IF k = 0 THEN start ELSE Turn(f[k - 1])]
    <3> HIDE DEF start, N
    <3> QED BY <1>1, TurnsExist, ZenonT(40)
  <2> QED BY <2>1, Zenon
<1> HIDE DEF turns
<1>4. turns[0] = [ctx |-> c, left |-> data] /\ \A k \in 1 .. N : turns[k] = Turn(turns[k - 1])
  BY <1>1, <1>3
<1>5. 0 \in S
  <2>1. turns[0].ctx = c /\ turns[0].left = data
    BY <1>4
  <2>2. Holds(turns[0].ctx, m, n) /\ m \o turns[0].left = m \o data
    BY <2>1
  <2>3. Len(turns[0].left) <= N - 0 /\ 0 \in 0 .. N
    BY <1>1, <2>1
  <2> QED BY <2>1, <2>2, <2>3
<1>6. ASSUME NEW k \in 1 .. N, k - 1 \in S PROVE k \in S
  <2> DEFINE t == turns[k - 1]
  <2>1. turns[k] = Turn(t) /\ k \in 0 .. N /\ N - k \in Nat
    BY <1>1, <1>4
  <2>2. PICK a : Holds(t.ctx, a, n) /\ a \o t.left = m \o data
    BY <1>6
  <2>3. t.left \in Text /\ Len(t.left) <= N - (k - 1)
    BY <1>6
  <2> HIDE DEF t
  <2>4. /\ Turn(t).left \in Text
        /\ \E x : Holds(Turn(t).ctx, x, n) /\ x \o Turn(t).left = m \o data
        /\ t.left # <<>> => Len(Turn(t).left) < Len(t.left)
        /\ t.left = <<>> => Turn(t) = t
    BY <2>2, <2>3, UpdateTurn
  <2>5. Len(Turn(t).left) <= N - k
    <3>1. Len(t.left) \in Nat /\ Len(Turn(t).left) \in Nat
      BY <2>3, <2>4, Lengths
    <3>2. CASE t.left = <<>>
      BY <2>1, <2>4, <3>2, EmptyText
    <3>3. CASE t.left # <<>>
      BY <1>1, <2>1, <2>3, <2>4, <3>1, <3>3
    <3> QED BY <3>2, <3>3
  <2> QED BY <2>1, <2>4, <2>5
<1>7. N \in S
  <2> HIDE DEF S, N
  <2>1. \A k \in 0 .. N : k \in S
    BY <1>1, <1>5, <1>6, UpTo
  <2> QED BY <1>1, <2>1
<1>8. turns[N].left \in Text /\ Len(turns[N].left) = 0
  BY <1>1, <1>7, Lengths
<1>9. turns[N].left = <<>>
  BY <1>8, EmptyText
<1>10. Holds(turns[N].ctx, m \o data, n)
  <2>1. PICK x : Holds(turns[N].ctx, x, n) /\ x \o <<>> = m \o data
    BY <1>7, <1>9
  <2>2. x \in Text
    BY <2>1, Concat DEF Holds
  <2>3. x = m \o data
    BY <2>1, <2>2, EmptyText
  <2> QED BY <2>1, <2>3
<1> HIDE DEF N
<1>11. Holds([turns[N].ctx EXCEPT !.total_bytes = @ + N], m \o data, n + N)
  BY <1>1, <1>10 DEF Holds
<1> QED BY <1>2, <1>11 DEF N

-----------------------------------------------------------------------------
(* The padding of final_digest.                                            *)

Nulls(j) == [i \in 1 .. j |-> 0]

\* A message of more bytes has a length in bits that the field cannot hold; FIPS
\* 180-4 defines no digest for it.
LengthFits == 2 ^ (ByteBits * LengthSize) \in {n \in Nat : n > MaxBytes * ByteBits}

LEMMA NullsGrow ==
  ASSUME NEW j \in Nat
  PROVE  /\ Nulls(j) \in Text /\ Len(Nulls(j)) = j
         /\ <<0>> \in Text /\ Len(<<0>>) = 1
         /\ Nulls(j) \o <<0>> = Nulls(j + 1)
PROOF
<1>1. 0 \in Byte
  BY DEF Byte
<1>2. /\ Nulls(j) \in Text /\ Len(Nulls(j)) = j
      /\ \A i \in 1 .. j : Nulls(j)[i] = 0
  BY <1>1, IsASeq DEF Nulls, Text
<1>3. /\ Nulls(j + 1) \in Text /\ Len(Nulls(j + 1)) = j + 1
      /\ \A i \in 1 .. j + 1 : Nulls(j + 1)[i] = 0
  BY <1>1, IsASeq DEF Nulls, Text
<1>4. <<0>> \in Text /\ Len(<<0>>) = 1 /\ <<0>>[1] = 0
  BY <1>1 DEF Text
<1>5. /\ Nulls(j) \o <<0>> \in Text /\ Len(Nulls(j) \o <<0>>) = j + 1
      /\ \A i \in 1 .. j + 1 : (Nulls(j) \o <<0>>)[i] = 0
  <2> DEFINE z == Nulls(j)
             o == <<0>>
  <2>1. z \in Text /\ o \in Text /\ Len(z) = j /\ Len(o) = 1
        /\ (\A i \in 1 .. j : z[i] = 0) /\ o[1] = 0
    BY <1>2, <1>4
  <2> HIDE DEF z, o
  <2>2. /\ z \o o \in Text /\ Len(z \o o) = Len(z) + Len(o)
        /\ \A i \in 1 .. Len(z) + Len(o) :
             (z \o o)[i] = IF i <= Len(z) THEN z[i] ELSE o[i - Len(z)]
    BY <2>1, ConcatProperties DEF Text
  <2>3. \A i \in 1 .. j + 1 : (z \o o)[i] = 0
    <3> SUFFICES ASSUME NEW i \in 1 .. j + 1 PROVE (z \o o)[i] = 0
      OBVIOUS
    <3>1. (z \o o)[i] = IF i <= j THEN z[i] ELSE o[i - j]
      BY <2>1, <2>2
    <3>2. CASE i <= j
      BY <2>1, <3>1, <3>2
    <3>3. CASE i = j + 1
      <4>1. i - j = 1 /\ ~(i <= j)
        BY <3>3
      <4> QED BY <2>1, <3>1, <4>1
    <3>4. i <= j \/ i = j + 1
      OBVIOUS
    <3> QED BY <3>2, <3>3, <3>4
  <2>4. z \o o \in Text /\ Len(z \o o) = j + 1
    BY <2>1, <2>2
  <2> QED BY <2>3, <2>4 DEF z, o
<1>6. Nulls(j) \o <<0>> = Nulls(j + 1)
  <2> DEFINE x == Nulls(j) \o <<0>>
             y == Nulls(j + 1)
  <2>1. /\ x \in Seq(Byte) /\ y \in Seq(Byte) /\ Len(x) = Len(y)
        /\ \A i \in 1 .. Len(x) : x[i] = y[i]
    BY <1>3, <1>5 DEF Text
  <2> HIDE DEF x, y
  <2>2. x = y
    BY <2>1, SeqEqual
  <2> QED BY <2>2 DEF x, y
<1> QED BY <1>2, <1>4, <1>6

LEMMA LengthFieldType ==
  ASSUME NEW n \in Nat
  PROVE  LengthField(n) \in Text /\ Len(LengthField(n)) = LengthSize
PROOF
<1> DEFINE v(i) == (n \div 2 ^ (ByteBits * (LengthSize - i))) % 2 ^ ByteBits
<1>1. \A i \in 1 .. LengthSize : v(i) \in Byte
  BY DEF Byte
<1>2. LengthField(n) = [i \in 1 .. LengthSize |-> v(i)]
  BY DEF LengthField
<1> HIDE DEF v
<1> QED BY <1>1, <1>2, Sizes, IsASeq DEF Text

\* What a context holds is as long as its full blocks and its buffer.
LEMMA HoldsLength ==
  ASSUME NEW c, NEW m, NEW n, Holds(c, m, n)
  PROVE  /\ m \in Text /\ Len(c.buf) \in 0 .. BlockSize - 1
         /\ \E b \in Nat : Len(m) = BlockSize * b + Len(c.buf)
PROOF
<1>1. c.h \in Text /\ c.buf \in Text /\ c.h \o c.buf = m
  BY DEF Holds
<1>2. m \in Text /\ Len(m) = Len(c.h) + Len(c.buf)
  BY <1>1, Concat
<1> QED BY <1>2 DEF Holds

\* A zero byte goes on from one block to the next.
LEMMA ZeroRight ==
  ASSUME NEW c, NEW m, NEW n \in Nat, Holds(c, m, n), Len(c.buf) # BlockSize - LengthSize
  PROVE  /\ Holds(AddZero(c), m \o <<0>>, n + 1)
         /\ Len(AddZero(c).buf) = IF Len(c.buf) + 1 < BlockSize THEN Len(c.buf) + 1 ELSE 0
PROOF
<1> DEFINE d == AddZero(c)
           x == Len(c.buf)
           y == Len(d.buf)
<1>1. <<0>> \in Text /\ Len(<<0>>) = 1
  BY NullsGrow
<1>2. Holds(d, m \o <<0>>, n + 1)
  BY <1>1, UpdateRight DEF AddZero
<1>3. PICK a \in Nat : Len(m) = BlockSize * a + x
  BY HoldsLength
<1>4. m \in Text /\ x \in 0 .. BlockSize - 1
  BY HoldsLength
<1>5. Len(m \o <<0>>) = Len(m) + 1
  BY <1>1, <1>4, Concat
<1> HIDE DEF d
<1>6. PICK b \in Nat : Len(m \o <<0>>) = BlockSize * b + y
  BY <1>2, HoldsLength
<1>7. y \in 0 .. BlockSize - 1
  BY <1>2, HoldsLength
<1> HIDE DEF x, y
<1>8. BlockSize * b + y = BlockSize * a + x + 1
  BY <1>3, <1>4, <1>5, <1>6, <1>7, Sizes
<1>9. CASE x + 1 < BlockSize
  <2> DEFINE w == x + 1
  <2>1. w \in 0 .. BlockSize - 1
    BY <1>4, <1>9, Sizes
  <2>3. BlockSize * b + y = BlockSize * a + w
    <3> DEFINE p == BlockSize * a
    <3>1. p \in Nat /\ x \in Nat
      BY <1>4, Sizes
    <3>2. BlockSize * b + y = p + x + 1
      BY <1>8
    <3> HIDE DEF p
    <3>3. p + x + 1 = p + (x + 1)
      BY <3>1
    <3> QED BY <3>2, <3>3 DEF p
  <2> HIDE DEF w
  <2>4. y = w
    BY <1>7, <2>1, <2>3, Sizes, Remainder
  <2>2. y = x + 1
    BY <2>4 DEF w
  <2> QED BY <1>2, <1>9, <2>2 DEF x, y, d
<1>10. CASE ~(x + 1 < BlockSize)
  <2>1. BlockSize * b + y = BlockSize * (a + 1) + 0 /\ 0 \in 0 .. BlockSize - 1
    BY <1>4, <1>8, <1>10, Sizes
  <2>2. a + 1 \in Nat
    OBVIOUS
  <2>3. y = 0
    BY <1>7, <2>1, <2>2, Sizes, Remainder
  <2> QED BY <1>2, <1>10, <2>3 DEF x, y, d
<1> QED BY <1>9, <1>10

LEMMA ZerosExist ==
  ASSUME NEW x, NEW N \in Nat
  PROVE  \E f : f = [k \in 0 .. N |-> IF k = 0 THEN x ELSE AddZero(f[k - 1])]
PROOF
<1> DEFINE P(n) == \E f : f = [k \in 0 .. n |-> IF k = 0 THEN x ELSE AddZero(f[k - 1])]
           S == {n \in Nat : P(n)}
<1>1. 0 \in S
  <2> DEFINE f == [k \in 0 .. 0 |-> x]
  <2>1. f = [k \in 0 .. 0 |-> IF k = 0 THEN x ELSE AddZero(f[k - 1])]
    OBVIOUS
  <2> QED BY <2>1
<1>2. ASSUME NEW m \in 1 .. N, m - 1 \in S PROVE m \in S
  <2>1. PICK f : f = [k \in 0 .. m - 1 |-> IF k = 0 THEN x ELSE AddZero(f[k - 1])]
    BY <1>2
  <2> DEFINE g == [k \in 0 .. m |-> IF k < m THEN f[k] ELSE AddZero(f[m - 1])]
  <2>2. ASSUME NEW k \in 0 .. m
        PROVE  g[k] = IF k = 0 THEN x ELSE AddZero(g[k - 1])
    <3>1. CASE k = 0
      BY <2>1, <3>1
    <3>2. CASE k \in 1 .. m - 1
      <4>1. f[k] = AddZero(f[k - 1])
        BY <2>1, <3>2
      <4>2. g[k] = f[k] /\ g[k - 1] = f[k - 1]
        BY <3>2
      <4> QED BY <3>2, <4>1, <4>2
    <3>3. CASE k = m
      <4>1. g[k] = AddZero(f[m - 1]) /\ g[k - 1] = f[m - 1]
        BY <3>3
      <4> QED BY <3>3, <4>1
    <3> QED BY <3>1, <3>2, <3>3
  <2>3. g = [k \in 0 .. m |-> IF k = 0 THEN x ELSE AddZero(g[k - 1])]
    <3>1. g = [k \in 0 .. m |-> g[k]]
      OBVIOUS
    <3> HIDE DEF g
    <3>2. \A k \in 0 .. m : g[k] = IF k = 0 THEN x ELSE AddZero(g[k - 1])
      BY <2>2
    <3>3. [k \in 0 .. m |-> g[k]] = [k \in 0 .. m |-> IF k = 0 THEN x ELSE AddZero(g[k - 1])]
      BY <3>2, Zenon
    <3> QED BY <3>1, <3>3, Zenon
  <2> HIDE DEF g
  <2>4. P(m)
    BY <2>3, Zenon
  <2>5. m \in Nat
    OBVIOUS
  <2> HIDE DEF P
  <2> QED BY <2>4, <2>5
<1> HIDE DEF S
<1>3. N \in S
  BY <1>1, <1>2, UpTo
<1> QED BY <1>3 DEF S

LEMMA ZerosUnfold ==
  ASSUME NEW x, NEW N \in Nat, NEW f,
         f = [k \in 0 .. N |-> IF k = 0 THEN x ELSE AddZero(f[k - 1])]
  PROVE  f[0] = x /\ \A k \in 1 .. N : f[k] = AddZero(f[k - 1])
OBVIOUS

\* Fewer than BlockSize zeros bring the buffer to the place of the length field.
LEMMA ZerosRight ==
  ASSUME NEW c, NEW m, NEW n \in Nat, Holds(c, m, n)
  PROVE  /\ Len(Zeros(c).buf) = BlockSize - LengthSize
         /\ \E j \in 0 .. BlockSize - 1, l \in Nat : Holds(Zeros(c), m \o Nulls(j), l)
PROOF
<1> DEFINE x == Len(c.buf)
           T == BlockSize - LengthSize
           J == IF x <= T THEN T - x ELSE T - x + BlockSize
           Upto(k) == IF k <= J THEN k ELSE J
           zeros[k \in 0 .. BlockSize] == IF k = 0 THEN c ELSE AddZero(zeros[k - 1])
           Q(k) == /\ \E l \in Nat : Holds(zeros[k], m \o Nulls(Upto(k)), l)
                   /\ Len(zeros[k].buf) = IF x + Upto(k) < BlockSize THEN x + Upto(k)
                                          ELSE x + Upto(k) - BlockSize
           S == {k \in 0 .. BlockSize : Q(k)}
<1>1. m \in Text /\ x \in 0 .. BlockSize - 1
  BY HoldsLength
<1>2. Zeros(c) = zeros[BlockSize]
  BY DEF Zeros
<1>3. zeros = [k \in 0 .. BlockSize |-> IF k = 0 THEN c ELSE AddZero(zeros[k - 1])]
  <2> HIDE DEF x, T, J
  <2>2. BlockSize \in Nat
    BY Sizes
  <2>1. \E f : f = [k \in 0 .. BlockSize |-> IF k = 0 THEN c ELSE AddZero(f[k - 1])]
    BY <2>2, ZerosExist
  <2> QED BY <2>1, Zenon
<1> HIDE DEF zeros
<1>4. zeros[0] = c /\ \A k \in 1 .. BlockSize : zeros[k] = AddZero(zeros[k - 1])
  <2>1. BlockSize \in Nat
    BY Sizes
  <2> HIDE DEF x, T, J, S, Q, Upto
  <2>2. ASSUME NEW f, f = [k \in 0 .. BlockSize |-> IF k = 0 THEN c ELSE AddZero(f[k - 1])]
        PROVE  f[0] = c /\ \A k \in 1 .. BlockSize : f[k] = AddZero(f[k - 1])
    <3>1. 0 \in 0 .. BlockSize
      BY <2>1
    <3>2. f[0] = c
      BY <2>2, <3>1
    <3>3. ASSUME NEW k \in 1 .. BlockSize
          PROVE  f[k] = AddZero(f[k - 1])
      <4>1. k \in 0 .. BlockSize /\ k # 0
        BY <2>1
      <4> QED BY <2>2, <4>1
    <3> QED BY <3>2, <3>3
  <2> QED BY <1>3, <2>2, Zenon
<1> HIDE DEF x
<1>5. T \in 1 .. BlockSize - 1 /\ J \in 0 .. BlockSize - 1
  BY <1>1, Sizes
<1>6. /\ x + J < BlockSize => x + J = T
      /\ ~(x + J < BlockSize) => x + J - BlockSize = T
      /\ \A i \in 0 .. J - 1 : /\ x + i < BlockSize => x + i # T
                               /\ ~(x + i < BlockSize) => x + i - BlockSize # T
  BY <1>1, Sizes
<1> HIDE DEF J
<1>7. Nulls(0) = <<>>
  <2>1. Nulls(0) \in Text /\ Len(Nulls(0)) = 0
    BY NullsGrow
  <2> QED BY <2>1, EmptyText
<1>8. 0 \in S
  <2>1. Upto(0) = 0 /\ 0 \in 0 .. BlockSize
    BY <1>5, Sizes
  <2>2. m \o Nulls(0) = m
    BY <1>1, <1>7, EmptyText
  <2>3. Holds(zeros[0], m \o Nulls(Upto(0)), n)
    BY <1>4, <2>1, <2>2
  <2>4. Len(zeros[0].buf) = x /\ x + Upto(0) = x /\ x < BlockSize
    BY <1>1, <1>4, <2>1, Sizes DEF x
  <2> HIDE DEF Upto
  <2> QED BY <2>1, <2>3, <2>4
<1>9. ASSUME NEW k \in 1 .. BlockSize, k - 1 \in S PROVE k \in S
  <2> DEFINE i == Upto(k - 1)
             z == zeros[k - 1]
  <2>1. PICK l \in Nat : Holds(z, m \o Nulls(i), l)
    BY <1>9
  <2>2. /\ Len(z.buf) = IF x + i < BlockSize THEN x + i ELSE x + i - BlockSize
        /\ i \in 0 .. J /\ k \in 0 .. BlockSize /\ zeros[k] = AddZero(z)
    BY <1>4, <1>5, <1>9, Sizes
  <2>3. CASE k - 1 < J
    <3>1. i \in 0 .. J - 1 /\ Upto(k) = i + 1
      BY <1>5, <2>3
    <3> HIDE DEF i, z, Upto
    <3>2. Len(z.buf) # T
      BY <1>6, <2>2, <3>1
    <3>3. /\ Holds(AddZero(z), (m \o Nulls(i)) \o <<0>>, l + 1)
          /\ Len(AddZero(z).buf) = IF Len(z.buf) + 1 < BlockSize THEN Len(z.buf) + 1 ELSE 0
      BY <2>1, <3>2, ZeroRight
    <3>4. (m \o Nulls(i)) \o <<0>> = m \o Nulls(i + 1)
      <4>1. i \in Nat
        BY <1>5, <3>1
      <4>2. Nulls(i) \in Text /\ <<0>> \in Text /\ Nulls(i) \o <<0>> = Nulls(i + 1)
        BY <4>1, NullsGrow
      <4>3. (m \o Nulls(i)) \o <<0>> = m \o (Nulls(i) \o <<0>>)
        BY <1>1, <4>2, Assoc
      <4> QED BY <4>2, <4>3
    <3>5. Len(zeros[k].buf) = IF x + Upto(k) < BlockSize THEN x + Upto(k)
                              ELSE x + Upto(k) - BlockSize
      <4> DEFINE u == Len(z.buf)
      <4>1. /\ u = IF x + i < BlockSize THEN x + i ELSE x + i - BlockSize
            /\ Len(zeros[k].buf) = IF u + 1 < BlockSize THEN u + 1 ELSE 0
        BY <2>2, <3>3
      <4> HIDE DEF u
      <4>2. Upto(k) = i + 1 /\ i \in Nat /\ x \in 0 .. BlockSize - 1 /\ i < BlockSize
        BY <1>1, <1>5, <3>1, Sizes
      <4>3. CASE x + i < BlockSize
        <5>1. CASE x + i + 1 < BlockSize
          BY <4>1, <4>2, <4>3, <5>1, Sizes
        <5>2. CASE ~(x + i + 1 < BlockSize)
          BY <4>1, <4>2, <4>3, <5>2, Sizes
        <5> QED BY <5>1, <5>2
      <4>4. CASE ~(x + i < BlockSize)
        <5>1. u + 1 < BlockSize /\ ~(x + (i + 1) < BlockSize) /\ u = x + i - BlockSize
          BY <4>1, <4>2, <4>4, Sizes
        <5>2. u + 1 = x + (i + 1) - BlockSize
          BY <4>2, <5>1, Sizes
        <5> QED BY <4>1, <4>2, <5>1, <5>2
      <4> QED BY <4>3, <4>4
    <3>6. Holds(zeros[k], m \o Nulls(Upto(k)), l + 1) /\ l + 1 \in Nat
      <4>1. zeros[k] = AddZero(z) /\ Upto(k) = i + 1
        BY <2>2, <3>1
      <4>2. Holds(AddZero(z), m \o Nulls(i + 1), l + 1)
        BY <3>3, <3>4, Zenon
      <4>3. l + 1 \in Nat
        OBVIOUS
      <4> QED BY <4>1, <4>2, <4>3, Zenon
    <3> QED BY <2>2, <3>5, <3>6
  <2>4. CASE ~(k - 1 < J)
    <3>1. i = J /\ Upto(k) = J
      BY <1>5, <2>4
    <3> HIDE DEF i, z, Upto
    <3>2. Len(z.buf) = T
      BY <1>6, <2>2, <3>1
    <3>3. zeros[k] = z
      BY <2>2, <3>2 DEF AddZero
    <3> QED BY <2>1, <2>2, <3>1, <3>3
  <2> QED BY <2>3, <2>4
<1>10. BlockSize \in S
  <2> HIDE DEF S
  <2>1. \A k \in 0 .. BlockSize : k \in S
    BY <1>8, <1>9, Sizes, UpTo
  <2> QED BY <2>1, Sizes
<1>11. Upto(BlockSize) = J
  BY <1>5, Sizes
<1> HIDE DEF Upto
<1>12. /\ \E l \in Nat : Holds(zeros[BlockSize], m \o Nulls(J), l)
       /\ Len(zeros[BlockSize].buf) = T
  BY <1>6, <1>10, <1>11
<1> QED BY <1>2, <1>5, <1>12

\* The number of zeros that fill the last block is unique.
LEMMA PadRight ==
  ASSUME NEW m \in Text, NEW j \in 0 .. BlockSize - 1, NEW b \in Nat,
         Len(m) + 1 + j + LengthSize = BlockSize * (b + 1)
  PROVE  Padded(m) = ((m \o <<2 ^ (ByteBits - 1)>>) \o Nulls(j))
                       \o LengthField(Len(m) * ByteBits)
PROOF
<1> DEFINE L == Len(m)
           Fills(n) == (L + 1 + n + LengthSize) % BlockSize = 0
           k == CHOOSE n \in 0 .. BlockSize - 1 : Fills(n)
<1>1. L \in Nat /\ L + 1 + j + LengthSize = BlockSize * (b + 1)
  BY Lengths
<1>2. Padded(m) = ((m \o <<2 ^ (ByteBits - 1)>>) \o Nulls(k)) \o LengthField(L * ByteBits)
  BY DEF Padded, Nulls
<1> HIDE DEF L
<1>3. Fills(j)
  <2>1. L + 1 + j + LengthSize = BlockSize * (b + 1) + 0 /\ 0 \in 0 .. BlockSize - 1
    BY <1>1, Sizes
  <2>2. (BlockSize * (b + 1) + 0) % BlockSize = 0
    <3> DEFINE e == b + 1
    <3>1. e \in Nat
      OBVIOUS
    <3> HIDE DEF e
    <3>2. (BlockSize * e + 0) % BlockSize = 0
      BY <2>1, <3>1, Sizes, RestOfSum
    <3> QED BY <3>2 DEF e
  <2> QED BY <2>1, <2>2, Zenon
<1>4. ASSUME NEW n \in 0 .. BlockSize - 1, Fills(n)
      PROVE  n = j
  <2>1. CASE n > j
    <3> DEFINE d == n - j
               e == b + 1
    <3>1. d \in 0 .. BlockSize - 1 /\ d # 0 /\ e \in Nat
      BY <2>1, Sizes
    <3>2. L + 1 + n + LengthSize = BlockSize * e + d
      <4>1. L + 1 + n + LengthSize = (L + 1 + j + LengthSize) + (n - j)
        BY <1>1, Sizes
      <4> QED BY <1>1, <4>1
    <3> HIDE DEF d, e, Fills
    <3>3. (BlockSize * e + d) % BlockSize = d
      BY <3>1, Sizes, RestOfSum
    <3> QED BY <1>4, <3>1, <3>2, <3>3 DEF Fills
  <2>2. CASE n < j
    <3> DEFINE d == BlockSize - (j - n)
    <3>1. d \in 0 .. BlockSize - 1 /\ d # 0
      BY <2>2, Sizes
    <3>2. L + 1 + n + LengthSize = BlockSize * b + d
      <4>1. L + 1 + n + LengthSize = (L + 1 + j + LengthSize) - (j - n)
        BY <1>1, Sizes
      <4>2. BlockSize * (b + 1) = BlockSize * b + BlockSize
        BY Sizes
      <4> DEFINE p == BlockSize * b
      <4>3. p \in Nat
        BY Sizes
      <4>4. L + 1 + n + LengthSize = (p + BlockSize) - (j - n)
        BY <1>1, <4>1, <4>2
      <4> HIDE DEF p
      <4>5. L + 1 + n + LengthSize = p + (BlockSize - (j - n))
        BY <4>3, <4>4, Sizes
      <4> QED BY <4>5 DEF p
    <3> HIDE DEF d, Fills
    <3>3. (BlockSize * b + d) % BlockSize = d
      BY <3>1, Sizes, RestOfSum
    <3> QED BY <1>4, <3>1, <3>2, <3>3 DEF Fills
  <2>3. CASE n = j
    BY <2>3
  <2> QED BY <2>1, <2>2, <2>3, Sizes
<1> HIDE DEF Fills
<1>5. k = j
  BY <1>3, <1>4
<1> QED BY <1>2, <1>5 DEF L

\* final_digest compresses the message as FIPS 180-4 pads it, and nothing is left
\* in the buffer.
LEMMA FinalDigestRight ==
  ASSUME LengthFits, NEW c, NEW m, Holds(c, m, Len(m)), Len(m) <= MaxBytes
  PROVE  final_digest(c).h = Padded(m)
PROOF
<1> DEFINE L == Len(m)
           one == <<2 ^ (ByteBits - 1)>>
           bits == (c.total_bytes * ByteBits) % 2 ^ (ByteBits * LengthSize)
           F == LengthField(bits)
           c1 == update(c, one)
           c2 == Zeros(c1)
           c3 == update(c2, F)
<1>1. m \in Text /\ L \in Nat /\ c.total_bytes = L /\ final_digest(c) = c3
  BY HoldsLength, Lengths DEF Holds, final_digest
<1>2. one \in Text /\ Len(one) = 1
  BY DEF Text, Byte
<1>3. bits = L * ByteBits /\ bits \in Nat
  <2> DEFINE M == 2 ^ (ByteBits * LengthSize)
             u == L * ByteBits
             v == MaxBytes * ByteBits
  <2>1. M \in Nat /\ M > v
    BY DEF LengthFits
  <2>2. u \in Nat /\ v \in Nat /\ u <= v
    BY <1>1, Sha1Assumption
  <2>3. bits = u % M
    BY <1>1
  <2> HIDE DEF M, u, v, bits
  <2>4. u % M = u
    BY <2>1, <2>2
  <2> QED BY <2>2, <2>3, <2>4 DEF u
<1> HIDE DEF bits
<1>4. F \in Text /\ Len(F) = LengthSize
  BY <1>3, LengthFieldType
<1>5. Holds(c1, m \o one, L + 1)
  BY <1>1, <1>2, UpdateRight
<1> HIDE DEF F, c1, one
<1>6. PICK j \in 0 .. BlockSize - 1, l \in Nat :
        Len(c2.buf) = BlockSize - LengthSize /\ Holds(c2, (m \o one) \o Nulls(j), l)
  BY <1>1, <1>5, ZerosRight
<1> DEFINE w == (m \o one) \o Nulls(j)
           q == w \o F
<1> HIDE DEF c2
<1>7. Holds(c3, q, l + LengthSize)
  <2> HIDE DEF w
  <2>1. Holds(c2, w, l)
    BY <1>6 DEF w
  <2> QED BY <1>4, <2>1, UpdateRight
<1>8. w \in Text /\ Len(w) = L + 1 + j
  <2>1. m \o one \in Text /\ Len(m \o one) = L + 1
    BY <1>1, <1>2, Concat
  <2>3. j \in Nat
    BY Sizes
  <2>2. Nulls(j) \in Text /\ Len(Nulls(j)) = j
    BY <2>3, NullsGrow
  <2> QED BY <2>1, <2>2, Concat
<1>9. PICK b \in Nat : Len(w) = BlockSize * b + (BlockSize - LengthSize)
  BY <1>6, HoldsLength
<1> HIDE DEF w
<1>10. Len(q) = BlockSize * (b + 1) /\ L + 1 + j + LengthSize = BlockSize * (b + 1)
  <2>1. Len(q) = Len(w) + LengthSize
    BY <1>4, <1>8, Concat
  <2> DEFINE p == BlockSize * b
  <2>2. p \in Nat /\ BlockSize * (b + 1) = p + BlockSize
    BY Sizes
  <2>3. Len(w) = p + (BlockSize - LengthSize)
    BY <1>9
  <2> HIDE DEF p, q
  <2>4. Len(w) + LengthSize = p + BlockSize
    BY <2>2, <2>3, Sizes
  <2> QED BY <1>8, <2>1, <2>2, <2>4
<1> HIDE DEF c3, q
<1>11. c3.h = q
  <2>1. PICK a \in Nat : Len(q) = BlockSize * a + Len(c3.buf)
    BY <1>7, HoldsLength
  <2> DEFINE y == Len(c3.buf)
             e == b + 1
  <2>2. y \in 0 .. BlockSize - 1 /\ 0 \in 0 .. BlockSize - 1 /\ e \in Nat
    <3>1. y \in 0 .. BlockSize - 1
      BY <1>7, HoldsLength
    <3>2. 0 \in 0 .. BlockSize - 1 /\ e \in Nat
      BY Sizes
    <3> QED BY <3>1, <3>2
  <2>3. BlockSize * a + y = BlockSize * e + 0
    <3>1. BlockSize * a + y = BlockSize * e
      BY <1>10, <2>1
    <3> DEFINE z == BlockSize * e
    <3>2. z \in Nat
      BY <2>2, Sizes
    <3> HIDE DEF z
    <3>3. z + 0 = z
      BY <3>2
    <3> QED BY <3>1, <3>3 DEF z
  <2> HIDE DEF y, e
  <2>4. y = 0
    BY <2>2, <2>3, Sizes, Remainder
  <2>5. c3.buf \in Text /\ c3.h \in Text /\ q = c3.h \o c3.buf
    BY <1>7 DEF Holds
  <2>6. c3.buf = <<>>
    BY <2>4, <2>5, EmptyText DEF y
  <2> QED BY <2>5, <2>6, EmptyText
<1>12. Padded(m) = ((m \o one) \o Nulls(j)) \o LengthField(L * ByteBits)
  BY <1>1, <1>10, PadRight DEF one
<1> QED BY <1>1, <1>3, <1>11, <1>12 DEF c3, q, w, F

-----------------------------------------------------------------------------
(* The clients.                                                            *)

\* What the client's context holds, between two calls, is the message so far.  The
\* SHA1 element's means nothing until a message begins; SHA1_Block keeps no count,
\* and its buffer is a flit or none.
Held(cl, x, s, g) ==
  /\ cl \in Clients
  /\ cl = "program" => Holds(x, g, Len(g))
  /\ cl = "SHA1" => s \in BOOLEAN /\ IF s THEN Holds(x, g, Len(g)) ELSE g = <<>>
  /\ cl = "SHA1_Block" => /\ x \in [h : Text, total_bytes : {0}, buf : Text]
                          /\ x.h \o x.buf = g

ShaInv ==
  /\ Held(client, ctx, started, given)
  /\ given \in Text /\ sent \in 0 .. MaxBytes /\ Len(given) <= sent
  /\ DigestRight

LEMMA BytesType ==
  ASSUME NEW n \in Nat, sent \in Nat
  PROVE  Bytes(n) \in Text /\ Len(Bytes(n)) = n
PROOF
<1>1. \A i \in 1 .. n : (sent + i) % 2 ^ ByteBits \in Byte
  BY DEF Byte
<1> QED BY <1>1, IsASeq DEF Bytes, Text

LEMMA InitHolds == Holds(init, <<>>, 0) /\ init \in [h : Text, total_bytes : {0}, buf : Text]
PROOF
<1>1. init = [h |-> <<>>, total_bytes |-> 0, buf |-> <<>>]
  BY DEF init
<1>2. <<>> \in Text /\ Len(<<>>) = 0 /\ <<>> \o <<>> = <<>>
  BY EmptyText
<1>3. init \in [h : Text, total_bytes : {0}, buf : Text] /\ init.h = <<>> /\ init.buf = <<>>
  BY <1>1, <1>2
<1>4. Len(init.h) = BlockSize * 0 /\ Len(init.buf) \in 0 .. BlockSize - 1
  BY <1>2, <1>3, Sizes
<1>5. init.h \o init.buf = <<>>
  BY <1>2, <1>3
<1>6. 0 \in Nat
  OBVIOUS
<1> QED BY <1>3, <1>4, <1>5, <1>6 DEF Holds

LEMMA ShaInitInv == ShaInit => ShaInv
PROOF
<1> SUFFICES ASSUME ShaInit PROVE ShaInv
  OBVIOUS
<1>1. <<>> \in Text /\ Len(<<>>) = 0 /\ <<>> \o <<>> = <<>>
  BY EmptyText
<1>2. init.h \o init.buf = <<>>
  BY <1>1 DEF init
<1>3. Held(client, ctx, started, given)
  BY <1>1, <1>2, InitHolds DEF ShaInit, Held
<1>4. DigestRight
  BY DEF ShaInit, DigestRight
<1> QED BY <1>1, <1>3, <1>4, Sha1Assumption DEF ShaInv, ShaInit

\* A flit or a chunk more.
LEMMA MoreHeld ==
  ASSUME NEW c, NEW m \in Text, Holds(c, m, Len(m)), NEW d \in Text
  PROVE  /\ Holds(update(c, d), m \o d, Len(m \o d))
         /\ m \o d \in Text /\ Len(m \o d) = Len(m) + Len(d)
PROOF
<1>1. m \o d \in Text /\ Len(m \o d) = Len(m) + Len(d) /\ Len(m) \in Nat
  BY Concat, Lengths
<1>2. Holds(update(c, d), m \o d, Len(m) + Len(d))
  BY <1>1, UpdateRight
<1> QED BY <1>1, <1>2

LEMMA ShaStep ==
  ASSUME LengthFits, ShaInv, [ShaNext]_shaVars
  PROVE  ShaInv'
PROOF
<1>0. /\ given \in Text /\ sent \in 0 .. MaxBytes /\ Len(given) <= sent /\ DigestRight
      /\ Held(client, ctx, started, given) /\ sent \in Nat /\ MaxBytes \in Nat
      /\ Len(given) \in Nat
  BY Sha1Assumption, Lengths DEF ShaInv
<1>1. ASSUME NEW n \in 0 .. MaxBytes, Update(n)
      PROVE  ShaInv'
  <2> DEFINE d == Bytes(n)
  <2>1. d \in Text /\ Len(d) = n /\ n \in Nat
    BY <1>0, BytesType
  <2>2. /\ client = "program" /\ sent + n <= MaxBytes /\ ctx' = update(ctx, d)
        /\ given' = given \o d /\ sent' = sent + n
        /\ client' = client /\ started' = started /\ output' = output
    BY <1>1 DEF Update
  <2> HIDE DEF d
  <2>3. Holds(ctx, given, Len(given))
    BY <1>0, <2>2 DEF Held
  <2>4. /\ Holds(ctx', given', Len(given'))
        /\ given' \in Text /\ Len(given') = Len(given) + n
    BY <1>0, <2>1, <2>2, <2>3, MoreHeld
  <2>5. Held(client', ctx', started', given')
    BY <2>2, <2>4 DEF Held, Clients
  <2>6. DigestRight'
    BY <1>0, <2>2 DEF DigestRight
  <2>7. sent' \in 0 .. MaxBytes /\ Len(given') <= sent'
    BY <1>0, <2>1, <2>2, <2>4
  <2> QED BY <2>4, <2>5, <2>6, <2>7 DEF ShaInv
<1>2. CASE Digest
  <2>1. /\ client = "program" /\ output' = {[h |-> final_digest(ctx).h, of |-> given]}
        /\ ctx' = init /\ given' = <<>>
        /\ client' = client /\ started' = started /\ sent' = sent
    BY <1>2 DEF Digest, Emitted
  <2>2. Holds(ctx, given, Len(given)) /\ Len(given) <= MaxBytes
    BY <1>0, <2>1 DEF Held
  <2>3. final_digest(ctx).h = Padded(given)
    BY <2>2, FinalDigestRight
  <2>4. DigestRight'
    BY <2>1, <2>3 DEF DigestRight
  <2>5. given' \in Text /\ Len(given') = 0
    BY <2>1, EmptyText
  <2>6. Held(client', ctx', started', given')
    BY <2>1, <2>5, InitHolds DEF Held, Clients
  <2> QED BY <1>0, <2>1, <2>4, <2>5, <2>6 DEF ShaInv
<1>3. ASSUME NEW sop \in BOOLEAN, NEW eop \in BOOLEAN, Handle(sop, eop)
      PROVE  ShaInv'
  <2> DEFINE d == Bytes(FlitBytes)
             c == update(IF Begins(sop) THEN init ELSE ctx, d)
             msg == IF sop THEN d ELSE given \o d
  <2>1. d \in Text /\ Len(d) = FlitBytes /\ FlitBytes \in Nat
    BY <1>0, BytesType, Sha1Assumption
  <2>2. /\ client = "SHA1" /\ sent + FlitBytes <= MaxBytes /\ sent' = sent + FlitBytes
        /\ client' = client
        /\ IF eop
           THEN /\ output' = {[h |-> final_digest(c).h, of |-> msg]}
                /\ started' = FALSE /\ given' = <<>>
           ELSE ctx' = c /\ started' = TRUE /\ given' = msg /\ output' = output
    BY <1>3 DEF Handle, Emitted
  <2>3. started \in BOOLEAN /\ (IF started THEN Holds(ctx, given, Len(given)) ELSE given = <<>>)
    BY <1>0, <2>2 DEF Held
  <2> HIDE DEF d
  <2>4. Holds(c, msg, Len(msg)) /\ msg \in Text /\ Len(msg) <= sent + FlitBytes
    <3>1. CASE Begins(sop)
      <4>1. msg = <<>> \o d /\ <<>> \o d = d /\ <<>> \in Text /\ Len(<<>>) = 0
        BY <2>1, <2>3, <3>1, EmptyText DEF Begins
      <4>2. c = update(init, d)
        BY <3>1
      <4>3. Holds(init, <<>>, Len(<<>>))
        BY <4>1, InitHolds
      <4>4. Holds(update(init, d), <<>> \o d, Len(<<>> \o d))
        BY <2>1, <4>1, <4>3, MoreHeld
      <4> HIDE DEF c, msg
      <4> QED BY <1>0, <2>1, <4>1, <4>2, <4>4
    <3>2. CASE ~Begins(sop)
      <4>1. msg = given \o d /\ c = update(ctx, d) /\ started
        BY <2>3, <3>2 DEF Begins
      <4>2. Holds(ctx, given, Len(given))
        BY <2>3, <4>1
      <4>3. /\ Holds(update(ctx, d), given \o d, Len(given \o d))
            /\ given \o d \in Text /\ Len(given \o d) = Len(given) + Len(d)
        BY <1>0, <2>1, <4>2, MoreHeld
      <4> HIDE DEF c, msg
      <4> QED BY <1>0, <2>1, <4>1, <4>3
    <3> QED BY <3>1, <3>2
  <2> HIDE DEF c, msg
  <2>5. Len(msg) \in Nat /\ Len(msg) <= MaxBytes
    BY <1>0, <2>1, <2>2, <2>4, Lengths
  <2>6. sent' \in 0 .. MaxBytes
    BY <1>0, <2>1, <2>2
  <2>7. CASE eop
    <3>1. final_digest(c).h = Padded(msg)
      BY <2>4, <2>5, FinalDigestRight
    <3>2. DigestRight'
      BY <2>2, <2>7, <3>1 DEF DigestRight
    <3>3. given' = <<>> /\ given' \in Text /\ Len(given') = 0
      BY <2>2, <2>7, EmptyText
    <3>4. Held(client', ctx', started', given')
      BY <2>2, <2>7, <3>3 DEF Held, Clients
    <3> QED BY <2>6, <3>2, <3>3, <3>4 DEF ShaInv
  <2>8. CASE ~eop
    <3>1. /\ ctx' = c /\ started' = TRUE /\ given' = msg /\ output' = output
          /\ client' = client /\ client = "SHA1" /\ sent' = sent + FlitBytes
      BY <2>2, <2>8
    <3>2. DigestRight'
      BY <1>0, <3>1 DEF DigestRight
    <3>3. Held(client', ctx', started', given')
      BY <2>4, <3>1 DEF Held, Clients
    <3> QED BY <2>4, <2>6, <3>1, <3>2, <3>3 DEF ShaInv
  <2> QED BY <2>7, <2>8
<1>4. ASSUME NEW sop \in BOOLEAN, HandleBlock(sop)
      PROVE  ShaInv'
  <2> DEFINE d == Bytes(FlitBytes)
             c == IF sop THEN init ELSE ctx
             msg == IF sop THEN d ELSE given \o d
             before == IF sop THEN <<>> ELSE given
  <2>1. d \in Text /\ Len(d) = FlitBytes /\ FlitBytes \in Nat
    BY <1>0, BytesType, Sha1Assumption
  <2>2. /\ client = "SHA1_Block" /\ sent + FlitBytes <= MaxBytes
        /\ sent' = sent + FlitBytes /\ client' = client /\ given' = msg
        /\ IF c.buf # <<>>
           THEN /\ ctx' = [c EXCEPT !.h = c.h \o (c.buf \o d), !.buf = <<>>]
                /\ output' = {[h |-> ctx'.h, of |-> msg]}
           ELSE ctx' = [c EXCEPT !.buf = d] /\ output' = output
    BY <1>4 DEF HandleBlock, Emitted, compress
  <2>3. ctx \in [h : Text, total_bytes : {0}, buf : Text] /\ ctx.h \o ctx.buf = given
    BY <1>0, <2>2 DEF Held
  <2>4. <<>> \in Text /\ Len(<<>>) = 0 /\ init.h \o init.buf = <<>>
    BY EmptyText DEF init
  <2>5. /\ c \in [h : Text, total_bytes : {0}, buf : Text]
        /\ c.h \o c.buf = before /\ before \in Text /\ Len(before) <= sent
    BY <1>0, <2>3, <2>4, InitHolds
  <2> HIDE DEF d
  <2>6. msg = before \o d
    BY <2>1, EmptyText
  <2> HIDE DEF c, msg, before
  <2>7. msg \in Text /\ Len(msg) = Len(before) + FlitBytes /\ Len(before) \in Nat
    BY <2>1, <2>5, <2>6, Concat, Lengths
  <2>8. /\ given' \in Text /\ sent' \in 0 .. MaxBytes /\ Len(given') <= sent'
    BY <1>0, <2>1, <2>2, <2>5, <2>7
  <2> DEFINE h == c.h
             f == c.buf
  <2>9. h \in Text /\ f \in Text /\ h \o f = before /\ c = [h |-> h, total_bytes |-> 0, buf |-> f]
    BY <2>5
  <2>10. CASE f # <<>>
    <3>1. ctx' = [h |-> h \o (f \o d), total_bytes |-> 0, buf |-> <<>>]
          /\ output' = {[h |-> ctx'.h, of |-> msg]}
      <4>1. /\ ctx' = [c EXCEPT !.h = h \o (f \o d), !.buf = <<>>]
            /\ output' = {[h |-> ctx'.h, of |-> msg]}
        BY <2>2, <2>10
      <4> HIDE DEF h, f
      <4> QED BY <2>9, <4>1
    <3> HIDE DEF h, f
    <3>2. h \o (f \o d) = msg
      BY <2>1, <2>6, <2>9, Assoc
    <3>3. ctx' = [h |-> msg, total_bytes |-> 0, buf |-> <<>>] /\ msg \o <<>> = msg
      BY <2>7, <3>1, <3>2, EmptyText
    <3>4. Held(client', ctx', started', given')
      BY <2>2, <2>4, <2>7, <3>3 DEF Held, Clients
    <3>5. DigestRight'
      <4>1. ctx'.h = msg
        BY <3>3
      <4>2. output' = {[h |-> msg, of |-> msg]}
        BY <3>1, <4>1
      <4> QED BY <2>2, <4>2 DEF DigestRight
    <3> QED BY <2>8, <3>4, <3>5 DEF ShaInv
  <2>11. CASE f = <<>>
    <3>1. ctx' = [h |-> h, total_bytes |-> 0, buf |-> d] /\ output' = output
      BY <2>2, <2>9, <2>11
    <3> HIDE DEF h, f
    <3>2. h = before
      BY <2>9, <2>11, EmptyText
    <3>3. Held(client', ctx', started', given')
      BY <2>1, <2>2, <2>6, <2>9, <3>1, <3>2 DEF Held, Clients
    <3>4. DigestRight'
      BY <1>0, <2>2, <3>1 DEF DigestRight
    <3> QED BY <2>8, <3>3, <3>4 DEF ShaInv
  <2> QED BY <2>10, <2>11
<1>5. CASE UNCHANGED shaVars
  <2>1. /\ client' = client /\ ctx' = ctx /\ started' = started /\ given' = given
        /\ sent' = sent /\ output' = output
    BY <1>5 DEF shaVars
  <2>2. DigestRight'
    BY <1>0, <2>1 DEF DigestRight
  <2> QED BY <1>0, <2>1, <2>2 DEF ShaInv
<1> QED BY <1>1, <1>2, <1>3, <1>4, <1>5 DEF ShaNext

\* DigestRight for every block size, flit size and length of the length field: the
\* digest is that of the whole message, in whatever chunks or flits it came, wherever
\* in a block it ends and whatever was hashed before (sha1.hpp's update and
\* final_digest, and the SHA1 and SHA1_Block elements).  The condition is the
\* standard's: the number of bits fits the length field.
THEOREM DigestsRight == ASSUME LengthFits PROVE ShaSpec => []DigestRight
PROOF
<1>1. ShaInit => ShaInv
  BY ShaInitInv
<1>2. ShaInv /\ [ShaNext]_shaVars => ShaInv'
  BY ShaStep
<1>3. ShaInv => DigestRight
  BY DEF ShaInv
<1> QED BY <1>1, <1>2, <1>3, PTL DEF ShaSpec
=============================================================================
