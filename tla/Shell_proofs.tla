---------------------------- MODULE Shell_proofs ----------------------------
(***************************************************************************)
(* The blocks of the shell.                                                *)
(*                                                                         *)
(* The round robin of slot_mux is fair for every number of slots: the      *)
(* inductive invariant adds to BoundedWait how far the search still has to *)
(* go before it reaches a waiting slot.                                    *)
(*                                                                         *)
(* The slot-multiplexed host channel conserves flits, for every number of  *)
(* slots, every set of slot_ids and every length of the channel.  With the *)
(* types of the path Conserved is inductive: each cycle moves at most one  *)
(* flit from the channel to a kernel, any number from the kernels to the   *)
(* mux, and at most one from the mux to the host.                          *)
(*                                                                         *)
(* The status block answers what it is asked, for any set of counters and  *)
(* any bound on them, however slow its master is.                          *)
(***************************************************************************)
EXTENDS SlotDemux, StatusBlock, Induction, FiniteSetTheorems, SequenceTheorems, TLAPS

(* slot_mux.                                                               *)

\* The turn in which slot s is examined.
Distance(s) == IF s > rr THEN s - rr - 1 ELSE s - rr - 1 + NumSlots

MuxInv ==
  /\ TypeOK
  /\ \A s \in Slots : /\ s \notin valid => waited[s] = 0
                      /\ s \in valid => waited[s] + Distance(s) <= NumSlots - 1

LEMMA Modulo ==
  ASSUME NEW N \in Nat \ {0}, NEW a \in 0 .. N + N - 1
  PROVE  a % N = IF a < N THEN a ELSE a - N
PROOF
  OBVIOUS

LEMMA CandidateValue ==
  ASSUME TypeOK, NEW j \in Slots
  PROVE  Candidate(j) = IF rr + 1 + j < NumSlots THEN rr + 1 + j ELSE rr + 1 + j - NumSlots
PROOF
<1>1. /\ rr \in Nat /\ j \in Nat
      /\ rr + 1 + j \in 0 .. NumSlots + NumSlots - 1
  BY SlotMuxAssumption DEF TypeOK, Slots
<1>2. (rr + 1 + j) % NumSlots = IF rr + 1 + j < NumSlots THEN rr + 1 + j
                                ELSE rr + 1 + j - NumSlots
  <2> DEFINE a == rr + 1 + j
  <2>1. a \in 0 .. NumSlots + NumSlots - 1
    BY <1>1
  <2> HIDE DEF a
  <2>2. a % NumSlots = IF a < NumSlots THEN a ELSE a - NumSlots
    BY <2>1, SlotMuxAssumption
  <2> QED BY <1>1, <2>2, SlotMuxAssumption DEF a
<1> QED BY <1>2 DEF Candidate

LEMMA CandidateAt ==
  ASSUME TypeOK, NEW s \in Slots
  PROVE  Distance(s) \in Slots /\ Candidate(Distance(s)) = s
PROOF
<1>1. Distance(s) \in Slots
  BY SlotMuxAssumption DEF TypeOK, Slots, Distance
<1>2. Candidate(Distance(s)) = IF rr + 1 + Distance(s) < NumSlots THEN rr + 1 + Distance(s)
                               ELSE rr + 1 + Distance(s) - NumSlots
  BY <1>1, CandidateValue
<1>3. /\ rr \in Nat /\ s \in Nat /\ NumSlots \in Nat
      /\ rr < NumSlots /\ s < NumSlots
  BY SlotMuxAssumption DEF TypeOK, Slots
<1>4. CASE s > rr
  <2>1. Distance(s) = s - rr - 1
    BY <1>4 DEF Distance
  <2> QED BY <1>1, <1>2, <1>3, <2>1
<1>5. CASE ~(s > rr)
  <2>1. Distance(s) = s - rr - 1 + NumSlots
    BY <1>5 DEF Distance
  <2> QED BY <1>1, <1>2, <1>3, <2>1
<1> QED BY <1>4, <1>5

LEMMA CandidateInjective ==
  ASSUME TypeOK, NEW j \in Slots
  PROVE  Candidate(j) \in Slots /\ j = Distance(Candidate(j))
PROOF
<1>0. rr \in Slots
  BY DEF TypeOK
<1>1. CASE rr + 1 + j < NumSlots
  <2>1. Candidate(j) = rr + 1 + j
    BY <1>1, CandidateValue
  <2> QED BY <1>0, <1>1, <2>1, SlotMuxAssumption DEF Slots, Distance
<1>2. CASE ~(rr + 1 + j < NumSlots)
  <2>1. Candidate(j) = rr + 1 + j - NumSlots
    BY <1>2, CandidateValue
  <2> QED BY <1>0, <1>2, <2>1, SlotMuxAssumption DEF Slots, Distance
<1> QED BY <1>1, <1>2

\* The granted slot is the valid slot that is examined first.
LEMMA GrantFirst ==
  ASSUME TypeOK, NEW s \in Slots, Grants(s)
  PROVE  s \in valid /\ \A t \in valid : Distance(s) <= Distance(t)
PROOF
<1>1. PICK j \in Slots : /\ s = Candidate(j)
                         /\ s \in valid
                         /\ \A i \in Slots : i < j => Candidate(i) \notin valid
  BY DEF Grants
<1>2. j = Distance(s)
  BY <1>1, CandidateInjective
<1>3. ASSUME NEW t \in valid
      PROVE  Distance(s) <= Distance(t)
  <2>1. t \in Slots
    BY DEF TypeOK
  <2>2. Distance(t) \in Slots /\ Candidate(Distance(t)) = t
    BY <2>1, CandidateAt
  <2>3. ~(Distance(t) < j)
    BY <1>1, <2>2
  <2> QED BY <1>2, <2>2, <2>3, SlotMuxAssumption DEF Slots
<1> QED BY <1>1, <1>3

LEMMA MuxStep ==
  ASSUME MuxInv, [Next]_vars
  PROVE  MuxInv'
PROOF
<1> USE SlotMuxAssumption
<1>0. TypeOK /\ rr \in Slots /\ waited \in [Slots -> Nat] /\ valid \subseteq Slots
  BY DEF MuxInv, TypeOK
<1>1. CASE UNCHANGED vars
  BY <1>1 DEF vars, MuxInv, TypeOK, Distance
<1>2. ASSUME NEW new \in SUBSET Slots, Hold(new), ready' \in BOOLEAN
      PROVE  MuxInv'
  <2>1. rr' = rr /\ waited' = waited /\ valid' = valid \cup new
    BY <1>2 DEF Hold, Arrive
  <2>2. TypeOK'
    BY <1>0, <1>2, <2>1 DEF TypeOK
  <2>3. ASSUME NEW s \in Slots
        PROVE  Distance(s)' = Distance(s) /\ Distance(s) \in 0 .. NumSlots - 1
    BY <1>0, <2>1, CandidateAt DEF Distance, Slots
  <2>4. ASSUME NEW s \in Slots
        PROVE  /\ s \notin valid' => waited'[s] = 0
               /\ s \in valid' => waited'[s] + Distance(s)' <= NumSlots - 1
    BY <2>1, <2>3 DEF MuxInv
  <2> QED BY <2>2, <2>4 DEF MuxInv
<1>3. ASSUME NEW new \in SUBSET Slots, NEW g \in Slots, Transfer(g, new), ready' \in BOOLEAN
      PROVE  MuxInv'
  <2>1. /\ rr' = g
        /\ valid' = (valid \ {g}) \cup new
        /\ waited' = [t \in Slots |-> IF t # g /\ t \in valid THEN waited[t] + 1 ELSE 0]
        /\ Grants(g)
    BY <1>3 DEF Transfer, Arrive
  <2>2. TypeOK'
    BY <1>0, <1>3, <2>1 DEF TypeOK
  <2>3. ASSUME NEW s \in Slots
        PROVE  Distance(s)' \in 0 .. NumSlots - 1
    BY <1>0, <2>1 DEF Distance, Slots
  <2>4. ASSUME NEW s \in Slots, s # g, s \in valid
        PROVE  Distance(s)' <= Distance(s) - 1
    <3>1. Distance(g) <= Distance(s)
      BY <1>0, <2>1, <2>4, GrantFirst
    <3> QED BY <1>0, <2>1, <2>4, <3>1 DEF Distance, Slots
  <2>5. ASSUME NEW s \in Slots
        PROVE  /\ s \notin valid' => waited'[s] = 0
               /\ s \in valid' => waited'[s] + Distance(s)' <= NumSlots - 1
    <3>1. CASE s # g /\ s \in valid
      <4>1. waited'[s] = waited[s] + 1 /\ waited[s] \in Nat
        BY <1>0, <2>1, <3>1
      <4>2. waited[s] + Distance(s) <= NumSlots - 1
        BY <3>1 DEF MuxInv
      <4>3. Distance(s) \in 0 .. NumSlots - 1
        BY <1>0, CandidateAt DEF Slots
      <4>4. Distance(s)' \in 0 .. NumSlots - 1 /\ Distance(s)' <= Distance(s) - 1
        BY <2>3, <2>4, <3>1
      <4> QED BY <2>1, <3>1, <4>1, <4>2, <4>3, <4>4
    <3>2. CASE ~(s # g /\ s \in valid)
      BY <2>1, <2>3, <3>2
    <3> QED BY <3>1, <3>2
  <2> QED BY <2>2, <2>5 DEF MuxInv
<1>4. ASSUME Reset, ready' \in BOOLEAN
      PROVE  MuxInv'
  BY <1>4 DEF Reset, MuxInv, TypeOK, Slots
<1> QED BY <1>1, <1>2, <1>3, <1>4 DEF Next

LEMMA MuxInit ==
  ASSUME Init
  PROVE  MuxInv
PROOF
<1>1. 0 \in Slots
  BY SlotMuxAssumption DEF Slots
<1>2. waited \in [Slots -> Nat] /\ \A s \in Slots : waited[s] = 0
  BY DEF Init
<1> QED BY <1>1, <1>2 DEF Init, MuxInv, TypeOK

\* No slot of slot_mux starves, for every number of slots: while its flit
\* waits, at most NUM_SLOTS - 1 flits of other slots go out.
THEOREM NoStarvation == Spec => []BoundedWait
PROOF
<1>1. Init => MuxInv
  BY MuxInit
<1>2. MuxInv /\ [Next]_vars => MuxInv'
  BY MuxStep
<1>3. ASSUME MuxInv
      PROVE  BoundedWait
  <2> SUFFICES ASSUME NEW s \in Slots
               PROVE  waited[s] <= NumSlots - 1
    BY DEF BoundedWait
  <2>1. TypeOK
    BY <1>3 DEF MuxInv
  <2>2. Distance(s) \in 0 .. NumSlots - 1 /\ waited[s] \in Nat
    BY <2>1, CandidateAt DEF TypeOK, Slots
  <2>3. waited[s] = 0 \/ waited[s] + Distance(s) <= NumSlots - 1
    BY <1>3 DEF MuxInv
  <2> QED BY <2>2, <2>3, SlotMuxAssumption
<1>4. MuxInv => BoundedWait
  BY <1>3
<1> QED BY <1>1, <1>2, <1>4, PTL DEF Spec

\* slot_mux is work-conserving for every number of slots: whenever a slot has a
\* flit exactly one slot is granted the output.
THEOREM GrantsOne == Spec => []OneGrant
PROOF
<1>1. Init => MuxInv
  BY MuxInit
<1>2. MuxInv /\ [Next]_vars => MuxInv'
  BY MuxStep
<1>3. ASSUME TypeOK
      PROVE  OneGrant
  <2> SUFFICES ASSUME valid # {}
               PROVE  \E s \in Slots : Grants(s) /\ \A t \in Slots : Grants(t) => t = s
    BY DEF OneGrant
  <2>1. valid \subseteq Slots
    BY <1>3 DEF TypeOK
  <2>2. ASSUME NEW t \in Slots
        PROVE  Distance(t) \in Nat /\ Distance(t) \in Slots
    BY <1>3, CandidateAt, SlotMuxAssumption DEF Slots
  <2>3. PICK s \in valid : \A t \in valid : Distance(s) <= Distance(t)
    <3> DEFINE D == {Distance(t) : t \in valid}
    <3>1. D \in SUBSET Nat /\ D # {}
      BY <2>1, <2>2
    <3>2. PICK d \in D : \A e \in D : d <= e
      <4> HIDE DEF D
      <4> QED BY <3>1, LeastNumber
    <3> QED BY <3>2
  <2>4. Grants(s)
    <3>1. Distance(s) \in Slots /\ Candidate(Distance(s)) = s
      BY <1>3, <2>1, CandidateAt
    <3>2. ASSUME NEW i \in Slots, i < Distance(s), Candidate(i) \in valid
          PROVE  FALSE
      <4>1. Distance(Candidate(i)) = i
        BY <1>3, CandidateInjective
      <4>2. Distance(s) <= i
        BY <2>3, <3>2, <4>1
      <4> QED BY <3>1, <3>2, <4>2 DEF Slots
    <3> QED BY <2>3, <3>1, <3>2 DEF Grants
  <2>5. ASSUME NEW t \in Slots, Grants(t)
        PROVE  t = s
    <3>1. t \in valid /\ Distance(t) <= Distance(s)
      BY <1>3, <2>5, GrantFirst
    <3>2. Distance(t) = Distance(s)
      BY <2>1, <2>2, <2>3, <3>1
    <3> QED BY <1>3, <2>1, <3>2, CandidateAt
  <2> QED BY <2>1, <2>4, <2>5
<1>4. MuxInv => OneGrant
  BY <1>3 DEF MuxInv
<1> QED BY <1>1, <1>2, <1>4, PTL DEF Spec

LEMMA StallStep ==
  ASSUME MuxInv, [Next]_vars, ~ready, valid \subseteq valid',
         NEW s \in Slots, NEW t \in valid, Grants(s), Grants(t)'
  PROVE  t = s
PROOF
<1>1. TypeOK /\ t \in Slots
  BY DEF MuxInv, TypeOK
<1>2. s \in valid /\ Distance(s) <= Distance(t)
  BY <1>1, GrantFirst
<1>3. rr' = rr
  <2>1. CASE UNCHANGED vars
    BY <2>1 DEF vars
  <2>2. CASE Reset
    BY <2>2 DEF Reset
  <2>3. ASSUME NEW new \in SUBSET Slots, Hold(new)
        PROVE  rr' = rr
    BY <2>3 DEF Hold
  <2>4. ASSUME NEW new \in SUBSET Slots, NEW g \in Slots, Transfer(g, new)
        PROVE  FALSE
    BY <2>4 DEF Transfer
  <2> QED BY <2>1, <2>2, <2>3, <2>4 DEF Next
<1>4. PICK j \in Slots : /\ t = Candidate(j)
                         /\ \A i \in Slots : i < j => Candidate(i) \notin valid'
  BY <1>3 DEF Grants, Candidate
<1>5. j = Distance(t)
  BY <1>1, <1>4, CandidateInjective
<1>6. Distance(s) \in Slots /\ Candidate(Distance(s)) = s
  BY <1>1, CandidateAt
<1>7. ~(Distance(s) < j)
  BY <1>2, <1>4, <1>6
<1>8. Distance(s) = Distance(t)
  BY <1>2, <1>5, <1>6, <1>7, SlotMuxAssumption DEF Slots
<1> QED BY <1>1, <1>6, <1>8, CandidateAt

\* While tready is low the offered flit gives way only to one that has just
\* arrived, for every number of slots: a stall never reorders what waits.
THEOREM StallOrder == Spec => StallKeepsOrder
PROOF
<1>1. Init => MuxInv
  BY MuxInit
<1>2. MuxInv /\ [Next]_vars => MuxInv'
  BY MuxStep
<1>3. MuxInv /\ [Next]_vars =>
        [(~ready /\ valid \subseteq valid') =>
           \A s \in Slots, t \in valid : Grants(s) /\ Grants(t)' => t = s]_vars
  BY StallStep
<1> QED BY <1>1, <1>2, <1>3, PTL DEF Spec, StallKeepsOrder

-----------------------------------------------------------------------------
(* The host channel.                                                      *)

\* The number of flits in the sequence s with slot_id i.
FlitsOf(s, i) == Cardinality({k \in 1 .. Len(s) : s[k] = i})
One(b)      == IF b THEN 1 ELSE 0

PathInv == PathTypeOK /\ Conserved

-----------------------------------------------------------------------------
LEMMA CountType ==
  ASSUME NEW s \in Seq(SlotIds), NEW i
  PROVE  /\ IsFiniteSet({k \in 1 .. Len(s) : s[k] = i})
         /\ FlitsOf(s, i) \in Nat
PROOF
<1> DEFINE T == {k \in 1 .. Len(s) : s[k] = i}
<1>1. IsFiniteSet(1 .. Len(s))
  BY FS_Interval
<1>2. T \in SUBSET (1 .. Len(s))
  OBVIOUS
<1> HIDE DEF T
<1>3. IsFiniteSet(T)
  BY <1>1, <1>2, FS_Subset
<1>4. Cardinality(T) \in Nat
  BY <1>3, FS_CardinalityType
<1> QED BY <1>3, <1>4 DEF T, FlitsOf

LEMMA CountEmpty == \A i : FlitsOf(<<>>, i) = 0
PROOF
<1> SUFFICES ASSUME NEW i PROVE FlitsOf(<<>>, i) = 0
  OBVIOUS
<1>1. {k \in 1 .. Len(<<>>) : <<>>[k] = i} = {}
  OBVIOUS
<1> QED BY <1>1, FS_EmptySet DEF FlitsOf

\* A flit that the host sends counts for its own slot_id.
LEMMA CountAppend ==
  ASSUME NEW s \in Seq(SlotIds), NEW x \in SlotIds, NEW i
  PROVE  FlitsOf(Append(s, x), i) = FlitsOf(s, i) + One(x = i)
PROOF
<1> DEFINE L == Len(s)
           t == Append(s, x)
           S == {k \in 1 .. L : s[k] = i}
           T == {k \in 1 .. L + 1 : t[k] = i}
<1>1. /\ L \in Nat /\ Len(t) = L + 1
      /\ \A k \in 1 .. L : t[k] = s[k]
      /\ t[L + 1] = x
  BY AppendProperties, LenProperties
<1>2. IsFiniteSet(S) /\ FlitsOf(s, i) = Cardinality(S) /\ Cardinality(S) \in Nat
  BY CountType DEF FlitsOf
<1>3. FlitsOf(t, i) = Cardinality(T)
  BY <1>1 DEF FlitsOf
<1> HIDE DEF t, L
<1>4. L + 1 \notin S
  BY <1>1
<1>5. CASE x = i
  <2>1. T = S \cup {L + 1}
    BY <1>1, <1>5
  <2> HIDE DEF S, T
  <2>2. Cardinality(S \cup {L + 1}) = Cardinality(S) + 1
    BY <1>2, <1>4, FS_AddElement
  <2> QED BY <1>2, <1>3, <1>5, <2>1, <2>2 DEF One, t
<1>6. CASE x # i
  <2>1. T = S
    BY <1>1, <1>6
  <2> HIDE DEF S, T
  <2> QED BY <1>2, <1>3, <1>6, <2>1 DEF One, t
<1> QED BY <1>5, <1>6

\* The flit that leaves the channel counted for its own slot_id.
LEMMA CountTail ==
  ASSUME NEW s \in Seq(SlotIds), s # <<>>, NEW i
  PROVE  FlitsOf(s, i) = FlitsOf(Tail(s), i) + One(Head(s) = i)
PROOF
<1> DEFINE L == Len(s) - 1
           t == Tail(s)
           S == {k \in 1 .. L + 1 : s[k] = i}
           T == {k \in 1 .. L : t[k] = i}
           U == {k \in 2 .. L + 1 : s[k] = i}
<1>1. /\ L \in Nat /\ Len(s) = L + 1 /\ Len(t) = L /\ t \in Seq(SlotIds)
      /\ \A k \in 1 .. L : t[k] = s[k + 1]
  BY HeadTailProperties, LenProperties, EmptySeq
<1>2. Head(s) = s[1]
  OBVIOUS
<1>3. IsFiniteSet(T) /\ FlitsOf(t, i) = Cardinality(T) /\ Cardinality(T) \in Nat
  BY <1>1, CountType DEF FlitsOf
<1>4. FlitsOf(s, i) = Cardinality(S)
  BY <1>1 DEF FlitsOf
<1> HIDE DEF t, L
<1>5. IsFiniteSet(U) /\ Cardinality(U) = Cardinality(T)
  <2> DEFINE f == [k \in T |-> k + 1]
  <2>1. f \in [T -> U]
    BY <1>1
  <2>2. \A j, k \in T : f[j] = f[k] => j = k
    BY <1>1
  <2>3. \A u \in U : \E k \in T : f[k] = u
    <3> SUFFICES ASSUME NEW u \in U PROVE \E k \in T : f[k] = u
      OBVIOUS
    <3>1. u - 1 \in T /\ f[u - 1] = u
      BY <1>1
    <3> QED BY <3>1
  <2> HIDE DEF f, T, U
  <2>4. f \in Bijection(T, U)
    BY <2>1, <2>2, <2>3 DEF Bijection, Injection, Surjection, IsInjective
  <2> QED BY <1>3, <2>4, FS_Bijection DEF ExistsBijection
<1>6. 1 \notin U
  BY <1>1
<1>7. CASE Head(s) = i
  <2>1. S = U \cup {1}
    <3>1. s[1] = i
      BY <1>2, <1>7
    <3>2. \A k \in 1 .. L + 1 : k = 1 \/ k \in 2 .. L + 1
      BY <1>1
    <3>3. 1 \in 1 .. L + 1 /\ 2 .. L + 1 \subseteq 1 .. L + 1
      BY <1>1
    <3> QED BY <3>1, <3>2, <3>3
  <2> HIDE DEF S, U, T
  <2>2. Cardinality(U \cup {1}) = Cardinality(U) + 1
    BY <1>5, <1>6, FS_AddElement
  <2> QED BY <1>3, <1>4, <1>5, <1>7, <2>1, <2>2 DEF One, t
<1>8. CASE Head(s) # i
  <2>1. S = U
    BY <1>1, <1>2, <1>8
  <2> HIDE DEF S, U, T
  <2> QED BY <1>3, <1>4, <1>5, <1>8, <2>1 DEF One, t
<1> QED BY <1>7, <1>8

LEMMA ConservedCount ==
  Conserved <=> \A i \in SlotIds : away[i] = FlitsOf(h2c, i) + Held(i, full) + Held(i, valid)
PROOF
  BY DEF Conserved, FlitsOf

-----------------------------------------------------------------------------
LEMMA FanoutType ==
  ASSUME PathTypeOK
  PROVE  \/ Fanout = {}
         \/ /\ h2c # <<>> /\ Head(h2c) \in Slots \ full
            /\ Fanout = {Head(h2c)}
PROOF
<1>1. CASE h2c = <<>>
  BY <1>1 DEF Fanout
<1>2. CASE h2c # <<>>
  <2>1. Head(h2c) \in SlotIds /\ Head(h2c) \in Nat
    BY <1>2, HeadTailProperties, SlotDemuxAssumption DEF PathTypeOK
  <2>2. Head(h2c) < NumSlots => Head(h2c) \in Slots
    BY <2>1, SlotMuxAssumption DEF Slots
  <2> QED BY <1>2, <2>2 DEF Fanout, Sel
<1> QED BY <1>1, <1>2

\* The channel and the history after a cycle.
LEMMA HostStep ==
  ASSUME PathTypeOK, NEW back \in SUBSET Nat, Host(Fanout, back)
  PROVE  /\ h2c' \in Seq(SlotIds) /\ away' \in [SlotIds -> Int]
         /\ \A i \in SlotIds :
              away'[i] - FlitsOf(h2c', i)
                = away[i] - FlitsOf(h2c, i) + One(i \in Fanout) - One(i \in back)
PROOF
<1> DEFINE rest == IF Fanout = {} THEN h2c ELSE Tail(h2c)
           left == [i \in SlotIds |-> IF i \in back THEN away[i] - 1 ELSE away[i]]
<1>0. h2c \in Seq(SlotIds) /\ away \in [SlotIds -> Int]
  BY DEF PathTypeOK
<1>1. /\ rest \in Seq(SlotIds)
      /\ \A i : FlitsOf(h2c, i) = FlitsOf(rest, i) + One(i \in Fanout)
  <2>1. CASE Fanout = {}
    <3>1. \A i : FlitsOf(h2c, i) \in Nat
      BY <1>0, CountType
    <3> QED BY <1>0, <2>1, <3>1 DEF One
  <2>2. CASE Fanout # {}
    <3>1. h2c # <<>> /\ Fanout = {Head(h2c)} /\ rest = Tail(h2c)
      BY <2>2, FanoutType
    <3>2. Tail(h2c) \in Seq(SlotIds)
      BY <1>0, <3>1, HeadTailProperties
    <3>3. \A i : FlitsOf(h2c, i) = FlitsOf(Tail(h2c), i) + One(Head(h2c) = i)
      BY <1>0, <3>1, CountTail
    <3>4. \A i : One(Head(h2c) = i) = One(i \in Fanout)
      BY <3>1 DEF One
    <3> QED BY <3>1, <3>2, <3>3, <3>4
  <2> QED BY <2>1, <2>2
<1>2. /\ left \in [SlotIds -> Int]
      /\ \A i \in SlotIds : left[i] = away[i] - One(i \in back)
  BY <1>0 DEF One
<1>3. \A i : FlitsOf(rest, i) \in Nat /\ One(i \in Fanout) \in Nat /\ One(i \in back) \in Nat
  BY <1>1, CountType DEF One
<1>4. \/ h2c' = rest /\ away' = left
      \/ \E x \in SlotIds : h2c' = Append(rest, x) /\ away' = [left EXCEPT ![x] = @ + 1]
  BY DEF Host
<1> HIDE DEF rest, left
<1>5. CASE h2c' = rest /\ away' = left
  <2>1. ASSUME NEW i \in SlotIds
        PROVE  away'[i] - FlitsOf(h2c', i)
                 = away[i] - FlitsOf(h2c, i) + One(i \in Fanout) - One(i \in back)
    <3>1. away'[i] = away[i] - One(i \in back) /\ away[i] \in Int
      BY <1>0, <1>2, <1>5
    <3>2. FlitsOf(h2c, i) = FlitsOf(h2c', i) + One(i \in Fanout) /\ FlitsOf(h2c', i) \in Nat
      BY <1>1, <1>3, <1>5
    <3>3. One(i \in Fanout) \in Nat /\ One(i \in back) \in Nat
      BY <1>3
    <3> QED BY <3>1, <3>2, <3>3
  <2> QED BY <1>1, <1>2, <1>5, <2>1
<1>6. ASSUME NEW x \in SlotIds, h2c' = Append(rest, x), away' = [left EXCEPT ![x] = @ + 1]
      PROVE  /\ h2c' \in Seq(SlotIds) /\ away' \in [SlotIds -> Int]
             /\ \A i \in SlotIds :
                  away'[i] - FlitsOf(h2c', i)
                    = away[i] - FlitsOf(h2c, i) + One(i \in Fanout) - One(i \in back)
  <2>1. h2c' \in Seq(SlotIds)
    BY <1>1, <1>6, AppendProperties
  <2>2. away' \in [SlotIds -> Int]
    BY <1>2, <1>6
  <2>3. ASSUME NEW i \in SlotIds
        PROVE  away'[i] - FlitsOf(h2c', i)
                 = away[i] - FlitsOf(h2c, i) + One(i \in Fanout) - One(i \in back)
    <3>1. /\ away'[i] = away[i] - One(i \in back) + One(x = i) /\ away[i] \in Int
          /\ One(x = i) \in Nat
      BY <1>0, <1>2, <1>6 DEF One
    <3>2. FlitsOf(h2c', i) = FlitsOf(rest, i) + One(x = i)
      BY <1>1, <1>6, CountAppend
    <3>3. FlitsOf(h2c, i) = FlitsOf(rest, i) + One(i \in Fanout)
      BY <1>1
    <3>4. One(i \in Fanout) \in Nat /\ One(i \in back) \in Nat /\ FlitsOf(rest, i) \in Nat
      BY <1>3
    <3> QED BY <3>1, <3>2, <3>3, <3>4
  <2> QED BY <2>1, <2>2, <2>3
<1> QED BY <1>4, <1>5, <1>6

\* A cycle moves flits between the channel, the kernels and the mux.
LEMMA CycleStep ==
  ASSUME PathInv, TypeOK', NEW new \in SUBSET full, NEW back \in SUBSET valid,
         new \cap (valid \ back) = {},
         valid' = (valid \ back) \cup new,
         Host(Fanout, back),
         full' = (full \ new) \cup Fanout
  PROVE  PathInv'
PROOF
<1>0. /\ PathTypeOK /\ valid \subseteq Slots /\ full \subseteq Slots /\ Slots \subseteq Nat
      /\ away \in [SlotIds -> Int] /\ h2c \in Seq(SlotIds)
  BY DEF PathInv, PathTypeOK, TypeOK, Slots
<1>1. Fanout \subseteq Slots \ full
  BY <1>0, FanoutType
<1>2. /\ h2c' \in Seq(SlotIds) /\ away' \in [SlotIds -> Int]
      /\ \A i \in SlotIds :
           away'[i] - FlitsOf(h2c', i)
             = away[i] - FlitsOf(h2c, i) + One(i \in Fanout) - One(i \in back)
  <2>1. back \in SUBSET Nat
    BY <1>0
  <2> QED BY <1>0, <2>1, HostStep
<1>3. PathTypeOK'
  BY <1>0, <1>1, <1>2 DEF PathTypeOK
<1>4. ASSUME NEW i \in SlotIds
      PROVE  away'[i] = FlitsOf(h2c', i) + Held(i, full') + Held(i, valid')
  <2>1. away[i] = FlitsOf(h2c, i) + Held(i, full) + Held(i, valid)
    BY ConservedCount DEF PathInv
  <2>2. Held(i, full') = Held(i, full) - One(i \in new) + One(i \in Fanout)
    BY <1>1 DEF Held, One
  <2>3. Held(i, valid') = Held(i, valid) - One(i \in back) + One(i \in new)
    BY DEF Held, One
  <2>4. /\ One(i \in new) \in Nat /\ One(i \in Fanout) \in Nat /\ One(i \in back) \in Nat
        /\ Held(i, full) \in Nat /\ Held(i, valid) \in Nat
    BY DEF Held, One
  <2>5. away'[i] \in Int /\ away[i] \in Int /\ FlitsOf(h2c, i) \in Nat /\ FlitsOf(h2c', i) \in Nat
    BY <1>0, <1>2, CountType
  <2>6. away'[i] - FlitsOf(h2c', i)
          = away[i] - FlitsOf(h2c, i) + One(i \in Fanout) - One(i \in back)
    BY <1>2
  <2> DEFINE A == away[i]  C == FlitsOf(h2c, i)  F == Held(i, full)  V == Held(i, valid)
             B == away'[i] D == FlitsOf(h2c', i) G == Held(i, full') W == Held(i, valid')
             n == One(i \in new) o == One(i \in Fanout) b == One(i \in back)
  <2>7. /\ A = C + F + V /\ G = F - n + o /\ W = V - b + n /\ B - D = A - C + o - b
        /\ n \in Nat /\ o \in Nat /\ b \in Nat /\ F \in Nat /\ V \in Nat
        /\ A \in Int /\ B \in Int /\ C \in Nat /\ D \in Nat
    BY <2>1, <2>2, <2>3, <2>4, <2>5, <2>6
  <2> HIDE DEF A, B, C, D, F, G, V, W, n, o, b
  <2>8. B = D + G + W
    BY <2>7
  <2> QED BY <2>8 DEF B, D, G, W
<1>5. Conserved'
  <2>1. Conserved' <=> \A i \in SlotIds : away'[i] = FlitsOf(h2c', i) + Held(i, full') + Held(i, valid')
    BY DEF Conserved, FlitsOf
  <2> QED BY <1>4, <2>1
<1> QED BY <1>3, <1>5 DEF PathInv

LEMMA PathStep ==
  ASSUME PathInv, [PathNext]_pathVars
  PROVE  PathInv'
PROOF
<1> USE SlotMuxAssumption
<1>0. PathTypeOK /\ TypeOK /\ Conserved /\ waited \in [Slots -> Nat] /\ valid \subseteq Slots
  BY DEF PathInv, PathTypeOK, TypeOK
<1>1. CASE UNCHANGED pathVars
  BY <1>1 DEF pathVars, vars, PathInv, PathTypeOK, TypeOK, Conserved, Held
<1>2. ASSUME ready' \in BOOLEAN, NEW new \in SUBSET Slots, Cycle(new)
      PROVE  PathInv'
  <2>0. full' = (full \ new) \cup Fanout
    BY <1>2 DEF Cycle
  <2>1. CASE new \subseteq full \ valid /\ Hold(new) /\ Host(Fanout, {})
    <3>1. valid' = valid \cup new /\ rr' = rr /\ waited' = waited
      BY <2>1 DEF Hold, Arrive
    <3>2. TypeOK'
      BY <1>0, <1>2, <3>1 DEF TypeOK
    <3>3. /\ {} \in SUBSET valid /\ new \in SUBSET full
          /\ new \cap (valid \ {}) = {} /\ valid' = (valid \ {}) \cup new
      BY <2>1, <3>1
    <3> QED BY <2>0, <2>1, <3>2, <3>3, CycleStep
  <2>2. ASSUME NEW s \in Slots, new \subseteq full \ (valid \ {s}), Transfer(s, new),
               Host(Fanout, {s})
        PROVE  PathInv'
    <3>1. /\ valid' = (valid \ {s}) \cup new /\ rr' = s /\ s \in valid
          /\ waited' = [t \in Slots |-> IF t # s /\ t \in valid THEN waited[t] + 1 ELSE 0]
      BY <2>2 DEF Transfer, Arrive, Grants
    <3>2. TypeOK'
      BY <1>0, <1>2, <3>1 DEF TypeOK
    <3>3. /\ {s} \in SUBSET valid /\ new \in SUBSET full /\ new \cap (valid \ {s}) = {}
      BY <2>2, <3>1
    <3> QED BY <2>0, <2>2, <3>1, <3>2, <3>3, CycleStep
  <2> QED BY <1>2, <2>1, <2>2 DEF Cycle
<1>3. ASSUME PathReset, ready' \in BOOLEAN
      PROVE  PathInv'
  <2>1. /\ rr' = 0 /\ valid' = {} /\ waited' = [s \in Slots |-> 0]
        /\ h2c' = <<>> /\ full' = {} /\ away' = [i \in SlotIds |-> 0]
    BY <1>3 DEF PathReset, Reset
  <2>2. PathTypeOK'
    BY <1>3, <2>1, EmptySeq DEF PathTypeOK, TypeOK, Slots
  <2>3. \A i \in SlotIds : away'[i] = FlitsOf(h2c', i) + Held(i, full') + Held(i, valid')
    BY <2>1, CountEmpty DEF Held
  <2>4. Conserved'
    BY <2>3 DEF Conserved, FlitsOf
  <2> QED BY <2>2, <2>4 DEF PathInv
<1> QED BY <1>1, <1>2, <1>3 DEF PathNext

LEMMA PathStart ==
  ASSUME PathInit
  PROVE  PathInv
PROOF
<1>1. PathTypeOK
  BY MuxInit, EmptySeq DEF PathInit, PathTypeOK, MuxInv
<1>2. \A i \in SlotIds : away[i] = FlitsOf(h2c, i) + Held(i, full) + Held(i, valid)
  BY CountEmpty DEF PathInit, Init, Held
<1> QED BY <1>1, <1>2, ConservedCount DEF PathInv

\* The mux of the path is slot_mux: whatever slot_demux and the kernels do, they
\* only decide when its sources have a flit.
LEMMA PathMoves ==
  ASSUME [PathNext]_pathVars
  PROVE  [Next]_vars
PROOF
<1>1. CASE UNCHANGED pathVars
  BY <1>1 DEF pathVars
<1>2. ASSUME ready' \in BOOLEAN, NEW new \in SUBSET Slots, Cycle(new)
      PROVE  Next
  BY <1>2 DEF Cycle, Next
<1>3. ASSUME ready' \in BOOLEAN, PathReset
      PROVE  Next
  BY <1>3 DEF PathReset, Next
<1> QED BY <1>1, <1>2, <1>3 DEF PathNext

\* The path keeps its types: for every slot_id that the host may send, in range
\* or not, slot_demux selects no kernel but those of its NUM_SLOTS outputs.
THEOREM PathTypeCorrect == PathSpec => []PathTypeOK
PROOF
<1>1. PathInv => PathTypeOK
  BY DEF PathInv
<1> QED BY PathStart, PathStep, <1>1, PTL DEF PathSpec

\* Between two resets no flit is lost, doubled or handed to another slot's
\* kernel, for every number of slots and of flits under way.
THEOREM FlitsConserved == PathSpec => []Conserved
PROOF
<1>1. PathInv => Conserved
  BY DEF PathInv
<1> QED BY PathStart, PathStep, <1>1, PTL DEF PathSpec

\* The whole channel implements slot_mux as the module alone describes it, so
\* that behind slot_demux too no slot starves and the output never idles.
THEOREM PathImplementsMux == PathSpec => Spec
PROOF
<1>1. PathInit => Init
  BY DEF PathInit
<1>2. [PathNext]_pathVars => [Next]_vars
  BY PathMoves
<1> QED BY <1>1, <1>2, PTL DEF PathSpec, Spec

-----------------------------------------------------------------------------
(* The status block.                                                      *)

\* A read is under way from its address to its answer, and the block has its
\* address ready exactly while it has an answer to hand over.
ReadTurn ==
  /\ arvalid => reading
  /\ rvalid => reading
  /\ rvalid <=> arready

\* A counter never falls below what it was when the read began.
Risen == reading => floor <= cnt[araddr]

StatusInv == StatusTypeOK /\ ReadTurn /\ Risen /\ ReadFresh /\ NoSpuriousResponse

LEMMA StatusInitOK == StatusInit => StatusInv
<1> SUFFICES ASSUME StatusInit PROVE StatusInv
  OBVIOUS
<1>1. cnt \in [Regs -> 0 .. MaxCount] /\ araddr \in Regs
  BY StatusAssumption DEF StatusInit
<1>2. rdata \in 0 .. MaxCount /\ floor \in 0 .. MaxCount
  BY StatusAssumption DEF StatusInit
<1>3. StatusTypeOK
  BY <1>1, <1>2 DEF StatusInit, StatusTypeOK
<1>4. ReadTurn /\ Risen /\ ReadFresh /\ NoSpuriousResponse
  BY DEF StatusInit, ReadTurn, Risen, ReadFresh, NoSpuriousResponse
<1> QED
  BY <1>3, <1>4 DEF StatusInv

\* The counters stay in range and do not fall.
LEMMA Counted ==
  ASSUME StatusTypeOK, Count
  PROVE  cnt' \in [Regs -> 0 .. MaxCount] /\ \A r \in Regs : cnt[r] <= cnt'[r]
<1>1. PICK ended \in SUBSET {r \in Regs : cnt[r] < MaxCount} :
        cnt' = [r \in Regs |-> IF r \in ended THEN cnt[r] + 1 ELSE cnt[r]]
  BY DEF Count
<1>2. \A r \in Regs : cnt[r] \in 0 .. MaxCount /\ (r \in ended => cnt[r] < MaxCount)
  BY <1>1 DEF StatusTypeOK
<1> QED
  BY <1>1, <1>2, StatusAssumption

LEMMA TypeStep ==
  ASSUME StatusTypeOK, StatusNext
  PROVE  StatusTypeOK'
<1>1. cnt' \in [Regs -> 0 .. MaxCount]
  BY Counted DEF StatusNext
<1>2. araddr' \in Regs /\ floor' \in 0 .. MaxCount
  BY <1>1 DEF StatusNext, Reader, StatusTypeOK
<1>3. rdata' \in 0 .. MaxCount
  BY DEF StatusNext, ReadPath, StatusTypeOK
<1>4. arvalid' \in BOOLEAN /\ reading' \in BOOLEAN /\ rready' \in BOOLEAN
  BY DEF StatusNext, Reader, StatusTypeOK
<1>5. arready' \in BOOLEAN /\ rvalid' \in BOOLEAN
  BY DEF StatusNext, ReadPath
<1>6. awready' \in BOOLEAN /\ wready' \in BOOLEAN /\ bvalid' \in BOOLEAN
  BY DEF StatusNext, WritePath
<1>7. /\ awvalid' \in BOOLEAN /\ wvalid' \in BOOLEAN /\ bready' \in BOOLEAN
      /\ addressed' \in BOOLEAN /\ supplied' \in BOOLEAN /\ late' \in BOOLEAN
  BY DEF StatusNext, Writer, StatusTypeOK
<1> QED
  BY <1>1, <1>2, <1>3, <1>4, <1>5, <1>6, <1>7 DEF StatusTypeOK

LEMMA ReadTurnStep ==
  ASSUME StatusTypeOK, ReadTurn, ReadPath, Reader
  PROVE  ReadTurn'
  BY DEF StatusTypeOK, ReadTurn, ReadPath, Reader

LEMMA RisenStep ==
  ASSUME StatusTypeOK, ReadTurn, Risen, StatusNext
  PROVE  Risen'
<1>1. \A r \in Regs : cnt[r] \in Nat /\ cnt'[r] \in Nat /\ cnt[r] <= cnt'[r]
  BY Counted, StatusAssumption DEF StatusTypeOK, StatusNext
<1>2. araddr \in Regs /\ araddr' \in Regs /\ floor \in Nat
  BY TypeStep, StatusAssumption DEF StatusTypeOK
<1>3. CASE ~reading
  <2>1. floor' = cnt'[araddr'] \/ ~reading'
    BY <1>3 DEF StatusNext, Reader
  <2> QED
    BY <1>1, <1>2, <2>1 DEF Risen
<1>4. CASE reading
  <2>1. araddr' = araddr /\ floor' = floor
    BY <1>4 DEF StatusNext, Reader
  <2> QED
    BY <1>1, <1>2, <1>4, <2>1 DEF Risen
<1> QED
  BY <1>3, <1>4

LEMMA FreshStep ==
  ASSUME StatusInv, StatusNext
  PROVE  ReadFresh'
<1> SUFFICES ASSUME rvalid' PROVE floor' <= rdata' /\ rdata' <= cnt'[araddr']
  BY DEF ReadFresh
<1>1. \A r \in Regs : cnt[r] \in Nat /\ cnt'[r] \in Nat /\ cnt[r] <= cnt'[r]
  BY Counted, StatusAssumption DEF StatusInv, StatusTypeOK, StatusNext
<1>2. araddr \in Regs /\ floor \in Nat /\ rdata \in Nat
  BY StatusAssumption DEF StatusInv, StatusTypeOK
<1>3. reading
  BY DEF StatusInv, ReadTurn, StatusNext, ReadPath
<1>4. araddr' = araddr /\ floor' = floor
  BY <1>3 DEF StatusNext, Reader
<1>5. rdata' = cnt[araddr] \/ (rvalid /\ rdata' = rdata)
  BY DEF StatusNext, ReadPath
<1> QED
  BY <1>1, <1>2, <1>3, <1>4, <1>5 DEF StatusInv, Risen, ReadFresh

LEMMA SpuriousStep ==
  ASSUME StatusInv, StatusNext
  PROVE  NoSpuriousResponse'
<1>1. rvalid' => reading'
  BY ReadTurnStep DEF StatusInv, StatusNext, ReadTurn
<1>2. bvalid' => (awvalid' \/ addressed') /\ (wvalid' \/ supplied')
  BY DEF StatusInv, StatusTypeOK, NoSpuriousResponse, StatusNext, WritePath, Writer
<1> QED
  BY <1>1, <1>2 DEF NoSpuriousResponse

LEMMA StatusInvariant == StatusSpec => []StatusInv
<1>1. StatusInv /\ [StatusNext]_statusVars => StatusInv'
  <2> SUFFICES ASSUME StatusInv, [StatusNext]_statusVars PROVE StatusInv'
    OBVIOUS
  <2>1. CASE StatusNext
    <3>1. StatusTypeOK' /\ ReadTurn' /\ Risen'
      BY <2>1, TypeStep, ReadTurnStep, RisenStep DEF StatusInv, StatusNext
    <3> QED
      BY <2>1, <3>1, FreshStep, SpuriousStep DEF StatusInv
  <2>2. CASE UNCHANGED statusVars
    BY <2>2 DEF statusVars, readVars, writeVars, StatusInv, StatusTypeOK, ReadTurn, Risen,
                ReadFresh, NoSpuriousResponse
  <2> QED
    BY <2>1, <2>2
<1> QED
  BY StatusInitOK, <1>1, PTL DEF StatusSpec

\* The block's registers keep their types: in particular no count and no value
\* handed to the master exceeds the packets there were.
THEOREM StatusTypeCorrect == StatusSpec => []StatusTypeOK
  BY StatusInvariant, PTL DEF StatusInv

\* A read returns a value the counter had after the read began, whatever was
\* read before and however long the master takes.
THEOREM ReadsFresh == StatusSpec => []ReadFresh
  BY StatusInvariant, PTL DEF StatusInv

\* The block never answers a read or a write that is not under way.
THEOREM AnswersOwed == StatusSpec => []NoSpuriousResponse
  BY StatusInvariant, PTL DEF StatusInv
=============================================================================
