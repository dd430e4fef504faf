-------------------------- MODULE SlotBridge_proofs --------------------------
(***************************************************************************)
(* What the slot bridges keep for every number of queues and receiving     *)
(* threads, however often the platform is opened and closed: a receiver    *)
(* past its lock owns the mutex of its slot, so the queue it has tested is *)
(* the queue it sleeps on or takes from.                                   *)
(***************************************************************************)
EXTENDS SlotBridge, SequenceTheorems, TLAPS

Counts(n) == [i \in 1 .. n |-> i]

\* Where recv is between a lock of the mutex and the next unlock.
Owning == {"test", "block", "take"}

\* A thread in recv waits on a slot there is, and owns its mutex where the
\* code holds it.
LockInv ==
  \A r \in Receivers :
    /\ rpc[r] # "idle" => rslot[r] \in Queues
    /\ rpc[r] \in Owning => mutex[rslot[r]] = r

\* The queue is still empty when the wait begins, and all through it.
WaitInv ==
  \A r \in Receivers : rpc[r] \in {"block", "asleep"} => q[rslot[r]] = <<>>

BridgeInv == BridgeTypeOK /\ LockInv /\ WaitInv /\ SlotFifo

-----------------------------------------------------------------------------
(* Sequences.                                                              *)

LEMMA CountsType ==
  ASSUME NEW n \in Nat, NEW m \in Nat, n <= m
  PROVE  Counts(n) \in Seq(1 .. m) /\ Len(Counts(n)) = n
<1> DEFINE S == 1 .. m
<1>1. \A i \in 1 .. n : i \in S
  OBVIOUS
<1> HIDE DEF S
<1>2. [i \in 1 .. n |-> i] \in Seq(S) /\ Len([i \in 1 .. n |-> i]) = n
  BY <1>1
<1> QED
  BY <1>2 DEF Counts, S

\* The number that is sent next continues the count.
LEMMA CountOn ==
  ASSUME NEW m \in Nat, NEW n \in Nat, n < m,
         NEW s \in Seq(1 .. m), NEW t \in Seq(1 .. m), s \o t = Counts(n)
  PROVE  s \o Append(t, n + 1) = Counts(n + 1)
<1> DEFINE e == n + 1
<1>1. e \in 1 .. m /\ <<e>> \in Seq(1 .. m) /\ Append(t, e) = t \o <<e>>
  BY AppendIsConcat, SMTT(30)
<1>2. s \o Append(t, e) = Append(Counts(n), e)
  <2>1. s \o (t \o <<e>>) = (s \o t) \o <<e>>
    BY <1>1, ConcatAssociative, SMTT(30)
  <2>2. Append(s \o t, e) = (s \o t) \o <<e>>
    BY <1>1, ConcatProperties, AppendIsConcat
  <2> QED
    BY <1>1, <2>1, <2>2
<1>3. Append(Counts(n), e) = Counts(n + 1)
  BY DEF Counts
<1> QED
  BY <1>2, <1>3

\* What is taken from the front of t goes to the end of s.
LEMMA MoveFront ==
  ASSUME NEW S, NEW s \in Seq(S), NEW t \in Seq(S), t # <<>>
  PROVE  Append(s, Head(t)) \o Tail(t) = s \o t
<1>1. Head(t) \in S /\ Tail(t) \in Seq(S) /\ t = <<Head(t)>> \o Tail(t)
  <2>1. /\ Head(t) \in S /\ Tail(t) \in Seq(S)
        /\ Len(Tail(t)) = Len(t) - 1
        /\ \A i \in 1 .. Len(Tail(t)) : Tail(t)[i] = t[i + 1]
    BY HeadTailProperties
  <2>2. Len(t) \in Nat \ {0} /\ t[1] = Head(t)
    BY EmptySeq
  <2>3. /\ <<Head(t)>> \in Seq(S) /\ Len(<<Head(t)>>) = 1 /\ <<Head(t)>>[1] = Head(t)
    BY <2>1
  <2>4. /\ <<Head(t)>> \o Tail(t) \in Seq(S)
        /\ Len(<<Head(t)>> \o Tail(t)) = Len(t)
        /\ \A i \in 1 .. Len(t) : (<<Head(t)>> \o Tail(t))[i] = t[i]
    BY <2>1, <2>2, <2>3, ConcatProperties
  <2> QED
    BY <2>1, <2>4, SeqEqual
<1>2. Append(s, Head(t)) = s \o <<Head(t)>> /\ <<Head(t)>> \in Seq(S)
  BY <1>1, AppendIsConcat
<1>3. (s \o <<Head(t)>>) \o Tail(t) = s \o (<<Head(t)>> \o Tail(t))
  BY <1>1, <1>2, ConcatAssociative
<1> QED
  BY <1>1, <1>2, <1>3

-----------------------------------------------------------------------------
(* The inductive invariant.                                                *)

LEMMA NothingSent == <<>> \o <<>> = [n \in 1 .. 0 |-> n]
<1>1. <<>> \in Seq(Nat) /\ [n \in 1 .. 0 |-> n] \in Seq(Nat) /\ Len([n \in 1 .. 0 |-> n]) = 0
  OBVIOUS
<1> QED
  BY <1>1, EmptySeq, SeqEqual, ConcatEmptySeq

LEMMA BridgeStart == BridgeInit => BridgeInv
<1> SUFFICES ASSUME BridgeInit PROVE BridgeInv
  OBVIOUS
<1>1. BridgeTypeOK
  <2>1. <<>> \in Seq(1 .. MaxSends) /\ 0 \in 0 .. MaxSends /\ 0 \in 0 .. MaxOpens
    BY SlotBridgeAssumption, EmptySeq
  <2> QED
    BY <2>1 DEF BridgeInit, BridgeTypeOK, RecvSteps
<1>2. SlotFifo
  BY NothingSent DEF BridgeInit, SlotFifo
<1> QED
  BY <1>1, <1>2 DEF BridgeInit, BridgeInv, LockInv, WaitInv, Owning

LEMMA BridgeOpen ==
  ASSUME BridgeInv, NEW kind \in {"queues", "stub"}, Open(kind)
  PROVE  BridgeInv'
<1>1. BridgeTypeOK'
  <2>1. opens + 1 \in 0 .. MaxOpens
    BY SlotBridgeAssumption DEF Open, BridgeInv, BridgeTypeOK
  <2>2. <<>> \in Seq(1 .. MaxSends) /\ 0 \in 0 .. MaxSends
    BY SlotBridgeAssumption, EmptySeq
  <2> QED
    BY <2>1, <2>2 DEF Open, Fresh, recvVars, BridgeInv, BridgeTypeOK
<1>2. SlotFifo'
  BY NothingSent DEF Open, Fresh, SlotFifo
<1> QED
  BY <1>1, <1>2 DEF Open, recvVars, BridgeInv, BridgeTypeOK, LockInv, WaitInv, Owning

LEMMA BridgeClose ==
  ASSUME BridgeInv, Close
  PROVE  BridgeInv'
  BY DEF Close, queueVars, recvVars, BridgeInv, BridgeTypeOK, LockInv, WaitInv, SlotFifo

\* What waking the sleepers of slot s leaves alone.
LEMMA Woken ==
  ASSUME BridgeInv, NEW s \in Queues, Wake(s), UNCHANGED <<mutex, rslot>>
  PROVE  /\ rpc' \in [Receivers -> RecvSteps]
         /\ LockInv'
         /\ \A r \in Receivers : rpc'[r] \in {"block", "asleep"} =>
              rpc[r] \in {"block", "asleep"} /\ ~(rpc[r] = "asleep" /\ rslot[r] = s)
  BY DEF Wake, BridgeInv, BridgeTypeOK, LockInv, Owning, RecvSteps

LEMMA BridgeNotify ==
  ASSUME BridgeInv, NEW s \in Queues, Notify(s)
  PROVE  BridgeInv'
<1>1. Wake(s) /\ UNCHANGED <<bridge, opens, stopped, queueVars, mutex, rslot>>
  BY DEF Notify
<1>2. BridgeTypeOK'
  BY <1>1, Woken DEF Notify, queueVars, BridgeInv, BridgeTypeOK
<1>3. WaitInv' /\ SlotFifo'
  BY <1>1, Woken DEF queueVars, BridgeInv, WaitInv, SlotFifo
<1> QED
  BY <1>1, <1>2, <1>3, Woken DEF BridgeInv

\* A thread about to sleep on s would own the mutex that send has taken.
LEMMA BridgeSend ==
  ASSUME BridgeInv, NEW s \in Queues, Send(s)
  PROVE  BridgeInv'
<1>1. /\ Wake(s) /\ mutex[s] = NoThread
      /\ pushed[s] \in Nat /\ pushed[s] < MaxSends /\ pushed[s] + 1 \in 1 .. MaxSends
      /\ pushed' = [pushed EXCEPT ![s] = @ + 1]
      /\ q' = [q EXCEPT ![s] = Append(@, pushed[s] + 1)]
      /\ UNCHANGED <<bridge, isOpen, opens, closing, stopped, taken, mutex, rslot>>
  BY SlotBridgeAssumption DEF Send, BridgeInv, BridgeTypeOK
<1>2. q[s] \in Seq(1 .. MaxSends) /\ Append(q[s], pushed[s] + 1) \in Seq(1 .. MaxSends)
  BY <1>1, AppendProperties DEF BridgeInv, BridgeTypeOK
<1>3. BridgeTypeOK'
  <2>1. q' \in [Queues -> Seq(1 .. MaxSends)]
    BY <1>1, <1>2 DEF BridgeInv, BridgeTypeOK
  <2>2. pushed' \in [Queues -> 0 .. MaxSends]
    BY <1>1 DEF BridgeInv, BridgeTypeOK
  <2> QED
    BY <1>1, <2>1, <2>2, Woken DEF BridgeInv, BridgeTypeOK
<1>4. ASSUME NEW r \in Receivers, rpc'[r] \in {"block", "asleep"}
      PROVE  q'[rslot'[r]] = <<>>
  <2>1. rpc[r] \in {"block", "asleep"} /\ ~(rpc[r] = "asleep" /\ rslot[r] = s)
    BY <1>1, <1>4, Woken
  <2>2. rslot[r] # s
    BY <1>1, <2>1, SlotBridgeAssumption DEF BridgeInv, LockInv, Owning
  <2> QED
    BY <1>1, <2>1, <2>2 DEF BridgeInv, BridgeTypeOK, LockInv, WaitInv
<1>5. SlotFifo'
  <2>1. taken[s] \o Append(q[s], pushed[s] + 1) = Counts(pushed[s] + 1)
    <3>1. taken[s] \in Seq(1 .. MaxSends) /\ taken[s] \o q[s] = Counts(pushed[s])
      BY DEF BridgeInv, BridgeTypeOK, SlotFifo, Counts
    <3> QED
      BY <1>1, <1>2, <3>1, CountOn, SlotBridgeAssumption
  <2>2. ASSUME NEW u \in Queues PROVE taken'[u] \o q'[u] = Counts(pushed'[u])
    <3>1. CASE u = s
      BY <1>1, <2>1, <3>1 DEF BridgeInv, BridgeTypeOK
    <3>2. CASE u # s
      BY <1>1, <3>2 DEF BridgeInv, BridgeTypeOK, SlotFifo, Counts
    <3> QED
      BY <3>1, <3>2
  <2> QED
    BY <2>2 DEF SlotFifo, Counts
<1> QED
  BY <1>1, <1>3, <1>4, <1>5, Woken DEF BridgeInv, WaitInv

LEMMA BridgeEnter ==
  ASSUME BridgeInv, NEW r \in Receivers, NEW s \in Numbers, NEW b \in BOOLEAN,
         Enter(r, s, b)
  PROVE  BridgeInv'
  BY SlotBridgeAssumption
     DEF Enter, RecvAt, Lock, platformVars, queueVars, BridgeInv, BridgeTypeOK, LockInv,
         WaitInv, SlotFifo, Owning, RecvSteps

\* The steps of recv that leave the queues alone.
LEMMA BridgeWait ==
  ASSUME BridgeInv, NEW r \in Receivers, Test(r) \/ Block(r) \/ TimeOut(r) \/ Relock(r)
  PROVE  BridgeInv'
<1>1. CASE Test(r)
  BY <1>1 DEF Test, RecvAt, platformVars, queueVars, BridgeInv, BridgeTypeOK, LockInv,
              WaitInv, SlotFifo, Owning, RecvSteps
<1>2. CASE Block(r)
  BY <1>2, SlotBridgeAssumption
     DEF Block, RecvAt, Unlock, platformVars, queueVars, BridgeInv, BridgeTypeOK, LockInv,
         WaitInv, SlotFifo, Owning, RecvSteps
<1>3. CASE TimeOut(r)
  BY <1>3 DEF TimeOut, RecvAt, platformVars, queueVars, BridgeInv, BridgeTypeOK, LockInv,
              WaitInv, SlotFifo, Owning, RecvSteps
<1>4. CASE Relock(r)
  BY <1>4, SlotBridgeAssumption
     DEF Relock, RecvAt, Lock, platformVars, queueVars, BridgeInv, BridgeTypeOK, LockInv,
         WaitInv, SlotFifo, Owning, RecvSteps
<1> QED
  BY <1>1, <1>2, <1>3, <1>4

LEMMA BridgeTake ==
  ASSUME BridgeInv, NEW r \in Receivers, TakeFront(r)
  PROVE  BridgeInv'
<1> DEFINE s == rslot[r]
<1>1. /\ rpc[r] = "take" /\ rpc' = [rpc EXCEPT ![r] = "idle"]
      /\ mutex' = [mutex EXCEPT ![s] = NoThread]
      /\ UNCHANGED <<platformVars, pushed, rslot>>
  BY DEF TakeFront, RecvAt, Unlock
<1>2. s \in Queues /\ mutex[s] = r
  BY <1>1 DEF BridgeInv, LockInv, Owning
<1>3. LockInv'
  BY <1>1, <1>2 DEF BridgeInv, BridgeTypeOK, LockInv, Owning
<1>4. CASE q[s] = <<>>
  <2>1. UNCHANGED <<q, taken>>
    BY <1>4 DEF TakeFront
  <2> QED
    BY <1>1, <1>2, <1>3, <2>1
       DEF platformVars, BridgeInv, BridgeTypeOK, WaitInv, SlotFifo, RecvSteps
<1>5. CASE q[s] # <<>>
  <2>1. /\ taken' = [taken EXCEPT ![s] = Append(@, Head(q[s]))]
        /\ q' = [q EXCEPT ![s] = Tail(@)]
    BY <1>5 DEF TakeFront
  <2>2. q[s] \in Seq(1 .. MaxSends) /\ taken[s] \in Seq(1 .. MaxSends)
    BY <1>2 DEF BridgeInv, BridgeTypeOK
  <2> HIDE DEF s
  <2>3. /\ Tail(q[s]) \in Seq(1 .. MaxSends)
        /\ Append(taken[s], Head(q[s])) \in Seq(1 .. MaxSends)
    BY <1>5, <2>2, HeadTailProperties, AppendProperties
  <2>4. BridgeTypeOK'
    <3>1. q' \in [Queues -> Seq(1 .. MaxSends)] /\ taken' \in [Queues -> Seq(1 .. MaxSends)]
      BY <2>1, <2>3 DEF BridgeInv, BridgeTypeOK
    <3> QED
      BY <1>1, <1>2, <3>1 DEF platformVars, BridgeInv, BridgeTypeOK, RecvSteps
  <2>5. WaitInv'
    <3>1. \A u \in Receivers : rpc'[u] \in {"block", "asleep"} =>
             rpc[u] \in {"block", "asleep"} /\ rslot[u] \in Queues /\ q[rslot[u]] = <<>>
      BY <1>1 DEF BridgeInv, BridgeTypeOK, LockInv, WaitInv
    <3> QED
      BY <1>1, <1>5, <2>1, <3>1 DEF BridgeInv, BridgeTypeOK, WaitInv
  <2>6. SlotFifo'
    <3>1. Append(taken[s], Head(q[s])) \o Tail(q[s]) = taken[s] \o q[s]
      BY <1>5, <2>2, MoveFront
    <3>2. ASSUME NEW u \in Queues PROVE taken'[u] \o q'[u] = taken[u] \o q[u]
      <4>1. CASE u = s
        BY <2>1, <3>1, <4>1 DEF BridgeInv, BridgeTypeOK
      <4>2. CASE u # s
        BY <2>1, <4>2 DEF BridgeInv, BridgeTypeOK
      <4> QED
        BY <4>1, <4>2
    <3> QED
      BY <1>1, <3>2 DEF BridgeInv, SlotFifo
  <2> QED
    BY <1>3, <2>4, <2>5, <2>6 DEF BridgeInv
<1> QED
  BY <1>4, <1>5

LEMMA BridgeStep == BridgeInv /\ [BridgeNext]_bridgeVars => BridgeInv'
<1> SUFFICES ASSUME BridgeInv, [BridgeNext]_bridgeVars PROVE BridgeInv'
  OBVIOUS
<1>1. CASE UNCHANGED bridgeVars
  BY <1>1 DEF bridgeVars, queueVars, recvVars, BridgeInv, BridgeTypeOK, LockInv, WaitInv, SlotFifo
<1>2. CASE BridgeNext
  BY <1>2, BridgeOpen, BridgeClose, BridgeNotify, BridgeSend, BridgeEnter, BridgeWait,
     BridgeTake DEF BridgeNext, Continue
<1> QED
  BY <1>1, <1>2

-----------------------------------------------------------------------------
\* Platform, queues and receivers stay in their types; in particular the
\* slots that shutdown notifies are slots of the bridge.
THEOREM BridgeTypeCorrect == BridgeSpec => []BridgeTypeOK
<1>1. BridgeInv => BridgeTypeOK
  BY DEF BridgeInv
<1> QED
  BY BridgeStart, BridgeStep, <1>1, PTL DEF BridgeSpec

\* recvSlot hands over the flits of a slot in the order of sendSlot, each once,
\* for every number of slots and threads and while the platform is closed.
THEOREM SlotsInOrder == BridgeSpec => []SlotFifo
<1>1. BridgeInv => SlotFifo
  BY DEF BridgeInv
<1> QED
  BY BridgeStart, BridgeStep, <1>1, PTL DEF BridgeSpec

\* No thread of recvSlot sleeps while its slot has a flit: send cannot come
\* between the test of the predicate and the wait.
THEOREM NobodySleepsOnFlit == BridgeSpec => []NoSleepOnFlit
<1>1. BridgeInv => NoSleepOnFlit
  BY DEF BridgeInv, WaitInv, NoSleepOnFlit
<1> QED
  BY BridgeStart, BridgeStep, <1>1, PTL DEF BridgeSpec
=============================================================================
