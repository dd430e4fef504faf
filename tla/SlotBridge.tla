----------------------------- MODULE SlotBridge -----------------------------
(***************************************************************************)
(* Platform::open, close, sendSlot and recvSlot over a slot bridge.  The   *)
(* XDMA and the QDMA bridge have the same queues; the Stub bridge, and a   *)
(* Platform that was never opened, refuse everything.                      *)
(*                                                                         *)
(* send holds the mutex of its slot throughout and is one step.  recv      *)
(* gives the mutex up while it waits on the condition variable, so it is   *)
(* broken up there.  shutdown takes no slot mutex: it raises stopped_ and  *)
(* notifies the slots one after the other.                                 *)
(***************************************************************************)
EXTENDS Naturals, Sequences

CONSTANTS
  NumQueues,   \* slots of a bridge (64)
  Numbers,     \* slot numbers the application uses
  Receivers,   \* threads that call recvSlot
  NoThread,
  MaxSends,    \* sends per bridge
  MaxOpens     \* calls of Platform::open

ASSUME SlotBridgeAssumption ==
  /\ NumQueues \in Nat
  /\ Numbers \subseteq Nat
  /\ NoThread \notin Receivers
  /\ MaxSends \in Nat
  /\ MaxOpens \in Nat

Queues == {s \in Numbers : s < NumQueues}

VARIABLES
  bridge,    \* "none", "queues" (XDMA, QDMA) or "stub"
  isOpen,    \* is_open_
  opens,     \* calls of open so far
  closing,   \* slots that shutdown has still to notify
  stopped,   \* stopped_
  q,         \* q[s]: numbers of the queued flits
  pushed,    \* pushed[s]: flits sent to s; they are numbered 1 .. pushed[s]
  taken,     \* taken[s]: flits recv has handed over, in order
  mutex,     \* mutex[s]: the receiver that holds it, or NoThread
  rpc,       \* rpc[r]: where r is in recv
  rslot      \* rslot[r]: the slot r asked for

queueVars  == <<q, pushed, taken>>
recvVars   == <<mutex, rpc, rslot>>
bridgeVars == <<bridge, isOpen, opens, closing, stopped, queueVars, recvVars>>

\* idle   not in recv            asleep  in wait_for, mutex released
\* test   about to test the predicate    notified  woken, wants the mutex
\* block  predicate false, about to sleep   late  timed out, wants the mutex
\* take   past the wait
RecvSteps == {"idle", "test", "block", "asleep", "notified", "late", "take"}

BridgeTypeOK ==
  /\ bridge \in {"none", "queues", "stub"}
  /\ isOpen \in BOOLEAN
  /\ opens \in 0 .. MaxOpens
  /\ closing \subseteq Queues
  /\ stopped \in BOOLEAN
  /\ q \in [Queues -> Seq(1 .. MaxSends)]
  /\ pushed \in [Queues -> 0 .. MaxSends]
  /\ taken \in [Queues -> Seq(1 .. MaxSends)]
  /\ mutex \in [Queues -> Receivers \cup {NoThread}]
  /\ rpc \in [Receivers -> RecvSteps]
  /\ rslot \in [Receivers -> Numbers]

Fresh ==
  /\ q' = [s \in Queues |-> <<>>]
  /\ pushed' = [s \in Queues |-> 0]
  /\ taken' = [s \in Queues |-> <<>>]
  /\ stopped' = FALSE

BridgeInit ==
  /\ bridge = "none"
  /\ isOpen = FALSE
  /\ opens = 0
  /\ closing = {}
  /\ stopped = FALSE
  /\ q = [s \in Queues |-> <<>>]
  /\ pushed = [s \in Queues |-> 0]
  /\ taken = [s \in Queues |-> <<>>]
  /\ mutex = [s \in Queues |-> NoThread]
  /\ rpc = [r \in Receivers |-> "idle"]
  /\ rslot \in [Receivers -> Numbers]

-----------------------------------------------------------------------------
(* Platform.                                                               *)

\* A new bridge replaces the old one.  The caller must have no thread in recv:
\* the bridge a waiting thread uses would be destroyed under it.
Open(kind) ==
  /\ opens < MaxOpens
  /\ closing = {}
  /\ \A r \in Receivers : rpc[r] = "idle"
  /\ opens' = opens + 1
  /\ bridge' = kind
  /\ isOpen' = TRUE
  /\ Fresh
  /\ UNCHANGED <<closing, recvVars>>

\* Mutant: shutdown runs past the end of the queues.
MutCloseAll ==
  /\ closing = {}
  /\ IF bridge = "queues"
     THEN stopped' = TRUE /\ closing' = Numbers /\ UNCHANGED isOpen
     ELSE isOpen' = FALSE /\ UNCHANGED <<stopped, closing>>
  /\ UNCHANGED <<bridge, opens, queueVars, recvVars>>

\* close: stopped_ = true; the notifications follow, and is_open_ = false last.
Close ==
  /\ closing = {}
  /\ IF bridge = "queues"
     THEN stopped' = TRUE /\ closing' = Queues /\ UNCHANGED isOpen
     ELSE isOpen' = FALSE /\ UNCHANGED <<stopped, closing>>
  /\ UNCHANGED <<bridge, opens, queueVars, recvVars>>

Wake(s) ==
  rpc' = [r \in Receivers |->
            IF rpc[r] = "asleep" /\ rslot[r] = s THEN "notified" ELSE rpc[r]]

\* s.cv.notify_all() in shutdown
Notify(s) ==
  /\ s \in closing
  /\ closing' = closing \ {s}
  /\ isOpen' = (isOpen /\ closing # {s})
  /\ Wake(s)
  /\ UNCHANGED <<bridge, opens, stopped, queueVars, mutex, rslot>>

-----------------------------------------------------------------------------
(* send.  A send to a slot out of range, to a stub or to no bridge returns *)
(* false and changes nothing; one after close succeeds.                    *)

Send(s) ==
  /\ bridge = "queues"
  /\ mutex[s] = NoThread
  /\ pushed[s] < MaxSends
  /\ pushed' = [pushed EXCEPT ![s] = @ + 1]
  /\ q' = [q EXCEPT ![s] = Append(@, pushed[s] + 1)]
  /\ Wake(s)
  /\ UNCHANGED <<bridge, isOpen, opens, closing, stopped, taken, mutex, rslot>>

-----------------------------------------------------------------------------
(* recv.                                                                   *)

platformVars == <<bridge, isOpen, opens, closing, stopped>>

RecvAt(r, from, to) == rpc[r] = from /\ rpc' = [rpc EXCEPT ![r] = to]

Lock(s, r) == mutex[s] = NoThread /\ mutex' = [mutex EXCEPT ![s] = r]
Unlock(s)  == mutex' = [mutex EXCEPT ![s] = NoThread]

\* A slot out of range, the stub and a missing bridge return false at once.
Enter(r, s, blocking) ==
  /\ bridge = "queues"
  /\ s \in Queues
  /\ RecvAt(r, "idle", IF blocking THEN "test" ELSE "take")
  /\ Lock(s, r)
  /\ rslot' = [rslot EXCEPT ![r] = s]
  /\ UNCHANGED <<platformVars, queueVars>>

\* Mutant: the mutex is given up between the test and the wait.
MutTestUnlocked(r) ==
  LET ready == q[rslot[r]] # <<>> \/ stopped
  IN  /\ RecvAt(r, "test", IF ready THEN "take" ELSE "block")
      /\ IF ready THEN UNCHANGED mutex ELSE Unlock(rslot[r])
      /\ UNCHANGED <<platformVars, queueVars, rslot>>

\* !q.empty() || stopped_
Test(r) ==
  /\ RecvAt(r, "test", IF q[rslot[r]] # <<>> \/ stopped THEN "take" ELSE "block")
  /\ UNCHANGED <<platformVars, queueVars, mutex, rslot>>

Block(r) ==
  /\ RecvAt(r, "block", "asleep")
  /\ Unlock(rslot[r])
  /\ UNCHANGED <<platformVars, queueVars, rslot>>

\* Mutant: the wait starts anew when its time is over.
MutTimeOutRetries(r) ==
  /\ RecvAt(r, "asleep", "notified")
  /\ UNCHANGED <<platformVars, queueVars, mutex, rslot>>

\* The 50 ms are over.
TimeOut(r) ==
  /\ RecvAt(r, "asleep", "late")
  /\ UNCHANGED <<platformVars, queueVars, mutex, rslot>>

\* The predicate is tested again, unless the time is over.
Relock(r) ==
  /\ RecvAt(r, "notified", "test") \/ RecvAt(r, "late", "take")
  /\ Lock(rslot[r], r)
  /\ UNCHANGED <<platformVars, queueVars, rslot>>

\* Mutant: the flit is not removed when the bridge is shut down.
MutTakeKeeps(r) ==
  LET s == rslot[r]
  IN  /\ RecvAt(r, "take", "idle")
      /\ Unlock(s)
      /\ IF q[s] = <<>>
         THEN UNCHANGED <<q, taken>>
         ELSE /\ taken' = [taken EXCEPT ![s] = Append(@, Head(q[s]))]
              /\ q' = [q EXCEPT ![s] = IF stopped THEN @ ELSE Tail(@)]
      /\ UNCHANGED <<platformVars, pushed, rslot>>

\* recv returns true with the front of the queue, or false if it is empty.
TakeFront(r) ==
  LET s == rslot[r]
  IN  /\ RecvAt(r, "take", "idle")
      /\ Unlock(s)
      /\ IF q[s] = <<>>
         THEN UNCHANGED <<q, taken>>
         ELSE /\ taken' = [taken EXCEPT ![s] = Append(@, Head(q[s]))]
              /\ q' = [q EXCEPT ![s] = Tail(@)]
      /\ UNCHANGED <<platformVars, pushed, rslot>>

Continue(r) ==
  \/ Test(r) \/ Block(r) \/ TimeOut(r) \/ Relock(r) \/ TakeFront(r)

BridgeNext ==
  \/ \E kind \in {"queues", "stub"} : Open(kind)
  \/ Close
  \/ \E s \in Queues : Notify(s) \/ Send(s)
  \/ \E r \in Receivers, s \in Numbers, blocking \in BOOLEAN : Enter(r, s, blocking)
  \/ \E r \in Receivers : Continue(r)

BridgeSpec == BridgeInit /\ [][BridgeNext]_bridgeVars

\* A thread inside recv is scheduled, gets the mutex of its slot again and
\* again, and its 50 ms pass.
BridgeFairness ==
  /\ \A r \in Receivers : WF_bridgeVars(Test(r) \/ Block(r) \/ TimeOut(r) \/ TakeFront(r))
  /\ \A r \in Receivers : SF_bridgeVars(Relock(r))

-----------------------------------------------------------------------------
\* Flits of a slot are received in the order in which they were sent, each
\* once, whichever threads receive them and whether or not the platform is
\* being closed meanwhile.
SlotFifo == \A s \in Queues : taken[s] \o q[s] = [n \in 1 .. pushed[s] |-> n]

\* No receiver goes to sleep, or sleeps on, while its slot has a flit: the
\* predicate is tested and the sleep begun under the mutex that send holds.
NoSleepOnFlit ==
  \A r \in Receivers : rpc[r] = "asleep" => q[rslot[r]] = <<>>

\* Every recv returns, although shutdown raises stopped_ and notifies without
\* the mutex, so that a thread between its test and its sleep misses both.
RecvReturns == \A r \in Receivers : rpc[r] # "idle" ~> rpc[r] = "idle"
=============================================================================
