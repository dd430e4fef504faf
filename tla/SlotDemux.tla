----------------------------- MODULE SlotDemux ------------------------------
(***************************************************************************)
(* The slot-multiplexed host channel: slot_demux hands the flits that the  *)
(* host sends to the kernels of their slots, and slot_mux merges what the  *)
(* kernels send back.  Both run off the same clock; a step is a cycle.     *)
(* A kernel, which is the environment, has room for one flit and sends it  *)
(* back once the mux has taken its last one.  A flit is its slot_id.       *)
(***************************************************************************)
EXTENDS SlotMux, Integers, Sequences, FiniteSets

CONSTANTS
  SlotIds,   \* values of the 16-bit slot_id that the host uses
  MaxQueue   \* bound on the flits that wait for slot_demux

ASSUME SlotDemuxAssumption == SlotIds \subseteq Nat /\ MaxQueue \in Nat

VARIABLES
  h2c,       \* flits on their way to slot_demux; the first is on s_axis
  full,      \* slots whose kernel holds a flit
  away       \* history: away[i] flits with slot_id i have not come back

pathVars == <<vars, h2c, full, away>>

PathTypeOK ==
  /\ TypeOK
  /\ h2c \in Seq(SlotIds)
  /\ full \subseteq Slots
  /\ away \in [SlotIds -> Int]

PathInit ==
  /\ Init
  /\ h2c = <<>> /\ full = {}
  /\ away = [i \in SlotIds |-> 0]

-----------------------------------------------------------------------------
\* Mutants: the range of slot is not tested; the last slot is left out.
MutSelAny(slot)  == {slot}
MutSelLast(slot) == IF slot < NumSlots - 1 THEN {slot} ELSE {}

\* No output is selected for a slot that is out of range.
Sel(slot) == IF slot < NumSlots THEN {slot} ELSE {}

\* Mutant: m_axis_tready is ignored.
MutFanout == IF h2c = <<>> THEN {} ELSE Sel(Head(h2c))

\* The outputs on which a flit goes out in this cycle: tvalid and tready are up.
Fanout == IF h2c = <<>> THEN {} ELSE Sel(Head(h2c)) \ full

\* s_axis_tready takes the flit off the channel, and the host may add one;
\* those in back have come back to it.
Host(taken, back) ==
  LET rest == IF taken = {} THEN h2c ELSE Tail(h2c)
      left == [i \in SlotIds |-> IF i \in back THEN away[i] - 1 ELSE away[i]]
  IN  \/ h2c' = rest /\ away' = left
      \/ /\ Len(rest) < MaxQueue
         /\ \E i \in SlotIds : /\ h2c' = Append(rest, i)
                               /\ away' = [left EXCEPT ![i] = @ + 1]

\* One cycle, in which the kernels of the slots in new send their flits back.
Cycle(new) ==
  /\ \/ /\ new \subseteq full \ valid
        /\ Hold(new)
        /\ Host(Fanout, {})
     \/ \E s \in Slots :
          /\ new \subseteq full \ (valid \ {s})
          /\ Transfer(s, new)
          /\ Host(Fanout, {s})
  /\ full' = (full \ new) \cup Fanout

\* Everything on the board is reset, and the host's channel is flushed.
PathReset ==
  /\ Reset
  /\ h2c' = <<>> /\ full' = {}
  /\ away' = [i \in SlotIds |-> 0]

PathNext == /\ ready' \in BOOLEAN
            /\ (\E new \in SUBSET Slots : Cycle(new)) \/ PathReset

\* The host is ready for flits again and again, and no kernel keeps a flit for
\* ever that the mux has room for.
HostReady      == ready' = TRUE /\ \E new \in SUBSET Slots : Cycle(new)
KernelSends(s) == ready' \in BOOLEAN /\ \E new \in SUBSET Slots : s \in new /\ Cycle(new)

PathFairness == WF_pathVars(HostReady) /\ \A s \in Slots : WF_pathVars(KernelSends(s))

PathSpec == PathInit /\ [][PathNext]_pathVars /\ PathFairness

-----------------------------------------------------------------------------
Held(i, S) == IF i \in S THEN 1 ELSE 0

\* Between two resets no flit is lost, doubled or sent to another slot's
\* kernel: those that left the host for slot s and are not back are on the
\* channel, in the kernel or at the mux.
Conserved ==
  \A i \in SlotIds :
    away[i] = Cardinality({k \in 1 .. Len(h2c) : h2c[k] = i}) +
              Held(i, full) + Held(i, valid)

\* A flit at the head of the channel whose slot is in range is taken, however
\* the other slots are loaded, since the mux serves its kernel in turn.  One
\* whose slot is not in range is never taken, nor is anything behind it.
HostServed ==
  (h2c # <<>> /\ Head(h2c) \in Slots) ~> (Fanout # {} \/ h2c = <<>>)
=============================================================================
