------------------------------ MODULE MCShell -------------------------------
(***************************************************************************)
(* The blocks of the shell: either the host channel with three slots, a    *)
(* number that is not a power of two, and one slot_id that is out of       *)
(* range, or the status block with two of its four counters.  They share   *)
(* nothing but the clock.                                                  *)
(***************************************************************************)
EXTENDS SlotDemux, StatusBlock

VARIABLE part

MCSlotIds == 0 .. NumSlots
MCRegs    == {"tor_rx", "nic_tx"}

MCInit == part \in {"slots", "status"} /\ PathInit /\ StatusInit
MCNext ==
  /\ UNCHANGED part
  /\ \/ part = "slots" /\ PathNext /\ UNCHANGED statusVars
     \/ part = "status" /\ StatusNext /\ UNCHANGED pathVars

\* PathFairness and StatusFairness, each for the behaviours of its part.
MCFairness ==
  /\ WF_pathVars(part = "slots" /\ HostReady)
  /\ \A s \in Slots : WF_pathVars(part = "slots" /\ KernelSends(s))
  /\ WF_statusVars(part = "status" /\ MasterReady)

MCSpec == MCInit /\ [][MCNext]_<<part, pathVars, statusVars>> /\ MCFairness
=============================================================================
