------------------------------ MODULE MCSwTree ------------------------------
(***************************************************************************)
(* tor_in -> s -> t -> tor_out,  t[2] -> nic_out  with s a StagingReg and  *)
(* t a Tee: one source, no merge.  Streams of depth 1 and 2 make the       *)
(* writers meet full FIFOs.  The paths from the source to the two sinks    *)
(* are the pipelines.                                                      *)
(***************************************************************************)
EXTENDS SwEmu

Edge(a, i, b, j, d) == [src |-> a, sport |-> i, dst |-> b, dport |-> j, depth |-> d]

TreeKernels == {"s", "t"}
TreeElem    == [s |-> "StagingReg", t |-> "Tee"]
TreeConns   == << Edge("s", 1, "t", 1, 1), Edge("tor_in", 1, "s", 1, 2),
                  Edge("t", 1, "tor_out", 1, 1), Edge("t", 2, "nic_out", 1, 0) >>
NoSignals   == [k \in Kernels |-> NoChan]
NoTargets   == [c \in Callers |-> "none"]
=============================================================================
