---------------------------- MODULE MCSwDiamond -----------------------------
(***************************************************************************)
(* tor_in -> d,  d[1] -> [1]m,  d[2] -> [2]m,  m -> tor_out  with d a      *)
(* Demux2 and m a Mux: two paths from the source to the sink.              *)
(***************************************************************************)
EXTENDS SwEmu

Edge(a, i, b, j, d) == [src |-> a, sport |-> i, dst |-> b, dport |-> j, depth |-> d]

DiamondKernels == {"d", "m"}
DiamondElem    == [d |-> "Demux2", m |-> "Mux"]
DiamondConns   == << Edge("d", 1, "m", 1, 1), Edge("d", 2, "m", 2, 1),
                     Edge("tor_in", 1, "d", 1, 1), Edge("m", 1, "tor_out", 1, 1) >>
NoSignals      == [k \in Kernels |-> NoChan]
NoTargets      == [c \in Callers |-> "none"]
=============================================================================
