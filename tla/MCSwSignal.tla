----------------------------- MODULE MCSwSignal -----------------------------
(***************************************************************************)
(* tor_in -> p -> c  with p a Pass and c a Counter, both host-controlled,  *)
(* each with a channel of its own as in KernelHarness, and a host thread   *)
(* that reads and resets the counter while flits flow.                     *)
(***************************************************************************)
EXTENDS SwEmu

Edge(a, i, b, j, d) == [src |-> a, sport |-> i, dst |-> b, dport |-> j, depth |-> d]

SignalKernels == {"p", "c"}
SignalElem    == [p |-> "Pass", c |-> "Counter"]
SignalConns   == << Edge("p", 1, "c", 1, 1), Edge("tor_in", 1, "p", 1, 1) >>
OwnChan       == [p |-> "ch_p", c |-> "ch_c"]
CallCounter   == [h |-> "c"]
=============================================================================
