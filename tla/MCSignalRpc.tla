----------------------------- MODULE MCSignalRpc -----------------------------
(* The register block of a kernel that one thread calls.                    *)
EXTENDS SignalRpc

OneHost == {"h1"}
=============================================================================
