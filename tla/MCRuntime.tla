----------------------------- MODULE MCRuntime ------------------------------
(***************************************************************************)
(* The runtime library.  Each behaviour has one of its parts: RPC to the   *)
(* register block of a kernel by two threads; a slot bridge with two       *)
(* receivers and one slot number that is out of range; or one of the three *)
(* parts of MCCrypto.  They share nothing.                                 *)
(***************************************************************************)
EXTENDS MCCrypto, SignalRpc, SlotBridge

TwoHosts     == {"h1", "h2"}
TwoReceivers == {"r1", "r2"}

cryptoVars == <<vars, elemVars, shaVars>>

RuntimeInit ==
  /\ \/ part \in {"rpc", "bridge"}
        /\ todo = Idle /\ feed = <<>> /\ client = "program" /\ Init /\ ElemInit /\ ShaInit
     \/ MCInit
  /\ RpcInit /\ BridgeInit
  /\ part # "bridge" => \A r \in Receivers : rslot[r] = 0

\* Where a part may stop: every call has returned, and the kernel has nothing to
\* serve; every request to the engine is answered; the element that hashes
\* has had its flits.
Over ==
  \/ /\ part = "rpc"
     /\ \A h \in Hosts : hpc[h] = "idle" /\ calls[h] = MaxCalls
     /\ kpc = "poll" /\ status # 1
  \/ part = "engine" /\ \A t \in Threads : pc[t] = "idle" /\ todo[t] = <<>>
  \/ part = "sha1" /\ client # "program" /\ sent + FlitBytes > MaxBytes

RuntimeNext ==
  \/ MCNext /\ UNCHANGED <<rpcVars, bridgeVars>>
  \/ part = "rpc" /\ RpcNext /\ UNCHANGED <<part, cryptoVars, bridgeVars>>
  \/ part = "bridge" /\ BridgeNext /\ UNCHANGED <<part, cryptoVars, rpcVars>>
  \/ Over /\ UNCHANGED <<part, cryptoVars, rpcVars, bridgeVars>>

\* RpcFairness and BridgeFairness, each for the behaviours of its part.
RuntimeFairness ==
  /\ ElemFairness
  /\ \A h \in Hosts : WF_rpcVars(part = "rpc" /\ Dispatch(h))
  /\ \A r \in Receivers :
       /\ WF_bridgeVars(part = "bridge" /\ (Test(r) \/ Block(r) \/ TimeOut(r) \/ TakeFront(r)))
       /\ SF_bridgeVars(part = "bridge" /\ Relock(r))

RuntimeSpec ==
  /\ RuntimeInit
  /\ [][RuntimeNext]_<<part, cryptoVars, rpcVars, bridgeVars>>
  /\ RuntimeFairness
=============================================================================
