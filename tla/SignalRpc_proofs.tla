-------------------------- MODULE SignalRpc_proofs --------------------------
(***************************************************************************)
(* Stop-and-wait over the AXI-Lite block is exact for as long as no call   *)
(* stops waiting and the calls of different threads do not overlap, for    *)
(* any threads, any number of calls and any polling bound.  The inductive  *)
(* invariant says in which order the two sides pass the block to each      *)
(* other: the thread that calls owns it until it rings, the kernel until   *)
(* it declares the response valid.                                         *)
(***************************************************************************)
EXTENDS SignalRpc, TLAPS

\* The request is in the registers and the kernel has not finished copying it.
Pending(c) ==
  /\ status = 1
  /\ kpc \in {"poll", "cmd", "par", "clear"}
  /\ lparam = c
  /\ kpc \in {"par", "clear"} => ev.cmd = c
  /\ kpc = "clear" => ev.par = c

\* The kernel serves the request and writes the response.
Serving(c) ==
  /\ status = 0
  /\ kpc \in {"rcmd", "rpar", "valid"}
  /\ ev = Whole(c)
  /\ kpc \in {"rpar", "valid"} => rsp_cmd = ev
  /\ kpc = "valid" => rsp_lparam = ev

\* The response is there to be read.
Ready(c) ==
  /\ status = 2
  /\ kpc = "poll"
  /\ rsp_cmd = Whole(c)
  /\ rsp_lparam = Whole(c)

Turn(h) ==
  /\ hpc[h] \in {"idle", "par", "ring"} => kpc = "poll" /\ status # 1
  /\ hpc[h] \in {"par", "ring", "poll"} => cmd = Current(h)
  /\ hpc[h] \notin {"idle", "par"} => lparam = Current(h)
  /\ hpc[h] = "poll" => \/ Pending(Current(h))
                        \/ Serving(Current(h))
                        \/ Ready(Current(h))
  /\ hpc[h] \in {"rcmd", "rpar", "rlast"} => Ready(Current(h))
  /\ hpc[h] \in {"rpar", "rlast"} => rsp[h].cmd.ev = Whole(Current(h))
  /\ hpc[h] = "rlast" => rsp[h].lparam.ev = Whole(Current(h))

\* No thread but h is inside dispatchSignal.
Alone(h) == \A g \in Hosts : g # h => hpc[g] = "idle"

Begun(c) == c.n <= calls[c.host]

\* Calls whose .signal body has not run yet are not in `served`.
Past(h) ==
  /\ \A i \in DOMAIN served : \E c \in Calls : Begun(c) /\ served[i] = Whole(c)
  /\ hpc[h] \in {"par", "ring"} \/ (hpc[h] = "poll" /\ (status = 1 \/ kpc = "rcmd"))
       => \A i \in DOMAIN served : served[i] # Whole(Current(h))
  /\ \A i, j \in DOMAIN served : served[i] = served[j] => i = j

\* A thread inside dispatchSignal has a call that the type invariant knows.
TypeInv == RpcTypeOK /\ \A h \in Hosts : hpc[h] # "idle" => calls[h] # 0

\* Thread h has the register block, or was the last one to have it.
Owns(h) == Alone(h) /\ Turn(h) /\ Past(h)

\* The inductive invariant.
RpcInv ==
  /\ TypeInv
  /\ ~disturbed => OwnAnswer /\ \E h \in Hosts : Owns(h)

-----------------------------------------------------------------------------
LEMMA CurrentType ==
  ASSUME TypeInv, NEW h \in Hosts, hpc[h] # "idle"
  PROVE  Current(h) \in Calls
PROOF
  BY SignalRpcAssumption DEF TypeInv, RpcTypeOK, Current, Calls

LEMMA TypeStep ==
  ASSUME TypeInv, [RpcNext]_rpcVars
  PROVE  TypeInv'
PROOF
<1> USE SignalRpcAssumption DEF TypeInv, RpcTypeOK
<1>1. CASE UNCHANGED rpcVars
  BY <1>1 DEF rpcVars, regVars, hostVars, kernelVars
<1>2. CASE Kernel
  <2> USE DEF Events, KernelSteps, KernelAt, regVars, hostVars
  <2>1. CASE PollSignal \/ CopyCmd \/ ClearStatus \/ RespondPar \/ SetValid
    BY <2>1 DEF PollSignal, CopyCmd, ClearStatus, RespondPar, SetValid
  <2>2. CASE CopyPar
    BY <2>2 DEF CopyPar
  <2>3. CASE RespondCmd
    BY <2>3 DEF RespondCmd
  <2> QED BY <1>2, <2>1, <2>2, <2>3 DEF Kernel
<1>3. ASSUME NEW h \in Hosts, Dispatch(h)
      PROVE  TypeInv'
  <2> USE DEF HostAt, HostSteps, regVars, kernelVars
  <2>1. CASE WriteCmd(h)
    <3>1. [host |-> h, n |-> calls[h] + 1] \in Calls
      BY <2>1 DEF WriteCmd, Calls
    <3>2. disturbed' \in BOOLEAN
      BY <2>1 DEF WriteCmd
    <3>3. \A g \in Hosts : hpc'[g] # "idle" => calls'[g] # 0
      BY <2>1 DEF WriteCmd
    <3>4. calls' \in [Hosts -> 0 .. MaxCalls] /\ hpc' \in [Hosts -> HostSteps]
      BY <2>1 DEF WriteCmd
    <3> QED BY <2>1, <3>1, <3>2, <3>3, <3>4 DEF WriteCmd
  <2>2. CASE WritePar(h)
    <3>1. Current(h) \in Calls
      BY <2>2, CurrentType DEF WritePar
    <3> QED BY <2>2, <3>1 DEF WritePar
  <2>3. CASE Ring(h)
    BY <2>3 DEF Ring
  <2>4. CASE Poll(h)
    <3>1. polls[h] \in 0 .. MaxPolls
      OBVIOUS
    <3>2. polls' \in [Hosts -> 0 .. MaxPolls]
      BY <2>4, <3>1 DEF Poll
    <3> QED BY <2>4, <3>2 DEF Poll
  <2>5. CASE GiveUp(h)
    BY <2>5 DEF GiveUp
  <2>6. CASE ReadCmd(h)
    <3>1. Word("lparam", Whole(lparam)) \in Words
      BY DEF Word, Words, Whole, Events
    <3> QED BY <2>6, <3>1 DEF ReadCmd
  <2>7. CASE ReadPar(h)
    <3>1. Word("rsp_lparam", rsp_lparam) \in Words
      BY DEF Word, Words
    <3> QED BY <2>7, <3>1 DEF ReadPar
  <2>8. CASE ReadLast(h)
    <3>1. Current(h) \in Calls /\ Word("rsp_cmd", rsp_cmd) \in Words
      BY <2>8, CurrentType DEF ReadLast, Word, Words
    <3> QED BY <2>8, <3>1 DEF ReadLast
  <2> QED BY <1>3, <2>1, <2>2, <2>3, <2>4, <2>5, <2>6, <2>7, <2>8 DEF Dispatch
<1> QED BY <1>1, <1>2, <1>3 DEF RpcNext

LEMMA TypeInit ==
  ASSUME RpcInit
  PROVE  TypeInv
PROOF
<1>1. NoEvent \in Events
  BY DEF NoEvent, Events
<1>2. NoWord \in Words
  BY <1>1 DEF NoWord, Words
<1>3. polls \in [Hosts -> 0 .. MaxPolls] /\ calls \in [Hosts -> 0 .. MaxCalls]
  BY SignalRpcAssumption DEF RpcInit
<1>4. hpc \in [Hosts -> HostSteps] /\ kpc \in KernelSteps
  BY DEF RpcInit, HostSteps, KernelSteps
<1>5. served \in Seq(Events)
  BY DEF RpcInit
<1> QED BY <1>1, <1>2, <1>3, <1>4, <1>5 DEF RpcInit, TypeInv, RpcTypeOK

\* Whatever the host threads and the kernel do, and in whatever order they
\* reach the registers of dispatchSignal, poll_signal and respond_signal, the
\* registers, program counters and histories keep their types.
THEOREM TypeCorrect == RpcSpec => []RpcTypeOK
PROOF
<1>1. RpcInit => TypeInv
  BY TypeInit
<1>2. TypeInv /\ [RpcNext]_rpcVars => TypeInv'
  BY TypeStep
<1>3. TypeInv => RpcTypeOK
  BY DEF TypeInv
<1> QED BY <1>1, <1>2, <1>3, PTL DEF RpcSpec
-----------------------------------------------------------------------------
LEMMA WholeInjective ==
  ASSUME NEW c, NEW d, Whole(c) = Whole(d)
  PROVE  c = d
PROOF
<1>1. Whole(c).cmd = c /\ Whole(d).cmd = d
  BY DEF Whole
<1> QED BY <1>1

\* The kernel's steps, while no call has stopped waiting.
LEMMA KernelStep ==
  ASSUME NEW h \in Hosts, TypeInv, Owns(h), OwnAnswer, ~disturbed, Kernel
  PROVE  Owns(h)' /\ OwnAnswer'
PROOF
<1>c. PICK c : c = Current(h)
  OBVIOUS
<1> USE DEF Owns
<1>t. hpc[h] \in HostSteps
  BY DEF TypeInv, RpcTypeOK
<1>h. /\ hpc' = hpc
      /\ Current(h)' = c
      /\ calls' = calls
      /\ rsp' = rsp
      /\ lparam' = lparam
      /\ OwnAnswer'
      /\ Alone(h)'
  BY <1>c DEF Alone, Kernel, PollSignal, CopyCmd, CopyPar, ClearStatus, RespondCmd, RespondPar,
     SetValid, regVars, hostVars, OwnAnswer, Current
<1>1. hpc[h] = "poll" /\ ~Ready(c)
  <2>1. hpc[h] \in {"idle", "par", "ring", "rcmd", "rpar", "rlast"} \/ Ready(c) => kpc = "poll" /\ status # 1
    BY DEF Turn, Ready
  <2>2. ~(kpc = "poll" /\ status # 1)
    BY DEF Kernel, PollSignal, CopyCmd, CopyPar, ClearStatus, RespondCmd, RespondPar,
       SetValid, KernelAt
  <2> QED BY <2>1, <2>2, <1>t DEF HostSteps
<1>2. cmd = c /\ (Pending(c) \/ Serving(c))
  BY <1>1, <1>c DEF Turn
<1>3. ASSUME cmd' = c, Pending(c)' \/ Serving(c)' \/ Ready(c)'
      PROVE  Turn(h)'
  BY <1>1, <1>3, <1>h, <1>c DEF Turn
<1>4. ASSUME served' = served, status' = 1 \/ kpc' = "rcmd" => status = 1 \/ kpc = "rcmd"
      PROVE  Past(h)'
  <2>1. \A d : Begun(d)' <=> Begun(d)
    BY <1>h DEF Begun
  <2> QED BY <1>1, <1>4, <1>h, <1>c, <2>1 DEF Past
<1>5. CASE PollSignal
  <2>1. Pending(c)'
    BY <1>2, <1>5 DEF PollSignal, KernelAt, regVars, Pending, Serving
  <2> QED BY <1>2, <1>3, <1>4, <1>5, <1>h, <2>1 DEF PollSignal, KernelAt, regVars
<1>6. CASE CopyCmd
  <2>1. Pending(c)'
    BY <1>2, <1>6 DEF CopyCmd, KernelAt, regVars, Pending, Serving
  <2> QED BY <1>2, <1>3, <1>4, <1>6, <1>h, <2>1 DEF CopyCmd, KernelAt, regVars
<1>7. CASE CopyPar
  <2>1. Pending(c)'
    BY <1>2, <1>7 DEF CopyPar, KernelAt, regVars, Pending, Serving
  <2> QED BY <1>2, <1>3, <1>4, <1>7, <1>h, <2>1 DEF CopyPar, KernelAt, regVars
<1>8. CASE ClearStatus
  <2>1. ev = Whole(c)
    <3>1. ev.cmd = c /\ ev.par = c
      BY <1>2, <1>8 DEF ClearStatus, KernelAt, Pending, Serving
    <3> QED BY <3>1 DEF TypeInv, RpcTypeOK, Events, Whole
  <2>2. Serving(c)'
    BY <1>8, <2>1 DEF ClearStatus, KernelAt, Serving
  <2>3. status = 1
    BY <1>2, <1>8 DEF ClearStatus, KernelAt, Pending, Serving
  <2> QED BY <1>2, <1>3, <1>4, <1>8, <1>h, <2>2, <2>3 DEF ClearStatus
<1>9. CASE RespondCmd
  <2>1. Serving(c) /\ kpc = "rcmd"
    BY <1>2, <1>9 DEF RespondCmd, KernelAt, Pending
  <2>2. Serving(c)'
    BY <1>9, <2>1 DEF RespondCmd, KernelAt, Serving
  <2>3. Turn(h)'
    BY <1>2, <1>3, <1>9, <2>2 DEF RespondCmd
  <2>4. served \in Seq(Events) /\ ev = Whole(c)
    BY <2>1 DEF Serving, TypeInv, RpcTypeOK
  <2>5. \A i \in DOMAIN served : served[i] # Whole(c)
    BY <1>1, <1>c, <2>1 DEF Past
  <2>6. c \in Calls /\ Begun(c)
    <3>1. Current(h) \in Calls
      BY <1>1, CurrentType
    <3>2. Current(h).n <= calls[Current(h).host]
      BY DEF Current, TypeInv, RpcTypeOK
    <3> QED BY <1>c, <3>1, <3>2 DEF Begun
  <2>7. /\ DOMAIN served' = 1 .. Len(served) + 1
        /\ DOMAIN served = 1 .. Len(served)
        /\ Len(served) \in Nat
        /\ served'[Len(served) + 1] = Whole(c)
        /\ \A i \in DOMAIN served : served'[i] = served[i]
    BY <1>9, <2>4 DEF RespondCmd
  <2>8. \A i \in DOMAIN served' : \E d \in Calls : Begun(d) /\ served'[i] = Whole(d)
    <3>1. \A i \in DOMAIN served : \E d \in Calls : Begun(d) /\ served[i] = Whole(d)
      BY DEF Past
    <3> QED BY <2>6, <2>7, <3>1
  <2>9. \A i, j \in DOMAIN served' : served'[i] = served'[j] => i = j
    <3>1. \A i, j \in DOMAIN served : served[i] = served[j] => i = j
      BY DEF Past
    <3> QED BY <2>5, <2>7, <3>1
  <2>10. status' # 1 /\ kpc' # "rcmd"
    BY <1>9, <2>1 DEF RespondCmd, KernelAt, Serving
  <2>11. Past(h)'
    <3>1. \A d : Begun(d)' <=> Begun(d)
      BY <1>h DEF Begun
    <3> QED BY <1>1, <1>h, <2>8, <2>9, <2>10, <3>1 DEF Past
  <2> QED BY <1>h, <2>3, <2>11
<1>10. CASE RespondPar
  <2>1. Serving(c)'
    BY <1>2, <1>10 DEF RespondPar, KernelAt, Pending, Serving
  <2> QED BY <1>2, <1>3, <1>4, <1>10, <1>h, <2>1 DEF RespondPar, KernelAt
<1>11. CASE SetValid
  <2>1. Ready(c)'
    BY <1>2, <1>11 DEF SetValid, KernelAt, Pending, Serving, Ready
  <2> QED BY <1>2, <1>3, <1>4, <1>11, <1>h, <2>1 DEF SetValid, KernelAt
<1> QED BY <1>5, <1>6, <1>7, <1>8, <1>9, <1>10, <1>11 DEF Kernel

\* The calling thread's steps, while no call has stopped waiting.
LEMMA HostStep ==
  ASSUME NEW h \in Hosts, TypeInv, Owns(h), OwnAnswer, ~disturbed', Dispatch(h)
  PROVE  Owns(h)' /\ OwnAnswer'
PROOF
<1>c. PICK c : c = Current(h)
  OBVIOUS
<1>t. /\ hpc \in [Hosts -> HostSteps] /\ calls \in [Hosts -> 0 .. MaxCalls]
      /\ rsp \in [Hosts -> [cmd : Words, lparam : Words]]
      /\ hpc[h] \in HostSteps
  BY DEF TypeInv, RpcTypeOK
<1> USE DEF Owns
<1>a. Alone(h)'
  <2>1. \A g \in Hosts : g # h => hpc'[g] = hpc[g]
    BY <1>t DEF Dispatch, WriteCmd, WritePar, Ring, Poll, GiveUp, ReadCmd, ReadPar, ReadLast, HostAt
  <2> QED BY <2>1 DEF Alone
<1>b. calls' = calls => \A d \in Calls : Begun(d)' <=> Begun(d)
  BY DEF Begun
<1>g. ~disturbed
  BY DEF Dispatch, WriteCmd, WritePar, Ring, Poll, GiveUp, ReadCmd, ReadPar, ReadLast
<1>1. CASE WriteCmd(h)
  <2>1. /\ hpc[h] = "idle" /\ hpc'[h] = "par"
        /\ calls'[h] = calls[h] + 1 /\ calls[h] \in Nat
        /\ Current(h)' = [host |-> h, n |-> calls[h] + 1]
        /\ cmd' = Current(h)'
        /\ status' = status /\ kpc' = kpc /\ served' = served /\ returned' = returned
    BY <1>1, <1>t DEF WriteCmd, HostAt, Current, kernelVars
  <2>2. Turn(h)'
    BY <2>1 DEF Turn
  <2>3. \A d \in Calls : Begun(d) => Begun(d)' /\ Whole(d) # Whole(Current(h)')
    <3> SUFFICES ASSUME NEW d \in Calls, Begun(d)
                 PROVE  Begun(d)' /\ Whole(d) # Whole(Current(h)')
      OBVIOUS
    <3>1. d.host \in Hosts /\ d.n \in Nat /\ d.n <= calls[d.host] /\ calls[d.host] \in Nat
      <4>1. d.host \in Hosts /\ d.n \in 1 .. MaxCalls
        BY DEF Calls
      <4>2. calls[d.host] \in 0 .. MaxCalls
        BY <1>t, <4>1
      <4> QED BY <4>1, <4>2, SignalRpcAssumption DEF Begun
    <3>2. calls' = [calls EXCEPT ![h] = @ + 1]
      BY <1>1 DEF WriteCmd
    <3>3. calls'[d.host] >= calls[d.host] /\ calls'[d.host] \in Nat
      BY <1>t, <3>1, <3>2
    <3>4. Begun(d)'
      BY <3>1, <3>3 DEF Begun
    <3>5. d # Current(h)'
      <4> SUFFICES ASSUME d = [host |-> h, n |-> calls[h] + 1]
                   PROVE  FALSE
        BY <2>1
      <4>1. d.host = h /\ d.n = calls[h] + 1
        OBVIOUS
      <4> QED BY <2>1, <3>1, <4>1
    <3> QED BY <3>4, <3>5, WholeInjective
  <2>4. Past(h)'
    <3>1. \A i \in DOMAIN served : \E d \in Calls : Begun(d) /\ served[i] = Whole(d)
      BY DEF Past
    <3>2. \A i \in DOMAIN served : /\ \E d \in Calls : Begun(d)' /\ served[i] = Whole(d)
                                   /\ served[i] # Whole(Current(h)')
      BY <2>3, <3>1
    <3> QED BY <2>1, <3>2 DEF Past
  <2> QED BY <1>a, <2>1, <2>2, <2>4, <1>g DEF OwnAnswer
<1>2. CASE WritePar(h)
  <2>1. /\ hpc[h] = "par" /\ hpc'[h] = "ring"
        /\ calls' = calls /\ Current(h)' = Current(h)
        /\ lparam' = Current(h) /\ cmd' = cmd
        /\ status' = status /\ kpc' = kpc /\ served' = served /\ returned' = returned
    BY <1>2, <1>t DEF WritePar, HostAt, Current, kernelVars
  <2> QED BY <2>1, <1>a, <1>b, <1>g DEF OwnAnswer, Past, Turn
<1>3. CASE Ring(h)
  <2>1. /\ hpc[h] = "ring" /\ hpc'[h] = "poll"
        /\ calls' = calls /\ Current(h)' = c
        /\ lparam' = lparam /\ cmd' = cmd /\ status' = 1
        /\ kpc' = kpc /\ served' = served /\ returned' = returned
    BY <1>3, <1>t, <1>c DEF Ring, HostAt, Current, kernelVars
  <2>2. Pending(c)'
    BY <2>1, <1>c DEF Turn, Pending
  <2> QED BY <2>1, <2>2, <1>c, <1>a, <1>b, <1>g DEF OwnAnswer, Past, Turn
<1>4. CASE Poll(h)
  <2>1. /\ hpc[h] = "poll" /\ hpc'[h] = (IF status = 2 THEN "rcmd" ELSE "poll")
        /\ calls' = calls /\ Current(h)' = c
        /\ lparam' = lparam /\ cmd' = cmd /\ status' = status
        /\ rsp_lparam' = rsp_lparam /\ rsp_cmd' = rsp_cmd
        /\ kpc' = kpc /\ ev' = ev /\ served' = served /\ returned' = returned
    BY <1>4, <1>t, <1>c DEF Poll, HostAt, Current, kernelVars, regVars
  <2>2. (Pending(c)' <=> Pending(c)) /\ (Serving(c)' <=> Serving(c)) /\ (Ready(c)' <=> Ready(c))
    BY <2>1 DEF Pending, Serving, Ready
  <2>3. CASE status = 2
    <3>1. Ready(c)
      BY <2>1, <2>3, <1>c DEF Turn, Pending, Serving
    <3> QED BY <2>1, <2>2, <2>3, <3>1, <1>c, <1>a, <1>b, <1>g DEF OwnAnswer, Past, Turn
  <2>4. CASE status # 2
    BY <2>1, <2>2, <2>4, <1>c, <1>a, <1>b, <1>g DEF OwnAnswer, Past, Turn
  <2> QED BY <2>3, <2>4
<1>5. CASE GiveUp(h)
  BY <1>5 DEF GiveUp
<1>6. CASE ReadCmd(h)
  <2>1. /\ hpc[h] = "rcmd" /\ hpc'[h] = "rpar"
        /\ calls' = calls /\ Current(h)' = c
        /\ rsp'[h].cmd = Word("lparam", Whole(lparam))
        /\ lparam' = lparam /\ cmd' = cmd /\ status' = status
        /\ rsp_lparam' = rsp_lparam /\ rsp_cmd' = rsp_cmd
        /\ kpc' = kpc /\ ev' = ev /\ served' = served /\ returned' = returned
    BY <1>6, <1>t, <1>c DEF ReadCmd, HostAt, Current, kernelVars, regVars
  <2>2. Ready(c) /\ Ready(c)' /\ lparam = c
    BY <2>1, <1>c DEF Turn, Ready
  <2>3. rsp'[h].cmd.ev = Whole(c)
    BY <2>1, <2>2 DEF Word
  <2> QED BY <2>1, <2>2, <2>3, <1>c, <1>a, <1>b, <1>g DEF OwnAnswer, Past, Turn
<1>7. CASE ReadPar(h)
  <2>1. /\ hpc[h] = "rpar" /\ hpc'[h] = "rlast"
        /\ calls' = calls /\ Current(h)' = c
        /\ rsp'[h].lparam = Word("rsp_lparam", rsp_lparam) /\ rsp'[h].cmd = rsp[h].cmd
        /\ lparam' = lparam /\ cmd' = cmd /\ status' = status
        /\ rsp_lparam' = rsp_lparam /\ rsp_cmd' = rsp_cmd
        /\ kpc' = kpc /\ ev' = ev /\ served' = served /\ returned' = returned
    BY <1>7, <1>t, <1>c DEF ReadPar, HostAt, Current, kernelVars, regVars
  <2>2. Ready(c) /\ Ready(c)' /\ lparam = c /\ rsp[h].cmd.ev = Whole(c)
    BY <2>1, <1>c DEF Turn, Ready
  <2>3. rsp'[h].lparam.ev = Whole(c) /\ rsp'[h].cmd.ev = Whole(c)
    BY <2>1, <2>2 DEF Word, Ready
  <2> QED BY <2>1, <2>2, <2>3, <1>c, <1>a, <1>b, <1>g DEF OwnAnswer, Past, Turn
<1>8. CASE ReadLast(h)
  <2> DEFINE a == [call |-> c, cmd |-> rsp[h].cmd, lparam |-> rsp[h].lparam,
                   last |-> Word("rsp_cmd", rsp_cmd)]
  <2>1. /\ hpc[h] = "rlast" /\ hpc'[h] = "idle"
        /\ calls' = calls /\ Current(h)' = c
        /\ status' = status /\ kpc' = kpc /\ served' = served
        /\ returned' = returned \cup {a}
    BY <1>8, <1>t, <1>c DEF ReadLast, HostAt, Current, kernelVars, regVars
  <2>2. Ready(c) /\ rsp[h].cmd.ev = Whole(c) /\ rsp[h].lparam.ev = Whole(c)
    BY <2>1, <1>c DEF Turn
  <2>3. \A w \in {a.cmd, a.lparam, a.last} : w.ev = Whole(a.call)
    BY <2>2 DEF Ready, Word
  <2>4. OwnAnswer'
    BY <2>1, <2>3, <1>g DEF OwnAnswer
  <2>5. Turn(h)' /\ Past(h)'
    BY <1>b, <2>1, <2>2 DEF Turn, Past, Ready
  <2> QED BY <1>a, <2>4, <2>5
<1> QED BY <1>1, <1>2, <1>3, <1>4, <1>5, <1>6, <1>7, <1>8 DEF Dispatch

\* When every call has returned, the block is whosever calls next.
LEMMA Free ==
  ASSUME NEW g \in Hosts, NEW h \in Hosts, Owns(h), \A f \in Hosts : hpc[f] = "idle"
  PROVE  Owns(g)
PROOF
  BY DEF Owns, Alone, Turn, Past

LEMMA RpcStep ==
  ASSUME RpcInv, [RpcNext]_rpcVars
  PROVE  RpcInv'
PROOF
<1>1. TypeInv'
  BY TypeStep DEF RpcInv
<1>2. ASSUME ~disturbed'
      PROVE  OwnAnswer' /\ \E h \in Hosts : Owns(h)'
  <2>1. ~disturbed
    <3>1. CASE UNCHANGED rpcVars
      BY <1>2, <3>1 DEF rpcVars, hostVars
    <3>2. CASE Kernel
      BY <1>2, <3>2 DEF Kernel, PollSignal, CopyCmd, CopyPar, ClearStatus, RespondCmd,
         RespondPar, SetValid, hostVars
    <3>3. ASSUME NEW g \in Hosts, Dispatch(g)
          PROVE  ~disturbed
      BY <1>2, <3>3 DEF Dispatch, WriteCmd, WritePar, Ring, Poll, GiveUp, ReadCmd, ReadPar,
         ReadLast
    <3> QED BY <3>1, <3>2, <3>3 DEF RpcNext
  <2>2. PICK h \in Hosts : Owns(h)
    BY <2>1 DEF RpcInv
  <2>3. TypeInv /\ OwnAnswer
    BY <2>1 DEF RpcInv
  <2>4. CASE UNCHANGED rpcVars
    <3>1. Owns(h)'
      BY <2>2, <2>4 DEF Owns, Alone, rpcVars, regVars, hostVars, kernelVars, Turn, Past, Begun,
         Pending, Serving, Ready, Current
    <3> QED BY <2>3, <2>4, <3>1 DEF rpcVars, hostVars, OwnAnswer
  <2>5. CASE Kernel
    BY <2>1, <2>2, <2>3, <2>5, KernelStep
  <2>6. ASSUME NEW g \in Hosts, Dispatch(g)
        PROVE  OwnAnswer' /\ Owns(g)'
    <3>1. Owns(g)
      <4>1. CASE g = h
        BY <2>2, <4>1
      <4>2. CASE g # h
        <5>1. hpc[g] = "idle"
          BY <2>2, <4>2 DEF Owns, Alone
        <5>2. WriteCmd(g)
          BY <2>6, <5>1 DEF Dispatch, WritePar, Ring, Poll, GiveUp, ReadCmd, ReadPar, ReadLast,
             HostAt
        <5>3. \A f \in Hosts : hpc[f] = "idle"
          BY <1>2, <5>2 DEF WriteCmd
        <5> QED BY <2>2, <5>3, Free
      <4> QED BY <4>1, <4>2
    <3> QED BY <1>2, <2>3, <2>6, <3>1, HostStep
  <2> QED BY <2>4, <2>5, <2>6 DEF RpcNext
<1> QED BY <1>1, <1>2 DEF RpcInv

LEMMA InvInit ==
  ASSUME Hosts # {}, RpcInit
  PROVE  RpcInv
PROOF
<1>1. PICK h \in Hosts : TRUE
  OBVIOUS
<1>2. /\ \A g \in Hosts : hpc[g] = "idle"
      /\ kpc = "poll" /\ status = 0 /\ served = <<>> /\ returned = {}
  BY DEF RpcInit
<1>3. Owns(h)
  BY <1>2 DEF Owns, Alone, Turn, Past
<1> QED BY <1>2, <1>3, TypeInit DEF RpcInv, OwnAnswer

\* Until a call stops waiting or overlaps one of another thread, every word that
\* dispatchSignal returns is of the call it is returned to: the words it takes
\* from the response registers are those respond_signal wrote for it, and the
\* word it takes for the command is its own request's; for any threads, any
\* number of calls and any polling bound.
THEOREM CallsAnswered ==
  ASSUME Hosts # {}
  PROVE  RpcSpec => []OwnAnswer
PROOF
<1>1. RpcInit => RpcInv
  BY InvInit
<1>2. RpcInv /\ [RpcNext]_rpcVars => RpcInv'
  BY RpcStep
<1>3. RpcInv => OwnAnswer
  BY DEF RpcInv, OwnAnswer
<1> QED BY <1>1, <1>2, <1>3, PTL DEF RpcSpec

\* Until a call stops waiting or overlaps one of another thread, the kernel runs
\* its .signal body at most once for a call and never on words of different
\* calls, for any threads, any number of calls and any polling bound.
THEOREM CallsServed ==
  ASSUME Hosts # {}
  PROVE  RpcSpec => []ServedOnce
PROOF
<1>1. RpcInit => RpcInv
  BY InvInit
<1>2. RpcInv /\ [RpcNext]_rpcVars => RpcInv'
  BY RpcStep
<1>3. RpcInv => ServedOnce
  BY DEF RpcInv, Owns, Past, ServedOnce
<1> QED BY <1>1, <1>2, <1>3, PTL DEF RpcSpec
=============================================================================
