----------------------------- MODULE SignalRpc ------------------------------
(***************************************************************************)
(* The signal RPC of a synthesised kernel: Platform::dispatchSignal on the *)
(* host, poll_signal and respond_signal in the kernel loop, and the        *)
(* AXI-Lite register block between them.  Every register access is a step  *)
(* of its own, so the other side can act between any two of them.          *)
(*                                                                         *)
(* The block is SignalIO in the layout C gives the struct, which the       *)
(* offsets of the request follow.  A register stands for each part:        *)
(*                                                                         *)
(*   status      0x00  1 = request pending, 2 = response valid             *)
(*   cmd         0x04  request cmd and sparam, first to be written         *)
(*   lparam      0x10  request lparam; 0x44 is the last word to be written *)
(*   rsp_lparam  0x48  response lparam                                     *)
(*   rsp_cmd     0x80  response cmd and sparam                             *)
(*                                                                         *)
(* The host reads the response at offsets of its own: its command at 0x44, *)
(* its sparam and lparam[0..5] from 0x48 to 0x7c, its lparam[6] at 0x80.   *)
(* A value is identified with the call it belongs to, and a word that was  *)
(* read with the register it came from too.                                *)
(***************************************************************************)
EXTENDS Naturals, Sequences

CONSTANTS
  Hosts,      \* host threads calling this kernel
  MaxCalls,   \* calls each of them makes
  MaxPolls    \* status reads before dispatchSignal stops waiting (10000)

ASSUME SignalRpcAssumption ==
  /\ Hosts \subseteq STRING
  /\ MaxCalls \in Nat
  /\ MaxPolls \in Nat \ {0}

Calls  == [host : Hosts, n : 1 .. MaxCalls]
NoCall == [host |-> "none", n |-> 0]

\* What poll_signal copies: the calls its two words belong to.
Events  == [cmd : Calls \cup {NoCall}, par : Calls \cup {NoCall}]
NoEvent == [cmd |-> NoCall, par |-> NoCall]
Whole(c) == [cmd |-> c, par |-> c]

\* A word as the host reads it: the register it comes from, and whose it is.
Words      == [field : {"none", "lparam", "rsp_lparam", "rsp_cmd"}, ev : Events]
NoWord     == [field |-> "none", ev |-> NoEvent]
Word(f, e) == [field |-> f, ev |-> e]

VARIABLES
  status, cmd, lparam, rsp_lparam, rsp_cmd,  \* the register block
  hpc,      \* hpc[h]: where thread h is in dispatchSignal
  calls,    \* calls[h]: calls h has begun
  polls,    \* polls[h]: fruitless status reads of the current call
  rsp,      \* rsp[h]: the words of the response read so far
  returned,  \* what dispatchSignal returned, always with `true`
  kpc,      \* where the kernel is in its loop
  ev,       \* event
  served,   \* the events the .signal body ran on, in order
  disturbed \* a call stopped waiting, or was begun while another was under way

regVars    == <<status, cmd, lparam, rsp_lparam, rsp_cmd>>
hostVars   == <<hpc, calls, polls, rsp, returned, disturbed>>
kernelVars == <<kpc, ev, served>>
rpcVars    == <<regVars, hostVars, kernelVars>>

HostSteps   == {"idle", "par", "ring", "poll", "rcmd", "rpar", "rlast"}
KernelSteps == {"poll", "cmd", "par", "clear", "rcmd", "rpar", "valid"}

RpcTypeOK ==
  /\ status \in {0, 1, 2}
  /\ cmd \in Calls \cup {NoCall}
  /\ lparam \in Calls \cup {NoCall}
  /\ rsp_lparam \in Events
  /\ rsp_cmd \in Events
  /\ hpc \in [Hosts -> HostSteps]
  /\ calls \in [Hosts -> 0 .. MaxCalls]
  /\ polls \in [Hosts -> 0 .. MaxPolls]
  /\ rsp \in [Hosts -> [cmd : Words, lparam : Words]]
  /\ returned \subseteq [call : Calls, cmd : Words, lparam : Words, last : Words]
  /\ kpc \in KernelSteps
  /\ ev \in Events
  /\ served \in Seq(Events)
  /\ disturbed \in BOOLEAN

RpcInit ==
  /\ status = 0
  /\ cmd = NoCall
  /\ lparam = NoCall
  /\ rsp_lparam = NoEvent
  /\ rsp_cmd = NoEvent
  /\ hpc = [h \in Hosts |-> "idle"]
  /\ calls = [h \in Hosts |-> 0]
  /\ polls = [h \in Hosts |-> 0]
  /\ rsp = [h \in Hosts |-> [cmd |-> NoWord, lparam |-> NoWord]]
  /\ returned = {}
  /\ kpc = "poll"
  /\ ev = NoEvent
  /\ served = <<>>
  /\ disturbed = FALSE

-----------------------------------------------------------------------------
(* dispatchSignal.                                                         *)

Current(h) == [host |-> h, n |-> calls[h]]

HostAt(h, from, to) == hpc[h] = from /\ hpc' = [hpc EXCEPT ![h] = to]

\* Mutant: the request is declared pending before its parameters are written.
MutRingFirst(h) ==
  /\ HostAt(h, "idle", "par")
  /\ calls[h] < MaxCalls
  /\ calls' = [calls EXCEPT ![h] = @ + 1]
  /\ cmd' = [host |-> h, n |-> calls[h] + 1]
  /\ status' = 1
  /\ disturbed' = IF \E g \in Hosts : hpc[g] # "idle" THEN TRUE ELSE disturbed
  /\ UNCHANGED <<lparam, rsp_lparam, rsp_cmd, polls, rsp, returned, kernelVars>>

WriteCmd(h) ==
  /\ HostAt(h, "idle", "par")
  /\ calls[h] < MaxCalls
  /\ calls' = [calls EXCEPT ![h] = @ + 1]
  /\ cmd' = [host |-> h, n |-> calls[h] + 1]
  /\ disturbed' = IF \E g \in Hosts : hpc[g] # "idle" THEN TRUE ELSE disturbed
  /\ UNCHANGED <<status, lparam, rsp_lparam, rsp_cmd, polls, rsp, returned, kernelVars>>

WritePar(h) ==
  /\ HostAt(h, "par", "ring")
  /\ lparam' = Current(h)
  /\ UNCHANGED <<status, cmd, rsp_lparam, rsp_cmd, calls, polls, rsp, returned, disturbed,
                 kernelVars>>

Ring(h) ==
  /\ HostAt(h, "ring", "poll")
  /\ status' = 1
  /\ polls' = [polls EXCEPT ![h] = 0]
  /\ UNCHANGED <<cmd, lparam, rsp_lparam, rsp_cmd, calls, rsp, returned, disturbed, kernelVars>>

\* Mutant: the wait for the response is not bounded.
MutPollForever(h) ==
  /\ HostAt(h, "poll", IF status = 2 THEN "rcmd" ELSE "poll")
  /\ UNCHANGED <<regVars, calls, polls, rsp, returned, disturbed, kernelVars>>

\* One turn of the polling loop.
Poll(h) ==
  /\ polls[h] < MaxPolls
  /\ HostAt(h, "poll", IF status = 2 THEN "rcmd" ELSE "poll")
  /\ polls' = [polls EXCEPT ![h] = IF status = 2 THEN @ ELSE @ + 1]
  /\ UNCHANGED <<regVars, calls, rsp, returned, disturbed, kernelVars>>

\* The loop ends without a response; the code goes on as if there were one.
GiveUp(h) ==
  /\ polls[h] = MaxPolls
  /\ HostAt(h, "poll", "rcmd")
  /\ disturbed' = TRUE
  /\ UNCHANGED <<regVars, calls, polls, rsp, returned, kernelVars>>

\* 0x44, for rsp.cmd
ReadCmd(h) ==
  /\ HostAt(h, "rcmd", "rpar")
  /\ rsp' = [rsp EXCEPT ![h].cmd = Word("lparam", Whole(lparam))]
  /\ UNCHANGED <<regVars, calls, polls, returned, disturbed, kernelVars>>

\* 0x48 to 0x7c, for rsp.sparam and rsp.lparam[0..5]
ReadPar(h) ==
  /\ HostAt(h, "rpar", "rlast")
  /\ rsp' = [rsp EXCEPT ![h].lparam = Word("rsp_lparam", rsp_lparam)]
  /\ UNCHANGED <<regVars, calls, polls, returned, disturbed, kernelVars>>

\* 0x80 and 0x84, for rsp.lparam[6], then `return true`
ReadLast(h) ==
  /\ HostAt(h, "rlast", "idle")
  /\ returned' = returned \cup {[call |-> Current(h),
                                 cmd |-> rsp[h].cmd,
                                 lparam |-> rsp[h].lparam,
                                 last |-> Word("rsp_cmd", rsp_cmd)]}
  /\ UNCHANGED <<regVars, calls, polls, rsp, disturbed, kernelVars>>

Dispatch(h) ==
  \/ WriteCmd(h) \/ WritePar(h) \/ Ring(h) \/ Poll(h) \/ GiveUp(h)
  \/ ReadCmd(h) \/ ReadPar(h) \/ ReadLast(h)

-----------------------------------------------------------------------------
(* The kernel: poll_signal, the .signal body, respond_signal.              *)

KernelAt(from, to) == kpc = from /\ kpc' = to

PollSignal ==
  /\ KernelAt("poll", "cmd")
  /\ status = 1
  /\ UNCHANGED <<regVars, hostVars, ev, served>>

CopyCmd ==
  /\ KernelAt("cmd", "par")
  /\ ev' = [cmd |-> cmd, par |-> ev.par]
  /\ UNCHANGED <<regVars, hostVars, served>>

CopyPar ==
  /\ KernelAt("par", "clear")
  /\ ev' = [cmd |-> ev.cmd, par |-> lparam]
  /\ UNCHANGED <<regVars, hostVars, served>>

ClearStatus ==
  /\ KernelAt("clear", "rcmd")
  /\ status' = 0
  /\ UNCHANGED <<cmd, lparam, rsp_lparam, rsp_cmd, hostVars, ev, served>>

\* Mutant: the response is declared valid before its lparam is written.
MutRespondEarly ==
  /\ KernelAt("rcmd", "rpar")
  /\ served' = Append(served, ev)
  /\ rsp_cmd' = ev
  /\ status' = 2
  /\ UNCHANGED <<cmd, lparam, rsp_lparam, hostVars, ev>>

\* outevent = event, the .signal body, io.rsp_cmd = s.cmd and io.rsp_sparam = s.sparam
RespondCmd ==
  /\ KernelAt("rcmd", "rpar")
  /\ served' = Append(served, ev)
  /\ rsp_cmd' = ev
  /\ UNCHANGED <<status, cmd, lparam, rsp_lparam, hostVars, ev>>

RespondPar ==
  /\ KernelAt("rpar", "valid")
  /\ rsp_lparam' = ev
  /\ UNCHANGED <<status, cmd, lparam, rsp_cmd, hostVars, ev, served>>

SetValid ==
  /\ KernelAt("valid", "poll")
  /\ status' = 2
  /\ UNCHANGED <<cmd, lparam, rsp_lparam, rsp_cmd, hostVars, ev, served>>

Kernel ==
  \/ PollSignal \/ CopyCmd \/ CopyPar \/ ClearStatus
  \/ RespondCmd \/ RespondPar \/ SetValid

RpcNext == Kernel \/ \E h \in Hosts : Dispatch(h)

RpcSpec == RpcInit /\ [][RpcNext]_rpcVars

\* A host thread that has begun a call is scheduled until it returns; nothing
\* is assumed of the kernel, which may be held in reset or not be loaded.
RpcFairness == \A h \in Hosts : WF_rpcVars(Dispatch(h))

-----------------------------------------------------------------------------
\* As long as no call has stopped waiting and no two calls of different threads
\* have overlapped, every word a thread is given, from whichever register it is
\* taken, belongs to the very call it is returned to and none is of an earlier
\* one: dispatchSignal reads after respond_signal has written.  Whether the host
\* takes each word from the register it is meant to come from is LayoutKept.
OwnAnswer ==
  ~disturbed => \A a \in returned : \A w \in {a.cmd, a.lparam, a.last} : w.ev = Whole(a.call)

\* As long as no call has stopped waiting and none has overlapped another
\* thread's, the .signal body runs at most once for a call, and on all of its
\* words: a command with an effect, such as a counter reset, is never repeated or
\* mixed up.
ServedOnce ==
  ~disturbed => /\ \A i \in DOMAIN served : \E c \in Calls : served[i] = Whole(c)
                /\ \A i, j \in DOMAIN served : served[i] = served[j] => i = j

\* dispatchSignal returns, whatever the kernel and other threads do.
Returns == \A h \in Hosts : hpc[h] # "idle" ~> hpc[h] = "idle"

\* A call that returns true has waited for the kernel: the response registers
\* dispatchSignal takes words from hold what respond_signal wrote for this call.
TrueMeansAnswered ==
  \A a \in returned : \A w \in {a.lparam, a.last} : w.ev = Whole(a.call)

\* What dispatchSignal takes for a field of the response is that field of
\* SignalIO, the layout being the one the host expects: at least as long as every
\* call is answered in time.
LayoutKept ==
  ~disturbed => \A a \in returned : /\ a.cmd.field = "rsp_cmd"
                                    /\ a.lparam.field = "rsp_lparam"
                                    /\ a.last.field = "rsp_lparam"
=============================================================================
