------------------------------- MODULE SwEmu --------------------------------
(***************************************************************************)
(* The software emulator of a topology: one thread per kernel running the  *)
(* loop emitKernelFunc generates, bounded SwStream FIFOs between them, the *)
(* SignalChannel RPC, and a test harness that injects and drains flits at  *)
(* the boundary streams, calls kernels by signal and finally sets `_stop`. *)
(*                                                                         *)
(* Every access to a SwStream or a SignalChannel is one critical section   *)
(* of its mutex, hence one step.  Between two such steps a thread touches  *)
(* only its locals, so a handler run is one step too.  An iteration of     *)
(* kernel k is                                                             *)
(*                                                                         *)
(*   LoopTop(k)    the `_stop` test and, if k has signals, try_recv        *)
(*   ReadPort(k)   once for every port that is awaited and not yet held    *)
(*   RunSignal(k) or RunHandler(k)                                         *)
(*   WritePort(k)  once for every output port the handler has set          *)
(***************************************************************************)
EXTENDS Elements, Integers, Sequences, FiniteSetsExt

CONSTANTS
  Kernels,     \* names of the kernels
  Elem,        \* Elem[k]: the element kind kernel k is an instance of
  Conns,       \* connections in declaration order, see ConnType
  Chans,       \* signal channels
  SigChan,     \* SigChan[k]: the channel k serves, or NoChan
  NoChan,
  Callers,     \* host threads that call signals
  Target,      \* Target[c]: the kernel caller c addresses (ClSignal.kid)
  MaxCalls     \* calls each caller makes

ConnType == [src : STRING, sport : Ports, dst : STRING, dport : Ports,
             depth : Int]

ASSUME SwEmuAssumption ==
  /\ Kernels \subseteq STRING
  /\ Elem \in [Kernels -> Kinds]
  /\ Conns \in Seq(ConnType)
  /\ NoChan \notin Chans
  /\ SigChan \in [Kernels -> Chans \cup {NoChan}]
  /\ Target \in [Callers -> {k \in Kernels : SigChan[k] # NoChan}]
  /\ MaxCalls \in Nat

-----------------------------------------------------------------------------
(* Wiring: the port2stream table of emitMain.  Stream i is the SwStream    *)
(* declared for connection i; stream Null is SwStream::null(), the one     *)
(* stream every port without a table entry shares.                         *)

Null    == 0
Streams == 0 .. Len(Conns)

\* The SwStream constructor replaces a capacity that is not positive by 1.
Capacity(i) ==
  IF i = Null THEN 1 ELSE IF Conns[i].depth > 0 THEN Conns[i].depth ELSE 1

\* A later connection of the same port overwrites the table entry.
Lookup(I) == IF I = {} THEN Null ELSE Max(I)

InStream(k, p) ==
  Lookup({i \in DOMAIN Conns : Conns[i].dst = k /\ Conns[i].dport = p})

OutStream(k, p) ==
  Lookup({i \in DOMAIN Conns : Conns[i].src = k /\ Conns[i].sport = p})

InPorts(k)  == {p \in Ports : p <= NIn(Elem[k])}
OutPorts(k) == {p \in Ports : p <= NOut(Elem[k])}

\* Boundary streams, which the harness reaches through their accessors.
Sources == {i \in DOMAIN Conns : Conns[i].src \notin Kernels}
Sinks   == {i \in DOMAIN Conns : Conns[i].dst \notin Kernels}

-----------------------------------------------------------------------------
VARIABLES
  q,        \* q[i]: the flits queued in stream i
  nxt,      \* flits injected so far; they are 1 .. nxt
  recv,     \* recv[i]: what the harness has drained from sink i
  last,     \* last[i]: the flit that entered stream i last, or NoFlit
  stop,     \* _stop
  pc,       \* "top", "read", "write" or "done"
  todo,     \* ports still to be read or written in this phase
  ret,      \* _ret: the ports awaited
  held,     \* _input_port and _input_data
  out,      \* _output_port and _output_data
  failed,   \* _output_failed
  success,  \* _output_success
  st,       \* _state
  lost,     \* <<stream, flit>> for every write_nb that returned false
  sig,      \* the received and unserved event, or NoSig
  req, rsp, \* req[c], rsp[c]: the deques of channel c
  calls,    \* calls[c]: calls caller c has made
  waiting,  \* waiting[c]: c is inside wait_response
  answers   \* answers[c]: the responses caller c was handed

dataVars   == <<q, nxt, recv, last, lost>>
kernelVars == <<pc, todo, ret, held, out, failed, success, st>>
signalVars == <<sig, req, rsp, calls, waiting, answers>>
vars       == <<dataVars, stop, kernelVars, signalVars>>

NoSig == [kid |-> "none", caller |-> "none", n |-> 0, cmd |-> 0]

Requests ==
  [kid : Kernels, caller : Callers, n : 1 .. MaxCalls, cmd : Commands]

\* outevent = event, then lparam[0]; `from` tells whose `_state` was read.
Responses == [ev : Requests, from : Kernels, val : Nat]

TypeOK ==
  /\ q \in [Streams -> Seq(Flits)]
  /\ nxt \in 0 .. MaxFlits
  /\ recv \in [Sinks -> Seq(Flits)]
  /\ last \in [Streams -> Flits \cup {NoFlit}]
  /\ lost \subseteq Streams \X Flits
  /\ stop \in BOOLEAN
  /\ pc \in [Kernels -> {"top", "read", "write", "done"}]
  /\ todo \in [Kernels -> SUBSET Ports]
  /\ ret \in [Kernels -> SUBSET Ports]
  /\ held \in [Kernels -> [Ports -> Flits \cup {NoFlit}]]
  /\ out \in [Kernels -> [Ports -> Flits \cup {NoFlit}]]
  /\ failed \in [Kernels -> SUBSET Ports]
  /\ success \in [Kernels -> SUBSET Ports]
  /\ DOMAIN st = Kernels /\ \A k \in Kernels : st[k] \in StateOf(Elem[k])
  /\ sig \in [Kernels -> Requests \cup {NoSig}]
  /\ req \in [Chans -> Seq(Requests)]
  /\ rsp \in [Chans -> Seq(Responses)]
  /\ calls \in [Callers -> 0 .. MaxCalls]
  /\ waiting \in [Callers -> BOOLEAN]
  /\ answers \in [Callers -> Seq(Responses)]

Init ==
  /\ q = [i \in Streams |-> <<>>]
  /\ nxt = 0
  /\ recv = [i \in Sinks |-> <<>>]
  /\ last = [i \in Streams |-> NoFlit]
  /\ lost = {}
  /\ stop = FALSE
  /\ pc = [k \in Kernels |-> "top"]
  /\ todo = [k \in Kernels |-> {}]
  /\ ret = [k \in Kernels |-> Ports]
  /\ held = [k \in Kernels |-> Silent]
  /\ out = [k \in Kernels |-> Silent]
  /\ failed = [k \in Kernels |-> {}]
  /\ success = [k \in Kernels |-> {}]
  /\ st = [k \in Kernels |-> InitState(Elem[k])]
  /\ sig = [k \in Kernels |-> NoSig]
  /\ req = [c \in Chans |-> <<>>]
  /\ rsp = [c \in Chans |-> <<>>]
  /\ calls = [c \in Callers |-> 0]
  /\ waiting = [c \in Callers |-> FALSE]
  /\ answers = [c \in Callers |-> <<>>]

-----------------------------------------------------------------------------
(* The kernel loop.                                                        *)

NextPort(k) == Min(todo[k])

\* Mutants of the loop: see the README.
MutLoopTopRereads(k) ==
  /\ pc[k] = "top"
  /\ ~stop
  /\ pc' = [pc EXCEPT ![k] = "read"]
  /\ todo' = [todo EXCEPT ![k] = InPorts(k) \cap ret[k]]
  /\ UNCHANGED <<dataVars, stop, ret, held, out, failed, success, st, signalVars>>

MutWritePortBlocks(k) ==
  /\ pc[k] = "write"
  /\ LET p == NextPort(k)
         i == OutStream(k, p)
     IN  /\ Len(q[i]) < Capacity(i)
         /\ todo' = [todo EXCEPT ![k] = @ \ {p}]
         /\ pc' = [pc EXCEPT ![k] = IF todo[k] = {p} THEN "top" ELSE "write"]
         /\ q' = [q EXCEPT ![i] = Append(@, out[k][p])]
         /\ last' = [last EXCEPT ![i] = out[k][p]]
         /\ success' = [success EXCEPT ![k] = @ \cup {p}]
  /\ UNCHANGED <<nxt, recv, lost, stop, ret, held, out, failed, st, signalVars>>

MutRunSignalSilent(k) ==
  /\ pc[k] = "read"
  /\ todo[k] = {}
  /\ sig[k] # NoSig
  /\ sig' = [sig EXCEPT ![k] = NoSig]
  /\ out' = [out EXCEPT ![k] = Silent]
  /\ pc' = [pc EXCEPT ![k] = "top"]
  /\ UNCHANGED <<dataVars, stop, todo, ret, held, failed, success, st,
                 req, rsp, calls, waiting, answers>>

\* _sigch.try_recv(event), skipped while an event is still unserved.
TryRecv(k) ==
  LET c == SigChan[k]
  IN  IF c # NoChan /\ sig[k] = NoSig /\ req[c] # <<>>
      THEN /\ sig' = [sig EXCEPT ![k] = Head(req[c])]
           /\ req' = [req EXCEPT ![c] = Tail(@)]
      ELSE UNCHANGED <<sig, req>>

Exit(k) ==
  /\ pc[k] = "top"
  /\ stop
  /\ pc' = [pc EXCEPT ![k] = "done"]
  /\ UNCHANGED <<dataVars, stop, todo, ret, held, out, failed, success, st,
                 signalVars>>

LoopTop(k) ==
  /\ pc[k] = "top"
  /\ ~stop
  /\ TryRecv(k)
  /\ pc' = [pc EXCEPT ![k] = "read"]
  /\ todo' = [todo EXCEPT
       ![k] = {p \in InPorts(k) : p \in ret[k] /\ held[k][p] = NoFlit}]
  /\ UNCHANGED <<dataVars, stop, ret, held, out, failed, success, st,
                 rsp, calls, waiting, answers>>

\* in_p.read_nb(f)
ReadPort(k) ==
  /\ pc[k] = "read"
  /\ todo[k] # {}
  /\ LET p == NextPort(k)
         i == InStream(k, p)
     IN  /\ todo' = [todo EXCEPT ![k] = @ \ {p}]
         /\ IF q[i] = <<>>
            THEN UNCHANGED <<q, held>>
            ELSE /\ held' = [held EXCEPT ![k][p] = Head(q[i])]
                 /\ q' = [q EXCEPT ![i] = Tail(@)]
  /\ UNCHANGED <<nxt, recv, last, lost, stop, pc, ret, out, failed, success, st,
                 signalVars>>

\* Inputs stay held, no output is written and the masks of the last handler
\* run are kept.
RunSignal(k) ==
  /\ pc[k] = "read"
  /\ todo[k] = {}
  /\ sig[k] # NoSig
  /\ LET r == Signal(Elem[k], st[k], sig[k].cmd)
     IN  /\ st' = [st EXCEPT ![k] = r.st]
         /\ rsp' = [rsp EXCEPT
              ![SigChan[k]] = Append(@, [ev |-> sig[k], from |-> k, val |-> r.val])]
  /\ sig' = [sig EXCEPT ![k] = NoSig]
  /\ out' = [out EXCEPT ![k] = Silent]
  /\ pc' = [pc EXCEPT ![k] = "top"]
  /\ UNCHANGED <<dataVars, stop, todo, ret, held, failed, success,
                 req, calls, waiting, answers>>

RunHandler(k) ==
  /\ pc[k] = "read"
  /\ todo[k] = {}
  /\ sig[k] = NoSig
  /\ LET r == Handler(Elem[k], held[k], st[k])
         w == {p \in OutPorts(k) : r.out[p] # NoFlit}
     IN  /\ held' = [held EXCEPT ![k] = r.held]
         /\ out' = [out EXCEPT ![k] = r.out]
         /\ ret' = [ret EXCEPT ![k] = r.ret]
         /\ st' = [st EXCEPT ![k] = r.st]
         /\ todo' = [todo EXCEPT ![k] = w]
         /\ pc' = [pc EXCEPT ![k] = IF w = {} THEN "top" ELSE "write"]
  /\ failed' = [failed EXCEPT ![k] = {}]
  /\ success' = [success EXCEPT ![k] = {}]
  /\ UNCHANGED <<dataVars, stop, signalVars>>

\* bool ok = out_p.write_nb(_output_data[p])
WritePort(k) ==
  /\ pc[k] = "write"
  /\ LET p == NextPort(k)
         i == OutStream(k, p)
         f == out[k][p]
     IN  /\ todo' = [todo EXCEPT ![k] = @ \ {p}]
         /\ pc' = [pc EXCEPT ![k] = IF todo[k] = {p} THEN "top" ELSE "write"]
         /\ \/ /\ Len(q[i]) < Capacity(i)
               /\ q' = [q EXCEPT ![i] = Append(@, f)]
               /\ last' = [last EXCEPT ![i] = f]
               /\ success' = [success EXCEPT ![k] = @ \cup {p}]
               /\ UNCHANGED <<failed, lost>>
            \/ /\ Len(q[i]) >= Capacity(i)
               /\ failed' = [failed EXCEPT ![k] = @ \cup {p}]
               /\ lost' = lost \cup {<<i, f>>}
               /\ UNCHANGED <<q, last, success>>
  /\ UNCHANGED <<nxt, recv, stop, ret, held, out, st, signalVars>>

Kernel(k) ==
  \/ Exit(k) \/ LoopTop(k) \/ ReadPort(k)
  \/ RunSignal(k) \/ RunHandler(k) \/ WritePort(k)

-----------------------------------------------------------------------------
(* The harness.                                                            *)

\* in.write(f) spins until write_nb succeeds.
Inject(i) ==
  /\ nxt < MaxFlits
  /\ Len(q[i]) < Capacity(i)
  /\ q' = [q EXCEPT ![i] = Append(@, nxt + 1)]
  /\ nxt' = nxt + 1
  /\ last' = [last EXCEPT ![i] = nxt + 1]
  /\ UNCHANGED <<recv, lost, stop, kernelVars, signalVars>>

Drain(i) ==
  /\ q[i] # <<>>
  /\ recv' = [recv EXCEPT ![i] = Append(@, Head(q[i]))]
  /\ q' = [q EXCEPT ![i] = Tail(@)]
  /\ UNCHANGED <<nxt, last, lost, stop, kernelVars, signalVars>>

\* post_request, then wait_response.
Call(c, cmd) ==
  /\ ~waiting[c]
  /\ calls[c] < MaxCalls
  /\ calls' = [calls EXCEPT ![c] = @ + 1]
  /\ waiting' = [waiting EXCEPT ![c] = TRUE]
  /\ req' = [req EXCEPT ![SigChan[Target[c]]] =
       Append(@, [kid |-> Target[c], caller |-> c, n |-> calls[c] + 1, cmd |-> cmd])]
  /\ UNCHANGED <<dataVars, stop, kernelVars, sig, rsp, answers>>

\* Mutant: the response is copied and not popped.
MutReturnPeeks(c) ==
  LET ch == SigChan[Target[c]]
  IN  /\ waiting[c]
      /\ rsp[ch] # <<>>
      /\ answers' = [answers EXCEPT ![c] = Append(@, Head(rsp[ch]))]
      /\ waiting' = [waiting EXCEPT ![c] = FALSE]
      /\ UNCHANGED <<dataVars, stop, kernelVars, sig, req, rsp, calls>>

\* wait_response pops whatever response is at the front.
Return(c) ==
  LET ch == SigChan[Target[c]]
  IN  /\ waiting[c]
      /\ rsp[ch] # <<>>
      /\ answers' = [answers EXCEPT ![c] = Append(@, Head(rsp[ch]))]
      /\ rsp' = [rsp EXCEPT ![ch] = Tail(@)]
      /\ waiting' = [waiting EXCEPT ![c] = FALSE]
      /\ UNCHANGED <<dataVars, stop, kernelVars, sig, req, calls>>

\* wait_for expires while rsp_ is empty: wait_response returns false.
TimeOut(c) ==
  /\ waiting[c]
  /\ rsp[SigChan[Target[c]]] = <<>>
  /\ waiting' = [waiting EXCEPT ![c] = FALSE]
  /\ UNCHANGED <<dataVars, stop, kernelVars, sig, req, rsp, calls, answers>>

Stop ==
  /\ stop' = TRUE
  /\ UNCHANGED <<dataVars, kernelVars, signalVars>>

Harness ==
  \/ \E i \in Sources : Inject(i)
  \/ \E i \in Sinks : Drain(i)
  \/ \E c \in Callers, cmd \in Commands : Call(c, cmd)
  \/ \E c \in Callers : Return(c) \/ TimeOut(c)

Next == (\E k \in Kernels : Kernel(k)) \/ Harness \/ Stop

Spec == Init /\ [][Next]_vars

\* Every kernel thread yields and is scheduled again.
ThreadFairness == \A k \in Kernels : WF_vars(Kernel(k))

\* The harness keeps draining its sinks and takes an answer that is there.
HarnessFairness ==
  /\ \A i \in Sinks : WF_vars(Drain(i))
  /\ \A c \in Callers : WF_vars(Return(c))

ThreadSpec == Spec /\ ThreadFairness
FairSpec   == Spec /\ ThreadFairness /\ HarnessFairness

-----------------------------------------------------------------------------
(* Properties of the data path.                                            *)

Increasing(s) == \A m, n \in 1 .. Len(s) : m < n => s[m] < s[n]

\* Every element has one input and every port is connected.
Linear ==
  \A k \in Kernels :
     /\ NIn(Elem[k]) = 1
     /\ \A p \in InPorts(k) : InStream(k, p) # Null
     /\ \A p \in OutPorts(k) : OutStream(k, p) # Null

\* In a network of single-input elements every stream carries, and every sink
\* delivers, the injected flits in order and none of them twice: the loop
\* never overwrites, repeats or overtakes a flit it has read.
Ordered ==
  /\ \A i \in Streams : Increasing(q[i])
  /\ \A i \in Sinks : Increasing(recv[i] \o q[i])

\* The places a flit can be in.
Places(f) ==
       (UNION {{<<"stream", i, n>> : n \in {m \in 1 .. Len(q[i]) : q[i][m] = f}}
                 : i \in Streams})
  \cup (UNION {{<<"sink", i, n>> : n \in {m \in 1 .. Len(recv[i]) : recv[i][m] = f}}
                 : i \in Sinks})
  \cup {<<"held", w[1], w[2]>> :
          w \in {v \in Kernels \X Ports : held[v[1]][v[2]] = f}}
  \cup {<<"out", w[1], w[2]>> :
          w \in {v \in Kernels \X Ports : pc[v[1]] = "write" /\ v[2] \in todo[v[1]]
                                        /\ out[v[1]][v[2]] = f}}
  \cup {<<"reg", k, 0>> : k \in {j \in Kernels : Elem[j] = "StagingReg" /\ st[j].a = f}}
  \cup {<<"lost", w[1], 0>> : w \in {v \in lost : v[2] = f}}

\* In a network without a Tee no flit is ever in two places.
NoDuplication == \A f \in 1 .. nxt : Cardinality(Places(f)) <= 1

\* What the resetting reads of kernel k among the responses s told in all.
Told(k, s) ==
  SumFunction([n \in 1 .. Len(s) |->
                 IF s[n].from = k /\ s[n].ev.cmd = 1 THEN s[n].val ELSE 0])

\* What host callers were told by resetting reads of kernel k, or will be.
ResetReads(k) ==
  SumFunction([c \in Chans |-> Told(k, rsp[c])])
    + SumFunction([c \in Callers |-> Told(k, answers[c])])

\* Flits kernel k has taken out of the network according to its counters.
Absorbed(k) ==
  CASE Elem[k] = "Counter" -> st[k].a + ResetReads(k)
    [] Elem[k] = "Pass"    -> st[k].b
    [] OTHER               -> 0

\* Every injected flit is somewhere, was reported lost by a write_nb, or is in
\* the counters exactly once: a counter read with the reset command loses no
\* count to the handler running in between.
Accounted ==
  Cardinality({f \in 1 .. nxt : Places(f) = {}})
    = SumFunction([k \in Kernels |-> Absorbed(k)])

\* The flit has left the network.
Settled(f) ==
  \A w \in Places(f) : w[1] \in {"sink", "lost"}

\* While the emulation runs, every injected flit gets through the network or
\* is lost on the way: no element keeps a flit or starves one of its inputs.
Delivered == \A f \in Flits : (nxt >= f) ~> (Settled(f) \/ stop)

\* Setting _stop ends every kernel thread, whatever it is doing and however
\* full its outputs are (nobody need drain them), so joining the threads
\* returns.
Joined == stop ~> (\A k \in Kernels : pc[k] = "done")

-----------------------------------------------------------------------------
(* What a pipeline promises, LossyFifo.  A path lists the streams from a   *)
(* sink back to the source; under way on it is what its streams, and the   *)
(* ports and registers of the kernels between them, hold.                  *)

\* The flit StagingReg k has registered.
Reg(k) == IF Elem[k] = "StagingReg" THEN st[k].a ELSE NoFlit

OneOf(f) == IF f = NoFlit THEN <<>> ELSE <<f>>

Leaving(k, p) == IF pc[k] = "write" /\ p \in todo[k] THEN <<out[k][p]>> ELSE <<>>

Inside(k, p) == Leaving(k, p) \o OneOf(Reg(k)) \o OneOf(held[k][1])

\* The n-th stream and, before it, the kernel it leads to.
Stretch(path, n) ==
  IF n = 1 THEN q[path[1]]
  ELSE Inside(Conns[path[n - 1]].src, Conns[path[n - 1]].sport) \o q[path[n]]

\* All of them up to the n-th.
FromSink(path) ==
  LET upto[n \in DOMAIN path] ==
        IF n = 1 THEN Stretch(path, 1) ELSE upto[n - 1] \o Stretch(path, n)
  IN upto

UnderWay(path) == FromSink(path)[Len(path)]

\* One source, and nothing but single-input elements up to the sink; what
\* hangs on other outputs and other sinks may be any network.
Pipeline(path) ==
  /\ \A m, n \in DOMAIN path : path[m] = path[n] => m = n
  /\ path[1] \in Sinks
  /\ Sources = {path[Len(path)]}
  /\ \A n \in 1 .. Len(path) - 1 :
       LET c == Conns[path[n]]
       IN  /\ c.src \in Kernels
           /\ NIn(Elem[c.src]) = 1
           /\ InStream(c.src, 1) = path[n + 1]
           /\ c.sport \in OutPorts(c.src)
           /\ OutStream(c.src, c.sport) = path[n]

Pipelines ==
  UNION {{path \in [1 .. n -> DOMAIN Conns] : Pipeline(path)} : n \in DOMAIN Conns}

Fifo == INSTANCE LossyFifo WITH
          MaxSent <- MaxFlits, Exits <- Pipelines, sent <- nxt,
          flight <- [path \in Pipelines |-> UnderWay(path)],
          got <- [path \in Pipelines |-> recv[path[1]]]

\* The pipelines implement lossy FIFOs from the source to their sinks: a step
\* of a kernel thread moves a flit towards the sink, loses one, or changes
\* nothing, and what one sink loses another may still get.
ImplementsFifo == Fifo!Spec

-----------------------------------------------------------------------------
(* Properties of the signal RPC.                                           *)

\* The calls of c, in the order in which wait_response handed over answers.
CallsAnswered(c) == [n \in 1 .. Len(answers[c]) |-> answers[c][n].ev.n]

\* With one caller per channel no answer is handed over twice and none before
\* its call, although an answer that comes after a timeout is handed to a
\* later call.
AnswersInOrder ==
  \A c \in Callers : /\ Increasing(CallsAnswered(c))
                     /\ \A n \in 1 .. Len(answers[c]) : answers[c][n].ev.n <= calls[c]

\* A call that does not give up is answered while the emulation runs.
Answered == \A c \in Callers : waiting[c] ~> (~waiting[c] \/ stop)

-----------------------------------------------------------------------------
(* What the documentation promises and the generated loop does not do.     *)

\* A connection written `->` loses no flit.
Lossless == lost = {}
=============================================================================
