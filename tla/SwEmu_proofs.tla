---------------------------- MODULE SwEmu_proofs ----------------------------
(***************************************************************************)
(* What holds of the software emulator for every topology, every stream    *)
(* depth and every number of flits and calls.                              *)
(***************************************************************************)
EXTENDS SwEmu, Induction, SequenceTheorems, FiniteSetTheorems, TLAPS

(***************************************************************************)
(* Elements: a handler leaves ports, flits and `_state` in their types.    *)
(***************************************************************************)
Held == [Ports -> Flits \cup {NoFlit}]

LEMMA PortsType == 1 \in Ports /\ 2 \in Ports /\ Ports \subseteq Nat
  BY ElementsAssumption DEF Ports

LEMMA FlitsType == Flits \subseteq Nat \ {0} /\ NoFlit = 0
  BY ElementsAssumption DEF Flits, NoFlit

LEMMA SilentType == Silent \in Held
  BY DEF Silent, Held

LEMMA TakeType ==
  ASSUME NEW h \in Held, NEW p \in Ports
  PROVE  Take(h, p) \in Held
  BY DEF Take, Held

LEMMA EmitType ==
  ASSUME NEW p \in Ports, NEW f \in Flits \cup {NoFlit}
  PROVE  Emit(p, f) \in Held
  BY SilentType DEF Emit, Held

\* Every handler keeps held and output ports, the returned mask and `_state`
\* within their types.
LEMMA HandlerType ==
  ASSUME NEW kind \in Kinds, NEW h \in Held, NEW s \in StateOf(kind)
  PROVE  /\ Handler(kind, h, s).held \in Held
         /\ Handler(kind, h, s).out \in Held
         /\ Handler(kind, h, s).ret \in SUBSET Ports
         /\ Handler(kind, h, s).st \in StateOf(kind)
<1> USE PortsType, FlitsType, SilentType, TakeType, EmitType
<1>0. h[1] \in Flits \cup {NoFlit} /\ h[2] \in Flits \cup {NoFlit}
  BY DEF Held
<1>1. CASE kind = "PassThrough"
  BY <1>0, <1>1 DEF Handler, PassThrough
<1>2. CASE kind = "Pass"
  BY <1>0, <1>2 DEF Handler, Pass, StateOf, Bump
<1>3. CASE kind = "Tee"
  <2>1. [Silent EXCEPT ![1] = h[1], ![2] = h[1]] \in Held
    BY <1>0 DEF Held
  <2>2. QED
    BY <1>3, <2>1 DEF Handler, Tee
<1>4. CASE kind = "Demux2"
  BY <1>0, <1>4 DEF Handler, Demux2, StateOf
<1>5. CASE kind = "Mux"
  <2> DEFINE p == (s.a % 8) + 1
  <2>1. s.a \in 0 .. 8 /\ s.b \in Nat
    BY <1>5 DEF StateOf
  <2>2. p \in 1 .. 8
    BY <2>1
  <2>3. QED
    BY <1>5, <2>1, <2>2 DEF Handler, Mux, StateOf, Bump, Held
<1>6. CASE kind = "FlitMux"
  BY <1>0, <1>6 DEF Handler, FlitMux
<1>7. CASE kind = "FlitMux2RR"
  BY <1>0, <1>7 DEF Handler, FlitMux2RR, StateOf
<1>8. CASE kind = "StagingReg"
  BY <1>0, <1>8 DEF Handler, StagingReg, StateOf
<1>9. CASE kind = "Counter"
  BY <1>0, <1>9 DEF Handler, Counter, StateOf, Bump
<1>10. QED
  BY <1>1, <1>2, <1>3, <1>4, <1>5, <1>6, <1>7, <1>8, <1>9 DEF Kinds

\* A signal body answers with a number and keeps `_state` within its type.
LEMMA SignalType ==
  ASSUME NEW kind \in Kinds, NEW s \in StateOf(kind), NEW cmd
  PROVE  Signal(kind, s, cmd).st \in StateOf(kind) /\ Signal(kind, s, cmd).val \in Nat
  BY FlitsType DEF Signal, StateOf, Kinds

(***************************************************************************)
(* Wiring.                                                                 *)
(***************************************************************************)
LEMMA MinProperty ==
  ASSUME NEW S \in SUBSET Nat, S # {}
  PROVE  Min(S) \in S /\ \A y \in S : Min(S) <= y
<1> DEFINE R == {ss \in Nat \X Nat : ss[1] < ss[2]}
<1>1. IsWellFoundedOn(R, Nat)
  BY NatLessThanWellFounded DEF OpToRel
<1>2. PICK x \in S : \A y \in S : ~(<<y, x>> \in R)
  <2> HIDE DEF R
  <2> QED BY <1>1, WFMin
<1>3. ASSUME NEW y \in S
      PROVE  x <= y
  <2>1. x \in Nat /\ y \in Nat
    OBVIOUS
  <2>2. ~(y < x)
    BY <1>2, <2>1
  <2>3. QED
    BY <2>1, <2>2
<1>4. QED
  BY <1>3 DEF Min

LEMMA MaxProperty ==
  ASSUME NEW n \in Nat, NEW S \in SUBSET (1 .. n), S # {}
  PROVE  Max(S) \in S /\ \A y \in S : y <= Max(S)
<1> DEFINE T == {n - x : x \in S}
<1>1. T \in SUBSET Nat /\ T # {}
  <2>1. \A x \in S : x \in 1 .. n
    OBVIOUS
  <2>2. \A x \in S : n - x \in Nat
    BY <2>1
  <2>3. QED
    BY <2>2
<1>2. PICK x \in S : Min(T) = n - x
  BY <1>1, MinProperty
<1>3. \A y \in S : x >= y
  BY <1>1, <1>2, MinProperty
<1>4. QED
  BY <1>3 DEF Max

LEMMA ConnsType == Len(Conns) \in Nat /\ DOMAIN Conns = 1 .. Len(Conns)
  BY SwEmuAssumption, LenProperties

\* A port is connected to the null stream or to a connection that names it.
LEMMA InStreamType ==
  ASSUME NEW k, NEW p
  PROVE  /\ InStream(k, p) \in Streams
         /\ InStream(k, p) # Null =>
              Conns[InStream(k, p)].dst = k /\ Conns[InStream(k, p)].dport = p
<1> DEFINE I == {i \in DOMAIN Conns : Conns[i].dst = k /\ Conns[i].dport = p}
<1>1. I \in SUBSET (1 .. Len(Conns))
  BY ConnsType
<1>2. CASE I = {}
  BY <1>2, ConnsType DEF InStream, Lookup, Streams, Null
<1>3. CASE I # {}
  <2>1. Max(I) \in I
    BY <1>1, <1>3, ConnsType, MaxProperty
  <2>2. InStream(k, p) = Max(I)
    BY <1>3 DEF InStream, Lookup
  <2>3. QED
    BY <2>1, <2>2, ConnsType DEF Streams
<1>4. QED
  BY <1>2, <1>3

LEMMA OutStreamType ==
  ASSUME NEW k, NEW p
  PROVE  /\ OutStream(k, p) \in Streams
         /\ OutStream(k, p) # Null =>
              Conns[OutStream(k, p)].src = k /\ Conns[OutStream(k, p)].sport = p
<1> DEFINE I == {i \in DOMAIN Conns : Conns[i].src = k /\ Conns[i].sport = p}
<1>1. I \in SUBSET (1 .. Len(Conns))
  BY ConnsType
<1>2. CASE I = {}
  BY <1>2, ConnsType DEF OutStream, Lookup, Streams, Null
<1>3. CASE I # {}
  <2>1. Max(I) \in I
    BY <1>1, <1>3, ConnsType, MaxProperty
  <2>2. OutStream(k, p) = Max(I)
    BY <1>3 DEF OutStream, Lookup
  <2>3. QED
    BY <2>1, <2>2, ConnsType DEF Streams
<1>4. QED
  BY <1>2, <1>3

LEMMA BoundaryType == Sources \subseteq Streams /\ Sinks \subseteq Streams
  BY ConnsType DEF Sources, Sinks, Streams

LEMMA CapacityType == \A i \in Streams : Capacity(i) \in Nat \ {0}
<1>1. \A i \in DOMAIN Conns : Conns[i].depth \in Int
  <2>1. \A i \in 1 .. Len(Conns) : Conns[i] \in ConnType
    BY SwEmuAssumption, ElementOfSeq
  <2>2. QED
    BY <2>1, ConnsType DEF ConnType
<1>2. QED
  BY <1>1, ConnsType DEF Capacity, Streams, Null

LEMMA NextPortType ==
  ASSUME TypeOK, NEW k \in Kernels, todo[k] # {}
  PROVE  NextPort(k) \in todo[k] /\ NextPort(k) \in Ports
<1>1. todo[k] \in SUBSET Ports /\ todo[k] \in SUBSET Nat
  BY PortsType DEF TypeOK
<1>2. QED
  BY <1>1, MinProperty DEF NextPort

(***************************************************************************)
(* Type correctness.  TypeOK is not inductive: WritePort picks a port of   *)
(* `todo` and RunSignal answers on a channel, so both must exist.          *)
(***************************************************************************)
WriteOK ==
  \A k \in Kernels : pc[k] = "write" =>
     /\ todo[k] # {}
     /\ \A p \in todo[k] : out[k][p] \in Flits

SignalOK == \A k \in Kernels : sig[k] # NoSig => SigChan[k] \in Chans

TypeInv == TypeOK /\ WriteOK /\ SignalOK

LEMMA InitTypeInv == Init => TypeInv
<1> SUFFICES ASSUME Init PROVE TypeInv
  OBVIOUS
<1>1. \A k \in Kernels : InitState(Elem[k]) \in StateOf(Elem[k])
  BY FlitsType, SwEmuAssumption DEF InitState, StateOf
<1>2. TypeOK
  <2>1. /\ q \in [Streams -> Seq(Flits)]
        /\ recv \in [Sinks -> Seq(Flits)]
        /\ req \in [Chans -> Seq(Requests)]
        /\ rsp \in [Chans -> Seq(Responses)]
        /\ answers \in [Callers -> Seq(Responses)]
    BY EmptySeq DEF Init
  <2>2. /\ nxt \in 0 .. MaxFlits
        /\ calls \in [Callers -> 0 .. MaxCalls]
    BY ElementsAssumption, SwEmuAssumption DEF Init
  <2>3. /\ held \in [Kernels -> [Ports -> Flits \cup {NoFlit}]]
        /\ out \in [Kernels -> [Ports -> Flits \cup {NoFlit}]]
    BY SilentType DEF Init, Held
  <2>4. DOMAIN st = Kernels /\ \A k \in Kernels : st[k] \in StateOf(Elem[k])
    BY <1>1 DEF Init
  <2>5. QED
    BY <2>1, <2>2, <2>3, <2>4 DEF Init, TypeOK
<1>3. QED
  BY <1>2 DEF Init, TypeInv, WriteOK, SignalOK

\* What a flit queue holds before and after taking its head.
LEMMA PopType ==
  ASSUME TypeOK, NEW i \in Streams, q[i] # <<>>
  PROVE  Head(q[i]) \in Flits /\ [q EXCEPT ![i] = Tail(@)] \in [Streams -> Seq(Flits)]
  BY HeadTailProperties DEF TypeOK

LEMMA PushType ==
  ASSUME TypeOK, NEW i \in Streams, NEW f \in Flits
  PROVE  [q EXCEPT ![i] = Append(@, f)] \in [Streams -> Seq(Flits)]
  BY AppendProperties DEF TypeOK

LEMMA StepTypeInv == TypeInv /\ [Next]_vars => TypeInv'
<1> SUFFICES ASSUME TypeInv, [Next]_vars PROVE TypeInv'
  OBVIOUS
<1> USE DEF TypeInv
<1>t. TypeOK
  OBVIOUS
<1>1. ASSUME NEW k \in Kernels, Exit(k) PROVE TypeInv'
  BY <1>1 DEF Exit, TypeOK, WriteOK, SignalOK, dataVars, signalVars
<1>2. ASSUME NEW k \in Kernels, LoopTop(k) PROVE TypeInv'
  <2>1. /\ sig' \in [Kernels -> Requests \cup {NoSig}]
        /\ req' \in [Chans -> Seq(Requests)]
        /\ SignalOK'
    <3>1. CASE SigChan[k] # NoChan /\ sig[k] = NoSig /\ req[SigChan[k]] # <<>>
      <4>1. SigChan[k] \in Chans
        BY <3>1, SwEmuAssumption
      <4>2. req[SigChan[k]] \in Seq(Requests)
        BY <4>1 DEF TypeOK
      <4>3. Head(req[SigChan[k]]) \in Requests /\ Tail(req[SigChan[k]]) \in Seq(Requests)
        BY <3>1, <4>2, HeadTailProperties
      <4>4. /\ sig' = [sig EXCEPT ![k] = Head(req[SigChan[k]])]
            /\ req' = [req EXCEPT ![SigChan[k]] = Tail(@)]
        BY <1>2, <3>1 DEF LoopTop, TryRecv
      <4>5. QED
        BY <4>1, <4>3, <4>4 DEF TypeOK, SignalOK
    <3>2. CASE ~(SigChan[k] # NoChan /\ sig[k] = NoSig /\ req[SigChan[k]] # <<>>)
      BY <1>2, <3>2 DEF LoopTop, TryRecv, TypeOK, SignalOK
    <3>3. QED
      BY <3>1, <3>2
  <2>2. WriteOK'
    BY <1>2 DEF LoopTop, TypeOK, WriteOK
  <2>3. TypeOK'
    BY <1>2, <2>1 DEF LoopTop, TypeOK, dataVars, InPorts
  <2>4. QED
    BY <2>1, <2>2, <2>3
<1>3. ASSUME NEW k \in Kernels, ReadPort(k) PROVE TypeInv'
  <2> DEFINE p == NextPort(k)
             i == InStream(k, p)
  <2>1. p \in Ports /\ i \in Streams
    BY <1>3, NextPortType, InStreamType DEF ReadPort
  <2>2. /\ q' \in [Streams -> Seq(Flits)]
        /\ held' \in [Kernels -> [Ports -> Flits \cup {NoFlit}]]
    <3>1. CASE q[i] = <<>>
      BY <1>3, <3>1 DEF ReadPort, TypeOK
    <3>2. CASE q[i] # <<>>
      <4>1. Head(q[i]) \in Flits /\ [q EXCEPT ![i] = Tail(@)] \in [Streams -> Seq(Flits)]
        BY <2>1, <3>2, PopType
      <4>2. q' = [q EXCEPT ![i] = Tail(@)] /\ held' = [held EXCEPT ![k][p] = Head(q[i])]
        BY <1>3, <3>2 DEF ReadPort
      <4>3. QED
        BY <2>1, <4>1, <4>2 DEF TypeOK
    <3>3. QED
      BY <3>1, <3>2
  <2>3. todo' \in [Kernels -> SUBSET Ports]
    BY <1>3 DEF ReadPort, TypeOK
  <2>4. TypeOK'
    BY <1>3, <2>2, <2>3 DEF ReadPort, TypeOK, signalVars
  <2>5. QED
    BY <1>3, <2>4 DEF ReadPort, WriteOK, SignalOK, TypeOK, signalVars
<1>4. ASSUME NEW k \in Kernels, RunSignal(k) PROVE TypeInv'
  <2> DEFINE r == Signal(Elem[k], st[k], sig[k].cmd)
  <2>1. Elem[k] \in Kinds /\ SigChan[k] \in Chans /\ sig[k] \in Requests
    BY <1>4, SwEmuAssumption DEF RunSignal, SignalOK, TypeOK
  <2>2. r.st \in StateOf(Elem[k]) /\ r.val \in Nat
    BY <2>1, SignalType DEF TypeOK
  <2> HIDE DEF r
  <2>3. [ev |-> sig[k], from |-> k, val |-> r.val] \in Responses
    BY <2>1, <2>2 DEF Responses
  <2>4. rsp' \in [Chans -> Seq(Responses)]
    <3>1. rsp' = [rsp EXCEPT ![SigChan[k]] = Append(@, [ev |-> sig[k], from |-> k, val |-> r.val])]
      BY <1>4 DEF RunSignal, r
    <3>2. QED
      BY <2>1, <2>3, <3>1, AppendProperties DEF TypeOK
  <2>5. st' = [st EXCEPT ![k] = r.st]
    BY <1>4 DEF RunSignal, r
  <2>6. TypeOK'
    BY <1>4, <2>2, <2>4, <2>5, SilentType DEF RunSignal, TypeOK, dataVars, Held
  <2>7. QED
    BY <1>4, <2>6 DEF RunSignal, WriteOK, SignalOK, TypeOK
<1>5. ASSUME NEW k \in Kernels, RunHandler(k) PROVE TypeInv'
  <2> DEFINE r == Handler(Elem[k], held[k], st[k])
             w == {p \in OutPorts(k) : r.out[p] # NoFlit}
  <2>1. Elem[k] \in Kinds /\ held[k] \in Held /\ st[k] \in StateOf(Elem[k])
    BY SwEmuAssumption DEF TypeOK, Held
  <2>2. /\ r.held \in Held /\ r.out \in Held
        /\ r.ret \in SUBSET Ports /\ r.st \in StateOf(Elem[k])
    BY <2>1, HandlerType
  <2>3. /\ held' = [held EXCEPT ![k] = r.held]
        /\ out' = [out EXCEPT ![k] = r.out]
        /\ ret' = [ret EXCEPT ![k] = r.ret]
        /\ st' = [st EXCEPT ![k] = r.st]
        /\ todo' = [todo EXCEPT ![k] = w]
        /\ pc' = [pc EXCEPT ![k] = IF w = {} THEN "top" ELSE "write"]
    BY <1>5 DEF RunHandler
  <2> HIDE DEF r
  <2>4. w \in SUBSET Ports /\ \A p \in w : r.out[p] \in Flits
    BY <2>2 DEF OutPorts, Held
  <2> HIDE DEF w
  <2>5. TypeOK'
    BY <1>5, <2>2, <2>3, <2>4 DEF RunHandler, TypeOK, Held, dataVars, signalVars
  <2>6. WriteOK'
    BY <2>3, <2>4 DEF WriteOK, TypeOK
  <2>7. QED
    BY <1>5, <2>5, <2>6 DEF RunHandler, SignalOK, signalVars
<1>6. ASSUME NEW k \in Kernels, WritePort(k) PROVE TypeInv'
  <2> DEFINE p == NextPort(k)
             i == OutStream(k, p)
             f == out[k][p]
  <2>0. todo[k] # {}
    BY <1>6 DEF WritePort, WriteOK
  <2>1. p \in todo[k] /\ p \in Ports /\ i \in Streams
    BY <2>0, NextPortType, OutStreamType
  <2>2. f \in Flits
    BY <1>6, <2>1 DEF WritePort, WriteOK
  <2>3. [q EXCEPT ![i] = Append(@, f)] \in [Streams -> Seq(Flits)]
    BY <2>1, <2>2, PushType
  <2>4. /\ todo' = [todo EXCEPT ![k] = @ \ {p}]
        /\ pc' = [pc EXCEPT ![k] = IF todo[k] = {p} THEN "top" ELSE "write"]
        /\ UNCHANGED <<nxt, recv, stop, ret, held, out, st, signalVars>>
        /\ \/ /\ q' = [q EXCEPT ![i] = Append(@, f)]
              /\ last' = [last EXCEPT ![i] = f]
              /\ success' = [success EXCEPT ![k] = @ \cup {p}]
              /\ UNCHANGED <<failed, lost>>
           \/ /\ failed' = [failed EXCEPT ![k] = @ \cup {p}]
              /\ lost' = lost \cup {<<i, f>>}
              /\ UNCHANGED <<q, last, success>>
    BY <1>6 DEF WritePort
  <2> HIDE DEF p, i, f
  <2>5. TypeOK'
    <3>1. /\ q' \in [Streams -> Seq(Flits)]
          /\ last' \in [Streams -> Flits \cup {NoFlit}]
          /\ lost' \subseteq Streams \X Flits
          /\ success' \in [Kernels -> SUBSET Ports]
          /\ failed' \in [Kernels -> SUBSET Ports]
      <4>1. <<i, f>> \in Streams \X Flits
        BY <2>1, <2>2
      <4>2. CASE /\ q' = [q EXCEPT ![i] = Append(@, f)]
                 /\ last' = [last EXCEPT ![i] = f]
                 /\ success' = [success EXCEPT ![k] = @ \cup {p}]
                 /\ UNCHANGED <<failed, lost>>
        BY <2>1, <2>2, <2>3, <4>2 DEF TypeOK
      <4>3. CASE /\ failed' = [failed EXCEPT ![k] = @ \cup {p}]
                 /\ lost' = lost \cup {<<i, f>>}
                 /\ UNCHANGED <<q, last, success>>
        <5>1. lost' \subseteq Streams \X Flits
          BY <4>1, <4>3, Zenon DEF TypeOK
        <5>2. QED
          BY <2>1, <4>3, <5>1 DEF TypeOK
      <4>4. QED
        BY <2>4, <4>2, <4>3
    <3>2. /\ todo' \in [Kernels -> SUBSET Ports]
          /\ pc' \in [Kernels -> {"top", "read", "write", "done"}]
      BY <2>4 DEF TypeOK
    <3>3. QED
      BY <2>4, <3>1, <3>2 DEF TypeOK, signalVars
  <2>6. WriteOK'
    <3> SUFFICES ASSUME NEW j \in Kernels, pc'[j] = "write"
                 PROVE  /\ todo'[j] # {}
                        /\ \A r \in todo'[j] : out'[j][r] \in Flits
      BY DEF WriteOK
    <3>1. CASE j = k
      <4>1. todo'[k] = todo[k] \ {p} /\ todo[k] # {p}
        BY <2>4, <3>1 DEF TypeOK
      <4>2. pc[k] = "write" /\ out' = out
        BY <1>6, <2>4 DEF WritePort
      <4>3. QED
        BY <2>1, <3>1, <4>1, <4>2 DEF WriteOK
    <3>2. CASE j # k
      BY <2>4, <3>2 DEF WriteOK, TypeOK
    <3>3. QED
      BY <3>1, <3>2
  <2>7. QED
    BY <2>4, <2>5, <2>6 DEF SignalOK, signalVars
<1>7. ASSUME NEW i \in Sources, Inject(i) PROVE TypeInv'
  <2>1. nxt + 1 \in Flits /\ nxt + 1 \in 0 .. MaxFlits
    BY <1>7, ElementsAssumption DEF Inject, TypeOK, Flits
  <2>2. [q EXCEPT ![i] = Append(@, nxt + 1)] \in [Streams -> Seq(Flits)]
    BY <2>1, BoundaryType, PushType
  <2>3. TypeOK'
    BY <1>7, <2>1, <2>2 DEF Inject, TypeOK, kernelVars, signalVars
  <2>4. QED
    BY <1>7, <2>3 DEF Inject, WriteOK, SignalOK, kernelVars, signalVars
<1>8. ASSUME NEW i \in Sinks, Drain(i) PROVE TypeInv'
  <2>1. Head(q[i]) \in Flits /\ [q EXCEPT ![i] = Tail(@)] \in [Streams -> Seq(Flits)]
    BY <1>8, BoundaryType, PopType DEF Drain
  <2>2. recv' \in [Sinks -> Seq(Flits)]
    BY <1>8, <2>1, AppendProperties DEF Drain, TypeOK
  <2>3. TypeOK'
    BY <1>8, <2>1, <2>2 DEF Drain, TypeOK, kernelVars, signalVars
  <2>4. QED
    BY <1>8, <2>3 DEF Drain, WriteOK, SignalOK, kernelVars, signalVars
<1>9. ASSUME NEW c \in Callers, NEW cmd \in Commands, Call(c, cmd) PROVE TypeInv'
  <2> DEFINE ch == SigChan[Target[c]]
             e  == [kid |-> Target[c], caller |-> c, n |-> calls[c] + 1, cmd |-> cmd]
  <2>1. Target[c] \in Kernels /\ ch \in Chans
    BY SwEmuAssumption
  <2>2. calls[c] + 1 \in 1 .. MaxCalls
    BY <1>9, SwEmuAssumption DEF Call, TypeOK
  <2>3. e \in Requests
    BY <2>1, <2>2 DEF Requests
  <2>4. req' = [req EXCEPT ![ch] = Append(@, e)]
    BY <1>9 DEF Call
  <2> HIDE DEF e, ch
  <2>5. req' \in [Chans -> Seq(Requests)]
    BY <2>1, <2>3, <2>4, AppendProperties DEF TypeOK
  <2>6. TypeOK'
    BY <1>9, <2>2, <2>5 DEF Call, TypeOK, dataVars, kernelVars
  <2>7. QED
    BY <1>9, <2>6 DEF Call, WriteOK, SignalOK, kernelVars
<1>10. ASSUME NEW c \in Callers, Return(c) PROVE TypeInv'
  <2> DEFINE ch == SigChan[Target[c]]
  <2>1. ch \in Chans
    BY SwEmuAssumption
  <2>2. Head(rsp[ch]) \in Responses /\ Tail(rsp[ch]) \in Seq(Responses)
    BY <1>10, <2>1, HeadTailProperties DEF Return, TypeOK
  <2>3. /\ answers' = [answers EXCEPT ![c] = Append(@, Head(rsp[ch]))]
        /\ rsp' = [rsp EXCEPT ![ch] = Tail(@)]
    BY <1>10 DEF Return
  <2> HIDE DEF ch
  <2>4. answers' \in [Callers -> Seq(Responses)] /\ rsp' \in [Chans -> Seq(Responses)]
    BY <2>1, <2>2, <2>3, AppendProperties DEF TypeOK
  <2>5. TypeOK'
    BY <1>10, <2>4 DEF Return, TypeOK, dataVars, kernelVars
  <2>6. QED
    BY <1>10, <2>5 DEF Return, WriteOK, SignalOK, kernelVars
<1>11. ASSUME NEW c \in Callers, TimeOut(c) PROVE TypeInv'
  BY <1>11 DEF TimeOut, TypeOK, WriteOK, SignalOK, dataVars, kernelVars
<1>12. CASE Stop
  BY <1>12 DEF Stop, TypeOK, WriteOK, SignalOK, dataVars, kernelVars, signalVars
<1>13. CASE UNCHANGED vars
  BY <1>13 DEF vars, TypeOK, WriteOK, SignalOK, dataVars, kernelVars, signalVars
<1>14. QED
  BY <1>1, <1>2, <1>3, <1>4, <1>5, <1>6, <1>7, <1>8, <1>9, <1>10, <1>11, <1>12, <1>13
     DEF Next, Kernel, Harness

\* The loop reads and writes only ports its element has.
PortsExist ==
  \A k \in Kernels :
    /\ pc[k] = "read" => todo[k] \subseteq InPorts(k)
    /\ pc[k] = "write" => todo[k] \subseteq OutPorts(k)

LEMMA StepPorts == TypeInv /\ PortsExist /\ [Next]_vars => PortsExist'
PROOF
<1> SUFFICES ASSUME TypeInv, PortsExist, [Next]_vars PROVE PortsExist'
  OBVIOUS
<1>t. TypeOK
  BY DEF TypeInv
<1>0. \A k \in Kernels : InPorts(k)' = InPorts(k) /\ OutPorts(k)' = OutPorts(k)
  BY DEF InPorts, OutPorts
<1>1. ASSUME UNCHANGED <<pc, todo>> PROVE PortsExist'
  BY <1>0, <1>1 DEF PortsExist
<1>2. ASSUME NEW k \in Kernels,
             \A j \in Kernels \ {k} : pc'[j] = pc[j] /\ todo'[j] = todo[j],
             pc'[k] = "read" => todo'[k] \subseteq InPorts(k),
             pc'[k] = "write" => todo'[k] \subseteq OutPorts(k)
      PROVE  PortsExist'
  BY <1>0, <1>2 DEF PortsExist
<1>3. ASSUME NEW k \in Kernels, Exit(k) \/ RunSignal(k) PROVE PortsExist'
  <2>1. /\ \A j \in Kernels \ {k} : pc'[j] = pc[j] /\ todo'[j] = todo[j]
        /\ pc'[k] \in {"done", "top"}
    BY <1>3, <1>t DEF Exit, RunSignal, TypeOK
  <2> QED BY <1>2, <2>1
<1>4. ASSUME NEW k \in Kernels, LoopTop(k) PROVE PortsExist'
  <2>1. /\ \A j \in Kernels \ {k} : pc'[j] = pc[j] /\ todo'[j] = todo[j]
        /\ pc'[k] = "read" /\ todo'[k] \subseteq InPorts(k)
    BY <1>4, <1>t DEF LoopTop, TypeOK
  <2> QED BY <1>2, <2>1
<1>5. ASSUME NEW k \in Kernels, ReadPort(k) PROVE PortsExist'
  <2>1. /\ \A j \in Kernels \ {k} : todo'[j] = todo[j]
        /\ todo'[k] \subseteq todo[k] /\ pc' = pc /\ pc[k] = "read"
    BY <1>5, <1>t DEF ReadPort, TypeOK
  <2> QED BY <1>2, <2>1 DEF PortsExist
<1>6. ASSUME NEW k \in Kernels, RunHandler(k) PROVE PortsExist'
  <2>1. /\ \A j \in Kernels \ {k} : pc'[j] = pc[j] /\ todo'[j] = todo[j]
        /\ pc'[k] \in {"top", "write"} /\ todo'[k] \subseteq OutPorts(k)
    BY <1>6, <1>t DEF RunHandler, TypeOK
  <2> QED BY <1>2, <2>1
<1>7. ASSUME NEW k \in Kernels, WritePort(k) PROVE PortsExist'
  <2>1. /\ \A j \in Kernels \ {k} : pc'[j] = pc[j] /\ todo'[j] = todo[j]
        /\ pc'[k] \in {"top", "write"} /\ todo'[k] \subseteq todo[k] /\ pc[k] = "write"
    BY <1>7, <1>t DEF WritePort, TypeOK
  <2> QED BY <1>2, <2>1 DEF PortsExist
<1>8. ASSUME Harness \/ Stop \/ UNCHANGED vars PROVE PortsExist'
  BY <1>1, <1>8 DEF Harness, Inject, Drain, Call, Return, TimeOut, Stop, vars, kernelVars
<1> QED BY <1>3, <1>4, <1>5, <1>6, <1>7, <1>8 DEF Next, Kernel

\* Every run of the emulator, of any topology, keeps its state well typed, so
\* that no handler ever leaves its `_state` out of range and no index read from
\* it (a round-robin port) leaves the port range; and no thread reads or writes
\* a port its element does not have.
THEOREM TypeCorrect == Spec => [](TypeOK /\ PortsExist)
<1>1. Init => TypeInv /\ PortsExist
  BY InitTypeInv DEF Init, PortsExist
<1>2. TypeInv /\ PortsExist /\ [Next]_vars => (TypeInv /\ PortsExist)'
  BY StepTypeInv, StepPorts
<1>3. TypeInv /\ PortsExist => TypeOK /\ PortsExist
  BY DEF TypeInv
<1>4. QED
  BY <1>1, <1>2, <1>3, PTL DEF Spec

(***************************************************************************)
(* Order.  `last[i]` bounds what stream i has ever carried.  Seen from a   *)
(* kernel, flits get smaller from its input queue through the held flit,   *)
(* the register and the output being written to whatever it wrote last on  *)
(* that output; this is what makes the next write larger than the last.    *)
(***************************************************************************)
\* s is increasing and bounded by l.
Sorted(s, l) == Increasing(s) /\ \A n \in 1 .. Len(s) : s[n] <= l

\* f left a stream that now holds s and has carried flits up to l.
Precedes(f, s, l) == f <= l /\ \A n \in 1 .. Len(s) : f < s[n]

\* ... and it is smaller than h as well, if there is an h.
Below(f, h) == h # NoFlit => f < h

ReadOK ==
  \A k \in Kernels : pc[k] = "read" =>
     \A p \in todo[k] : p \in InPorts(k) /\ held[k][p] = NoFlit

PendingOK ==
  \A k \in Kernels : pc[k] = "write" => todo[k] \subseteq OutPorts(k)

SinkOrder(i) ==
  /\ Increasing(recv[i])
  /\ \A n \in 1 .. Len(recv[i]) : Precedes(recv[i][n], q[i], last[i])

\* f, on its way through k, precedes everything k holds behind it.
Ahead(f, k) ==
  Precedes(f, q[InStream(k, 1)], last[InStream(k, 1)]) /\ Below(f, held[k][1])

KernelOrder(k) ==
  /\ held[k][1] # NoFlit =>
       Precedes(held[k][1], q[InStream(k, 1)], last[InStream(k, 1)])
  /\ Reg(k) # NoFlit => Ahead(Reg(k), k)
  /\ \A p \in OutPorts(k) :
       /\ Ahead(last[OutStream(k, p)], k)
       /\ Below(last[OutStream(k, p)], Reg(k))
       /\ (pc[k] = "write" /\ p \in todo[k]) =>
            /\ last[OutStream(k, p)] < out[k][p]
            /\ Ahead(out[k][p], k)
            /\ Below(out[k][p], Reg(k))

OrderInv ==
  /\ ReadOK
  /\ PendingOK
  /\ \A i \in Streams : Sorted(q[i], last[i])
  /\ \A i \in Sources : last[i] <= nxt
  /\ \A i \in Sinks : SinkOrder(i)
  /\ \A k \in Kernels : KernelOrder(k)

LEMMA SortedPush ==
  ASSUME NEW s \in Seq(Flits), NEW l \in Nat, NEW f \in Flits, l < f, Sorted(s, l)
  PROVE  /\ Sorted(Append(s, f), f)
         /\ \A g \in Nat : Precedes(g, s, l) => Precedes(g, Append(s, f), f) /\ g < f
<1>1. /\ Len(Append(s, f)) = Len(s) + 1 /\ Len(s) \in Nat
      /\ \A n \in 1 .. Len(s) : Append(s, f)[n] = s[n] /\ s[n] \in Nat
      /\ Append(s, f)[Len(s) + 1] = f /\ f \in Nat
  <2>1. \A n \in 1 .. Len(s) : s[n] \in Flits
    BY ElementOfSeq
  <2>2. Len(s) \in Nat
    BY LenProperties
  <2>3. /\ Len(Append(s, f)) = Len(s) + 1
        /\ \A n \in 1 .. Len(s) : Append(s, f)[n] = s[n]
        /\ Append(s, f)[Len(s) + 1] = f
    BY AppendProperties
  <2>4. QED
    BY <2>1, <2>2, <2>3, FlitsType
<1>2. \A n \in 1 .. Len(s) : s[n] <= l /\ s[n] < f
  BY <1>1 DEF Sorted
<1>3. Increasing(Append(s, f))
  BY <1>1, <1>2 DEF Sorted, Increasing
<1>4. QED
  BY <1>1, <1>2, <1>3 DEF Sorted, Precedes

LEMMA SortedPop ==
  ASSUME NEW s \in Seq(Flits), NEW l \in Nat, s # <<>>, Sorted(s, l)
  PROVE  /\ Sorted(Tail(s), l)
         /\ Precedes(Head(s), Tail(s), l)
         /\ \A g \in Nat : Precedes(g, s, l) => Precedes(g, Tail(s), l) /\ g < Head(s)
<1>1. /\ Len(s) \in Nat \ {0} /\ Len(Tail(s)) = Len(s) - 1
      /\ \A n \in 1 .. Len(Tail(s)) : Tail(s)[n] = s[n + 1]
      /\ \A n \in 1 .. Len(s) : s[n] \in Nat
      /\ Head(s) = s[1]
  <2>1. \A n \in 1 .. Len(s) : s[n] \in Flits
    BY ElementOfSeq
  <2>2. Len(s) \in Nat \ {0}
    BY EmptySeq
  <2>3. Len(Tail(s)) = Len(s) - 1 /\ \A n \in 1 .. Len(Tail(s)) : Tail(s)[n] = s[n + 1]
    BY HeadTailProperties
  <2>4. Head(s) = s[1]
    OBVIOUS
  <2>5. QED
    BY <2>1, <2>2, <2>3, <2>4, FlitsType
<1>2. QED
  BY <1>1 DEF Sorted, Increasing, Precedes

LEMMA LinearFacts ==
  ASSUME Linear, NEW k \in Kernels
  PROVE  /\ InPorts(k) = {1}
         /\ InStream(k, 1) \in Streams
         /\ InStream(k, 1) \notin Sinks
         /\ \A j \in Kernels : InStream(j, 1) = InStream(k, 1) => j = k
<1>1. \A j \in Kernels : InPorts(j) = {1}
  <2>1. \A p \in Ports : p <= 1 <=> p = 1
    BY ElementsAssumption DEF Ports
  <2>2. QED
    BY <2>1, PortsType DEF Linear, InPorts
<1>2. \A j \in Kernels : InStream(j, 1) # Null
  BY <1>1 DEF Linear
<1>3. QED
  BY <1>1, <1>2, InStreamType DEF Sinks

LEMMA OutFacts ==
  ASSUME Linear, NEW k \in Kernels, NEW p \in OutPorts(k)
  PROVE  /\ OutStream(k, p) \in Streams
         /\ OutStream(k, p) \notin Sources
         /\ \A j \in Kernels : \A r \in OutPorts(j) :
              OutStream(j, r) = OutStream(k, p) => j = k /\ r = p
  BY OutStreamType DEF Linear, Sources

\* What the handlers of single-input elements do with the flits they have.
LEMMA HandlerOrder ==
  ASSUME NEW kind \in Kinds, NIn(kind) = 1, NEW h \in Held, NEW s \in StateOf(kind)
  PROVE  LET r == Handler(kind, h, s)
         IN  /\ r.held[1] = NoFlit
             /\ kind = "StagingReg" =>
                  /\ r.st.a = h[1]
                  /\ \A p \in Ports : r.out[p] \in {NoFlit, s.a}
             /\ kind # "StagingReg" => \A p \in Ports : r.out[p] \in {NoFlit, h[1]}
<1> USE PortsType, SilentType
<1>0. /\ \A p \in Ports : Silent[p] = NoFlit
      /\ \A f : \A p, r \in Ports : Emit(r, f)[p] \in {NoFlit, f}
      /\ Take(h, 1)[1] = NoFlit
  BY DEF Silent, Emit, Take, Held
<1>1. CASE kind = "PassThrough"
  BY <1>0, <1>1 DEF Handler, PassThrough
<1>2. CASE kind = "Pass"
  BY <1>0, <1>2 DEF Handler, Pass
<1>3. CASE kind = "Tee"
  BY <1>0, <1>3 DEF Handler, Tee, Held
<1>4. CASE kind = "Demux2"
  <2>1. s.a \in Ports
    BY <1>4 DEF StateOf
  <2>2. QED
    BY <1>0, <1>4, <2>1 DEF Handler, Demux2
<1>5. CASE kind = "StagingReg"
  BY <1>0, <1>5 DEF Handler, StagingReg, StateOf
<1>6. CASE kind = "Counter"
  BY <1>0, <1>6 DEF Handler, Counter
<1>7. QED
  BY <1>1, <1>2, <1>3, <1>4, <1>5, <1>6 DEF Kinds, NIn

\* A kernel keeps its order when nothing it depends on changes.
LEMMA KernelFrame ==
  ASSUME NEW k \in Kernels, KernelOrder(k),
         q'[InStream(k, 1)] = q[InStream(k, 1)],
         last'[InStream(k, 1)] = last[InStream(k, 1)],
         \A p \in OutPorts(k) : last'[OutStream(k, p)] = last[OutStream(k, p)],
         held'[k] = held[k], Reg(k)' = Reg(k), out'[k] = out[k],
         pc'[k] = "write" => pc[k] = "write" /\ todo'[k] \subseteq todo[k]
  PROVE  KernelOrder(k)'
  BY DEF KernelOrder, Ahead

\* The numbers the order lemmas speak about are numbers.
LEMMA NumberTypes ==
  ASSUME TypeOK
  PROVE  /\ \A i \in Streams : last[i] \in Nat /\ q[i] \in Seq(Flits)
         /\ \A k \in Kernels : held[k][1] \in Nat /\ Reg(k) \in Nat
         /\ \A k \in Kernels, p \in Ports : out[k][p] \in Nat
<1>1. \A k \in Kernels : Reg(k) \in Nat
  BY FlitsType DEF TypeOK, Reg, StateOf
<1>0. \A f \in Flits \cup {NoFlit} : f \in Nat
  BY FlitsType
<1>2. \A i \in Streams : last[i] \in Nat /\ q[i] \in Seq(Flits)
  <2>1. \A i \in Streams : last[i] \in Flits \cup {NoFlit} /\ q[i] \in Seq(Flits)
    BY DEF TypeOK
  <2>2. QED
    BY <1>0, <2>1
<1>3. \A k \in Kernels, p \in Ports : held[k][p] \in Nat /\ out[k][p] \in Nat
  <2>1. \A k \in Kernels, p \in Ports : /\ held[k][p] \in Flits \cup {NoFlit}
                                        /\ out[k][p] \in Flits \cup {NoFlit}
    BY DEF TypeOK
  <2>2. QED
    BY <1>0, <2>1
<1>4. QED
  BY <1>1, <1>2, <1>3, PortsType

LEMMA InitOrder == Init => OrderInv
<1> SUFFICES ASSUME Init PROVE OrderInv
  OBVIOUS
<1>1. Len(<<>>) = 0
  OBVIOUS
<1>2. \A l : Sorted(<<>>, l) /\ Increasing(<<>>)
  BY <1>1 DEF Sorted, Increasing
<1>3. \A i \in Streams : q[i] = <<>> /\ last[i] = 0
  BY FlitsType DEF Init
<1>4. ASSUME NEW k \in Kernels PROVE KernelOrder(k)
  <2>1. held[k][1] = NoFlit /\ Reg(k) = NoFlit /\ pc[k] # "write"
    BY PortsType, FlitsType DEF Init, Silent, Reg, InitState
  <2>2. InStream(k, 1) \in Streams /\ \A p : OutStream(k, p) \in Streams
    BY InStreamType, OutStreamType
  <2>3. QED
    BY <1>1, <1>3, <2>1, <2>2 DEF KernelOrder, Ahead, Precedes, Below
<1>5. \A i \in Sinks : SinkOrder(i)
  BY <1>1, <1>2 DEF Init, SinkOrder
<1>6. \A i \in Sources : last[i] <= nxt
  BY <1>3, BoundaryType DEF Init
<1>7. QED
  BY <1>2, <1>3, <1>4, <1>5, <1>6 DEF OrderInv, Init, ReadOK, PendingOK

\* A flit larger than everything stream j has carried enters it.
LEMMA PushOrder ==
  ASSUME Linear, TypeOK, OrderInv, NEW j \in Streams, NEW f \in Flits, last[j] < f,
         q' = [q EXCEPT ![j] = Append(@, f)], last' = [last EXCEPT ![j] = f],
         recv' = recv
  PROVE  /\ \A i \in Streams : Sorted(q'[i], last'[i])
         /\ \A i \in Streams : \A g \in Nat :
              Precedes(g, q[i], last[i]) => Precedes(g, q'[i], last'[i])
         /\ \A i \in Sinks : SinkOrder(i)'
<1>1. last[j] \in Nat /\ q[j] \in Seq(Flits) /\ Sorted(q[j], last[j])
  BY NumberTypes DEF OrderInv
<1>2. /\ Sorted(Append(q[j], f), f)
      /\ \A g \in Nat : Precedes(g, q[j], last[j]) => Precedes(g, Append(q[j], f), f)
  BY <1>1, SortedPush
<1>3. \A i \in Streams : IF i = j THEN q'[i] = Append(q[j], f) /\ last'[i] = f
                                 ELSE q'[i] = q[i] /\ last'[i] = last[i]
  BY DEF TypeOK
<1>4. \A i \in Streams : Sorted(q'[i], last'[i])
  BY <1>2, <1>3 DEF OrderInv
<1>5. \A i \in Streams : \A g \in Nat :
         Precedes(g, q[i], last[i]) => Precedes(g, q'[i], last'[i])
  BY <1>2, <1>3
<1>6. ASSUME NEW i \in Sinks PROVE SinkOrder(i)'
  <2>1. i \in Streams /\ SinkOrder(i) /\ recv[i] \in Seq(Flits)
    BY BoundaryType DEF OrderInv, TypeOK
  <2>2. \A n \in 1 .. Len(recv[i]) : recv[i][n] \in Nat
    BY <2>1, ElementOfSeq, FlitsType
  <2>3. QED
    BY <1>5, <2>1, <2>2 DEF SinkOrder
<1>7. QED
  BY <1>4, <1>5, <1>6

\* The order around kernel k after something larger entered a stream none of
\* k's outputs leads to.
LEMMA PushKernel ==
  ASSUME TypeOK, NEW k \in Kernels, KernelOrder(k),
         \A g \in Nat : Precedes(g, q[InStream(k, 1)], last[InStream(k, 1)])
                         => Precedes(g, q'[InStream(k, 1)], last'[InStream(k, 1)]),
         \A p \in OutPorts(k) : last'[OutStream(k, p)] = last[OutStream(k, p)],
         held'[k] = held[k], Reg(k)' = Reg(k), out'[k] = out[k],
         pc'[k] = "write" => pc[k] = "write" /\ todo'[k] \subseteq todo[k]
  PROVE  KernelOrder(k)'
<1>1. /\ held[k][1] \in Nat /\ Reg(k) \in Nat
      /\ \A p \in OutPorts(k) : out[k][p] \in Nat /\ last[OutStream(k, p)] \in Nat
  BY NumberTypes, OutStreamType DEF OutPorts
<1>2. QED
  BY <1>1 DEF KernelOrder, Ahead

LEMMA StepOrder == Linear /\ TypeInv /\ OrderInv /\ [Next]_vars => OrderInv'
<1> SUFFICES ASSUME Linear, TypeInv, OrderInv, [Next]_vars PROVE OrderInv'
  OBVIOUS
<1>t. TypeOK /\ WriteOK
  BY DEF TypeInv
<1>k. \A j \in Kernels : KernelOrder(j) /\ InStream(j, 1) \in Streams
  BY LinearFacts DEF OrderInv
\* Steps that leave the streams and the registers alone.
<1>a. ASSUME NEW k \in Kernels, UNCHANGED <<dataVars, held, out>>,
             \A j \in Kernels : Reg(j)' = Reg(j),
             \A j \in Kernels : pc'[j] = "write" => pc[j] = "write" /\ todo'[j] = todo[j],
             ReadOK'
      PROVE  OrderInv'
  <2>1. \A j \in Kernels : KernelOrder(j)'
    BY <1>a, <1>k, KernelFrame DEF dataVars
  <2>2. PendingOK'
    BY <1>a DEF OrderInv, PendingOK
  <2>3. \A i \in Sinks : SinkOrder(i)'
    BY <1>a DEF OrderInv, SinkOrder, dataVars
  <2>4. QED
    BY <1>a, <2>1, <2>2, <2>3 DEF OrderInv, dataVars
<1>1. ASSUME NEW k \in Kernels, Exit(k) PROVE OrderInv'
  BY <1>1, <1>a, <1>t DEF Exit, OrderInv, ReadOK, TypeOK, Reg
<1>2. ASSUME NEW k \in Kernels, LoopTop(k) PROVE OrderInv'
  <2>1. ReadOK'
    BY <1>2, <1>t DEF LoopTop, OrderInv, ReadOK, TypeOK
  <2>2. QED
    BY <1>2, <1>a, <1>t, <2>1 DEF LoopTop, TypeOK, Reg
<1>4. ASSUME NEW k \in Kernels, RunSignal(k) PROVE OrderInv'
  <2>1. ReadOK'
    BY <1>4, <1>t DEF RunSignal, OrderInv, ReadOK, TypeOK
  <2>2. \A j \in Kernels : Reg(j)' = Reg(j)
    BY <1>4, <1>t DEF RunSignal, TypeOK, Reg, Signal
  <2>3. \A j \in Kernels : pc'[j] = "write" => j # k /\ pc[j] = "write"
    BY <1>4, <1>t DEF RunSignal, TypeOK
  <2>4. UNCHANGED <<dataVars, todo, held>> /\ \A j \in Kernels : j # k => out'[j] = out[j]
    BY <1>4, <1>t DEF RunSignal, TypeOK
  <2>5. ASSUME NEW j \in Kernels PROVE KernelOrder(j)'
    <3>1. CASE j # k
      BY <1>k, <2>2, <2>3, <2>4, <3>1, KernelFrame DEF dataVars
    <3>2. CASE j = k
      BY <1>k, <2>2, <2>3, <2>4, <3>2 DEF KernelOrder, Ahead, dataVars
    <3>3. QED
      BY <3>1, <3>2
  <2>6. PendingOK'
    BY <2>3, <2>4 DEF OrderInv, PendingOK
  <2>7. \A i \in Sinks : SinkOrder(i)'
    BY <2>4 DEF OrderInv, SinkOrder, dataVars
  <2>8. QED
    BY <2>1, <2>4, <2>5, <2>6, <2>7 DEF OrderInv, dataVars
<1>3. ASSUME NEW k \in Kernels, ReadPort(k) PROVE OrderInv'
  <2> DEFINE i == InStream(k, 1)
  <2>1. NextPort(k) = 1 /\ held[k][1] = NoFlit /\ i \in Streams /\ i \notin Sinks
    <3>1. NextPort(k) \in todo[k]
      BY <1>3, <1>t, NextPortType DEF ReadPort
    <3>2. QED
      BY <1>3, <3>1, LinearFacts DEF ReadPort, OrderInv, ReadOK
  <2>2. /\ todo' = [todo EXCEPT ![k] = @ \ {1}]
        /\ UNCHANGED <<nxt, recv, last, pc, out, st>>
        /\ pc[k] = "read"
    BY <1>3, <2>1 DEF ReadPort
  <2>3. CASE q[i] = <<>>
    <3>1. UNCHANGED <<q, held, lost>>
      BY <1>3, <2>1, <2>3 DEF ReadPort
    <3>2. ReadOK'
      BY <2>2, <3>1, <1>t DEF OrderInv, ReadOK, TypeOK
    <3>3. \A j \in Kernels : pc'[j] = "write" => pc[j] = "write" /\ todo'[j] = todo[j]
      BY <2>2, <1>t DEF TypeOK
    <3>4. QED
      BY <1>a, <2>2, <3>1, <3>2, <3>3 DEF dataVars, Reg
  <2>4. CASE q[i] # <<>>
    <3>1. q' = [q EXCEPT ![i] = Tail(@)] /\ held' = [held EXCEPT ![k][1] = Head(q[i])]
      BY <1>3, <2>1, <2>4 DEF ReadPort
    <3>2. last[i] \in Nat /\ q[i] \in Seq(Flits) /\ Sorted(q[i], last[i])
      BY <2>1, <1>t, NumberTypes DEF OrderInv
    <3>3. /\ Sorted(Tail(q[i]), last[i])
          /\ Precedes(Head(q[i]), Tail(q[i]), last[i])
          /\ \A g \in Nat : Precedes(g, q[i], last[i]) =>
                Precedes(g, Tail(q[i]), last[i]) /\ g < Head(q[i])
      BY <2>4, <3>2, SortedPop
    <3>4. \A m \in Streams : q'[m] = IF m = i THEN Tail(q[i]) ELSE q[m]
      BY <3>1, <1>t DEF TypeOK
    <3>5. held'[k][1] = Head(q[i]) /\ \A j \in Kernels : j # k => held'[j] = held[j]
      BY <3>1, <1>t, PortsType DEF TypeOK
    <3>6. ReadOK'
      <4>1. \A j \in Kernels, p \in Ports : (j # k \/ p # 1) => held'[j][p] = held[j][p]
        BY <3>1, <1>t DEF TypeOK
      <4>2. \A j \in Kernels : pc[j] = "read" => todo'[j] \subseteq todo[j] /\ (j = k => 1 \notin todo'[j])
        BY <2>2, <1>t DEF TypeOK
      <4>3. \A j \in Kernels : todo[j] \subseteq Ports
        BY <1>t DEF TypeOK
      <4>4. QED
        BY <2>2, <4>1, <4>2, <4>3 DEF OrderInv, ReadOK
    <3>7. ASSUME NEW j \in Kernels PROVE KernelOrder(j)'
      <4>1. CASE j # k
        <5>1. InStream(j, 1) # i /\ InStream(j, 1) \in Streams
          BY <4>1, LinearFacts
        <5>2. q'[InStream(j, 1)] = q[InStream(j, 1)]
          BY <3>4, <5>1
        <5>3. pc'[j] = "write" => pc[j] = "write" /\ todo'[j] \subseteq todo[j]
          BY <2>2, <1>t DEF TypeOK
        <5>4. QED
          BY <1>k, <2>2, <3>5, <4>1, <5>2, <5>3, KernelFrame DEF Reg
      <4>2. CASE j = k
        <5>1. q'[i] = Tail(q[i]) /\ last' = last /\ pc'[k] # "write" /\ Reg(k)' = Reg(k)
          BY <2>1, <2>2, <3>4 DEF Reg
        <5>2. Reg(k) \in Nat /\ \A p \in OutPorts(k) : last[OutStream(k, p)] \in Nat
          BY <1>t, NumberTypes, OutStreamType
        <5>3. KernelOrder(k) /\ InStream(k, 1) = i
          BY <1>k
        <5> HIDE DEF i
        <5>4. Precedes(held'[k][1], q'[i], last'[i])
          BY <3>3, <3>5, <5>1
        <5>5. Reg(k)' # NoFlit => Precedes(Reg(k)', q'[i], last'[i]) /\ Below(Reg(k)', held'[k][1])
          BY <3>3, <3>5, <5>1, <5>2, <5>3 DEF KernelOrder, Ahead, Below
        <5>6. ASSUME NEW p \in OutPorts(k)
              PROVE  /\ Precedes(last'[OutStream(k, p)], q'[i], last'[i])
                     /\ Below(last'[OutStream(k, p)], held'[k][1])
                     /\ Below(last'[OutStream(k, p)], Reg(k)')
          BY <3>3, <3>5, <5>1, <5>2, <5>3 DEF KernelOrder, Ahead, Below
        <5>7. QED
          BY <4>2, <5>1, <5>3, <5>4, <5>5, <5>6 DEF KernelOrder, Ahead
      <4>3. QED
        BY <4>1, <4>2
    <3>8. \A m \in Streams : Sorted(q'[m], last'[m])
      BY <2>2, <3>3, <3>4 DEF OrderInv
    <3>9. \A m \in Sinks : SinkOrder(m)'
      BY <2>1, <2>2, <3>4, BoundaryType DEF OrderInv, SinkOrder
    <3>10. PendingOK'
      BY <2>2, <1>t DEF OrderInv, PendingOK, TypeOK
    <3>11. QED
      BY <2>2, <3>6, <3>7, <3>8, <3>9, <3>10 DEF OrderInv
  <2>5. QED
    BY <2>3, <2>4
<1>5. ASSUME NEW k \in Kernels, RunHandler(k) PROVE OrderInv'
  <2> DEFINE r == Handler(Elem[k], held[k], st[k])
             w == {p \in OutPorts(k) : r.out[p] # NoFlit}
             i == InStream(k, 1)
  <2>1. Elem[k] \in Kinds /\ NIn(Elem[k]) = 1 /\ held[k] \in Held /\ st[k] \in StateOf(Elem[k])
    BY <1>t, SwEmuAssumption DEF TypeOK, Held, Linear
  <2>2. /\ r.held[1] = NoFlit
        /\ Elem[k] = "StagingReg" =>
             r.st.a = held[k][1] /\ \A p \in Ports : r.out[p] \in {NoFlit, st[k].a}
        /\ Elem[k] # "StagingReg" => \A p \in Ports : r.out[p] \in {NoFlit, held[k][1]}
    BY <2>1, HandlerOrder
  <2>3. /\ held' = [held EXCEPT ![k] = r.held]
        /\ out' = [out EXCEPT ![k] = r.out]
        /\ st' = [st EXCEPT ![k] = r.st]
        /\ todo' = [todo EXCEPT ![k] = w]
        /\ pc' = [pc EXCEPT ![k] = IF w = {} THEN "top" ELSE "write"]
        /\ UNCHANGED dataVars
    BY <1>5 DEF RunHandler
  <2> HIDE DEF r
  <2>4. w \subseteq OutPorts(k) /\ w \subseteq Ports /\ \A p \in w : r.out[p] # NoFlit
    BY DEF OutPorts
  <2> HIDE DEF w
  <2>5. \A j \in Kernels : j # k => /\ held'[j] = held[j] /\ out'[j] = out[j]
                                   /\ Reg(j)' = Reg(j) /\ todo'[j] = todo[j]
                                   /\ pc'[j] = pc[j]
    BY <2>3, <1>t DEF TypeOK, Reg
  <2>6. held'[k] = r.held /\ out'[k] = r.out /\ st'[k] = r.st /\ todo'[k] = w /\ pc'[k] # "read"
    BY <2>3, <1>t DEF TypeOK
  <2>7. ASSUME NEW j \in Kernels PROVE KernelOrder(j)'
    <3>1. CASE j # k
      BY <1>k, <2>3, <2>5, <3>1, KernelFrame DEF dataVars
    <3>2. CASE j = k
      <4>1. KernelOrder(k) /\ q' = q /\ last' = last
        BY <1>k, <2>3 DEF dataVars
      <4>2. held'[k][1] = NoFlit
        BY <2>2, <2>6
      <4>3. CASE Elem[k] = "StagingReg"
        <5>1. Reg(k)' = held[k][1] /\ Reg(k) = st[k].a
          BY <2>2, <2>6, <4>3 DEF Reg
        <5>2. \A p \in w : out'[k][p] = Reg(k) /\ Reg(k) # NoFlit
          BY <2>2, <2>4, <2>6, <4>3, <5>1
        <5>3. QED
          BY <2>6, <3>2, <4>1, <4>2, <5>1, <5>2 DEF KernelOrder, Ahead, Below
      <4>4. CASE Elem[k] # "StagingReg"
        <5>1. Reg(k)' = NoFlit /\ Reg(k) = NoFlit
          BY <4>4 DEF Reg
        <5>2. \A p \in w : out'[k][p] = held[k][1] /\ held[k][1] # NoFlit
          BY <2>2, <2>4, <2>6, <4>4
        <5>3. QED
          BY <2>6, <3>2, <4>1, <4>2, <5>1, <5>2 DEF KernelOrder, Ahead, Below
      <4>5. QED
        BY <4>3, <4>4
    <3>3. QED
      BY <3>1, <3>2
  <2>8. ReadOK'
    BY <2>5, <2>6 DEF OrderInv, ReadOK
  <2>9. PendingOK'
    BY <2>4, <2>5, <2>6 DEF OrderInv, PendingOK
  <2>10. \A m \in Sinks : SinkOrder(m)'
    BY <2>3 DEF OrderInv, SinkOrder, dataVars
  <2>11. QED
    BY <2>3, <2>7, <2>8, <2>9, <2>10 DEF OrderInv, dataVars
<1>6. ASSUME NEW k \in Kernels, WritePort(k) PROVE OrderInv'
  <2> DEFINE p == NextPort(k)
             s == OutStream(k, p)
             f == out[k][p]
  <2>0. pc[k] = "write" /\ todo[k] # {}
    BY <1>6, <1>t DEF WritePort, WriteOK
  <2>1. p \in todo[k] /\ p \in OutPorts(k) /\ f \in Flits
    BY <2>0, <1>t, NextPortType DEF OrderInv, PendingOK, WriteOK
  <2>2. s \in Streams /\ s \notin Sources
    BY <2>1, OutFacts
  <2>3. last[s] < f
    BY <1>k, <2>0, <2>1 DEF KernelOrder
  <2>4. /\ todo' = [todo EXCEPT ![k] = @ \ {p}]
        /\ pc' = [pc EXCEPT ![k] = IF todo[k] = {p} THEN "top" ELSE "write"]
        /\ UNCHANGED <<nxt, recv, held, out, st>>
    BY <1>6 DEF WritePort
  <2>5. \/ q' = [q EXCEPT ![s] = Append(@, f)] /\ last' = [last EXCEPT ![s] = f]
        \/ UNCHANGED <<q, last>>
    BY <1>6 DEF WritePort
  <2>6. \A j \in Kernels : pc'[j] = "write" => pc[j] = "write" /\ todo'[j] \subseteq todo[j]
                                             /\ (j = k => p \notin todo'[j])
    BY <2>0, <2>4, <1>t DEF TypeOK
  <2>7. \A j \in Kernels : pc'[j] = "read" => pc[j] = "read" /\ todo'[j] = todo[j]
    BY <2>0, <2>4, <1>t DEF TypeOK
  <2>8. ReadOK' /\ PendingOK' /\ \A j \in Kernels : Reg(j)' = Reg(j)
    BY <2>4, <2>6, <2>7 DEF OrderInv, ReadOK, PendingOK, Reg
  <2> HIDE DEF p, s, f
  <2>9. CASE UNCHANGED <<q, last>>
    <3>1. \A j \in Kernels : KernelOrder(j)'
      BY <1>k, <2>4, <2>6, <2>8, <2>9, KernelFrame
    <3>2. \A m \in Sinks : SinkOrder(m)'
      BY <2>4, <2>9 DEF OrderInv, SinkOrder
    <3>3. QED
      BY <2>4, <2>8, <2>9, <3>1, <3>2 DEF OrderInv
  <2>10. CASE q' = [q EXCEPT ![s] = Append(@, f)] /\ last' = [last EXCEPT ![s] = f]
    <3>1. /\ \A m \in Streams : Sorted(q'[m], last'[m])
          /\ \A m \in Streams : \A g \in Nat :
               Precedes(g, q[m], last[m]) => Precedes(g, q'[m], last'[m])
          /\ \A m \in Sinks : SinkOrder(m)'
      BY <1>t, <2>1, <2>2, <2>3, <2>4, <2>10, PushOrder
    <3>2. \A m \in Streams : last'[m] = IF m = s THEN f ELSE last[m]
      BY <2>10, <1>t DEF TypeOK
    <3>3. ASSUME NEW j \in Kernels, j # k PROVE KernelOrder(j)'
      <4>1. \A u \in OutPorts(j) : OutStream(j, u) # s /\ OutStream(j, u) \in Streams
        BY <2>1, <3>3, OutFacts, OutStreamType DEF s
      <4>2. QED
        BY <1>k, <1>t, <2>4, <2>6, <2>8, <3>1, <3>2, <4>1, PushKernel
    <3>4. KernelOrder(k)'
      <4>1. \A u \in OutPorts(k) :
               OutStream(k, u) \in Streams /\ (u # p => OutStream(k, u) # s)
        BY <2>1, OutFacts DEF s
      <4>2. s = OutStream(k, p) /\ f = out[k][p]
        BY DEF s, f
      <4>3. /\ held[k][1] \in Nat /\ Reg(k) \in Nat
            /\ \A u \in OutPorts(k) : out[k][u] \in Nat /\ last[OutStream(k, u)] \in Nat
        BY <1>t, <4>1, NumberTypes DEF OutPorts
      <4>4. /\ KernelOrder(k) /\ held' = held /\ out' = out /\ Reg(k)' = Reg(k)
            /\ InStream(k, 1) \in Streams
            /\ pc'[k] = "write" => todo'[k] \subseteq todo[k] /\ p \notin todo'[k]
        BY <1>k, <2>4, <2>6, <2>8
      <4>5. QED
        BY <2>0, <2>1, <3>1, <3>2, <4>1, <4>2, <4>3, <4>4 DEF KernelOrder, Ahead
    <3>5. \A m \in Sources : last'[m] <= nxt'
      BY <2>2, <2>4, <3>2, BoundaryType DEF OrderInv
    <3>6. QED
      BY <2>8, <3>1, <3>3, <3>4, <3>5 DEF OrderInv
  <2>11. QED
    BY <2>5, <2>9, <2>10
<1>7. ASSUME NEW s \in Sources, Inject(s) PROVE OrderInv'
  <2>1. s \in Streams /\ nxt + 1 \in Flits /\ last[s] < nxt + 1 /\ nxt \in Nat
    <3>1. nxt \in Nat /\ nxt + 1 \in Flits
      BY <1>7, <1>t, ElementsAssumption DEF Inject, TypeOK, Flits
    <3>2. s \in Streams /\ last[s] \in Nat /\ last[s] <= nxt
      BY <1>t, BoundaryType, NumberTypes DEF OrderInv
    <3>3. QED
      BY <3>1, <3>2
  <2>2. /\ q' = [q EXCEPT ![s] = Append(@, nxt + 1)]
        /\ last' = [last EXCEPT ![s] = nxt + 1]
        /\ nxt' = nxt + 1
        /\ UNCHANGED <<recv, pc, todo, held, out, st>>
    BY <1>7 DEF Inject, kernelVars
  <2>3. /\ \A m \in Streams : Sorted(q'[m], last'[m])
        /\ \A m \in Streams : \A g \in Nat :
             Precedes(g, q[m], last[m]) => Precedes(g, q'[m], last'[m])
        /\ \A m \in Sinks : SinkOrder(m)'
    BY <1>t, <2>1, <2>2, PushOrder
  <2>4. \A m \in Streams : last'[m] = IF m = s THEN nxt + 1 ELSE last[m]
    BY <2>2, <1>t DEF TypeOK
  <2>5. ASSUME NEW j \in Kernels PROVE KernelOrder(j)'
    <3>1. \A u \in OutPorts(j) : OutStream(j, u) # s /\ OutStream(j, u) \in Streams
      BY OutFacts
    <3>2. Reg(j)' = Reg(j)
      BY <2>2 DEF Reg
    <3>3. QED
      BY <1>k, <1>t, <2>2, <2>3, <2>4, <3>1, <3>2, PushKernel
  <2>6. \A m \in Sources : last'[m] <= nxt'
    <3>1. \A m \in Sources : m \in Streams /\ last[m] \in Nat /\ last[m] <= nxt
      BY <1>t, BoundaryType, NumberTypes DEF OrderInv
    <3>2. QED
      BY <2>1, <2>2, <2>4, <3>1
  <2>7. ReadOK' /\ PendingOK'
    BY <2>2 DEF OrderInv, ReadOK, PendingOK
  <2>8. QED
    BY <2>3, <2>5, <2>6, <2>7 DEF OrderInv
<1>8. ASSUME NEW s \in Sinks, Drain(s) PROVE OrderInv'
  <2>1. /\ q[s] # <<>>
        /\ recv' = [recv EXCEPT ![s] = Append(@, Head(q[s]))]
        /\ q' = [q EXCEPT ![s] = Tail(@)]
        /\ UNCHANGED <<nxt, last, pc, todo, held, out, st>>
    BY <1>8 DEF Drain, kernelVars
  <2>2. s \in Streams /\ last[s] \in Nat /\ q[s] \in Seq(Flits) /\ Sorted(q[s], last[s])
    BY <1>t, BoundaryType, NumberTypes DEF OrderInv
  <2>3. /\ Sorted(Tail(q[s]), last[s])
        /\ Precedes(Head(q[s]), Tail(q[s]), last[s])
        /\ \A g \in Nat : Precedes(g, q[s], last[s]) =>
              Precedes(g, Tail(q[s]), last[s]) /\ g < Head(q[s])
    BY <2>1, <2>2, SortedPop
  <2>4. \A m \in Streams : q'[m] = IF m = s THEN Tail(q[s]) ELSE q[m]
    BY <2>1, <1>t DEF TypeOK
  <2>5. SinkOrder(s)'
    <3>1. recv[s] \in Seq(Flits) /\ Head(q[s]) \in Flits /\ SinkOrder(s)
      BY <1>t, <2>1, <2>2, HeadTailProperties DEF TypeOK, OrderInv
    <3>2. /\ \A n \in 1 .. Len(recv[s]) : recv[s][n] \in Flits
          /\ Len(recv[s]) \in Nat
      BY <3>1, ElementOfSeq, LenProperties
    <3>3. /\ Len(Append(recv[s], Head(q[s]))) = Len(recv[s]) + 1
          /\ \A n \in 1 .. Len(recv[s]) : Append(recv[s], Head(q[s]))[n] = recv[s][n]
          /\ Append(recv[s], Head(q[s]))[Len(recv[s]) + 1] = Head(q[s])
      BY <3>1, AppendProperties
    <3>4. \A n \in 1 .. Len(recv[s]) : /\ recv[s][n] \in Nat /\ recv[s][n] < Head(q[s])
                                      /\ Precedes(recv[s][n], Tail(q[s]), last[s])
      BY <2>3, <3>1, <3>2, FlitsType DEF SinkOrder
    <3>5. Increasing(Append(recv[s], Head(q[s])))
      BY <3>1, <3>2, <3>3, <3>4 DEF Increasing, SinkOrder
    <3>6. \A n \in 1 .. Len(recv[s]) + 1 :
             Precedes(Append(recv[s], Head(q[s]))[n], Tail(q[s]), last[s])
      BY <2>3, <3>2, <3>3, <3>4
    <3>7. recv'[s] = Append(recv[s], Head(q[s])) /\ q'[s] = Tail(q[s]) /\ last' = last
      BY <1>t, <2>1, <2>2, <2>4 DEF TypeOK
    <3>8. QED
      BY <3>3, <3>5, <3>6, <3>7 DEF SinkOrder
  <2>6. ASSUME NEW m \in Sinks, m # s PROVE SinkOrder(m)'
    <3>1. q'[m] = q[m] /\ recv'[m] = recv[m] /\ last' = last /\ SinkOrder(m)
      BY <1>t, <2>1, <2>4, <2>6, BoundaryType DEF TypeOK, OrderInv
    <3>2. QED
      BY <3>1 DEF SinkOrder
  <2>7. ASSUME NEW j \in Kernels PROVE KernelOrder(j)'
    <3>1. InStream(j, 1) # s /\ InStream(j, 1) \in Streams
      BY LinearFacts
    <3>2. q'[InStream(j, 1)] = q[InStream(j, 1)] /\ Reg(j)' = Reg(j)
      BY <2>1, <2>4, <3>1 DEF Reg
    <3>3. QED
      BY <1>k, <2>1, <3>2, KernelFrame
  <2>8. \A m \in Streams : Sorted(q'[m], last'[m])
    BY <2>1, <2>3, <2>4 DEF OrderInv
  <2>9. ReadOK' /\ PendingOK'
    BY <2>1 DEF OrderInv, ReadOK, PendingOK
  <2>10. QED
    BY <2>1, <2>5, <2>6, <2>7, <2>8, <2>9 DEF OrderInv
<1>9. ASSUME UNCHANGED <<dataVars, kernelVars>> PROVE OrderInv'
  <2>1. ReadOK' /\ \A j \in Kernels : Reg(j)' = Reg(j)
    BY <1>9 DEF kernelVars, OrderInv, ReadOK, Reg
  <2>2. \A j \in Kernels : KernelOrder(j)'
    BY <1>9, <1>k, <2>1, KernelFrame DEF dataVars, kernelVars
  <2>3. \A m \in Sinks : SinkOrder(m)'
    BY <1>9 DEF OrderInv, SinkOrder, dataVars
  <2>4. QED
    BY <1>9, <2>1, <2>2, <2>3 DEF OrderInv, PendingOK, dataVars, kernelVars
<1>10. QED
  <2>1. CASE UNCHANGED vars
    BY <1>9, <2>1 DEF vars
  <2>2. CASE Stop
    BY <1>9, <2>2 DEF Stop
  <2>3. ASSUME NEW c \in Callers, NEW cmd \in Commands, Call(c, cmd) PROVE OrderInv'
    BY <1>9, <2>3 DEF Call
  <2>4. ASSUME NEW c \in Callers, Return(c) \/ TimeOut(c) PROVE OrderInv'
    BY <1>9, <2>4 DEF Return, TimeOut
  <2>5. QED
    BY <1>1, <1>2, <1>3, <1>4, <1>5, <1>6, <1>7, <1>8, <2>1, <2>2, <2>3, <2>4
       DEF Next, Kernel, Harness

LEMMA IncreasingConcat ==
  ASSUME NEW s \in Seq(Flits), NEW t \in Seq(Flits), Increasing(s), Increasing(t),
         \A m \in 1 .. Len(s), n \in 1 .. Len(t) : s[m] < t[n]
  PROVE  Increasing(s \o t)
<1> DEFINE a == Len(s)
           b == Len(t)
           u == s \o t
<1>1. a \in Nat /\ b \in Nat
  BY LenProperties
<1>2. /\ Len(u) = a + b
      /\ \A n \in 1 .. a + b : u[n] = IF n <= a THEN s[n] ELSE t[n - a]
  BY ConcatProperties
<1>3. /\ \A m, n \in 1 .. a : m < n => s[m] < s[n]
      /\ \A m, n \in 1 .. b : m < n => t[m] < t[n]
      /\ \A m \in 1 .. a, n \in 1 .. b : s[m] < t[n]
  BY DEF Increasing
<1> HIDE DEF a, b, u
<1>4. ASSUME NEW m \in 1 .. a + b, NEW n \in 1 .. a + b, m < n
      PROVE  u[m] < u[n]
  <2>1. CASE n <= a
    BY <1>1, <1>2, <1>3, <1>4, <2>1
  <2>2. CASE m <= a /\ n > a
    <3>1. m \in 1 .. a /\ n - a \in 1 .. b
      BY <1>1, <2>2
    <3>2. QED
      BY <1>1, <1>2, <1>3, <2>2, <3>1
  <2>3. CASE m > a /\ n > a
    <3>1. m - a \in 1 .. b /\ n - a \in 1 .. b /\ m - a < n - a
      BY <1>1, <1>4, <2>3
    <3>2. QED
      BY <1>1, <1>2, <1>3, <2>3, <3>1
  <2>4. QED
    BY <1>1, <1>4, <2>1, <2>2, <2>3
<1>5. QED
  BY <1>2, <1>4 DEF Increasing, u

\* What the harness has drained from a sink and what it has yet to drain.
LEMMA OrderedFromInv == TypeOK /\ OrderInv => Ordered
<1> SUFFICES ASSUME TypeOK, OrderInv PROVE Ordered
  OBVIOUS
<1>1. \A i \in Streams : Increasing(q[i])
  BY DEF OrderInv, Sorted
<1>2. ASSUME NEW i \in Sinks PROVE Increasing(recv[i] \o q[i])
  <2>1. recv[i] \in Seq(Flits) /\ q[i] \in Seq(Flits) /\ SinkOrder(i) /\ Increasing(q[i])
    BY <1>1, BoundaryType DEF TypeOK, OrderInv
  <2>2. \A m \in 1 .. Len(recv[i]), n \in 1 .. Len(q[i]) : recv[i][m] < q[i][n]
    BY <2>1 DEF SinkOrder, Precedes
  <2>3. QED
    BY <2>1, <2>2, IncreasingConcat DEF SinkOrder
<1>3. QED
  BY <1>1, <1>2 DEF Ordered

\* In every topology of single-input elements with all ports connected, at
\* any stream depths, no stream and no sink ever sees flits out of order or a
\* flit twice, although any of them may be missing.
THEOREM InOrder ==
  ASSUME Linear
  PROVE  Spec => []Ordered
<1>1. TypeInv /\ OrderInv => Ordered
  BY OrderedFromInv DEF TypeInv
<1>2. TypeInv /\ OrderInv /\ [Next]_vars => OrderInv'
  BY StepOrder
<1>3. QED
  BY InitTypeInv, StepTypeInv, InitOrder, <1>1, <1>2, PTL DEF Spec

(***************************************************************************)
(* No duplication.                                                         *)
(***************************************************************************)
StreamPlace(w, f) ==
  \E i \in Streams : \E n \in 1 .. Len(q[i]) : q[i][n] = f /\ w = <<"stream", i, n>>
SinkPlace(w, f) ==
  \E i \in Sinks : \E n \in 1 .. Len(recv[i]) : recv[i][n] = f /\ w = <<"sink", i, n>>
HeldPlace(w, f) ==
  \E k \in Kernels, p \in Ports : held[k][p] = f /\ w = <<"held", k, p>>
OutPlace(w, f) ==
  \E k \in Kernels, p \in Ports :
    /\ pc[k] = "write" /\ p \in todo[k] /\ out[k][p] = f
    /\ w = <<"out", k, p>>
RegPlace(w, f) ==
  \E k \in Kernels : Elem[k] = "StagingReg" /\ st[k].a = f /\ w = <<"reg", k, 0>>
LostPlace(w, f) ==
  \E i \in Streams : <<i, f>> \in lost /\ w = <<"lost", i, 0>>

\* A flit is in at most one place, and in none before it is injected.
Unique == \A f \in Flits : \A w, x \in Places(f) : w = x
Fresh  == \A f \in Flits : Places(f) # {} => f <= nxt

\* The forms a place has, in this state and the next.
LEMMA PlaceForms ==
  TypeOK => \A f, w : w \in Places(f) <=>
              \/ StreamPlace(w, f) \/ SinkPlace(w, f) \/ HeldPlace(w, f)
              \/ OutPlace(w, f) \/ RegPlace(w, f) \/ LostPlace(w, f)
<1> SUFFICES ASSUME TypeOK, NEW f, NEW w
             PROVE  w \in Places(f) <=>
                      \/ StreamPlace(w, f) \/ SinkPlace(w, f) \/ HeldPlace(w, f)
                      \/ OutPlace(w, f) \/ RegPlace(w, f) \/ LostPlace(w, f)
  OBVIOUS
<1>0. ASSUME NEW A, NEW B, NEW v \in A \X B
      PROVE  v = <<v[1], v[2]>> /\ v[1] \in A /\ v[2] \in B
  OBVIOUS
<1>1. w \in UNION {{<<"stream", i, n>> : n \in {m \in 1 .. Len(q[i]) : q[i][m] = f}}
                : i \in Streams} <=> StreamPlace(w, f)
  BY DEF StreamPlace
<1>2. w \in UNION {{<<"sink", i, n>> : n \in {m \in 1 .. Len(recv[i]) : recv[i][m] = f}}
                : i \in Sinks} <=> SinkPlace(w, f)
  BY DEF SinkPlace
<1>3. w \in {<<"held", v[1], v[2]>> :
          v \in {v \in Kernels \X Ports : held[v[1]][v[2]] = f}} <=> HeldPlace(w, f)
  <2>1. ASSUME HeldPlace(w, f)
        PROVE  \E v \in Kernels \X Ports :
                 held[v[1]][v[2]] = f /\ w = <<"held", v[1], v[2]>>
    <3>1. PICK k \in Kernels, p \in Ports : held[k][p] = f /\ w = <<"held", k, p>>
      BY <2>1 DEF HeldPlace
    <3>2. <<k, p>> \in Kernels \X Ports /\ <<k, p>>[1] = k /\ <<k, p>>[2] = p
      OBVIOUS
    <3>3. QED
      BY <3>1, <3>2
  <2>2. ASSUME NEW v \in Kernels \X Ports, held[v[1]][v[2]] = f, w = <<"held", v[1], v[2]>>
        PROVE  HeldPlace(w, f)
    BY <2>2, <1>0 DEF HeldPlace
  <2>3. QED
    BY <2>1, <2>2
<1>4. w \in {<<"out", v[1], v[2]>> :
          v \in {v \in Kernels \X Ports : pc[v[1]] = "write" /\ v[2] \in todo[v[1]]
                                        /\ out[v[1]][v[2]] = f}} <=> OutPlace(w, f)
  <2>1. ASSUME OutPlace(w, f)
        PROVE  \E v \in Kernels \X Ports :
                 /\ pc[v[1]] = "write" /\ v[2] \in todo[v[1]] /\ out[v[1]][v[2]] = f
                 /\ w = <<"out", v[1], v[2]>>
    <3>1. PICK k \in Kernels, p \in Ports :
            pc[k] = "write" /\ p \in todo[k] /\ out[k][p] = f /\ w = <<"out", k, p>>
      BY <2>1 DEF OutPlace
    <3>2. <<k, p>> \in Kernels \X Ports /\ <<k, p>>[1] = k /\ <<k, p>>[2] = p
      OBVIOUS
    <3>3. QED
      BY <3>1, <3>2
  <2>2. ASSUME NEW v \in Kernels \X Ports, pc[v[1]] = "write", v[2] \in todo[v[1]],
               out[v[1]][v[2]] = f, w = <<"out", v[1], v[2]>>
        PROVE  OutPlace(w, f)
    BY <2>2, <1>0 DEF OutPlace
  <2>3. QED
    BY <2>1, <2>2
<1>5. w \in {<<"reg", k, 0>> : k \in {j \in Kernels : Elem[j] = "StagingReg" /\ st[j].a = f}}
        <=> RegPlace(w, f)
  BY DEF RegPlace
<1>6. w \in {<<"lost", v[1], 0>> : v \in {v \in lost : v[2] = f}} <=> LostPlace(w, f)
  <2>1. ASSUME LostPlace(w, f)
        PROVE  \E v \in lost : v[2] = f /\ w = <<"lost", v[1], 0>>
    <3>1. PICK i \in Streams : <<i, f>> \in lost /\ w = <<"lost", i, 0>>
      BY <2>1 DEF LostPlace
    <3>2. <<i, f>>[1] = i /\ <<i, f>>[2] = f
      OBVIOUS
    <3>3. QED
      BY <3>1, <3>2
  <2>2. ASSUME NEW v \in lost, v[2] = f, w = <<"lost", v[1], 0>>
        PROVE  LostPlace(w, f)
    <3>1. v \in Streams \X Flits
      BY DEF TypeOK
    <3>2. v = <<v[1], f>> /\ v[1] \in Streams
      BY <2>2, <3>1, <1>0
    <3>3. QED
      BY <2>2, <3>2, Zenon DEF LostPlace
  <2>3. w \in {<<"lost", v[1], 0>> : v \in {v \in lost : v[2] = f}} <=>
          \E v \in lost : v[2] = f /\ w = <<"lost", v[1], 0>>
    OBVIOUS
  <2>4. QED
    BY <2>1, <2>2, <2>3, Zenon
<1>7. QED
  BY <1>1, <1>2, <1>3, <1>4, <1>5, <1>6, Zenon DEF Places

LEMMA PlaceFormsNext ==
  (TypeOK => \A f, w : w \in Places(f) <=>
               \/ StreamPlace(w, f) \/ SinkPlace(w, f) \/ HeldPlace(w, f)
               \/ OutPlace(w, f) \/ RegPlace(w, f) \/ LostPlace(w, f))'
  BY PlaceForms, PTL

\* What a handler of one output, or of two outputs of which it uses one, does
\* with the flits it holds: each is kept, dropped or emitted, never both, and
\* nothing else is emitted.  A StagingReg emits what it had registered.
Keeps(r, h) == \A p \in Ports : r.held[p] \in {NoFlit, h[p]}

Moves(kind, r, h, s, o, from) ==
  /\ \A p \in Ports : p # o => r.out[p] = NoFlit
  /\ r.held[from] = NoFlit \/ r.out[o] = NoFlit
  /\ kind # "StagingReg" => r.out[o] \in {NoFlit, h[from]}
  /\ kind = "StagingReg" =>
       /\ r.out[o] \in {NoFlit, s.a}
       /\ r.st.a = h[from] /\ r.held[from] = NoFlit

LEMMA HandlerMoves ==
  ASSUME NEW kind \in Kinds \ {"Tee"}, NEW h \in Held, NEW s \in StateOf(kind)
  PROVE  /\ Keeps(Handler(kind, h, s), h)
         /\ \E o, from \in Ports : Moves(kind, Handler(kind, h, s), h, s, o, from)
<1> DEFINE r == Handler(kind, h, s)
<1>a. 1 \in Ports /\ 2 \in Ports /\ Ports \subseteq Nat /\ NoFlit = 0
  BY PortsType, FlitsType
<1>b. ASSUME NEW p \in Ports
      PROVE  /\ \A u \in Ports : Take(h, p)[u] = IF u = p THEN NoFlit ELSE h[u]
             /\ \A f : \A u \in Ports : Emit(p, f)[u] = IF u = p THEN f ELSE NoFlit
             /\ Silent[p] = NoFlit
  BY DEF Held, Take, Emit, Silent
<1>1. CASE kind = "PassThrough"
  <2>1. Moves(kind, r, h, s, 1, 1) /\ Keeps(r, h)
    BY <1>1, <1>a, <1>b DEF Moves, Keeps, Handler, PassThrough
  <2>2. QED
    BY <1>a, <2>1
<1>2. CASE kind = "Pass"
  <2>1. Moves(kind, r, h, s, 1, 1) /\ Keeps(r, h)
    BY <1>2, <1>a, <1>b DEF Moves, Keeps, Handler, Pass
  <2>2. QED
    BY <1>a, <2>1
<1>3. CASE kind = "Demux2"
  <2>1. s.a \in Ports
    BY <1>3, <1>a DEF StateOf
  <2>2. Moves(kind, r, h, s, s.a, 1) /\ Keeps(r, h)
    BY <1>3, <1>a, <1>b, <2>1 DEF Moves, Keeps, Handler, Demux2
  <2>3. QED
    BY <1>a, <2>1, <2>2
<1>4. CASE kind = "Mux"
  <2> DEFINE p == (s.a % 8) + 1
  <2>1. r = Mux(h, s)
    BY <1>4 DEF Handler
  <2>2. CASE p \in Ports /\ h[p] # NoFlit
    <3>1. r.held = Take(h, p) /\ r.out = Emit(1, h[p])
      BY <2>1, <2>2 DEF Mux
    <3> HIDE DEF p, r
    <3>2. Moves(kind, r, h, s, 1, p) /\ Keeps(r, h)
      BY <1>4, <1>a, <1>b, <2>2, <3>1 DEF Moves, Keeps
    <3>3. QED
      BY <1>a, <2>2, <3>2 DEF r
  <2>3. CASE ~(p \in Ports /\ h[p] # NoFlit)
    <3>1. Moves(kind, r, h, s, 1, 1) /\ Keeps(r, h)
      BY <1>4, <1>a, <1>b, <2>1, <2>3 DEF Moves, Keeps, Mux
    <3>2. QED
      BY <1>a, <3>1
  <2>4. QED
    BY <2>2, <2>3
<1>5. CASE kind = "FlitMux"
  <2> DEFINE p == IF h[1] # NoFlit THEN 1 ELSE 2
  <2>1. p \in Ports
    BY <1>a
  <2>2. Moves(kind, r, h, s, 1, p) /\ Keeps(r, h)
    BY <1>5, <1>a, <1>b, <2>1 DEF Moves, Keeps, Handler, FlitMux
  <2>3. QED
    BY <1>a, <2>1, <2>2
<1>6. CASE kind = "FlitMux2RR"
  <2> DEFINE p == IF h[1] # NoFlit /\ (s.a = 0 \/ ~(h[2] # NoFlit)) THEN 1 ELSE 2
  <2>1. p \in Ports
    BY <1>a
  <2>2. Moves(kind, r, h, s, 1, p) /\ Keeps(r, h)
    BY <1>6, <1>a, <1>b, <2>1 DEF Moves, Keeps, Handler, FlitMux2RR
  <2>3. QED
    BY <1>a, <2>1, <2>2
<1>7. CASE kind = "StagingReg"
  <2>1. Moves(kind, r, h, s, 1, 1) /\ Keeps(r, h)
    BY <1>7, <1>a, <1>b DEF Moves, Keeps, Handler, StagingReg, StateOf
  <2>2. QED
    BY <1>a, <2>1
<1>8. CASE kind = "Counter"
  <2>1. Moves(kind, r, h, s, 1, 1) /\ Keeps(r, h)
    BY <1>8, <1>a, <1>b DEF Moves, Keeps, Handler, Counter
  <2>2. QED
    BY <1>a, <2>1
<1>9. QED
  BY <1>1, <1>2, <1>3, <1>4, <1>5, <1>6, <1>7, <1>8 DEF Kinds

\* A step that moves no flit.
LEMMA PlacesFrame ==
  ASSUME TypeOK, TypeOK', UNCHANGED <<q, recv, held, lost>>,
         \A k \in Kernels : pc'[k] = "write" =>
            pc[k] = "write" /\ todo'[k] = todo[k] /\ out'[k] = out[k],
         \A k \in Kernels : Elem[k] = "StagingReg" => st'[k].a = st[k].a
  PROVE  \A f : Places(f)' \subseteq Places(f)
<1> SUFFICES ASSUME NEW f, NEW w, w \in Places(f)'
             PROVE  w \in Places(f)
  OBVIOUS
<1>1. \/ StreamPlace(w, f)' \/ SinkPlace(w, f)' \/ HeldPlace(w, f)'
      \/ OutPlace(w, f)' \/ RegPlace(w, f)' \/ LostPlace(w, f)'
  BY PlaceFormsNext
<1>2. \/ StreamPlace(w, f) \/ SinkPlace(w, f) \/ HeldPlace(w, f)
      \/ OutPlace(w, f) \/ RegPlace(w, f) \/ LostPlace(w, f)
  <2>1. CASE StreamPlace(w, f)'
    BY <2>1 DEF StreamPlace
  <2>2. CASE SinkPlace(w, f)'
    BY <2>2 DEF SinkPlace
  <2>3. CASE HeldPlace(w, f)'
    BY <2>3 DEF HeldPlace
  <2>4. CASE OutPlace(w, f)'
    BY <2>4 DEF OutPlace
  <2>5. CASE RegPlace(w, f)'
    BY <2>5 DEF RegPlace
  <2>6. CASE LostPlace(w, f)'
    BY <2>6 DEF LostPlace
  <2>7. QED
    BY <1>1, <2>1, <2>2, <2>3, <2>4, <2>5, <2>6
<1>3. QED
  BY <1>2, PlaceForms

LEMMA PlaceTags ==
  \A w, f : /\ StreamPlace(w, f) => w[1] = "stream"
            /\ SinkPlace(w, f) => w[1] = "sink"
            /\ HeldPlace(w, f) => w[1] = "held"
            /\ OutPlace(w, f) => w[1] = "out"
            /\ RegPlace(w, f) => w[1] = "reg"
            /\ LostPlace(w, f) => w[1] = "lost"
<1> SUFFICES ASSUME NEW w, NEW f
             PROVE  /\ StreamPlace(w, f) => w[1] = "stream"
                    /\ SinkPlace(w, f) => w[1] = "sink"
                    /\ HeldPlace(w, f) => w[1] = "held"
                    /\ OutPlace(w, f) => w[1] = "out"
                    /\ RegPlace(w, f) => w[1] = "reg"
                    /\ LostPlace(w, f) => w[1] = "lost"
  OBVIOUS
<1>1. StreamPlace(w, f) => w[1] = "stream"
  BY DEF StreamPlace
<1>2. SinkPlace(w, f) => w[1] = "sink"
  BY DEF SinkPlace
<1>3. HeldPlace(w, f) => w[1] = "held"
  BY DEF HeldPlace
<1>4. OutPlace(w, f) => w[1] = "out"
  BY DEF OutPlace
<1>5. RegPlace(w, f) => w[1] = "reg"
  BY DEF RegPlace
<1>6. LostPlace(w, f) => w[1] = "lost"
  BY DEF LostPlace
<1>7. QED
  BY <1>1, <1>2, <1>3, <1>4, <1>5, <1>6

LEMMA PlaceTagsNext ==
  (\A w, f : /\ StreamPlace(w, f) => w[1] = "stream"
             /\ SinkPlace(w, f) => w[1] = "sink"
             /\ HeldPlace(w, f) => w[1] = "held"
             /\ OutPlace(w, f) => w[1] = "out"
             /\ RegPlace(w, f) => w[1] = "reg"
             /\ LostPlace(w, f) => w[1] = "lost")'
  BY PlaceTags, PTL

\* Every place is a triple whose last member is a number for queues.
LEMMA PlaceShape ==
  TypeOK => \A f : \A w \in Places(f) :
              /\ w = <<w[1], w[2], w[3]>>
              /\ w[1] \in {"stream", "sink"} => w[3] \in Nat \ {0}
              /\ w[1] = "lost" => w[3] = 0
<1> SUFFICES ASSUME TypeOK, NEW f, NEW w \in Places(f)
             PROVE  /\ w = <<w[1], w[2], w[3]>>
                    /\ w[1] \in {"stream", "sink"} => w[3] \in Nat \ {0}
                    /\ w[1] = "lost" => w[3] = 0
  OBVIOUS
<1>1. \/ StreamPlace(w, f) \/ SinkPlace(w, f) \/ HeldPlace(w, f)
      \/ OutPlace(w, f) \/ RegPlace(w, f) \/ LostPlace(w, f)
  BY PlaceForms
<1>2. CASE StreamPlace(w, f)
  BY <1>2 DEF StreamPlace
<1>3. CASE SinkPlace(w, f)
  BY <1>3 DEF SinkPlace
<1>4. CASE HeldPlace(w, f) \/ OutPlace(w, f) \/ RegPlace(w, f)
  BY <1>4 DEF HeldPlace, OutPlace, RegPlace
<1>5. CASE LostPlace(w, f)
  BY <1>5 DEF LostPlace
<1>6. QED
  BY <1>1, <1>2, <1>3, <1>4, <1>5

LEMMA PlaceShapeNext ==
  (TypeOK => \A f : \A w \in Places(f) :
              /\ w = <<w[1], w[2], w[3]>>
              /\ w[1] \in {"stream", "sink"} => w[3] \in Nat \ {0}
              /\ w[1] = "lost" => w[3] = 0)'
  BY PlaceShape, PTL

PlaceInv == Unique /\ Fresh

LEMMA PlacesShrink ==
  ASSUME PlaceInv, nxt' = nxt, \A f : Places(f)' \subseteq Places(f)
  PROVE  PlaceInv'
<1>1. Unique'
  BY DEF PlaceInv, Unique
<1>2. Fresh'
  BY DEF PlaceInv, Fresh
<1>3. QED
  BY <1>1, <1>2 DEF PlaceInv

\* What was at the head of stream i is now at port p of kernel k.
LEMMA ReadPlaces ==
  ASSUME TypeInv, TypeInv', PlaceInv, NEW k \in Kernels, ReadPort(k)
  PROVE  PlaceInv'
<1> DEFINE p == NextPort(k)
           i == InStream(k, p)
           G(w) == IF w = <<"held", k, p>> THEN <<"stream", i, 1>>
                   ELSE IF w[1] = "stream" /\ w[2] = i THEN <<"stream", i, w[3] + 1>>
                   ELSE w
<1>t. TypeOK /\ TypeOK'
  BY DEF TypeInv
<1>1. p \in Ports /\ i \in Streams
  BY <1>t, NextPortType, InStreamType DEF ReadPort
<1>2. /\ UNCHANGED <<nxt, recv, lost, out, st, pc>>
      /\ \A j \in Kernels : pc[j] = "write" => todo'[j] = todo[j]
  BY <1>t DEF ReadPort, TypeOK
<1>3. \/ UNCHANGED <<q, held>>
      \/ /\ q[i] # <<>>
         /\ held' = [held EXCEPT ![k][p] = Head(q[i])]
         /\ q' = [q EXCEPT ![i] = Tail(@)]
  BY DEF ReadPort
<1> HIDE DEF p, i
<1>4. CASE UNCHANGED <<q, held>>
  <2>1. \A f : Places(f)' \subseteq Places(f)
    BY <1>t, <1>2, <1>4, PlacesFrame
  <2>2. QED
    BY <1>2, <2>1, PlacesShrink
<1>5. CASE /\ q[i] # <<>>
           /\ held' = [held EXCEPT ![k][p] = Head(q[i])]
           /\ q' = [q EXCEPT ![i] = Tail(@)]
  <2>1. /\ q[i] \in Seq(Flits) /\ Len(q[i]) \in Nat \ {0} /\ Head(q[i]) = q[i][1]
        /\ Len(Tail(q[i])) = Len(q[i]) - 1
        /\ \A n \in 1 .. Len(q[i]) - 1 : Tail(q[i])[n] = q[i][n + 1]
    <3>1. q[i] \in Seq(Flits) /\ q[i] # <<>>
      BY <1>t, <1>1, <1>5 DEF TypeOK
    <3>2. QED
      BY <3>1, HeadTailProperties, EmptySeq
  <2>2. \A j \in Streams : q'[j] = IF j = i THEN Tail(q[i]) ELSE q[j]
    BY <1>t, <1>5 DEF TypeOK
  <2>3. \A j \in Kernels, u \in Ports :
          held'[j][u] = IF j = k /\ u = p THEN q[i][1] ELSE held[j][u]
    BY <1>t, <1>1, <1>5, <2>1 DEF TypeOK
  <2>4. ASSUME NEW f \in Flits, NEW w \in Places(f)'
        PROVE  G(w) \in Places(f)
    <3>1. \/ StreamPlace(w, f)' \/ SinkPlace(w, f)' \/ HeldPlace(w, f)'
          \/ OutPlace(w, f)' \/ RegPlace(w, f)' \/ LostPlace(w, f)'
      BY <1>t, <2>4, PlaceFormsNext
    <3>2. CASE StreamPlace(w, f)'
      <4>1. PICK j \in Streams : \E n \in 1 .. Len(q'[j]) : q'[j][n] = f /\ w = <<"stream", j, n>>
        BY <3>2 DEF StreamPlace
      <4>2. PICK n \in 1 .. Len(q'[j]) : q'[j][n] = f /\ w = <<"stream", j, n>>
        BY <4>1
      <4>3. CASE j = i
        <5>1. n \in 1 .. Len(q[i]) - 1 /\ Tail(q[i])[n] = f
          BY <2>1, <2>2, <4>2, <4>3
        <5>2. n + 1 \in 1 .. Len(q[i]) /\ q[i][n + 1] = f
          BY <2>1, <5>1
        <5>3. G(w) = <<"stream", i, n + 1>>
          BY <4>2, <4>3
        <5>4. StreamPlace(G(w), f)
          BY <1>1, <5>2, <5>3 DEF StreamPlace
        <5>5. QED
          BY <1>t, <5>4, PlaceForms
      <4>4. CASE j # i
        <5>1. G(w) = <<"stream", j, n>> /\ n \in 1 .. Len(q[j]) /\ q[j][n] = f
          BY <2>2, <4>2, <4>4
        <5>2. StreamPlace(G(w), f)
          BY <5>1 DEF StreamPlace
        <5>3. QED
          BY <1>t, <5>2, PlaceForms
      <4>5. QED
        BY <4>3, <4>4
    <3>3. CASE HeldPlace(w, f)'
      <4>1. PICK j \in Kernels, u \in Ports : held'[j][u] = f /\ w = <<"held", j, u>>
        BY <3>3 DEF HeldPlace
      <4>2. CASE j = k /\ u = p
        <5>1. G(w) = <<"stream", i, 1>> /\ q[i][1] = f /\ 1 \in 1 .. Len(q[i])
          BY <2>1, <2>3, <4>1, <4>2
        <5>2. StreamPlace(G(w), f)
          BY <1>1, <5>1 DEF StreamPlace
        <5>3. QED
          BY <1>t, <5>2, PlaceForms
      <4>3. CASE ~(j = k /\ u = p)
        <5>1. G(w) = w /\ held[j][u] = f
          BY <2>3, <4>1, <4>3
        <5>2. HeldPlace(G(w), f)
          BY <4>1, <5>1 DEF HeldPlace
        <5>3. QED
          BY <1>t, <5>2, PlaceForms
      <4>4. QED
        BY <4>2, <4>3
    <3>4. CASE SinkPlace(w, f)' \/ OutPlace(w, f)' \/ RegPlace(w, f)' \/ LostPlace(w, f)'
      <4>1. SinkPlace(w, f) \/ OutPlace(w, f) \/ RegPlace(w, f) \/ LostPlace(w, f)
        BY <1>2, <3>4 DEF SinkPlace, OutPlace, RegPlace, LostPlace
      <4>2. w[1] # "stream" /\ w[1] # "held"
        BY <4>1, PlaceTags
      <4>3. G(w) = w
        BY <4>2
      <4>4. QED
        BY <1>t, <4>1, <4>3, PlaceForms
    <3>5. QED
      BY <3>1, <3>2, <3>3, <3>4
  <2>5. ASSUME NEW f \in Flits, NEW w \in Places(f)', NEW x \in Places(f)'
        PROVE  w = x
    <3>1. G(w) = G(x)
      BY <2>4, <2>5 DEF PlaceInv, Unique
    <3>2. /\ w = <<w[1], w[2], w[3]>> /\ (w[1] = "stream" => w[3] \in Nat \ {0})
          /\ x = <<x[1], x[2], x[3]>> /\ (x[1] = "stream" => x[3] \in Nat \ {0})
      BY <1>t, <2>5, PlaceShapeNext
    <3>3. QED
      BY <3>1, <3>2
  <2>6. ASSUME NEW f \in Flits, NEW w \in Places(f)'
        PROVE  f <= nxt'
    <3>1. G(w) \in Places(f)
      BY <2>4, <2>6
    <3>2. Places(f) # {}
      BY <3>1
    <3>3. QED
      BY <1>2, <3>2 DEF PlaceInv, Fresh
  <2>7. QED
    BY <2>5, <2>6 DEF PlaceInv, Unique, Fresh
<1>6. QED
  BY <1>3, <1>4, <1>5

\* What was at the head of stream i is now the last the sink has drained.
LEMMA DrainPlaces ==
  ASSUME TypeInv, TypeInv', PlaceInv, NEW i \in Sinks, Drain(i)
  PROVE  PlaceInv'
<1> DEFINE e == Len(recv[i]) + 1
           G(w) == IF w = <<"sink", i, e>> THEN <<"stream", i, 1>>
                   ELSE IF w[1] = "stream" /\ w[2] = i THEN <<"stream", i, w[3] + 1>>
                   ELSE w
<1>t. TypeOK /\ TypeOK' /\ i \in Streams
  BY BoundaryType DEF TypeInv
<1>1. /\ q[i] # <<>>
      /\ recv' = [recv EXCEPT ![i] = Append(@, Head(q[i]))]
      /\ q' = [q EXCEPT ![i] = Tail(@)]
      /\ UNCHANGED <<nxt, lost, pc, todo, held, out, st>>
  BY DEF Drain, kernelVars
<1>2. /\ q[i] \in Seq(Flits) /\ Len(q[i]) \in Nat \ {0} /\ Head(q[i]) = q[i][1]
      /\ Len(Tail(q[i])) = Len(q[i]) - 1
      /\ \A n \in 1 .. Len(q[i]) - 1 : Tail(q[i])[n] = q[i][n + 1]
  <2>1. q[i] \in Seq(Flits) /\ q[i] # <<>>
    BY <1>t, <1>1 DEF TypeOK
  <2>2. QED
    BY <2>1, HeadTailProperties, EmptySeq
<1>3. /\ e \in Nat \ {0}
      /\ Len(Append(recv[i], Head(q[i]))) = e
      /\ \A n \in 1 .. e : Append(recv[i], Head(q[i]))[n] =
                             IF n = e THEN q[i][1] ELSE recv[i][n]
  <2>1. recv[i] \in Seq(Flits) /\ Head(q[i]) \in Flits /\ Len(recv[i]) \in Nat
    BY <1>t, <1>1, <1>2, HeadTailProperties, LenProperties DEF TypeOK
  <2>2. QED
    BY <1>2, <2>1, AppendProperties
<1>4. \A j \in Streams : q'[j] = IF j = i THEN Tail(q[i]) ELSE q[j]
  BY <1>t, <1>1 DEF TypeOK
<1>5. \A j \in Sinks : recv'[j] = IF j = i THEN Append(recv[i], Head(q[i])) ELSE recv[j]
  BY <1>t, <1>1 DEF TypeOK
<1> HIDE DEF e
<1>6. ASSUME NEW f \in Flits, NEW w \in Places(f)'
      PROVE  G(w) \in Places(f)
  <2>1. \/ StreamPlace(w, f)' \/ SinkPlace(w, f)' \/ HeldPlace(w, f)'
        \/ OutPlace(w, f)' \/ RegPlace(w, f)' \/ LostPlace(w, f)'
    BY <1>t, <1>6, PlaceFormsNext
  <2>2. CASE StreamPlace(w, f)'
    <3>1. PICK j \in Streams : \E n \in 1 .. Len(q'[j]) : q'[j][n] = f /\ w = <<"stream", j, n>>
      BY <2>2 DEF StreamPlace
    <3>2. PICK n \in 1 .. Len(q'[j]) : q'[j][n] = f /\ w = <<"stream", j, n>>
      BY <3>1
    <3>3. CASE j = i
      <4>1. n \in 1 .. Len(q[i]) - 1 /\ Tail(q[i])[n] = f
        BY <1>2, <1>4, <3>2, <3>3
      <4>2. n + 1 \in 1 .. Len(q[i]) /\ q[i][n + 1] = f
        BY <1>2, <4>1
      <4>3. G(w) = <<"stream", i, n + 1>>
        BY <3>2, <3>3
      <4>4. StreamPlace(G(w), f)
        BY <1>t, <4>2, <4>3 DEF StreamPlace
      <4>5. QED
        BY <1>t, <4>4, PlaceForms
    <3>4. CASE j # i
      <4>1. G(w) = <<"stream", j, n>> /\ n \in 1 .. Len(q[j]) /\ q[j][n] = f
        BY <1>4, <3>2, <3>4
      <4>2. StreamPlace(G(w), f)
        BY <4>1 DEF StreamPlace
      <4>3. QED
        BY <1>t, <4>2, PlaceForms
    <3>5. QED
      BY <3>3, <3>4
  <2>3. CASE SinkPlace(w, f)'
    <3>1. PICK j \in Sinks : \E n \in 1 .. Len(recv'[j]) : recv'[j][n] = f /\ w = <<"sink", j, n>>
      BY <2>3 DEF SinkPlace
    <3>2. PICK n \in 1 .. Len(recv'[j]) : recv'[j][n] = f /\ w = <<"sink", j, n>>
      BY <3>1
    <3>3. CASE j = i /\ n = e
      <4>1. G(w) = <<"stream", i, 1>>
        BY <3>2, <3>3
      <4>2. q[i][1] = f /\ 1 \in 1 .. Len(q[i])
        <5>1. e \in 1 .. e
          BY <1>3
        <5>2. q[i][1] = f
          BY <1>3, <1>5, <3>2, <3>3, <5>1
        <5>3. QED
          BY <1>2, <5>2
      <4>3. StreamPlace(G(w), f)
        BY <1>t, <4>1, <4>2 DEF StreamPlace
      <4>4. QED
        BY <1>t, <4>3, PlaceForms
    <3>4. CASE ~(j = i /\ n = e)
      <4>1. G(w) = w
        BY <3>2, <3>4
      <4>2. n \in 1 .. Len(recv[j]) /\ recv[j][n] = f
        <5>1. CASE j = i
          <6>1. n \in 1 .. e /\ n # e /\ f = recv[i][n]
            BY <1>3, <1>5, <3>2, <3>4, <5>1
          <6>2. n \in 1 .. Len(recv[i])
            BY <1>3, <6>1 DEF e
          <6>3. QED
            BY <5>1, <6>1, <6>2
        <5>2. CASE j # i
          BY <1>5, <3>2, <5>2
        <5>3. QED
          BY <5>1, <5>2
      <4>3. SinkPlace(G(w), f)
        BY <3>2, <4>1, <4>2 DEF SinkPlace
      <4>4. QED
        BY <1>t, <4>3, PlaceForms
    <3>5. QED
      BY <3>3, <3>4
  <2>4. CASE HeldPlace(w, f)' \/ OutPlace(w, f)' \/ RegPlace(w, f)' \/ LostPlace(w, f)'
    <3>1. HeldPlace(w, f) \/ OutPlace(w, f) \/ RegPlace(w, f) \/ LostPlace(w, f)
      BY <1>1, <2>4 DEF HeldPlace, OutPlace, RegPlace, LostPlace
    <3>2. w[1] # "stream" /\ w[1] # "sink"
      BY <3>1, PlaceTags
    <3>3. G(w) = w
      BY <3>2
    <3>4. QED
      BY <1>t, <3>1, <3>3, PlaceForms
  <2>5. QED
    BY <2>1, <2>2, <2>3, <2>4
<1>7. ASSUME NEW f \in Flits, NEW w \in Places(f)', NEW x \in Places(f)'
      PROVE  w = x
  <2>1. G(w) = G(x)
    BY <1>6, <1>7 DEF PlaceInv, Unique
  <2>2. /\ w = <<w[1], w[2], w[3]>> /\ (w[1] = "stream" => w[3] \in Nat \ {0})
        /\ x = <<x[1], x[2], x[3]>> /\ (x[1] = "stream" => x[3] \in Nat \ {0})
    BY <1>t, <1>7, PlaceShapeNext
  <2>3. QED
    BY <2>1, <2>2
<1>8. ASSUME NEW f \in Flits, NEW w \in Places(f)'
      PROVE  f <= nxt'
  <2>1. Places(f) # {}
    BY <1>6, <1>8
  <2>2. QED
    BY <1>1, <2>1 DEF PlaceInv, Fresh
<1>9. QED
  BY <1>7, <1>8 DEF PlaceInv, Unique, Fresh

\* What was at output port p of kernel k is now the last of its stream, or
\* lost.
LEMMA WritePlaces ==
  ASSUME TypeInv, TypeInv', PlaceInv, NEW k \in Kernels, WritePort(k)
  PROVE  PlaceInv'
<1> DEFINE p == NextPort(k)
           s == OutStream(k, p)
           d == out[k][p]
           e == Len(q[s]) + 1
           new == IF q' = q THEN <<"lost", s, 0>> ELSE <<"stream", s, e>>
           G(f, w) == IF w = new /\ f = d THEN <<"out", k, p>> ELSE w
<1>t. TypeOK /\ TypeOK' /\ WriteOK
  BY DEF TypeInv
<1>1. pc[k] = "write" /\ todo[k] # {}
  BY <1>t DEF WritePort, WriteOK
<1>2. p \in todo[k] /\ p \in Ports /\ s \in Streams /\ d \in Flits
  BY <1>t, <1>1, NextPortType, OutStreamType DEF WriteOK
<1>3. /\ UNCHANGED <<nxt, recv, held, out, st>>
      /\ todo' = [todo EXCEPT ![k] = @ \ {p}]
      /\ pc' = [pc EXCEPT ![k] = IF todo[k] = {p} THEN "top" ELSE "write"]
  BY DEF WritePort
<1>4. \/ q' = [q EXCEPT ![s] = Append(@, d)] /\ UNCHANGED lost
      \/ lost' = lost \cup {<<s, d>>} /\ UNCHANGED q
  BY DEF WritePort
<1>5. /\ e \in Nat \ {0}
      /\ Len(Append(q[s], d)) = e
      /\ \A n \in 1 .. e : Append(q[s], d)[n] = IF n = e THEN d ELSE q[s][n]
  <2>1. q[s] \in Seq(Flits) /\ Len(q[s]) \in Nat
    BY <1>t, <1>2, LenProperties DEF TypeOK
  <2> HIDE DEF d, s
  <2>2. QED
    BY <1>2, <2>1, AppendProperties
<1>6. OutPlace(<<"out", k, p>>, d)
  BY <1>1, <1>2 DEF OutPlace
<1> HIDE DEF p, s, d
<1>7. \/ /\ q' = [q EXCEPT ![s] = Append(@, d)] /\ UNCHANGED lost
         /\ new = <<"stream", s, e>>
      \/ /\ lost' = lost \cup {<<s, d>>} /\ UNCHANGED q
         /\ new = <<"lost", s, 0>>
  <2>1. ASSUME q' = [q EXCEPT ![s] = Append(@, d)] PROVE q' # q
    <3>1. q'[s] = Append(q[s], d)
      BY <1>t, <1>2, <2>1 DEF TypeOK
    <3>2. Len(q'[s]) # Len(q[s])
      BY <1>5, <3>1
    <3>3. QED
      BY <3>2
  <2>2. QED
    BY <1>4, <2>1
<1> HIDE DEF e, new
<1>8. ASSUME NEW f \in Flits, NEW w \in Places(f)'
      PROVE  G(f, w) \in Places(f) /\ w # <<"out", k, p>>
  <2>1. \/ StreamPlace(w, f)' \/ SinkPlace(w, f)' \/ HeldPlace(w, f)'
        \/ OutPlace(w, f)' \/ RegPlace(w, f)' \/ LostPlace(w, f)'
    BY <1>t, <1>8, PlaceFormsNext
  <2>2. CASE StreamPlace(w, f)'
    <3>1. PICK j \in Streams : \E n \in 1 .. Len(q'[j]) : q'[j][n] = f /\ w = <<"stream", j, n>>
      BY <2>2 DEF StreamPlace
    <3>2. PICK n \in 1 .. Len(q'[j]) : q'[j][n] = f /\ w = <<"stream", j, n>>
      BY <3>1
    <3>3. w # <<"out", k, p>>
      BY <3>2
    <3>4. \/ n \in 1 .. Len(q[j]) /\ q[j][n] = f /\ w # new
          \/ f = d /\ w = new
      <4>1. CASE UNCHANGED q /\ new = <<"lost", s, 0>>
        BY <3>2, <4>1
      <4>2. CASE /\ q' = [q EXCEPT ![s] = Append(@, d)]
                 /\ new = <<"stream", s, e>>
        <5>1. q'[j] = IF j = s THEN Append(q[s], d) ELSE q[j]
          BY <1>t, <1>2, <4>2 DEF TypeOK
        <5>2. CASE j = s
          <6>1. n \in 1 .. e /\ f = IF n = e THEN d ELSE q[s][n]
            BY <1>5, <3>2, <5>1, <5>2
          <6>2. n # e => n \in 1 .. Len(q[s])
            BY <1>5, <6>1 DEF e
          <6>3. QED
            BY <3>2, <4>2, <5>2, <6>1, <6>2
        <5>3. CASE j # s
          BY <3>2, <4>2, <5>1, <5>3
        <5>4. QED
          BY <5>2, <5>3
      <4>3. QED
        BY <1>7, <4>1, <4>2
    <3>5. CASE f = d /\ w = new
      BY <1>t, <1>6, <3>3, <3>5, PlaceForms
    <3>6. CASE n \in 1 .. Len(q[j]) /\ q[j][n] = f /\ w # new
      <4>1. G(f, w) = w /\ StreamPlace(w, f)
        BY <3>2, <3>6 DEF StreamPlace
      <4>2. QED
        BY <1>t, <3>3, <4>1, PlaceForms
    <3>7. QED
      BY <3>4, <3>5, <3>6
  <2>3. CASE LostPlace(w, f)'
    <3>1. PICK j \in Streams : <<j, f>> \in lost' /\ w = <<"lost", j, 0>>
      BY <2>3 DEF LostPlace
    <3>2. w # <<"out", k, p>>
      BY <3>1
    <3>3. <<j, f>> \in lost \/ (f = d /\ w = new)
      <4>1. <<j, f>> \in lost \/ (<<j, f>> = <<s, d>> /\ new = <<"lost", s, 0>>)
        BY <1>7, <3>1, Zenon
      <4>2. <<j, f>> = <<s, d>> => j = s /\ f = d
        OBVIOUS
      <4>3. QED
        BY <3>1, <4>1, <4>2, Zenon
    <3>4. CASE f = d /\ w = new
      BY <1>t, <1>6, <3>2, <3>4, PlaceForms
    <3>5. CASE <<j, f>> \in lost /\ ~(f = d /\ w = new)
      <4>1. G(f, w) = w
        BY <3>5
      <4>2. LostPlace(w, f)
        BY <3>1, <3>5, Zenon DEF LostPlace
      <4>3. QED
        BY <1>t, <3>2, <4>1, <4>2, PlaceForms
    <3>6. QED
      BY <3>3, <3>4, <3>5
  <2>4. CASE OutPlace(w, f)'
    <3>1. PICK j \in Kernels, u \in Ports :
             pc'[j] = "write" /\ u \in todo'[j] /\ out'[j][u] = f /\ w = <<"out", j, u>>
      BY <2>4 DEF OutPlace
    <3>2. pc[j] = "write" /\ u \in todo[j] /\ out[j][u] = f /\ ~(j = k /\ u = p)
      BY <1>t, <1>1, <1>3, <3>1 DEF TypeOK
    <3>3. w # <<"out", k, p>> /\ w[1] = "out"
      BY <3>1, <3>2
    <3>4. G(f, w) = w
      BY <1>7, <3>3
    <3>5. OutPlace(w, f)
      BY <3>1, <3>2 DEF OutPlace
    <3>6. QED
      BY <1>t, <3>3, <3>4, <3>5, PlaceForms
  <2>5. CASE SinkPlace(w, f)' \/ HeldPlace(w, f)' \/ RegPlace(w, f)'
    <3>1. SinkPlace(w, f) \/ HeldPlace(w, f) \/ RegPlace(w, f)
      BY <1>3, <2>5 DEF SinkPlace, HeldPlace, RegPlace
    <3>2. w[1] # "stream" /\ w[1] # "lost" /\ w[1] # "out"
      BY <3>1, PlaceTags
    <3>3. G(f, w) = w /\ w # <<"out", k, p>>
      BY <1>7, <3>2
    <3>4. QED
      BY <1>t, <3>1, <3>3, PlaceForms
  <2>6. QED
    BY <2>1, <2>2, <2>3, <2>4, <2>5
<1>9. ASSUME NEW f \in Flits, NEW w \in Places(f)', NEW x \in Places(f)'
      PROVE  w = x
  <2>1. G(f, w) = G(f, x)
    BY <1>8, <1>9 DEF PlaceInv, Unique
  <2>2. w # <<"out", k, p>> /\ x # <<"out", k, p>>
    BY <1>8, <1>9
  <2>3. QED
    BY <2>1, <2>2
<1>10. ASSUME NEW f \in Flits, NEW w \in Places(f)'
       PROVE  f <= nxt'
  <2>1. Places(f) # {}
    BY <1>8, <1>10
  <2>2. QED
    BY <1>3, <2>1 DEF PlaceInv, Fresh
<1>11. QED
  BY <1>9, <1>10 DEF PlaceInv, Unique, Fresh

\* A handler run moves flits between the input ports, the register and the
\* output ports of its kernel.
LEMMA HandlerPlaces ==
  ASSUME TypeInv, TypeInv', PlaceInv, NEW k \in Kernels, RunHandler(k),
         Elem[k] # "Tee"
  PROVE  PlaceInv'
<1> DEFINE r == Handler(Elem[k], held[k], st[k])
           todoNow == {p \in OutPorts(k) : r.out[p] # NoFlit}
<1>t. TypeOK /\ TypeOK'
  BY DEF TypeInv
<1>1. Elem[k] \in Kinds \ {"Tee"} /\ held[k] \in Held /\ st[k] \in StateOf(Elem[k])
  BY <1>t, SwEmuAssumption DEF TypeOK, Held
<1>2. Keeps(r, held[k])
  BY <1>1, HandlerMoves
<1>3. PICK o \in Ports, from \in Ports : Moves(Elem[k], r, held[k], st[k], o, from)
  BY <1>1, HandlerMoves
<1>4. /\ pc[k] = "read"
      /\ UNCHANGED <<q, recv, nxt, lost>>
      /\ held' = [held EXCEPT ![k] = r.held]
      /\ out' = [out EXCEPT ![k] = r.out]
      /\ st' = [st EXCEPT ![k] = r.st]
      /\ todo' = [todo EXCEPT ![k] = todoNow]
      /\ pc' = [pc EXCEPT ![k] = IF todoNow = {} THEN "top" ELSE "write"]
  BY DEF RunHandler, dataVars
<1>5. todoNow \subseteq {o}
  BY <1>3 DEF Moves, OutPorts
<1> HIDE DEF r, todoNow
<1>6. /\ \A j \in Kernels : held'[j] = IF j = k THEN r.held ELSE held[j]
      /\ \A j \in Kernels : out'[j] = IF j = k THEN r.out ELSE out[j]
      /\ \A j \in Kernels : st'[j] = IF j = k THEN r.st ELSE st[j]
      /\ \A j \in Kernels : todo'[j] = IF j = k THEN todoNow ELSE todo[j]
      /\ \A j \in Kernels : j # k => pc'[j] = pc[j]
  BY <1>t, <1>4 DEF TypeOK
<1> DEFINE emitted == <<"out", k, o>>
           reg     == <<"reg", k, 0>>
           source  == <<"held", k, from>>
           G(w) == IF w = emitted
                   THEN IF Elem[k] = "StagingReg" THEN reg ELSE source
                   ELSE IF w = reg THEN source ELSE w
<1>7. emitted # reg /\ emitted # source /\ reg # source
  OBVIOUS
<1>8. \A f \in Flits : f # NoFlit
  BY FlitsType
<1>9. ASSUME NEW f \in Flits, NEW w \in Places(f)'
      PROVE  G(w) \in Places(f)
  <2>1. \/ StreamPlace(w, f)' \/ SinkPlace(w, f)' \/ HeldPlace(w, f)'
        \/ OutPlace(w, f)' \/ RegPlace(w, f)' \/ LostPlace(w, f)'
    BY <1>t, <1>9, PlaceFormsNext
  <2>2. CASE StreamPlace(w, f)' \/ SinkPlace(w, f)' \/ LostPlace(w, f)'
    <3>1. StreamPlace(w, f) \/ SinkPlace(w, f) \/ LostPlace(w, f)
      BY <1>4, <2>2 DEF StreamPlace, SinkPlace, LostPlace
    <3>2. w[1] # "out" /\ w[1] # "reg"
      BY <3>1, PlaceTags
    <3>3. G(w) = w
      BY <3>2
    <3>4. QED
      BY <1>t, <3>1, <3>3, PlaceForms
  <2>3. CASE HeldPlace(w, f)'
    <3>1. PICK j \in Kernels, u \in Ports : held'[j][u] = f /\ w = <<"held", j, u>>
      BY <2>3 DEF HeldPlace
    <3>2. held[j][u] = f
      BY <1>2, <1>6, <1>8, <3>1 DEF Keeps
    <3>3. HeldPlace(w, f) /\ G(w) = w
      BY <3>1, <3>2 DEF HeldPlace
    <3>4. QED
      BY <1>t, <3>3, PlaceForms
  <2>4. CASE OutPlace(w, f)'
    <3>1. PICK j \in Kernels, u \in Ports :
            pc'[j] = "write" /\ u \in todo'[j] /\ out'[j][u] = f /\ w = <<"out", j, u>>
      BY <2>4 DEF OutPlace
    <3>2. CASE j # k
      <4>1. OutPlace(w, f) /\ G(w) = w
        BY <1>6, <3>1, <3>2 DEF OutPlace
      <4>2. QED
        BY <1>t, <4>1, PlaceForms
    <3>3. CASE j = k
      <4>1. u = o /\ w = emitted /\ r.out[o] = f
        BY <1>5, <1>6, <3>1, <3>3
      <4>2. CASE Elem[k] = "StagingReg"
        <5>1. st[k].a = f /\ G(w) = reg
          BY <1>3, <1>8, <4>1, <4>2 DEF Moves
        <5>2. RegPlace(reg, f)
          BY <4>2, <5>1 DEF RegPlace
        <5>3. QED
          BY <1>t, <5>1, <5>2, PlaceForms
      <4>3. CASE Elem[k] # "StagingReg"
        <5>1. held[k][from] = f /\ G(w) = source
          BY <1>3, <1>8, <4>1, <4>3 DEF Moves
        <5>2. HeldPlace(source, f)
          BY <5>1 DEF HeldPlace
        <5>3. QED
          BY <1>t, <5>1, <5>2, PlaceForms
      <4>4. QED
        BY <4>2, <4>3
    <3>4. QED
      BY <3>2, <3>3
  <2>5. CASE RegPlace(w, f)'
    <3>1. PICK j \in Kernels : Elem[j] = "StagingReg" /\ st'[j].a = f /\ w = <<"reg", j, 0>>
      BY <2>5 DEF RegPlace
    <3>2. CASE j # k
      <4>1. RegPlace(w, f) /\ G(w) = w
        BY <1>6, <3>1, <3>2 DEF RegPlace
      <4>2. QED
        BY <1>t, <4>1, PlaceForms
    <3>3. CASE j = k
      <4>1. held[k][from] = f /\ G(w) = source
        BY <1>3, <1>6, <1>7, <3>1, <3>3 DEF Moves
      <4>2. HeldPlace(source, f)
        BY <4>1 DEF HeldPlace
      <4>3. QED
        BY <1>t, <4>1, <4>2, PlaceForms
    <3>4. QED
      BY <3>2, <3>3
  <2>6. QED
    BY <2>1, <2>2, <2>3, <2>4, <2>5
<1>10. ASSUME NEW f \in Flits
       PROVE  /\ emitted \in Places(f)' \/ Elem[k] = "StagingReg" => source \notin Places(f)'
              /\ Elem[k] # "StagingReg" => reg \notin Places(f)'
  <2>1. source \in Places(f)' => HeldPlace(source, f)'
    BY <1>t, PlaceFormsNext, PlaceTags, PlaceTagsNext
  <2>2. source \in Places(f)' => r.held[from] = f
    BY <1>6, <2>1 DEF HeldPlace
  <2>3. emitted \in Places(f)' => OutPlace(emitted, f)'
    BY <1>t, PlaceFormsNext, PlaceTagsNext
  <2>4. emitted \in Places(f)' => r.out[o] = f
    BY <1>6, <2>3 DEF OutPlace
  <2>5. reg \in Places(f)' => RegPlace(reg, f)'
    BY <1>t, PlaceFormsNext, PlaceTagsNext
  <2>6. reg \in Places(f)' => Elem[k] = "StagingReg"
    BY <2>5 DEF RegPlace
  <2>7. QED
    BY <1>3, <1>8, <2>2, <2>4, <2>6 DEF Moves
<1> HIDE DEF emitted, reg, source
<1>11. ASSUME NEW f \in Flits, NEW w \in Places(f)', NEW x \in Places(f)'
       PROVE  w = x
  <2>1. G(w) = G(x)
    BY <1>9, <1>11 DEF PlaceInv, Unique
  <2>2. QED
    BY <1>7, <1>10, <1>11, <2>1
<1>12. ASSUME NEW f \in Flits, NEW w \in Places(f)'
       PROVE  f <= nxt'
  <2>1. Places(f) # {}
    BY <1>9, <1>12
  <2>2. QED
    BY <1>4, <2>1 DEF PlaceInv, Fresh
<1>13. QED
  BY <1>11, <1>12 DEF PlaceInv, Unique, Fresh

\* The flit that is injected was in no place before.
LEMMA InjectPlaces ==
  ASSUME TypeInv, TypeInv', PlaceInv, NEW s \in Sources, Inject(s)
  PROVE  PlaceInv'
<1> DEFINE e   == Len(q[s]) + 1
           new == <<"stream", s, e>>
<1>t. TypeOK /\ TypeOK' /\ s \in Streams /\ nxt \in Nat /\ nxt' = nxt + 1
  BY BoundaryType, ElementsAssumption DEF TypeInv, Inject, TypeOK
<1>1. /\ q' = [q EXCEPT ![s] = Append(@, nxt + 1)]
      /\ UNCHANGED <<recv, lost, pc, todo, held, out, st>>
      /\ nxt + 1 \in Flits
  BY <1>t, ElementsAssumption DEF Inject, kernelVars, TypeOK, Flits
<1>2. /\ e \in Nat \ {0}
      /\ Len(Append(q[s], nxt + 1)) = e
      /\ \A n \in 1 .. e : Append(q[s], nxt + 1)[n] = IF n = e THEN nxt + 1 ELSE q[s][n]
  <2>1. q[s] \in Seq(Flits) /\ Len(q[s]) \in Nat
    BY <1>t, LenProperties DEF TypeOK
  <2>2. QED
    BY <1>1, <2>1, AppendProperties
<1>3. \A j \in Streams : q'[j] = IF j = s THEN Append(q[s], nxt + 1) ELSE q[j]
  BY <1>t, <1>1 DEF TypeOK
<1>4. ASSUME NEW f \in Flits, NEW w \in Places(f)'
      PROVE  w \in Places(f) \/ (f = nxt + 1 /\ w = new)
  <2>1. \/ StreamPlace(w, f)' \/ SinkPlace(w, f)' \/ HeldPlace(w, f)'
        \/ OutPlace(w, f)' \/ RegPlace(w, f)' \/ LostPlace(w, f)'
    BY <1>t, <1>4, PlaceFormsNext
  <2>2. CASE StreamPlace(w, f)'
    <3>1. PICK j \in Streams : \E n \in 1 .. Len(q'[j]) : q'[j][n] = f /\ w = <<"stream", j, n>>
      BY <2>2 DEF StreamPlace
    <3>2. PICK n \in 1 .. Len(q'[j]) : q'[j][n] = f /\ w = <<"stream", j, n>>
      BY <3>1
    <3>3. CASE j = s
      <4>1. n \in 1 .. e /\ f = IF n = e THEN nxt + 1 ELSE q[s][n]
        <5> HIDE DEF e
        <5> QED BY <1>2, <1>3, <3>2, <3>3
      <4>2. n # e => n \in 1 .. Len(q[s])
        BY <1>2, <4>1
      <4>3. n # e => StreamPlace(w, f)
        BY <3>2, <3>3, <4>1, <4>2 DEF StreamPlace
      <4>4. QED
        BY <1>t, <3>2, <3>3, <4>1, <4>3, PlaceForms
    <3>4. CASE j # s
      <4>1. StreamPlace(w, f)
        BY <1>3, <3>2, <3>4 DEF StreamPlace
      <4>2. QED
        BY <1>t, <4>1, PlaceForms
    <3>5. QED
      BY <3>3, <3>4
  <2>3. CASE SinkPlace(w, f)' \/ HeldPlace(w, f)' \/ OutPlace(w, f)' \/ RegPlace(w, f)'
             \/ LostPlace(w, f)'
    <3>1. SinkPlace(w, f) \/ HeldPlace(w, f) \/ OutPlace(w, f) \/ RegPlace(w, f)
          \/ LostPlace(w, f)
      BY <1>1, <2>3 DEF SinkPlace, HeldPlace, OutPlace, RegPlace, LostPlace
    <3>2. QED
      BY <1>t, <3>1, PlaceForms
  <2>4. QED
    BY <2>1, <2>2, <2>3
<1> HIDE DEF new, e
<1>5. Places(nxt + 1) = {}
  BY <1>t, <1>1 DEF PlaceInv, Fresh
<1>6. Unique'
  BY <1>4, <1>5 DEF PlaceInv, Unique
<1>7. ASSUME NEW f \in Flits, NEW w \in Places(f)'
      PROVE  f <= nxt'
  <2>1. Places(f) # {} \/ f = nxt + 1
    BY <1>4, <1>7
  <2>2. f \in Nat
    BY FlitsType
  <2>3. QED
    BY <1>t, <2>1, <2>2 DEF PlaceInv, Fresh
<1>8. QED
  BY <1>6, <1>7 DEF PlaceInv, Fresh

LEMMA InitPlaces == Init => PlaceInv
<1> SUFFICES ASSUME Init, NEW f \in Flits PROVE Places(f) = {}
  BY DEF PlaceInv, Unique, Fresh
<1>1. TypeOK /\ f # NoFlit /\ NoFlit = 0
  BY InitTypeInv, FlitsType DEF TypeInv
<1>2. SUFFICES ASSUME NEW w, w \in Places(f) PROVE FALSE
  OBVIOUS
<1>3. ~StreamPlace(w, f) /\ ~SinkPlace(w, f)
  BY DEF Init, StreamPlace, SinkPlace
<1>4. ~HeldPlace(w, f) /\ ~OutPlace(w, f)
  BY <1>1 DEF Init, HeldPlace, OutPlace, Silent
<1>5. ~RegPlace(w, f) /\ ~LostPlace(w, f)
  BY <1>1 DEF Init, RegPlace, LostPlace, InitState
<1>6. QED
  BY <1>1, <1>2, <1>3, <1>4, <1>5, PlaceForms

LEMMA StepPlaces ==
  ASSUME TypeInv, TypeInv', PlaceInv, [Next]_vars,
         \A k \in Kernels : Elem[k] # "Tee"
  PROVE  PlaceInv'
<1>t. TypeOK /\ TypeOK'
  BY DEF TypeInv
<1>1. ASSUME NEW k \in Kernels, Exit(k) \/ LoopTop(k) PROVE PlaceInv'
  <2>1. /\ UNCHANGED <<q, recv, held, lost, nxt, out, st>>
        /\ \A j \in Kernels : pc'[j] = "write" => pc[j] = "write" /\ todo'[j] = todo[j]
    BY <1>1, <1>t DEF Exit, LoopTop, dataVars, TypeOK
  <2>2. QED
    BY <1>t, <2>1, PlacesFrame, PlacesShrink
<1>2. ASSUME NEW k \in Kernels, RunSignal(k) PROVE PlaceInv'
  <2>1. /\ UNCHANGED <<q, recv, held, lost, nxt>>
        /\ \A j \in Kernels : pc'[j] = "write" =>
             pc[j] = "write" /\ todo'[j] = todo[j] /\ out'[j] = out[j]
    BY <1>2, <1>t DEF RunSignal, dataVars, TypeOK
  <2>2. \A j \in Kernels : Elem[j] = "StagingReg" => st'[j].a = st[j].a
    BY <1>2, <1>t DEF RunSignal, Signal, TypeOK
  <2>3. QED
    BY <1>t, <2>1, <2>2, PlacesFrame, PlacesShrink
<1>3. ASSUME UNCHANGED <<dataVars, kernelVars>> PROVE PlaceInv'
  <2>1. UNCHANGED <<q, recv, held, lost, nxt, pc, todo, out, st>>
    BY <1>3 DEF dataVars, kernelVars
  <2>2. QED
    BY <1>t, <2>1, PlacesFrame, PlacesShrink
<1>4. QED
  <2>1. CASE UNCHANGED vars
    BY <1>3, <2>1 DEF vars
  <2>2. CASE Stop
    BY <1>3, <2>2 DEF Stop
  <2>3. ASSUME NEW c \in Callers, NEW cmd \in Commands, Call(c, cmd) PROVE PlaceInv'
    BY <1>3, <2>3 DEF Call
  <2>4. ASSUME NEW c \in Callers, Return(c) \/ TimeOut(c) PROVE PlaceInv'
    BY <1>3, <2>4 DEF Return, TimeOut
  <2>5. QED
    BY <1>1, <1>2, <2>1, <2>2, <2>3, <2>4,
       ReadPlaces, DrainPlaces, WritePlaces, HandlerPlaces, InjectPlaces
       DEF Next, Kernel, Harness

\* In every network without a Tee, at any depths and with any arbiters,
\* demultiplexers, registers and unconnected ports, no flit is ever in two
\* places: no FIFO, held port, register or output of the loop keeps a copy of
\* a flit that has moved on.
THEOREM NothingTwice ==
  ASSUME \A k \in Kernels : Elem[k] # "Tee"
  PROVE  Spec => []NoDuplication
<1>1. TypeOK /\ PlaceInv => NoDuplication
  <2> SUFFICES ASSUME TypeOK, PlaceInv, NEW f \in 1 .. nxt
               PROVE  Cardinality(Places(f)) <= 1
    BY DEF NoDuplication
  <2>1. f \in Flits
    BY ElementsAssumption DEF TypeOK, Flits
  <2>2. CASE Places(f) = {}
    BY <2>2, FS_EmptySet
  <2>3. CASE Places(f) # {}
    <3>1. PICK w : w \in Places(f)
      BY <2>3
    <3>2. Places(f) = {w}
      BY <2>1, <3>1 DEF PlaceInv, Unique
    <3>3. Cardinality({w}) = 1
      BY FS_Singleton
    <3>4. QED
      BY <3>2, <3>3
  <2>4. QED
    BY <2>2, <2>3
<1>2. TypeInv /\ TypeInv' /\ PlaceInv /\ [Next]_vars => PlaceInv'
  BY StepPlaces
<1>3. QED
  BY InitTypeInv, StepTypeInv, InitPlaces, <1>1, <1>2, PTL DEF Spec, TypeInv

(***************************************************************************)
(* Accounting.  A flit that is in no place has been counted by an element, *)
(* and once.  Every step but a handler's keeps the flits that are          *)
(* somewhere and the counts, a resetting read included; a handler that     *)
(* drops its flit counts it.                                               *)
(***************************************************************************)
Has(s, f) == \E n \in 1 .. Len(s) : s[n] = f

Present(f) ==
  \/ \E i \in Streams : Has(q[i], f)
  \/ \E i \in Sinks : Has(recv[i], f)
  \/ \E k \in Kernels, p \in Ports : held[k][p] = f
  \/ \E k \in Kernels, p \in Ports : pc[k] = "write" /\ p \in todo[k] /\ out[k][p] = f
  \/ \E k \in Kernels : Elem[k] = "StagingReg" /\ st[k].a = f
  \/ \E i \in Streams : <<i, f>> \in lost

LEMMA PresentIs == TypeOK => \A f : Present(f) <=> Places(f) # {}
PROOF
<1> SUFFICES ASSUME TypeOK, NEW f PROVE Present(f) <=> \E w : w \in Places(f)
  OBVIOUS
<1>1. \A w : w \in Places(f) <=>
        \/ StreamPlace(w, f) \/ SinkPlace(w, f) \/ HeldPlace(w, f)
        \/ OutPlace(w, f) \/ RegPlace(w, f) \/ LostPlace(w, f)
  BY PlaceForms
<1>2. (\E w : StreamPlace(w, f)) <=> \E i \in Streams : Has(q[i], f)
  BY DEF StreamPlace, Has
<1>3. (\E w : SinkPlace(w, f)) <=> \E i \in Sinks : Has(recv[i], f)
  BY DEF SinkPlace, Has
<1>4. (\E w : HeldPlace(w, f)) <=> \E k \in Kernels, p \in Ports : held[k][p] = f
  BY DEF HeldPlace
<1>5. (\E w : OutPlace(w, f)) <=>
        \E k \in Kernels, p \in Ports : pc[k] = "write" /\ p \in todo[k] /\ out[k][p] = f
  BY DEF OutPlace
<1>6. (\E w : RegPlace(w, f)) <=> \E k \in Kernels : Elem[k] = "StagingReg" /\ st[k].a = f
  BY DEF RegPlace
<1>7. (\E w : LostPlace(w, f)) <=> \E i \in Streams : <<i, f>> \in lost
  BY DEF LostPlace
<1> QED BY <1>1, <1>2, <1>3, <1>4, <1>5, <1>6, <1>7, Zenon DEF Present

LEMMA PresentIsNext == (TypeOK => \A f : Present(f) <=> Places(f) # {})'
BY PresentIs, PTL

LEMMA HasAppend ==
  ASSUME NEW T, NEW s \in Seq(T), NEW e \in T
  PROVE  \A f : Has(Append(s, e), f) <=> Has(s, f) \/ f = e
PROOF
<1>1. /\ Len(s) \in Nat /\ Len(Append(s, e)) = Len(s) + 1
      /\ \A n \in 1 .. Len(s) : Append(s, e)[n] = s[n]
      /\ Append(s, e)[Len(s) + 1] = e
  BY AppendProperties, LenProperties
<1>2. 1 .. Len(s) + 1 = (1 .. Len(s)) \cup {Len(s) + 1}
  BY <1>1
<1> QED BY <1>1, <1>2 DEF Has

LEMMA HasTail ==
  ASSUME NEW T, NEW s \in Seq(T), s # <<>>
  PROVE  \A f : Has(s, f) <=> Has(Tail(s), f) \/ f = Head(s)
PROOF
<1>1. /\ Len(s) \in Nat \ {0} /\ Head(s) = s[1] /\ Len(Tail(s)) = Len(s) - 1
      /\ \A n \in 1 .. Len(s) - 1 : Tail(s)[n] = s[n + 1]
  BY HeadTailProperties, EmptySeq
<1> SUFFICES ASSUME NEW f PROVE Has(s, f) <=> Has(Tail(s), f) \/ f = Head(s)
  OBVIOUS
<1>2. ASSUME Has(Tail(s), f) PROVE Has(s, f)
  <2>1. PICK n \in 1 .. Len(s) - 1 : s[n + 1] = f
    BY <1>1, <1>2 DEF Has
  <2>2. n + 1 \in 1 .. Len(s)
    BY <1>1
  <2> QED BY <2>1, <2>2 DEF Has
<1>3. ASSUME f = Head(s) PROVE Has(s, f)
  BY <1>1, <1>3 DEF Has
<1>4. ASSUME Has(s, f) PROVE Has(Tail(s), f) \/ f = Head(s)
  <2>1. PICK n \in 1 .. Len(s) : s[n] = f
    BY <1>4 DEF Has
  <2>2. CASE n = 1
    BY <1>1, <2>1, <2>2
  <2>3. CASE n # 1
    <3>1. n - 1 \in 1 .. Len(Tail(s)) /\ n = (n - 1) + 1
      BY <1>1, <2>3
    <3>2. Tail(s)[n - 1] = f
      BY <1>1, <2>1, <3>1
    <3> QED BY <3>1, <3>2 DEF Has
  <2> QED BY <2>2, <2>3
<1> QED BY <1>2, <1>3, <1>4

\* No flit disappears, and none comes back.
AllStay == \A f \in 1 .. nxt : Present(f)' <=> Present(f)

\* Steps that move no flit.
LEMMA StayFrame ==
  ASSUME TypeOK, UNCHANGED <<q, recv, held, lost>>,
         \A k \in Kernels : pc'[k] = "write" <=> pc[k] = "write",
         \A k \in Kernels : pc[k] = "write" => todo'[k] = todo[k] /\ out'[k] = out[k],
         \A k \in Kernels : Elem[k] = "StagingReg" => st'[k].a = st[k].a
  PROVE  AllStay
BY DEF AllStay, Present

\* The loop reads only ports that hold nothing.
LEMMA InitRead == Init => ReadOK
BY DEF Init, ReadOK

LEMMA StepRead == TypeInv /\ ReadOK /\ [Next]_vars => ReadOK'
PROOF
<1> SUFFICES ASSUME TypeInv, ReadOK, [Next]_vars PROVE ReadOK'
  OBVIOUS
<1>t. TypeOK
  BY DEF TypeInv
<1>1. ASSUME UNCHANGED <<pc, todo, held>> PROVE ReadOK'
  BY <1>1 DEF ReadOK
<1>2. ASSUME NEW k \in Kernels, Exit(k) \/ RunSignal(k) \/ WritePort(k) PROVE ReadOK'
  <2>1. /\ \A j \in Kernels \ {k} : pc'[j] = pc[j] /\ todo'[j] = todo[j]
        /\ pc'[k] # "read" /\ held' = held
    BY <1>2, <1>t DEF Exit, RunSignal, WritePort, TypeOK
  <2> QED BY <2>1 DEF ReadOK
<1>3. ASSUME NEW k \in Kernels, LoopTop(k) PROVE ReadOK'
  <2>1. /\ \A j \in Kernels \ {k} : pc'[j] = pc[j] /\ todo'[j] = todo[j]
        /\ \A p \in todo'[k] : p \in InPorts(k) /\ held[k][p] = NoFlit
        /\ held' = held
    BY <1>3, <1>t DEF LoopTop, TypeOK
  <2> QED BY <2>1 DEF ReadOK
<1>4. ASSUME NEW k \in Kernels, ReadPort(k) PROVE ReadOK'
  <2>1. NextPort(k) \in todo[k] /\ NextPort(k) \in Ports
    BY <1>4, <1>t, NextPortType DEF ReadPort
  <2>2. /\ \A j \in Kernels \ {k} : todo'[j] = todo[j] /\ held'[j] = held[j]
        /\ todo'[k] = todo[k] \ {NextPort(k)} /\ pc' = pc
        /\ \A p \in Ports \ {NextPort(k)} : held'[k][p] = held[k][p]
    BY <1>4, <1>t, <2>1 DEF ReadPort, TypeOK
  <2>3. \A j \in Kernels : todo[j] \subseteq Ports
    BY <1>t DEF TypeOK
  <2> QED BY <2>2, <2>3 DEF ReadOK
<1>5. ASSUME NEW k \in Kernels, RunHandler(k) PROVE ReadOK'
  <2>1. /\ \A j \in Kernels \ {k} : pc'[j] = pc[j] /\ todo'[j] = todo[j] /\ held'[j] = held[j]
        /\ pc'[k] # "read"
    BY <1>5, <1>t DEF RunHandler, TypeOK
  <2> QED BY <2>1 DEF ReadOK
<1>6. CASE UNCHANGED vars
  BY <1>1, <1>6 DEF vars, kernelVars
<1>7. CASE Harness \/ Stop
  BY <1>1, <1>7 DEF Harness, Stop, Inject, Drain, Call, Return, TimeOut, kernelVars
<1> QED BY <1>2, <1>3, <1>4, <1>5, <1>6, <1>7 DEF Next, Kernel

LEMMA ReadStay ==
  ASSUME TypeInv, ReadOK, NEW k \in Kernels, ReadPort(k)
  PROVE  AllStay
PROOF
<1> DEFINE p == NextPort(k)
           i == InStream(k, p)
<1>t. TypeOK
  BY DEF TypeInv
<1>1. p \in todo[k] /\ p \in Ports /\ i \in Streams /\ pc[k] = "read"
  BY <1>t, NextPortType, InStreamType DEF ReadPort
<1>2. /\ UNCHANGED <<recv, lost, out, st, pc>>
      /\ \A j \in Kernels : pc[j] = "write" => todo'[j] = todo[j]
  BY <1>t DEF ReadPort, TypeOK
<1>3. \/ UNCHANGED <<q, held>>
      \/ /\ q[i] # <<>>
         /\ held' = [held EXCEPT ![k][p] = Head(q[i])]
         /\ q' = [q EXCEPT ![i] = Tail(@)]
  BY DEF ReadPort
<1> HIDE DEF p, i
<1>4. CASE UNCHANGED <<q, held>>
  BY <1>t, <1>2, <1>4, StayFrame
<1>5. CASE /\ q[i] # <<>>
           /\ held' = [held EXCEPT ![k][p] = Head(q[i])]
           /\ q' = [q EXCEPT ![i] = Tail(@)]
  <2>1. q[i] \in Seq(Flits) /\ \A f : Has(q[i], f) <=> Has(Tail(q[i]), f) \/ f = Head(q[i])
    <3>1. q[i] \in Seq(Flits)
      BY <1>t, <1>1 DEF TypeOK
    <3> QED BY <1>5, <3>1, HasTail
  <2>2. \A j \in Streams : q'[j] = IF j = i THEN Tail(q[i]) ELSE q[j]
    BY <1>t, <1>5 DEF TypeOK
  <2>3. \A j \in Kernels, u \in Ports :
          held'[j][u] = IF j = k /\ u = p THEN Head(q[i]) ELSE held[j][u]
    BY <1>t, <1>1, <1>5 DEF TypeOK
  <2>4. held[k][p] = NoFlit
    BY <1>1 DEF ReadOK
  <2>5. ASSUME NEW f \in 1 .. nxt PROVE Present(f)' <=> Present(f)
    <3> DEFINE A == \E j \in Streams : Has(q[j], f)
               B == \E j \in Kernels, u \in Ports : held[j][u] = f
               A1 == \E j \in Streams : Has(q'[j], f)
               B1 == \E j \in Kernels, u \in Ports : held'[j][u] = f
    <3>1. f # NoFlit
      BY DEF NoFlit
    <3>2. A => A1 \/ B1
      BY <1>1, <2>1, <2>2, <2>3
    <3>3. B => B1
      BY <2>3, <2>4, <3>1
    <3>4. A1 => A
      BY <1>1, <2>1, <2>2
    <3>5. B1 => A \/ B
      BY <1>1, <2>1, <2>3
    <3> HIDE DEF A, B, A1, B1
    <3>6. A \/ B <=> A1 \/ B1
      BY <3>2, <3>3, <3>4, <3>5
    <3>7. \A j \in Kernels, u \in Ports :
            (pc'[j] = "write" /\ u \in todo'[j] /\ out'[j][u] = f)
              <=> (pc[j] = "write" /\ u \in todo[j] /\ out[j][u] = f)
      BY <1>2
    <3> QED BY <1>2, <3>6, <3>7 DEF Present, A, B, A1, B1
  <2> QED BY <2>5 DEF AllStay
<1> QED BY <1>3, <1>4, <1>5

LEMMA DrainStay ==
  ASSUME TypeInv, NEW i \in Sinks, Drain(i)
  PROVE  AllStay
PROOF
<1>t. TypeOK /\ i \in Streams
  BY BoundaryType DEF TypeInv
<1>1. /\ q[i] # <<>>
      /\ recv' = [recv EXCEPT ![i] = Append(@, Head(q[i]))]
      /\ q' = [q EXCEPT ![i] = Tail(@)]
      /\ UNCHANGED <<nxt, lost, pc, todo, held, out, st>>
  BY DEF Drain, kernelVars
<1>2. q[i] \in Seq(Flits) /\ recv[i] \in Seq(Flits) /\ Head(q[i]) \in Flits
  BY <1>t, <1>1, PopType DEF TypeOK
<1>3. \A f : /\ Has(q[i], f) <=> Has(Tail(q[i]), f) \/ f = Head(q[i])
             /\ Has(Append(recv[i], Head(q[i])), f) <=> Has(recv[i], f) \/ f = Head(q[i])
  <2>1. \A f : Has(q[i], f) <=> Has(Tail(q[i]), f) \/ f = Head(q[i])
    BY <1>1, <1>2, HasTail
  <2>2. \A f : Has(Append(recv[i], Head(q[i])), f) <=> Has(recv[i], f) \/ f = Head(q[i])
    BY <1>2, HasAppend
  <2> QED BY <2>1, <2>2
<1>4. \A j \in Streams : q'[j] = IF j = i THEN Tail(q[i]) ELSE q[j]
  BY <1>t, <1>1 DEF TypeOK
<1>5. \A j \in Sinks : recv'[j] = IF j = i THEN Append(recv[i], Head(q[i])) ELSE recv[j]
  BY <1>t, <1>1 DEF TypeOK
<1>6. ASSUME NEW f \in 1 .. nxt PROVE Present(f)' <=> Present(f)
  <2> DEFINE A == \E j \in Streams : Has(q[j], f)
             B == \E j \in Sinks : Has(recv[j], f)
             A1 == \E j \in Streams : Has(q'[j], f)
             B1 == \E j \in Sinks : Has(recv'[j], f)
  <2>1. A => A1 \/ B1
    BY <1>t, <1>3, <1>4, <1>5
  <2>2. B => B1
    BY <1>3, <1>5
  <2>3. A1 => A
    BY <1>t, <1>3, <1>4
  <2>4. B1 => A \/ B
    BY <1>t, <1>3, <1>5
  <2> HIDE DEF A, B, A1, B1
  <2>5. A \/ B <=> A1 \/ B1
    BY <2>1, <2>2, <2>3, <2>4
  <2> QED BY <1>1, <2>5 DEF Present, A, B, A1, B1
<1> QED BY <1>6 DEF AllStay

LEMMA WriteStay ==
  ASSUME TypeInv, NEW k \in Kernels, WritePort(k)
  PROVE  AllStay
PROOF
<1> DEFINE p == NextPort(k)
           s == OutStream(k, p)
           d == out[k][p]
<1>t. TypeOK /\ WriteOK
  BY DEF TypeInv
<1>1. pc[k] = "write" /\ todo[k] # {}
  BY <1>t DEF WritePort, WriteOK
<1>2. p \in todo[k] /\ p \in Ports /\ s \in Streams /\ d \in Flits
  BY <1>t, <1>1, NextPortType, OutStreamType DEF WriteOK
<1>3. /\ UNCHANGED <<nxt, recv, held, out, st>>
      /\ todo' = [todo EXCEPT ![k] = @ \ {p}]
      /\ pc' = [pc EXCEPT ![k] = IF todo[k] = {p} THEN "top" ELSE "write"]
  BY DEF WritePort
<1>4. \/ q' = [q EXCEPT ![s] = Append(@, d)] /\ UNCHANGED lost
      \/ lost' = lost \cup {<<s, d>>} /\ UNCHANGED q
  BY DEF WritePort
<1> HIDE DEF p, s, d
<1>5. ASSUME NEW f \in 1 .. nxt PROVE Present(f)' <=> Present(f)
  <2> DEFINE A == \E j \in Streams : Has(q[j], f)
             B == \E j \in Streams : <<j, f>> \in lost
             C == \E j \in Kernels, u \in Ports :
                    pc[j] = "write" /\ u \in todo[j] /\ out[j][u] = f
             A1 == \E j \in Streams : Has(q'[j], f)
             B1 == \E j \in Streams : <<j, f>> \in lost'
             C1 == \E j \in Kernels, u \in Ports :
                     pc'[j] = "write" /\ u \in todo'[j] /\ out'[j][u] = f
  <2>1. A1 \/ B1 <=> A \/ B \/ f = d
    <3>1. CASE q' = [q EXCEPT ![s] = Append(@, d)] /\ UNCHANGED lost
      <4>1. \A j \in Streams : q'[j] = IF j = s THEN Append(q[s], d) ELSE q[j]
        BY <1>t, <3>1 DEF TypeOK
      <4>2. \A g : Has(Append(q[s], d), g) <=> Has(q[s], g) \/ g = d
        <5>1. q[s] \in Seq(Flits)
          BY <1>t, <1>2 DEF TypeOK
        <5> QED BY <1>2, <5>1, HasAppend
      <4>3. A1 <=> A \/ f = d
        BY <1>2, <4>1, <4>2
      <4> QED BY <3>1, <4>3
    <3>2. CASE lost' = lost \cup {<<s, d>>} /\ UNCHANGED q
      <4>1. B1 <=> B \/ f = d
        <5>1. \A j : <<j, f>> = <<s, d>> <=> j = s /\ f = d
          OBVIOUS
        <5>2. \A j : <<j, f>> \in lost' <=> <<j, f>> \in lost \/ (j = s /\ f = d)
          BY <3>2, <5>1
        <5> QED BY <1>2, <5>2
      <4> QED BY <3>2, <4>1
    <3> QED BY <1>4, <3>1, <3>2
  <2>2. C <=> C1 \/ f = d
    <3>1. \A j \in Kernels, u \in Ports :
            (pc'[j] = "write" /\ u \in todo'[j])
              <=> (pc[j] = "write" /\ u \in todo[j] /\ ~(j = k /\ u = p))
      BY <1>t, <1>1, <1>2, <1>3 DEF TypeOK
    <3>2. out' = out /\ out[k][p] = d
      BY <1>3 DEF d
    <3>3. C1 => C
      BY <3>1, <3>2
    <3>4. f = d => C
      BY <1>1, <1>2, <3>2
    <3>5. C => C1 \/ f = d
      BY <3>1, <3>2
    <3> QED BY <3>3, <3>4, <3>5
  <2> HIDE DEF A, B, C, A1, B1, C1
  <2>3. A \/ B \/ C <=> A1 \/ B1 \/ C1
    BY <2>1, <2>2
  <2> QED BY <1>3, <2>3 DEF Present, A, B, C, A1, B1, C1
<1> QED BY <1>5 DEF AllStay

\* The flit that is injected is in its stream.
LEMMA InjectStay ==
  ASSUME TypeInv, NEW s \in Sources, Inject(s)
  PROVE  AllStay /\ Present(nxt)'
PROOF
<1>t. TypeOK /\ s \in Streams /\ nxt \in Nat /\ nxt' = nxt + 1
  BY BoundaryType, ElementsAssumption DEF TypeInv, Inject, TypeOK
<1>1. /\ q' = [q EXCEPT ![s] = Append(@, nxt + 1)]
      /\ UNCHANGED <<recv, lost, pc, todo, held, out, st>>
      /\ nxt + 1 \in Flits
  BY <1>t, ElementsAssumption DEF Inject, kernelVars, TypeOK, Flits
<1>2. \A j \in Streams : q'[j] = IF j = s THEN Append(q[s], nxt + 1) ELSE q[j]
  BY <1>t, <1>1 DEF TypeOK
<1>3. \A g : Has(Append(q[s], nxt + 1), g) <=> Has(q[s], g) \/ g = nxt + 1
  <2>1. q[s] \in Seq(Flits)
    BY <1>t DEF TypeOK
  <2> QED BY <1>1, <2>1, HasAppend
<1>4. ASSUME NEW f PROVE Present(f)' <=> Present(f) \/ f = nxt + 1
  <2>1. (\E j \in Streams : Has(q'[j], f)) <=> (\E j \in Streams : Has(q[j], f)) \/ f = nxt + 1
    BY <1>t, <1>2, <1>3
  <2> QED BY <1>1, <2>1 DEF Present
<1>5. AllStay
  <2>1. \A f \in 1 .. nxt : f # nxt + 1
    BY <1>t
  <2> QED BY <1>4, <2>1 DEF AllStay
<1>6. Present(nxt)'
  <2>1. Has(q'[s], nxt + 1)
    BY <1>t, <1>2, <1>3
  <2> QED BY <1>t, <2>1 DEF Present
<1> QED BY <1>5, <1>6

\* The flit a handler drops and counts, and its count.
Dropped(kind, h) ==
  IF kind = "Counter" \/ (kind = "Pass" /\ h[1] \in Erroneous) THEN h[1] ELSE NoFlit

Counted(kind, s) ==
  CASE kind = "Counter" -> s.a [] kind = "Pass" -> s.b [] OTHER -> 0

\* A handler leaves, emits, registers or counts each flit it holds.
HandledAs(kind, h, s, r) ==
  /\ \A p \in Ports : h[p] # NoFlit =>
       \/ r.held[p] = h[p]
       \/ \E o \in Ports : o <= NOut(kind) /\ r.out[o] = h[p]
       \/ kind = "StagingReg" /\ r.st.a = h[p]
       \/ h[p] = Dropped(kind, h)
  /\ kind = "StagingReg" => r.out[1] = s.a
  /\ Dropped(kind, h) # NoFlit =>
       /\ r.held[1] = NoFlit /\ \A p \in Ports : p # 1 => r.held[p] \in {NoFlit, h[p]}
       /\ \A p \in Ports : r.out[p] = NoFlit
  /\ Counted(kind, r.st) = Counted(kind, s) + (IF Dropped(kind, h) = NoFlit THEN 0 ELSE 1)

LEMMA HandlerAccounts ==
  ASSUME NEW kind \in Kinds, NEW h \in Held, NEW s \in StateOf(kind)
  PROVE  HandledAs(kind, h, s, Handler(kind, h, s))
PROOF
<1> DEFINE r == Handler(kind, h, s)
<1>a. 1 \in Ports /\ 2 \in Ports /\ Ports \subseteq Nat /\ NoFlit = 0 /\ 0 \notin Erroneous
  BY PortsType, FlitsType, ElementsAssumption
<1>b. ASSUME NEW p \in Ports
      PROVE  /\ \A u \in Ports : Take(h, p)[u] = IF u = p THEN NoFlit ELSE h[u]
             /\ \A f : \A u \in Ports : Emit(p, f)[u] = IF u = p THEN f ELSE NoFlit
             /\ Silent[p] = NoFlit
  BY DEF Held, Take, Emit, Silent
<1>1. CASE kind = "PassThrough"
  BY <1>1, <1>a, <1>b DEF HandledAs, Dropped, Counted, NOut, Handler, PassThrough
<1>2. CASE kind = "Pass"
  <2>1. s.b \in Nat
    BY <1>2 DEF StateOf
  <2> QED BY <1>2, <2>1, <1>a, <1>b DEF HandledAs, Dropped, Counted, NOut, Handler, Pass, Bump
<1>3. CASE kind = "Tee"
  BY <1>3, <1>a, <1>b DEF HandledAs, Dropped, Counted, NOut, Handler, Tee, Silent
<1>4. CASE kind = "Demux2"
  <2>1. s.a \in {1, 2}
    BY <1>4 DEF StateOf
  <2> QED BY <1>4, <2>1, <1>a, <1>b DEF HandledAs, Dropped, Counted, NOut, Handler, Demux2
<1>5. CASE kind = "Mux"
  BY <1>5, <1>a, <1>b DEF HandledAs, Dropped, Counted, NOut, Handler, Mux
<1>6. CASE kind = "FlitMux"
  BY <1>6, <1>a, <1>b DEF HandledAs, Dropped, Counted, NOut, Handler, FlitMux
<1>7. CASE kind = "FlitMux2RR"
  BY <1>7, <1>a, <1>b DEF HandledAs, Dropped, Counted, NOut, Handler, FlitMux2RR
<1>8. CASE kind = "StagingReg"
  <2>1. r.st.a = h[1]
    BY <1>8 DEF Handler, StagingReg, StateOf
  <2> QED BY <1>8, <2>1, <1>a, <1>b DEF HandledAs, Dropped, Counted, NOut, Handler, StagingReg
<1>9. CASE kind = "Counter"
  <2>1. s.a \in Nat /\ r.st.a = Bump(s.a, h[1] # NoFlit)
    BY <1>9 DEF StateOf, Handler, Counter
  <2> QED BY <1>9, <2>1, <1>a, <1>b DEF HandledAs, Dropped, Counted, NOut, Handler, Counter, Bump
<1> QED BY <1>1, <1>2, <1>3, <1>4, <1>5, <1>6, <1>7, <1>8, <1>9 DEF Kinds

LEMMA HandlerStay ==
  ASSUME TypeInv, PlaceInv, NEW k \in Kernels, RunHandler(k), Elem[k] # "Tee"
  PROVE  LET d == Dropped(Elem[k], held[k]) IN
         /\ \A f \in 1 .. nxt : Present(f)' <=> Present(f) /\ f # d
         /\ d # NoFlit => d \in 1 .. nxt /\ Present(d)
PROOF
<1> DEFINE kind == Elem[k]
           h == held[k]
           d == Dropped(kind, h)
           r == Handler(kind, h, st[k])
           todoNow == {p \in OutPorts(k) : r.out[p] # NoFlit}
<1>t. TypeOK
  BY DEF TypeInv
<1>1. kind \in Kinds /\ kind # "Tee" /\ h \in Held /\ st[k] \in StateOf(kind)
  BY <1>t, SwEmuAssumption DEF TypeOK, Held
<1>2. HandledAs(kind, h, st[k], r)
  BY <1>1, HandlerAccounts
<1>3. PICK o \in Ports, from \in Ports : Moves(kind, r, h, st[k], o, from)
  BY <1>1, HandlerMoves
<1>4. Keeps(r, h)
  BY <1>1, HandlerMoves
<1>5. /\ pc[k] = "read"
      /\ UNCHANGED <<q, recv, nxt, lost>>
      /\ held' = [held EXCEPT ![k] = r.held]
      /\ out' = [out EXCEPT ![k] = r.out]
      /\ st' = [st EXCEPT ![k] = r.st]
      /\ todo' = [todo EXCEPT ![k] = todoNow]
      /\ pc' = [pc EXCEPT ![k] = IF todoNow = {} THEN "top" ELSE "write"]
  BY DEF RunHandler, dataVars
<1>6. todoNow \subseteq Ports /\ \A p \in Ports : p \in todoNow <=> p <= NOut(kind) /\ r.out[p] # NoFlit
  BY DEF OutPorts
<1>7. h[1] \in Flits \cup {NoFlit} /\ NoFlit = 0 /\ 1 \in Ports /\ (d # NoFlit => d = h[1])
  BY <1>1, PortsType, FlitsType DEF Held, Dropped
<1> HIDE DEF r, todoNow, d, h, kind
<1>8. /\ \A j \in Kernels : held'[j] = IF j = k THEN r.held ELSE held[j]
      /\ \A j \in Kernels : out'[j] = IF j = k THEN r.out ELSE out[j]
      /\ \A j \in Kernels : st'[j] = IF j = k THEN r.st ELSE st[j]
      /\ \A j \in Kernels : todo'[j] = IF j = k THEN todoNow ELSE todo[j]
      /\ \A j \in Kernels : j # k => pc'[j] = pc[j]
      /\ pc'[k] = "write" <=> todoNow # {}
  BY <1>t, <1>5 DEF TypeOK
<1>9. held[k] = h /\ Elem[k] = kind
  BY DEF h, kind
<1>10. ASSUME d # NoFlit
       PROVE  d \in 1 .. nxt /\ Present(d) /\ \A w \in Places(d) : w = <<"held", k, 1>>
  <2>1. held[k][1] = d /\ d \in Flits
    BY <1>7, <1>9, <1>10
  <2>2. HeldPlace(<<"held", k, 1>>, d)
    BY <1>7, <2>1 DEF HeldPlace
  <2>3. <<"held", k, 1>> \in Places(d)
    BY <1>t, <2>2, PlaceForms
  <2>4. Places(d) # {} /\ Present(d)
    BY <1>t, <2>3, PresentIs
  <2>5. d <= nxt /\ \A w \in Places(d) : w = <<"held", k, 1>>
    BY <2>1, <2>3, <2>4 DEF PlaceInv, Unique, Fresh
  <2>6. d \in 1 .. nxt
    BY <1>t, <2>1, <2>5 DEF Flits, TypeOK
  <2> QED BY <2>4, <2>5, <2>6
\* Somewhere after the step, so somewhere else before it.
<1>11. ASSUME NEW f \in 1 .. nxt, Present(f)'
       PROVE  Present(f) /\ f # d
  <2>0. f # NoFlit
    BY <1>7
  <2>1. CASE (\E i \in Streams : Has(q'[i], f)) \/ (\E i \in Sinks : Has(recv'[i], f))
             \/ (\E i \in Streams : <<i, f>> \in lost')
    <3>1. Present(f)
      BY <1>5, <2>1 DEF Present
    <3>2. \E w : StreamPlace(w, f) \/ SinkPlace(w, f) \/ LostPlace(w, f)
      BY <1>5, <2>1 DEF StreamPlace, SinkPlace, LostPlace, Has
    <3>3. \E w \in Places(f) : w[1] # "held"
      BY <1>t, <3>2, PlaceForms, PlaceTags
    <3>4. f # d
      BY <1>10, <2>0, <3>3
    <3> QED BY <3>1, <3>4
  <2>2. CASE \E j \in Kernels, p \in Ports : held'[j][p] = f
    <3>1. PICK j \in Kernels, p \in Ports : held'[j][p] = f
      BY <2>2
    <3>2. held[j][p] = f
      BY <1>4, <1>8, <1>9, <2>0, <3>1 DEF Keeps
    <3>3. Present(f)
      BY <3>2 DEF Present
    <3>4. HeldPlace(<<"held", j, p>>, f)
      BY <3>2 DEF HeldPlace
    <3>5. <<"held", j, p>> \in Places(f)
      BY <1>t, <3>4, PlaceForms
    <3>6. f # d
      <4> SUFFICES ASSUME f = d PROVE FALSE
        OBVIOUS
      <4>1. <<"held", j, p>> = <<"held", k, 1>> /\ d # NoFlit
        BY <1>10, <2>0, <3>5
      <4>2. j = k /\ p = 1
        BY <4>1
      <4>3. r.held[1] = NoFlit
        BY <1>2, <4>1 DEF HandledAs, d, h, kind
      <4> QED BY <1>8, <2>0, <3>1, <4>2, <4>3
    <3> QED BY <3>3, <3>6
  <2>3. CASE \E j \in Kernels, p \in Ports :
               pc'[j] = "write" /\ p \in todo'[j] /\ out'[j][p] = f
    <3>1. PICK j \in Kernels, p \in Ports :
                 pc'[j] = "write" /\ p \in todo'[j] /\ out'[j][p] = f
      BY <2>3
    <3>2. CASE j # k
      <4>1. pc[j] = "write" /\ p \in todo[j] /\ out[j][p] = f
        BY <1>8, <3>1, <3>2
      <4>2. OutPlace(<<"out", j, p>>, f)
        BY <4>1 DEF OutPlace
      <4>3. <<"out", j, p>> \in Places(f)
        BY <1>t, <4>2, PlaceForms
      <4>4. <<"out", j, p>> # <<"held", k, 1>>
        OBVIOUS
      <4>5. Present(f)
        BY <4>1 DEF Present
      <4> QED BY <1>10, <2>0, <4>3, <4>4, <4>5
    <3>3. CASE j = k
      <4>1. r.out[p] = f /\ p = o
        BY <1>3, <1>8, <2>0, <3>1, <3>3 DEF Moves
      <4>2. d = NoFlit
        BY <1>2, <2>0, <4>1 DEF HandledAs, d, h, kind
      <4>3. CASE kind = "StagingReg"
        <5>1. st[k].a = f
          BY <1>3, <2>0, <4>1, <4>3 DEF Moves
        <5>2. Present(f)
          BY <1>9, <4>3, <5>1 DEF Present
        <5> QED BY <2>0, <4>2, <5>2
      <4>4. CASE kind # "StagingReg"
        <5>1. held[k][from] = f
          BY <1>3, <1>9, <2>0, <4>1, <4>4 DEF Moves
        <5>2. Present(f)
          BY <5>1 DEF Present
        <5> QED BY <2>0, <4>2, <5>2
      <4> QED BY <4>3, <4>4
    <3> QED BY <3>2, <3>3
  <2>4. CASE \E j \in Kernels : Elem[j] = "StagingReg" /\ st'[j].a = f
    <3>1. PICK j \in Kernels : Elem[j] = "StagingReg" /\ st'[j].a = f
      BY <2>4
    <3>2. CASE j # k
      <4>1. st[j].a = f
        BY <1>8, <3>1, <3>2
      <4>2. RegPlace(<<"reg", j, 0>>, f)
        BY <3>1, <4>1 DEF RegPlace
      <4>3. <<"reg", j, 0>> \in Places(f)
        BY <1>t, <4>2, PlaceForms
      <4>4. <<"reg", j, 0>> # <<"held", k, 1>>
        OBVIOUS
      <4>5. Present(f)
        BY <3>1, <4>1 DEF Present
      <4> QED BY <1>10, <2>0, <4>3, <4>4, <4>5
    <3>3. CASE j = k
      <4>1. kind = "StagingReg" /\ r.st.a = f
        BY <1>8, <1>9, <3>1, <3>3
      <4>2. d = NoFlit
        BY <4>1 DEF d, Dropped
      <4>3. held[k][from] = f
        BY <1>3, <1>9, <4>1 DEF Moves
      <4>4. Present(f)
        BY <4>3 DEF Present
      <4> QED BY <2>0, <4>2, <4>4
    <3> QED BY <3>2, <3>3
  <2> QED BY <1>11, <2>1, <2>2, <2>3, <2>4 DEF Present
\* Somewhere before the step, and not counted, so somewhere after it.
<1>12. ASSUME NEW f \in 1 .. nxt, Present(f), f # d
       PROVE  Present(f)'
  <2>0. f # NoFlit
    BY <1>7
  <2>a. ASSUME NEW u \in Ports, u <= NOut(kind), r.out[u] = f PROVE Present(f)'
    <3>1. u \in todoNow
      BY <1>6, <2>0, <2>a
    <3>2. pc'[k] = "write" /\ u \in todo'[k] /\ out'[k][u] = f
      BY <1>8, <2>a, <3>1
    <3> QED BY <3>2 DEF Present
  <2>1. CASE (\E i \in Streams : Has(q[i], f)) \/ (\E i \in Sinks : Has(recv[i], f))
             \/ (\E i \in Streams : <<i, f>> \in lost)
    BY <1>5, <2>1 DEF Present
  <2>2. CASE \E j \in Kernels, p \in Ports : held[j][p] = f
    <3>1. PICK j \in Kernels, p \in Ports : held[j][p] = f
      BY <2>2
    <3>2. CASE j # k
      <4>1. held'[j][p] = f
        BY <1>8, <3>1, <3>2
      <4> QED BY <4>1 DEF Present
    <3>3. CASE j = k
      <4>1. \/ r.held[p] = f
            \/ \E u \in Ports : u <= NOut(kind) /\ r.out[u] = f
            \/ kind = "StagingReg" /\ r.st.a = f
        <5>1. h[p] = f
          BY <1>9, <3>1, <3>3
        <5> QED BY <1>2, <1>12, <2>0, <5>1 DEF HandledAs, d
      <4>2. CASE r.held[p] = f
        <5>1. held'[k][p] = f
          BY <1>8, <4>2
        <5> QED BY <5>1 DEF Present
      <4>3. CASE kind = "StagingReg" /\ r.st.a = f
        <5>1. Elem[k] = "StagingReg" /\ st'[k].a = f
          BY <1>8, <1>9, <4>3
        <5> QED BY <5>1 DEF Present
      <4> QED BY <2>a, <4>1, <4>2, <4>3
    <3> QED BY <3>2, <3>3
  <2>3. CASE \E j \in Kernels, p \in Ports : pc[j] = "write" /\ p \in todo[j] /\ out[j][p] = f
    <3>1. PICK j \in Kernels, p \in Ports : pc[j] = "write" /\ p \in todo[j] /\ out[j][p] = f
      BY <2>3
    <3>2. pc'[j] = "write" /\ p \in todo'[j] /\ out'[j][p] = f
      BY <1>5, <1>8, <3>1
    <3> QED BY <3>2 DEF Present
  <2>4. CASE \E j \in Kernels : Elem[j] = "StagingReg" /\ st[j].a = f
    <3>1. PICK j \in Kernels : Elem[j] = "StagingReg" /\ st[j].a = f
      BY <2>4
    <3>2. CASE j # k
      <4>1. st'[j].a = f
        BY <1>8, <3>1, <3>2
      <4> QED BY <3>1, <4>1 DEF Present
    <3>3. CASE j = k
      <4>1. r.out[1] = f /\ 1 <= NOut(kind)
        BY <1>2, <1>9, <3>1, <3>3 DEF HandledAs, NOut
      <4> QED BY <1>7, <2>a, <4>1
    <3> QED BY <3>2, <3>3
  <2> QED BY <1>12, <2>1, <2>2, <2>3, <2>4 DEF Present
<1> QED BY <1>10, <1>11, <1>12 DEF d, h, kind

\* What an answer tells of kernel k if it comes from a resetting read of it.
Worth(k, r) == IF r.from = k /\ r.ev.cmd = 1 THEN r.val ELSE 0

LEMMA ToldIs ==
  ASSUME NEW k, NEW s \in Seq(Responses)
  PROVE  /\ Len(s) \in Nat
         /\ [n \in 1 .. Len(s) |-> Worth(k, s[n])] \in [1 .. Len(s) -> Nat]
         /\ Told(k, s) = SumFunction([n \in 1 .. Len(s) |-> Worth(k, s[n])])
         /\ Told(k, s) \in Nat
PROOF
<1>1. Len(s) \in Nat /\ \A n \in 1 .. Len(s) : s[n] \in Responses
  BY LenProperties, ElementOfSeq
<1>2. \A r \in Responses : Worth(k, r) \in Nat
  BY DEF Responses, Worth
<1>3. [n \in 1 .. Len(s) |-> Worth(k, s[n])] \in [1 .. Len(s) -> Nat]
  BY <1>1, <1>2
<1>4. Told(k, s) = SumFunction([n \in 1 .. Len(s) |-> Worth(k, s[n])])
  BY DEF Told, Worth
<1>5. SumFunction([n \in 1 .. Len(s) |-> Worth(k, s[n])]) \in Nat
  <2> DEFINE w == [n \in 1 .. Len(s) |-> Worth(k, s[n])]
  <2>1. IsFiniteSet(1 .. Len(s)) /\ \A n \in 1 .. Len(s) : w[n] \in Nat
    BY <1>1, <1>2, FiniteInterval
  <2>2. DOMAIN w = 1 .. Len(s)
    OBVIOUS
  <2> HIDE DEF w
  <2>3. SumFunctionOnSet(w, 1 .. Len(s)) \in Nat
    BY <2>1, SumTake
  <2>4. SumFunction(w) \in Nat
    BY <2>2, <2>3 DEF SumFunction
  <2> QED BY <2>4 DEF w
<1> QED BY <1>1, <1>3, <1>4, <1>5

LEMMA ToldAppend ==
  ASSUME NEW k, NEW s \in Seq(Responses), NEW r \in Responses
  PROVE  Told(k, Append(s, r)) = Told(k, s) + Worth(k, r)
PROOF
<1> DEFINE t == Append(s, r)
           n == Len(s)
           f == [m \in 1 .. n |-> Worth(k, s[m])]
           g == [m \in 1 .. n + 1 |-> Worth(k, t[m])]
<1>1. /\ t \in Seq(Responses) /\ n \in Nat /\ Len(t) = n + 1 /\ t[n + 1] = r
      /\ \A m \in 1 .. n : t[m] = s[m]
  BY AppendProperties, LenProperties
<1>2. f \in [1 .. n -> Nat] /\ Told(k, s) = SumFunction(f)
  BY ToldIs
<1>3. g \in [1 .. n + 1 -> Nat] /\ Told(k, t) = SumFunction(g)
  <2> HIDE DEF t, n
  <2> QED BY <1>1, ToldIs
<1>4. \A m \in 1 .. n : g[m] = f[m]
  <2> HIDE DEF t, n
  <2> QED BY <1>1
<1>5. g[n + 1] = Worth(k, r)
  <2> HIDE DEF t, n
  <2> QED BY <1>1
<1> HIDE DEF t, n, f, g
<1>6. SumFunction(g) = SumFunction(f) + g[n + 1]
  BY <1>1, <1>2, <1>3, <1>4, SumLast
<1> QED BY <1>2, <1>3, <1>5, <1>6 DEF t

LEMMA ToldTail ==
  ASSUME NEW k, NEW s \in Seq(Responses), s # <<>>
  PROVE  Told(k, s) = Worth(k, Head(s)) + Told(k, Tail(s))
PROOF
<1> DEFINE t == Tail(s)
           n == Len(t)
           f == [m \in 1 .. n |-> Worth(k, t[m])]
           g == [m \in 1 .. n + 1 |-> Worth(k, s[m])]
<1>1. /\ t \in Seq(Responses) /\ n \in Nat /\ Len(s) = n + 1 /\ Head(s) = s[1]
      /\ \A m \in 1 .. n : t[m] = s[m + 1]
  <2>1. /\ Len(s) \in Nat \ {0} /\ Head(s) = s[1] /\ Len(t) = Len(s) - 1
        /\ t \in Seq(Responses)
        /\ \A m \in 1 .. Len(s) - 1 : t[m] = s[m + 1]
    BY HeadTailProperties, EmptySeq
  <2> QED BY <2>1
<1>2. f \in [1 .. n -> Nat] /\ Told(k, t) = SumFunction(f)
  <2> HIDE DEF t
  <2> QED BY <1>1, ToldIs
<1>3. g \in [1 .. n + 1 -> Nat] /\ Told(k, s) = SumFunction(g)
  <2> HIDE DEF n
  <2> QED BY <1>1, ToldIs
<1>4. \A m \in 1 .. n : g[m + 1] = f[m]
  <2> HIDE DEF t, n
  <2> QED BY <1>1
<1>5. g[1] = Worth(k, Head(s))
  <2> HIDE DEF t, n
  <2> QED BY <1>1
<1> HIDE DEF t, n, f, g
<1>6. SumFunction(g) = g[1] + SumFunction(f)
  BY <1>1, <1>2, <1>3, <1>4, SumFirst
<1> QED BY <1>2, <1>3, <1>5, <1>6 DEF t

FiniteNetwork == IsFiniteSet(Kernels) /\ IsFiniteSet(Chans) /\ IsFiniteSet(Callers)

LEMMA ReadsType ==
  ASSUME TypeOK, FiniteNetwork, NEW k
  PROVE  /\ [c \in Chans |-> Told(k, rsp[c])] \in [Chans -> Nat]
         /\ [c \in Callers |-> Told(k, answers[c])] \in [Callers -> Nat]
         /\ ResetReads(k) \in Nat
PROOF
<1> DEFINE f == [c \in Chans |-> Told(k, rsp[c])]
           g == [c \in Callers |-> Told(k, answers[c])]
<1>1. f \in [Chans -> Nat] /\ g \in [Callers -> Nat]
  <2>1. \A c \in Chans : Told(k, rsp[c]) \in Nat
    BY ToldIs DEF TypeOK
  <2>2. \A c \in Callers : Told(k, answers[c]) \in Nat
    BY ToldIs DEF TypeOK
  <2> QED BY <2>1, <2>2
<1>2. ResetReads(k) = SumFunction(f) + SumFunction(g)
  BY DEF ResetReads
<1> HIDE DEF f, g
<1>3. SumFunction(f) \in Nat /\ SumFunction(g) \in Nat
  <2>1. SumFunctionOnSet(f, Chans) \in Nat /\ SumFunctionOnSet(g, Callers) \in Nat
    BY <1>1, SumTake DEF FiniteNetwork
  <2>2. DOMAIN f = Chans /\ DOMAIN g = Callers
    BY <1>1
  <2> QED BY <2>1, <2>2 DEF SumFunction
<1>4. ResetReads(k) \in Nat
  BY <1>2, <1>3
<1> QED BY <1>1, <1>4 DEF f, g

LEMMA ReadsTypeNext ==
  (TypeOK /\ FiniteNetwork =>
     \A k : /\ [c \in Chans |-> Told(k, rsp[c])] \in [Chans -> Nat]
            /\ [c \in Callers |-> Told(k, answers[c])] \in [Callers -> Nat])'
PROOF
<1>1. TypeOK /\ FiniteNetwork =>
        \A k : /\ [c \in Chans |-> Told(k, rsp[c])] \in [Chans -> Nat]
               /\ [c \in Callers |-> Told(k, answers[c])] \in [Callers -> Nat]
  BY ReadsType
<1> QED BY <1>1, PTL

LEMMA StateNumbers == TypeOK => \A k \in Kernels : st[k].a \in Nat /\ st[k].b \in Nat
PROOF
<1> SUFFICES ASSUME TypeOK, NEW k \in Kernels PROVE st[k].a \in Nat /\ st[k].b \in Nat
  OBVIOUS
<1>1. st[k] \in StateOf(Elem[k])
  BY DEF TypeOK
<1>2. ASSUME NEW kind, NEW s \in StateOf(kind) PROVE s.a \in Nat /\ s.b \in Nat
  BY FlitsType DEF StateOf
<1> QED BY <1>1, <1>2

\* A signal adds its answer to what the reads of its kernel have told.
LEMMA SignalTells ==
  ASSUME TypeInv, TypeOK', FiniteNetwork, NEW k \in Kernels, RunSignal(k), NEW j
  PROVE  ResetReads(j)' = ResetReads(j) + (IF j = k /\ sig[k].cmd = 1 THEN st[k].a ELSE 0)
PROOF
<1> DEFINE ch == SigChan[k]
           r == [ev |-> sig[k], from |-> k, val |-> st[k].a]
           f == [c \in Chans |-> Told(j, rsp[c])]
           f1 == [c \in Chans |-> Told(j, rsp'[c])]
           g == [c \in Callers |-> Told(j, answers[c])]
<1>1. /\ sig[k] # NoSig /\ answers' = answers
      /\ rsp' = [rsp EXCEPT ![ch] = Append(@, r)]
  BY DEF RunSignal, Signal
<1>2. ch \in Chans /\ rsp[ch] \in Seq(Responses)
  BY <1>1 DEF TypeInv, TypeOK, SignalOK
<1>3. r \in Responses
  <2>1. sig[k] \in Requests
    BY <1>1 DEF TypeInv, TypeOK
  <2>2. st[k].a \in Nat
    BY StateNumbers DEF TypeInv
  <2> QED BY <2>1, <2>2 DEF Responses
<1>4. Worth(j, r) = IF j = k /\ sig[k].cmd = 1 THEN st[k].a ELSE 0
  BY DEF Worth
<1>5. f \in [Chans -> Nat] /\ f1 \in [Chans -> Nat] /\ g \in [Callers -> Nat]
  BY ReadsType, ReadsTypeNext DEF TypeInv, FiniteNetwork
<1>6. ResetReads(j) = SumFunction(f) + SumFunction(g)
  BY DEF ResetReads
<1>7. ResetReads(j)' = SumFunction(f1) + SumFunction(g)
  BY <1>1 DEF ResetReads
<1> HIDE DEF r, ch
<1>8. f1[ch] = f[ch] + Worth(j, r)
  <2>1. rsp'[ch] = Append(rsp[ch], r)
    BY <1>1, <1>2 DEF TypeInv, TypeOK
  <2>2. Told(j, rsp'[ch]) = Told(j, rsp[ch]) + Worth(j, r)
    BY <1>2, <1>3, <2>1, ToldAppend
  <2> QED BY <1>2, <2>2
<1>9. \A c \in Chans \ {ch} : f[c] = f1[c]
  BY <1>1 DEF TypeInv, TypeOK
<1> HIDE DEF f, f1, g
<1>10. /\ SumFunction(f) \in Nat /\ SumFunction(f1) \in Nat
       /\ SumFunction(f1) + f[ch] = SumFunction(f) + f1[ch]
  BY <1>2, <1>5, <1>9, SumChange DEF FiniteNetwork
<1>11. f[ch] \in Nat /\ f1[ch] \in Nat
  BY <1>2, <1>5
<1>12. SumFunction(g) \in Nat
  <2>1. SumFunctionOnSet(g, Callers) \in Nat /\ DOMAIN g = Callers
    BY <1>5, SumTake DEF FiniteNetwork
  <2> QED BY <2>1 DEF SumFunction
<1>13. Worth(j, r) \in Nat
  BY <1>3 DEF Worth, Responses
<1>14. ResetReads(j)' = ResetReads(j) + Worth(j, r)
  BY <1>6, <1>7, <1>8, <1>10, <1>11, <1>12, <1>13
<1> QED BY <1>4, <1>14

\* An answer that is handed over is told once, by whom it was told before.
LEMMA ReturnTells ==
  ASSUME TypeInv, TypeOK', FiniteNetwork, NEW h \in Callers, Return(h), NEW j
  PROVE  ResetReads(j)' = ResetReads(j)
PROOF
<1> DEFINE ch == SigChan[Target[h]]
           r == Head(rsp[ch])
           f == [c \in Chans |-> Told(j, rsp[c])]
           f1 == [c \in Chans |-> Told(j, rsp'[c])]
           g == [c \in Callers |-> Told(j, answers[c])]
           g1 == [c \in Callers |-> Told(j, answers'[c])]
<1>1. /\ rsp[ch] # <<>>
      /\ answers' = [answers EXCEPT ![h] = Append(@, r)]
      /\ rsp' = [rsp EXCEPT ![ch] = Tail(@)]
  BY DEF Return
<1>2. ch \in Chans
  BY SwEmuAssumption
<1>3. rsp[ch] \in Seq(Responses) /\ answers[h] \in Seq(Responses)
  BY <1>2 DEF TypeInv, TypeOK
<1>4. r \in Responses
  BY <1>1, <1>3, HeadTailProperties
<1>5. /\ f \in [Chans -> Nat] /\ f1 \in [Chans -> Nat]
      /\ g \in [Callers -> Nat] /\ g1 \in [Callers -> Nat]
  BY ReadsType, ReadsTypeNext DEF TypeInv, FiniteNetwork
<1>6. ResetReads(j) = SumFunction(f) + SumFunction(g)
  BY DEF ResetReads
<1>7. ResetReads(j)' = SumFunction(f1) + SumFunction(g1)
  BY DEF ResetReads
<1>8. f[ch] = Worth(j, r) + f1[ch]
  <2>1. rsp'[ch] = Tail(rsp[ch])
    BY <1>1, <1>2 DEF TypeInv, TypeOK
  <2>2. Told(j, rsp[ch]) = Worth(j, r) + Told(j, rsp'[ch])
    BY <1>1, <1>3, <2>1, ToldTail
  <2> HIDE DEF ch, r
  <2> QED BY <1>2, <2>2
<1>9. g1[h] = g[h] + Worth(j, r)
  <2> HIDE DEF ch, r
  <2>1. answers'[h] = Append(answers[h], r)
    BY <1>1 DEF TypeInv, TypeOK
  <2>2. Told(j, answers'[h]) = Told(j, answers[h]) + Worth(j, r)
    BY <1>3, <1>4, <2>1, ToldAppend
  <2> QED BY <2>2
<1>10. Worth(j, r) \in Nat
  <2> HIDE DEF ch, r
  <2> QED BY <1>4 DEF Worth, Responses
<1> HIDE DEF r, ch
<1>11. \A c \in Chans \ {ch} : f[c] = f1[c]
  BY <1>1 DEF TypeInv, TypeOK
<1>12. \A c \in Callers \ {h} : g[c] = g1[c]
  BY <1>1 DEF TypeInv, TypeOK
<1> HIDE DEF f, f1, g, g1
<1>13. /\ SumFunction(f) \in Nat /\ SumFunction(f1) \in Nat
       /\ SumFunction(f1) + f[ch] = SumFunction(f) + f1[ch]
  BY <1>2, <1>5, <1>11, SumChange DEF FiniteNetwork
<1>14. /\ SumFunction(g) \in Nat /\ SumFunction(g1) \in Nat
       /\ SumFunction(g1) + g[h] = SumFunction(g) + g1[h]
  BY <1>5, <1>12, SumChange DEF FiniteNetwork
<1>15. f1[ch] \in Nat /\ g[h] \in Nat
  BY <1>2, <1>5
<1> QED BY <1>6, <1>7, <1>8, <1>9, <1>10, <1>13, <1>14, <1>15

\* What all elements have counted.
Counts == [k \in Kernels |-> Absorbed(k)]

LEMMA AbsorbedIs ==
  ASSUME TypeOK, FiniteNetwork, NEW k \in Kernels
  PROVE  /\ Counted(Elem[k], st[k]) \in Nat /\ Absorbed(k) \in Nat
         /\ Absorbed(k) = Counted(Elem[k], st[k])
                            + (IF Elem[k] = "Counter" THEN ResetReads(k) ELSE 0)
PROOF
<1>1. st[k].a \in Nat /\ st[k].b \in Nat
  BY StateNumbers
<1>2. ResetReads(k) \in Nat
  BY ReadsType
<1>3. CASE Elem[k] = "Counter"
  BY <1>1, <1>2, <1>3 DEF Absorbed, Counted
<1>4. CASE Elem[k] = "Pass"
  BY <1>1, <1>2, <1>4 DEF Absorbed, Counted
<1>5. CASE Elem[k] # "Counter" /\ Elem[k] # "Pass"
  BY <1>1, <1>2, <1>5 DEF Absorbed, Counted
<1> QED BY <1>3, <1>4, <1>5

LEMMA AbsorbedNext ==
  (TypeOK /\ FiniteNetwork =>
     \A k \in Kernels :
         /\ Absorbed(k) \in Nat
         /\ Absorbed(k) = Counted(Elem[k], st[k])
                            + (IF Elem[k] = "Counter" THEN ResetReads(k) ELSE 0))'
PROOF
<1>1. TypeOK /\ FiniteNetwork =>
        \A k \in Kernels :
            /\ Absorbed(k) \in Nat
            /\ Absorbed(k) = Counted(Elem[k], st[k])
                               + (IF Elem[k] = "Counter" THEN ResetReads(k) ELSE 0)
  BY AbsorbedIs
<1> QED BY <1>1, PTL

LEMMA AccountedIs ==
  TypeOK => (Accounted <=>
               Cardinality({f \in 1 .. nxt : ~Present(f)}) = SumFunction(Counts))
PROOF
<1> SUFFICES ASSUME TypeOK
             PROVE  Accounted <=>
                      Cardinality({f \in 1 .. nxt : ~Present(f)}) = SumFunction(Counts)
  OBVIOUS
<1>1. {f \in 1 .. nxt : Places(f) = {}} = {f \in 1 .. nxt : ~Present(f)}
  BY PresentIs
<1> QED BY <1>1, Zenon DEF Accounted, Counts

LEMMA AccountedIsNext ==
  (TypeOK => (Accounted <=>
               Cardinality({f \in 1 .. nxt : ~Present(f)}) = SumFunction(Counts)))'
BY AccountedIs, PTL

\* A step that neither takes nor brings a flit and keeps the counts.
LEMMA SameCounts ==
  ASSUME TypeOK, TypeOK', Accounted, AllStay, nxt' = nxt,
         \A k \in Kernels : Absorbed(k)' = Absorbed(k)
  PROVE  Accounted'
PROOF
<1>1. {f \in 1 .. nxt : ~Present(f)}' = {f \in 1 .. nxt : ~Present(f)}
  BY DEF AllStay
<1>2. Counts' = Counts
  BY DEF Counts
<1>3. Cardinality({f \in 1 .. nxt : ~Present(f)})' = Cardinality({f \in 1 .. nxt : ~Present(f)})
      /\ SumFunction(Counts)' = SumFunction(Counts)
  BY <1>1, <1>2
<1> QED BY <1>3, AccountedIs, AccountedIsNext

\* A step that leaves `_state` and the answers alone keeps the counts.
LEMMA CountsFrame ==
  ASSUME UNCHANGED <<rsp, answers, st>>
  PROVE  \A k \in Kernels : Absorbed(k)' = Absorbed(k)
BY DEF Absorbed, ResetReads

AccountInv == TypeInv /\ PlaceInv /\ ReadOK /\ Accounted

LEMMA HandlerAccount ==
  ASSUME AccountInv, TypeOK', FiniteNetwork, NEW k \in Kernels, RunHandler(k), Elem[k] # "Tee"
  PROVE  Accounted'
PROOF
<1> DEFINE d == Dropped(Elem[k], held[k])
           M == {f \in 1 .. nxt : ~Present(f)}
           M1 == {f \in 1 .. nxt' : ~Present(f)'}
           one == IF d = NoFlit THEN 0 ELSE 1
<1>t. TypeOK /\ TypeInv /\ PlaceInv /\ Accounted /\ nxt' = nxt /\ NoFlit = 0
  BY FlitsType DEF AccountInv, TypeInv, RunHandler, dataVars
<1>1. /\ \A f \in 1 .. nxt : Present(f)' <=> Present(f) /\ f # d
      /\ d # NoFlit => d \in 1 .. nxt /\ Present(d)
  BY <1>t, HandlerStay
<1>2. /\ UNCHANGED <<rsp, answers>>
      /\ st' = [st EXCEPT ![k] = Handler(Elem[k], held[k], st[k]).st]
  BY DEF RunHandler, signalVars
<1>3. Counted(Elem[k], st'[k]) = Counted(Elem[k], st[k]) + one
  <2>1. Elem[k] \in Kinds /\ held[k] \in Held /\ st[k] \in StateOf(Elem[k])
    BY <1>t, SwEmuAssumption DEF TypeOK, Held
  <2>2. HandledAs(Elem[k], held[k], st[k], Handler(Elem[k], held[k], st[k]))
    BY <2>1, HandlerAccounts
  <2>3. st'[k] = Handler(Elem[k], held[k], st[k]).st
    BY <1>t, <1>2 DEF TypeOK
  <2> QED BY <2>2, <2>3 DEF HandledAs
<1> HIDE DEF d
<1>4. IsFiniteSet(M) /\ Cardinality(M) \in Nat
  <2>1. nxt \in Nat
    BY <1>t, ElementsAssumption DEF TypeOK
  <2>2. IsFiniteSet(1 .. nxt) /\ M \in SUBSET (1 .. nxt)
    BY <2>1, FiniteInterval
  <2> HIDE DEF M
  <2> QED BY <2>2, FS_Subset, FS_CardinalityType
<1>5. Cardinality(M1) = Cardinality(M) + one
  <2>1. CASE d = NoFlit
    <3>1. \A f \in 1 .. nxt : f # d
      BY <1>t, <2>1
    <3>2. M1 = M
      BY <1>t, <1>1, <3>1
    <3> QED BY <1>4, <2>1, <3>2
  <2>2. CASE d # NoFlit
    <3>1. M1 = M \cup {d}
      BY <1>t, <1>1, <2>2
    <3>2. d \notin M
      BY <1>1, <2>2
    <3> HIDE DEF M, M1
    <3> QED BY <1>4, <2>2, <3>1, <3>2, FS_AddElement
  <2> QED BY <2>1, <2>2
<1>6. /\ Absorbed(k)' = Absorbed(k) + one
      /\ \A j \in Kernels \ {k} : Absorbed(j)' = Absorbed(j)
  <2>1. \A j : ResetReads(j)' = ResetReads(j)
    BY <1>2 DEF ResetReads
  <2>2. \A j \in Kernels \ {k} : st'[j] = st[j]
    BY <1>t, <1>2 DEF TypeOK
  <2>3. \A j \in Kernels \ {k} : Absorbed(j)' = Absorbed(j)
    BY <2>1, <2>2 DEF Absorbed
  <2>4. /\ Absorbed(k) = Counted(Elem[k], st[k])
                           + (IF Elem[k] = "Counter" THEN ResetReads(k) ELSE 0)
        /\ Absorbed(k)' = Counted(Elem[k], st'[k])
                           + (IF Elem[k] = "Counter" THEN ResetReads(k) ELSE 0)
    BY <1>t, <2>1, AbsorbedIs, AbsorbedNext DEF FiniteNetwork
  <2>5. Counted(Elem[k], st[k]) \in Nat /\ ResetReads(k) \in Nat
    BY <1>t, AbsorbedIs, ReadsType
  <2> HIDE DEF one
  <2>6. one \in Nat
    BY DEF one
  <2>7. Absorbed(k)' = Absorbed(k) + one
    BY <1>3, <2>4, <2>5, <2>6
  <2> QED BY <2>3, <2>7
<1>7. SumFunction(Counts)' = SumFunction(Counts) + one
  <2>1. Counts \in [Kernels -> Nat] /\ Counts' \in [Kernels -> Nat]
    <3>1. \A j \in Kernels : Absorbed(j) \in Nat /\ Absorbed(j)' \in Nat
      BY <1>t, AbsorbedIs, AbsorbedNext DEF FiniteNetwork
    <3> QED BY <3>1 DEF Counts
  <2>2. \A j \in Kernels : Counts[j] = Absorbed(j) /\ Counts'[j] = Absorbed(j)'
    BY DEF Counts
  <2>3. IsFiniteSet(Kernels)
    BY DEF FiniteNetwork
  <2>4. /\ SumFunction(Counts) \in Nat /\ SumFunction(Counts') \in Nat
        /\ SumFunction(Counts') + Counts[k] = SumFunction(Counts) + Counts'[k]
    BY <1>6, <2>1, <2>2, <2>3, SumChange
  <2>5. Counts[k] \in Nat /\ Counts'[k] = Counts[k] + one /\ one \in Nat
    BY <1>6, <2>1, <2>2
  <2> QED BY <2>4, <2>5
<1>8. Cardinality(M) = SumFunction(Counts)
  BY <1>t, AccountedIs
<1>9. Cardinality(M1) = SumFunction(Counts)'
  BY <1>5, <1>7, <1>8
<1> QED BY <1>9, AccountedIsNext

LEMMA SignalAccount ==
  ASSUME AccountInv, TypeOK', FiniteNetwork, NEW k \in Kernels, RunSignal(k)
  PROVE  Accounted'
PROOF
<1>t. TypeOK /\ TypeInv
  BY DEF AccountInv, TypeInv
<1>1. /\ UNCHANGED <<q, recv, held, lost, nxt>>
      /\ \A j \in Kernels : pc'[j] = "write" <=> pc[j] = "write"
      /\ \A j \in Kernels : pc[j] = "write" => todo'[j] = todo[j] /\ out'[j] = out[j]
  BY <1>t DEF RunSignal, dataVars, TypeOK
<1>2. /\ st'[k] = IF Elem[k] = "Counter" /\ sig[k].cmd = 1
                  THEN [st[k] EXCEPT !.a = 0] ELSE st[k]
      /\ \A j \in Kernels \ {k} : st'[j] = st[j]
  BY <1>t DEF RunSignal, Signal, TypeOK
<1>3. \A j \in Kernels : Elem[j] = "StagingReg" => st'[j].a = st[j].a
  BY <1>2
<1>4. AllStay
  BY <1>t, <1>1, <1>3, StayFrame
<1>5. ASSUME NEW j \in Kernels PROVE Absorbed(j)' = Absorbed(j)
  <2>1. ResetReads(j)' = ResetReads(j) + (IF j = k /\ sig[k].cmd = 1 THEN st[k].a ELSE 0)
    BY <1>t, SignalTells
  <2>2. ResetReads(j) \in Nat /\ st[j].a \in Nat /\ st[j].b \in Nat
    BY <1>t, ReadsType, StateNumbers
  <2>3. CASE j # k
    <3>1. ResetReads(j)' = ResetReads(j) /\ st'[j] = st[j]
      BY <1>2, <2>1, <2>2, <2>3
    <3> QED BY <3>1 DEF Absorbed
  <2>4. CASE j = k /\ Elem[k] = "Counter"
    <3>1. st[k] \in [a : Nat, b : Nat]
      BY <1>t, <2>4 DEF TypeOK, StateOf
    <3>2. st'[k].a = IF sig[k].cmd = 1 THEN 0 ELSE st[k].a
      BY <1>2, <2>4, <3>1
    <3>3. Absorbed(j)' = st'[j].a + ResetReads(j)' /\ Absorbed(j) = st[j].a + ResetReads(j)
      BY <2>4 DEF Absorbed
    <3> QED BY <2>1, <2>2, <2>4, <3>2, <3>3
  <2>5. CASE j = k /\ Elem[k] # "Counter"
    <3>1. st'[j] = st[j]
      BY <1>2, <2>5
    <3> QED BY <2>5, <3>1 DEF Absorbed
  <2> QED BY <2>3, <2>4, <2>5
<1> QED BY <1>t, <1>1, <1>4, <1>5, SameCounts DEF AccountInv

LEMMA InjectAccount ==
  ASSUME AccountInv, TypeOK', FiniteNetwork, NEW s \in Sources, Inject(s)
  PROVE  Accounted'
PROOF
<1>t. TypeOK /\ TypeInv /\ nxt \in Nat /\ nxt' = nxt + 1
  BY ElementsAssumption DEF AccountInv, TypeInv, TypeOK, Inject
<1>1. AllStay /\ Present(nxt)'
  BY <1>t, InjectStay
<1>2. {f \in 1 .. nxt : ~Present(f)}' = {f \in 1 .. nxt : ~Present(f)}
  <2>1. {f \in 1 .. nxt' : ~Present(f)'} = {f \in 1 .. nxt : ~Present(f)}
    <3>1. 1 .. nxt' = (1 .. nxt) \cup {nxt'}
      BY <1>t
    <3>2. \A f \in {nxt'} : Present(f)'
      BY <1>1
    <3> QED BY <1>1, <3>1, <3>2 DEF AllStay
  <2> QED BY <2>1
<1>3. \A k \in Kernels : Absorbed(k)' = Absorbed(k)
  BY CountsFrame DEF Inject, kernelVars, signalVars
<1>4. Counts' = Counts
  BY <1>3 DEF Counts
<1>5. Cardinality({f \in 1 .. nxt : ~Present(f)})' = Cardinality({f \in 1 .. nxt : ~Present(f)})
      /\ SumFunction(Counts)' = SumFunction(Counts)
  BY <1>2, <1>4
<1> QED BY <1>t, <1>5, AccountedIs, AccountedIsNext DEF AccountInv

LEMMA StepAccount ==
  ASSUME AccountInv, TypeOK', FiniteNetwork, [Next]_vars, \A k \in Kernels : Elem[k] # "Tee"
  PROVE  Accounted'
PROOF
<1>t. TypeOK /\ TypeInv /\ ReadOK /\ Accounted
  BY DEF AccountInv, TypeInv
<1>1. ASSUME NEW k \in Kernels, Exit(k) \/ LoopTop(k) PROVE Accounted'
  <2>1. /\ UNCHANGED <<q, recv, held, lost, nxt, out, st, rsp, answers>>
        /\ \A j \in Kernels : pc'[j] = "write" <=> pc[j] = "write"
        /\ \A j \in Kernels : pc[j] = "write" => todo'[j] = todo[j]
    BY <1>1, <1>t DEF Exit, LoopTop, dataVars, signalVars, TypeOK
  <2> QED BY <1>t, <2>1, StayFrame, CountsFrame, SameCounts
<1>2. ASSUME NEW k \in Kernels, ReadPort(k) PROVE Accounted'
  <2>1. UNCHANGED <<nxt, st, rsp, answers>>
    BY <1>2 DEF ReadPort, signalVars
  <2> QED BY <1>2, <1>t, <2>1, ReadStay, CountsFrame, SameCounts
<1>3. ASSUME NEW k \in Kernels, WritePort(k) PROVE Accounted'
  <2>1. UNCHANGED <<nxt, st, rsp, answers>>
    BY <1>3 DEF WritePort, signalVars
  <2> QED BY <1>3, <1>t, <2>1, WriteStay, CountsFrame, SameCounts
<1>4. ASSUME NEW i \in Sinks, Drain(i) PROVE Accounted'
  <2>1. UNCHANGED <<nxt, st, rsp, answers>>
    BY <1>4 DEF Drain, kernelVars, signalVars
  <2> QED BY <1>4, <1>t, <2>1, DrainStay, CountsFrame, SameCounts
<1>5. ASSUME UNCHANGED <<dataVars, kernelVars>>,
             \A k \in Kernels : Absorbed(k)' = Absorbed(k)
      PROVE  Accounted'
  <2>1. UNCHANGED <<q, recv, held, lost, nxt, pc, todo, out, st>>
    BY <1>5 DEF dataVars, kernelVars
  <2> QED BY <1>5, <1>t, <2>1, StayFrame, SameCounts
<1>6. ASSUME NEW c \in Callers, Return(c) PROVE Accounted'
  <2>1. UNCHANGED <<dataVars, kernelVars, st>>
    BY <1>6 DEF Return, kernelVars
  <2>2. \A j : ResetReads(j)' = ResetReads(j)
    BY <1>6, <1>t, ReturnTells
  <2>3. \A k \in Kernels : Absorbed(k)' = Absorbed(k)
    BY <2>1, <2>2 DEF Absorbed
  <2> QED BY <1>5, <2>1, <2>3
<1>7. ASSUME UNCHANGED <<dataVars, kernelVars, rsp, answers>> PROVE Accounted'
  BY <1>5, <1>7, CountsFrame DEF kernelVars
<1>8. ASSUME NEW c \in Callers, NEW cmd \in Commands, Call(c, cmd) PROVE Accounted'
  BY <1>7, <1>8 DEF Call
<1>9. ASSUME NEW c \in Callers, TimeOut(c) PROVE Accounted'
  BY <1>7, <1>9 DEF TimeOut
<1>10. CASE Stop \/ UNCHANGED vars
  BY <1>7, <1>10 DEF Stop, vars, signalVars
<1> QED BY <1>1, <1>2, <1>3, <1>4, <1>6, <1>8, <1>9, <1>10,
           HandlerAccount, SignalAccount, InjectAccount DEF Next, Kernel, Harness

LEMMA InitAccount == FiniteNetwork /\ Init => Accounted
PROOF
<1> SUFFICES ASSUME FiniteNetwork, Init PROVE Accounted
  OBVIOUS
<1>t. TypeOK
  BY InitTypeInv DEF TypeInv
<1>1. {f \in 1 .. nxt : ~Present(f)} = {}
  <2>1. 1 .. nxt = {}
    BY DEF Init
  <2> QED BY <2>1
<1>2. ASSUME NEW k \in Kernels PROVE Absorbed(k) = 0
  <2>1. Told(k, <<>>) = 0
    <3>1. Told(k, <<>>) = SumFunction([n \in {} |-> Worth(k, <<>>[n])])
      BY DEF Told, Worth
    <3> QED BY <3>1, EmptySum
  <2>2. ResetReads(k) = SumFunction([c \in Chans |-> 0]) + SumFunction([c \in Callers |-> 0])
    <3>1. \A c \in Chans : Told(k, rsp[c]) = 0
      BY <2>1 DEF Init
    <3>2. \A c \in Callers : Told(k, answers[c]) = 0
      BY <2>1 DEF Init
    <3> QED BY <3>1, <3>2 DEF ResetReads
  <2>3. ResetReads(k) = 0
    BY <2>2, ZeroSum DEF FiniteNetwork
  <2>4. Elem[k] = "Counter" \/ Elem[k] = "Pass" => st[k].a = 0 /\ st[k].b = 0
    BY DEF Init, InitState
  <2> QED BY <2>3, <2>4 DEF Absorbed
<1>3. Counts = [k \in Kernels |-> 0]
  BY <1>2 DEF Counts
<1>4. SumFunction(Counts) = 0
  BY <1>3, ZeroSum DEF FiniteNetwork
<1> QED BY <1>1, <1>4, <1>t, FS_EmptySet, AccountedIs

\* In every network without a Tee, with any arbiters, depths, unconnected ports,
\* callers and time-outs, the flits that are nowhere are as many as the elements'
\* counters and the answers of resetting reads say: the loop swallows no flit, and a
\* read that resets a counter loses no count.
THEOREM NothingUnaccounted ==
  ASSUME FiniteNetwork, \A k \in Kernels : Elem[k] # "Tee"
  PROVE  Spec => []Accounted
PROOF
<1>1. Init => AccountInv
  BY InitTypeInv, InitPlaces, InitRead, InitAccount DEF AccountInv
<1>2. AccountInv /\ [Next]_vars => AccountInv'
  <2> SUFFICES ASSUME AccountInv, [Next]_vars PROVE AccountInv'
    OBVIOUS
  <2>1. TypeInv' /\ ReadOK'
    BY StepTypeInv, StepRead DEF AccountInv
  <2>2. PlaceInv'
    BY <2>1, StepPlaces DEF AccountInv
  <2>3. Accounted'
    BY <2>1, StepAccount DEF TypeInv
  <2> QED BY <2>1, <2>2, <2>3 DEF AccountInv
<1>3. AccountInv => Accounted
  BY DEF AccountInv
<1> QED BY <1>1, <1>2, <1>3, PTL DEF Spec

(***************************************************************************)
(* The signal RPC.  A caller that has its channel for itself, and whose    *)
(* channel belongs to one kernel, as in KernelHarness, has its calls in    *)
(* one line: those that were answered, the answers under way, the event    *)
(* being served and the requests under way.  LoopTop, RunSignal and Return *)
(* only move the calls along the line.                                     *)
(***************************************************************************)
OwnChannels ==
  /\ \A c, d \in Callers : SigChan[Target[c]] = SigChan[Target[d]] => c = d
  /\ \A c \in Callers, k \in Kernels : SigChan[k] = SigChan[Target[c]] => k = Target[c]

ChanOf(c) == SigChan[Target[c]]
Asked(s)  == [n \in 1 .. Len(s) |-> s[n].ev]
Served(k) == IF sig[k] = NoSig THEN <<>> ELSE <<sig[k]>>

CallLine(c) ==
  Asked(answers[c]) \o Asked(rsp[ChanOf(c)]) \o Served(Target[c]) \o req[ChanOf(c)]

\* The calls in a line are made one after the other and never twice.
Numbered(s, n) ==
  /\ \A i, j \in 1 .. Len(s) : i < j => s[i].n < s[j].n
  /\ \A i \in 1 .. Len(s) : s[i].n <= n

CallInv == \A c \in Callers : Numbered(CallLine(c), calls[c])

LEMMA HeadTailConcat ==
  ASSUME NEW S, NEW s \in Seq(S), s # <<>>
  PROVE  <<Head(s)>> \in Seq(S) /\ s = <<Head(s)>> \o Tail(s)
<1>1. /\ Head(s) \in S /\ Tail(s) \in Seq(S) /\ Len(Tail(s)) = Len(s) - 1
      /\ \A i \in 1 .. Len(Tail(s)) : Tail(s)[i] = s[i + 1]
      /\ Len(s) \in Nat \ {0}
  BY HeadTailProperties, EmptySeq
<1>2. <<Head(s)>> \in Seq(S) /\ Len(<<Head(s)>>) = 1 /\ <<Head(s)>>[1] = s[1]
  BY <1>1
<1> DEFINE t == <<Head(s)>>
<1> HIDE DEF t
<1>3. /\ t \o Tail(s) \in Seq(S) /\ Len(t \o Tail(s)) = Len(s)
      /\ \A i \in 1 .. Len(s) : (t \o Tail(s))[i] = s[i]
  <2>1. t \in Seq(S) /\ Len(t) = 1 /\ t[1] = s[1]
    BY <1>2 DEF t
  <2>2. /\ t \o Tail(s) \in Seq(S) /\ Len(t \o Tail(s)) = Len(t) + Len(Tail(s))
        /\ \A i \in 1 .. Len(t) + Len(Tail(s)) : (t \o Tail(s))[i] =
             IF i <= Len(t) THEN t[i] ELSE Tail(s)[i - Len(t)]
    BY <1>1, <2>1, ConcatProperties
  <2>3. ASSUME NEW i \in 1 .. Len(s) PROVE (t \o Tail(s))[i] = s[i]
    <3>1. CASE i = 1
      BY <1>1, <2>1, <2>2, <3>1
    <3>2. CASE i > 1
      <4>1. i - 1 \in 1 .. Len(Tail(s)) /\ (i - 1) + 1 = i
        BY <1>1, <3>2
      <4>2. (t \o Tail(s))[i] = Tail(s)[i - 1]
        BY <1>1, <2>1, <2>2, <3>2
      <4>3. QED
        BY <1>1, <4>1, <4>2
    <3>3. i = 1 \/ i > 1
      <4>1. Len(s) \in Nat
        BY <1>1
      <4>2. QED
        BY <4>1
    <3>4. QED
      BY <3>1, <3>2, <3>3
  <2>4. QED
    BY <1>1, <2>1, <2>2, <2>3
<1>4. s = t \o Tail(s)
  BY <1>3, SeqEqual
<1>5. QED
  BY <1>2, <1>4 DEF t

LEMMA ResponseEv == \A r \in Responses : r.ev \in Requests
  BY DEF Responses

LEMMA AskedType ==
  ASSUME NEW s \in Seq(Responses)
  PROVE  /\ Asked(s) \in Seq(Requests) /\ Len(Asked(s)) = Len(s)
         /\ \A n \in 1 .. Len(s) : Asked(s)[n] = s[n].ev
<1>1. Len(s) \in Nat
  BY LenProperties
<1>2. \A n \in 1 .. Len(s) : s[n].ev \in Requests
  BY ElementOfSeq, ResponseEv
<1> DEFINE L == Len(s)
<1>3. Asked(s) = [n \in 1 .. L |-> s[n].ev]
  BY DEF Asked
<1> HIDE DEF L
<1>4. [n \in 1 .. L |-> s[n].ev] \in Seq(Requests) /\ Len([n \in 1 .. L |-> s[n].ev]) = L
  BY <1>1, <1>2 DEF L
<1>5. QED
  BY <1>3, <1>4 DEF L

LEMMA AskedAppend ==
  ASSUME NEW s \in Seq(Responses), NEW r \in Responses
  PROVE  Asked(Append(s, r)) = Asked(s) \o <<r.ev>>
<1>1. r.ev \in Requests
  BY ResponseEv
<1>2. /\ Append(s, r) \in Seq(Responses) /\ Len(Append(s, r)) = Len(s) + 1
      /\ \A i \in 1 .. Len(s) : Append(s, r)[i] = s[i]
      /\ Append(s, r)[Len(s) + 1] = r
      /\ Len(s) \in Nat
  BY AppendProperties, LenProperties
<1>3. /\ Asked(s) \in Seq(Requests) /\ Len(Asked(s)) = Len(s)
      /\ \A n \in 1 .. Len(s) : Asked(s)[n] = s[n].ev
  BY AskedType
<1>4. /\ Asked(Append(s, r)) \in Seq(Requests) /\ Len(Asked(Append(s, r))) = Len(s) + 1
      /\ \A n \in 1 .. Len(s) + 1 : Asked(Append(s, r))[n] = Append(s, r)[n].ev
  BY <1>2, AskedType
<1>5. /\ Append(Asked(s), r.ev) \in Seq(Requests)
      /\ Len(Append(Asked(s), r.ev)) = Len(s) + 1
      /\ \A i \in 1 .. Len(s) : Append(Asked(s), r.ev)[i] = Asked(s)[i]
      /\ Append(Asked(s), r.ev)[Len(s) + 1] = r.ev
  BY <1>1, <1>3, AppendProperties
<1>6. \A n \in 1 .. Len(s) + 1 : Asked(Append(s, r))[n] = Append(Asked(s), r.ev)[n]
  <2> SUFFICES ASSUME NEW n \in 1 .. Len(s) + 1
               PROVE  Asked(Append(s, r))[n] = Append(Asked(s), r.ev)[n]
    OBVIOUS
  <2>1. CASE n = Len(s) + 1
    BY <1>2, <1>4, <1>5, <2>1
  <2>2. CASE n \in 1 .. Len(s)
    BY <1>2, <1>3, <1>4, <1>5, <2>2
  <2>3. n = Len(s) + 1 \/ n \in 1 .. Len(s)
    <3>1. Len(s) \in Nat
      BY <1>2
    <3>2. QED
      BY <3>1
  <2>4. QED
    BY <2>1, <2>2, <2>3
<1>7. Asked(Append(s, r)) = Append(Asked(s), r.ev)
  BY <1>4, <1>5, <1>6, SeqEqual
<1>8. QED
  BY <1>1, <1>3, <1>7, AppendIsConcat

LEMMA AskedHead ==
  ASSUME NEW s \in Seq(Responses), s # <<>>
  PROVE  Asked(s) = <<Head(s).ev>> \o Asked(Tail(s))
<1>1. /\ Head(s) = s[1] /\ Tail(s) \in Seq(Responses) /\ Len(Tail(s)) = Len(s) - 1
      /\ \A i \in 1 .. Len(Tail(s)) : Tail(s)[i] = s[i + 1]
      /\ Len(s) \in Nat \ {0}
  BY HeadTailProperties, EmptySeq
<1>2. /\ Asked(s) \in Seq(Requests) /\ Len(Asked(s)) = Len(s)
      /\ \A n \in 1 .. Len(s) : Asked(s)[n] = s[n].ev
  BY AskedType
<1>3. /\ Asked(Tail(s)) \in Seq(Requests) /\ Len(Asked(Tail(s))) = Len(s) - 1
      /\ \A n \in 1 .. Len(s) - 1 : Asked(Tail(s))[n] = Tail(s)[n].ev
  BY <1>1, AskedType
<1>4. Asked(s) # <<>> /\ Head(Asked(s)) = Head(s).ev
  BY <1>1, <1>2, EmptySeq
<1>5. /\ Tail(Asked(s)) \in Seq(Requests) /\ Len(Tail(Asked(s))) = Len(s) - 1
      /\ \A n \in 1 .. Len(s) - 1 : Tail(Asked(s))[n] = Asked(s)[n + 1]
  BY <1>2, <1>4, HeadTailProperties
<1>6. \A n \in 1 .. Len(s) - 1 : Tail(Asked(s))[n] = Asked(Tail(s))[n]
  <2> SUFFICES ASSUME NEW n \in 1 .. Len(s) - 1
               PROVE  Tail(Asked(s))[n] = Asked(Tail(s))[n]
    OBVIOUS
  <2>1. n + 1 \in 1 .. Len(s) /\ n \in 1 .. Len(Tail(s))
    BY <1>1
  <2>2. Tail(Asked(s))[n] = s[n + 1].ev
    BY <1>2, <1>5, <2>1
  <2>3. QED
    BY <1>1, <1>3, <2>1, <2>2
<1>7. Tail(Asked(s)) = Asked(Tail(s))
  BY <1>3, <1>5, <1>6, SeqEqual
<1>8. QED
  BY <1>2, <1>4, <1>7, HeadTailConcat

\* The parts of a line are sequences of requests.
LEMMA LineType ==
  ASSUME TypeOK, NEW c \in Callers
  PROVE  /\ Target[c] \in Kernels /\ ChanOf(c) \in Chans
         /\ answers[c] \in Seq(Responses) /\ rsp[ChanOf(c)] \in Seq(Responses)
         /\ Asked(answers[c]) \in Seq(Requests)
         /\ Asked(rsp[ChanOf(c)]) \in Seq(Requests)
         /\ Served(Target[c]) \in Seq(Requests)
         /\ req[ChanOf(c)] \in Seq(Requests)
<1>1. Target[c] \in Kernels /\ ChanOf(c) \in Chans
  BY SwEmuAssumption DEF ChanOf
<1>2. /\ answers[c] \in Seq(Responses) /\ rsp[ChanOf(c)] \in Seq(Responses)
      /\ req[ChanOf(c)] \in Seq(Requests)
  BY <1>1 DEF TypeOK
<1>3. Asked(answers[c]) \in Seq(Requests) /\ Asked(rsp[ChanOf(c)]) \in Seq(Requests)
  BY <1>2, AskedType
<1>4. Served(Target[c]) \in Seq(Requests)
  <2>1. CASE sig[Target[c]] = NoSig
    BY <2>1, EmptySeq DEF Served
  <2>2. CASE sig[Target[c]] # NoSig
    <3>1. sig[Target[c]] \in Requests
      BY <1>1, <2>2 DEF TypeOK
    <3> HIDE DEF NoSig
    <3>2. QED
      BY <2>2, <3>1 DEF Served
  <2>3. QED
    BY <2>1, <2>2
<1>5. QED
  BY <1>1, <1>2, <1>3, <1>4

\* Concatenation is associative, for the requests of a line.
LEMMA LineAssoc ==
  ASSUME NEW x \in Seq(Requests), NEW y \in Seq(Requests), NEW z \in Seq(Requests)
  PROVE  (x \o y) \o z = x \o (y \o z)
BY ConcatAssociative

LEMMA LineConcat ==
  ASSUME NEW x \in Seq(Requests), NEW y \in Seq(Requests)
  PROVE  x \o y \in Seq(Requests) /\ x \o <<>> = x
BY ConcatProperties, ConcatEmptySeq

\* What happens to a line of answered calls a, waiting answers b, a call h and
\* requests r, when h is received, answered, returned or posted.
MovesReceived(a, b, h, r) == ((a \o b) \o <<>>) \o (h \o r) = ((a \o b) \o h) \o r
MovesAnswered(a, b, h, r) == ((a \o (b \o h)) \o <<>>) \o r = ((a \o b) \o h) \o r
MovesReturned(a, b, h, n, r) ==
  (((a \o h) \o b) \o n) \o r = ((a \o (h \o b)) \o n) \o r
MovesPosted(a, b, n, r, h) ==
  /\ ((a \o b) \o n) \o (r \o h) = (((a \o b) \o n) \o r) \o h
  /\ ((a \o b) \o n) \o r \in Seq(Requests)

\* A call h that its kernel receives moves along the line.
LEMMA LineReceive ==
  ASSUME NEW a \in Seq(Requests), NEW b \in Seq(Requests), NEW h \in Seq(Requests),
         NEW r \in Seq(Requests)
  PROVE  MovesReceived(a, b, h, r)
<1> DEFINE ab == a \o b
<1>1. ab \in Seq(Requests) /\ ab \o <<>> = ab
  BY LineConcat, EmptySeq
<1> HIDE DEF ab
<1>2. (ab \o h) \o r = ab \o (h \o r)
  BY <1>1, LineAssoc
<1>3. QED
  BY <1>1, <1>2 DEF ab, MovesReceived

\* So does a call h that is answered,
LEMMA LineAnswer ==
  ASSUME NEW a \in Seq(Requests), NEW b \in Seq(Requests), NEW h \in Seq(Requests),
         NEW r \in Seq(Requests)
  PROVE  MovesAnswered(a, b, h, r)
<1> DEFINE bh == b \o h
<1>1. bh \in Seq(Requests)
  BY LineConcat
<1>2. (a \o b) \o h = a \o bh
  BY LineAssoc
<1> HIDE DEF bh
<1> DEFINE abh == a \o bh
<1>3. abh \in Seq(Requests)
  BY <1>1, LineConcat
<1> HIDE DEF abh
<1>4. abh \o <<>> = abh
  BY <1>3, LineConcat
<1>5. QED
  BY <1>2, <1>4, Zenon DEF abh, bh, MovesAnswered

\* and a call h that is returned.
LEMMA LineReturn ==
  ASSUME NEW a \in Seq(Requests), NEW b \in Seq(Requests), NEW h \in Seq(Requests),
         NEW n \in Seq(Requests), NEW r \in Seq(Requests)
  PROVE  MovesReturned(a, b, h, n, r)
<1>1. (a \o h) \o b = a \o (h \o b)
  BY LineAssoc, ZenonT(40)
<1>2. QED
  BY <1>1, Zenon DEF MovesReturned

\* A call h that is posted is put at the end.
LEMMA LinePost ==
  ASSUME NEW a \in Seq(Requests), NEW b \in Seq(Requests), NEW n \in Seq(Requests),
         NEW r \in Seq(Requests), NEW h \in Seq(Requests)
  PROVE  MovesPosted(a, b, n, r, h)
<1> DEFINE ab == a \o b
<1>1. ab \in Seq(Requests)
  BY LineConcat
<1> HIDE DEF ab
<1> DEFINE abn == ab \o n
<1>2. abn \in Seq(Requests)
  BY <1>1, LineConcat
<1> HIDE DEF abn
<1>3. abn \o r \in Seq(Requests)
  BY <1>2, LineConcat
<1>4. (abn \o r) \o h = abn \o (r \o h)
  BY <1>2, LineAssoc
<1>5. QED
  BY <1>3, <1>4, Zenon DEF abn, ab, MovesPosted

\* The request that is posted is the last of its line.
LEMMA NumberedAppend ==
  ASSUME NEW s \in Seq(Requests), NEW e \in Requests, NEW n \in Nat,
         Numbered(s, n), e.n = n + 1
  PROVE  Numbered(Append(s, e), n + 1)
<1> DEFINE t == Append(s, e)
           L == Len(s)
<1>1. /\ L \in Nat /\ Len(t) = L + 1
      /\ \A i \in 1 .. L : t[i] = s[i]
      /\ t[L + 1] = e
  BY AppendProperties, LenProperties
<1>2. \A i \in 1 .. L : s[i].n \in Nat
  <2>1. \A r \in Requests : r.n \in Nat
    BY SwEmuAssumption DEF Requests
  <2>2. QED
    BY <2>1, ElementOfSeq
<1>3. /\ \A i, j \in 1 .. L : i < j => s[i].n < s[j].n
      /\ \A i \in 1 .. L : s[i].n <= n
  BY DEF Numbered
<1> HIDE DEF t, L
<1>4. \A i \in 1 .. L + 1 : (i \in 1 .. L /\ t[i] = s[i]) \/ (i = L + 1 /\ t[i].n = n + 1)
  BY <1>1
<1>5. \A i \in 1 .. L + 1 : t[i].n <= n + 1
  BY <1>2, <1>3, <1>4
<1>6. \A i, j \in 1 .. L + 1 : i < j => t[i].n < t[j].n
  <2> SUFFICES ASSUME NEW i \in 1 .. L + 1, NEW j \in 1 .. L + 1, i < j
               PROVE  t[i].n < t[j].n
    OBVIOUS
  <2>1. i \in 1 .. L /\ t[i] = s[i]
    BY <1>1
  <2>2. CASE j \in 1 .. L
    BY <1>1, <1>3, <2>1, <2>2
  <2>3. CASE j = L + 1
    BY <1>1, <1>2, <1>3, <1>4, <2>1, <2>3
  <2>4. QED
    BY <1>4, <2>2, <2>3
<1>7. QED
  BY <1>1, <1>5, <1>6 DEF Numbered, t

LEMMA StepCalls ==
  ASSUME TypeInv, TypeInv', OwnChannels, CallInv, [Next]_vars
  PROVE  CallInv'
<1> SUFFICES ASSUME NEW c \in Callers PROVE Numbered(CallLine(c)', calls'[c])
  BY DEF CallInv
<1> DEFINE t  == Target[c]
           ch == ChanOf(c)
           A  == Asked(answers[c])
           B  == Asked(rsp[ch])
           N  == Served(t)
           R  == req[ch]
<1>t. TypeOK /\ TypeOK' /\ SignalOK /\ Numbered(CallLine(c), calls[c])
  BY DEF TypeInv, CallInv
<1>y. /\ t \in Kernels /\ ch \in Chans /\ SigChan[t] = ch
      /\ answers[c] \in Seq(Responses) /\ rsp[ch] \in Seq(Responses)
      /\ A \in Seq(Requests) /\ B \in Seq(Requests) /\ N \in Seq(Requests)
      /\ R \in Seq(Requests)
  BY <1>t, LineType DEF ChanOf
<1>x. /\ \A d \in Callers : ChanOf(d) = ch => d = c
      /\ \A k \in Kernels : SigChan[k] = ch => k = t
  BY DEF OwnChannels, ChanOf
<1>l. CallLine(c) = ((A \o B) \o N) \o R
  BY DEF CallLine
<1>f. ASSUME answers'[c] = answers[c], rsp'[ch] = rsp[ch], sig'[t] = sig[t],
             req'[ch] = req[ch], calls'[c] = calls[c]
      PROVE  Numbered(CallLine(c)', calls'[c])
  BY <1>t, <1>f DEF CallLine, Served, ChanOf
<1>1. ASSUME NEW k \in Kernels, LoopTop(k) PROVE Numbered(CallLine(c)', calls'[c])
  <2>1. UNCHANGED <<answers, rsp, calls>> /\ TryRecv(k)
    BY <1>1 DEF LoopTop
  <2>2. CASE k = t /\ sig[t] = NoSig /\ R # <<>>
    <3>1. sig'[t] = Head(R) /\ req'[ch] = Tail(R)
      BY <1>t, <1>y, <2>1, <2>2, SwEmuAssumption, SMTT(30) DEF TryRecv, TypeOK
    <3>2. /\ Head(R) \in Requests /\ Tail(R) \in Seq(Requests)
          /\ <<Head(R)>> \in Seq(Requests) /\ R = <<Head(R)>> \o Tail(R)
      BY <1>y, <2>2, HeadTailProperties, HeadTailConcat
    <3>3. N = <<>> /\ Served(t)' = <<Head(R)>>
      <4>1. Head(R) # NoSig
        BY <3>2 DEF Requests, NoSig
      <4>2. QED
        BY <2>2, <3>1, <4>1 DEF Served
    <3>4. CallLine(c)' = ((A \o B) \o <<Head(R)>>) \o Tail(R)
      BY <2>1, <3>1, <3>3 DEF CallLine, ChanOf
    <3> HIDE DEF A, B, N, R
    <3>5. CallLine(c)' = CallLine(c)
      <4> DEFINE h == <<Head(R)>>
                 z == Tail(R)
      <4>1. /\ h \in Seq(Requests) /\ z \in Seq(Requests) /\ R = h \o z
            /\ CallLine(c)' = ((A \o B) \o h) \o z
        BY <3>2, <3>4
      <4> HIDE DEF h, z
      <4>2. A \in Seq(Requests) /\ B \in Seq(Requests)
        BY <1>y
      <4>3. MovesReceived(A, B, h, z)
        BY <4>1, <4>2, LineReceive
      <4>4. QED
        BY <1>l, <3>3, <4>1, <4>3, Zenon DEF MovesReceived
    <3>6. QED
      BY <1>t, <2>1, <3>5
  <2>3. CASE ~(k = t /\ sig[t] = NoSig /\ R # <<>>)
    <3>1. sig'[t] = sig[t] /\ req'[ch] = req[ch]
      BY <1>t, <1>x, <1>y, <2>1, <2>3 DEF TryRecv, TypeOK
    <3>2. QED
      BY <1>f, <2>1, <3>1
  <2>4. QED
    BY <2>2, <2>3
<1>2. ASSUME NEW k \in Kernels, RunSignal(k) PROVE Numbered(CallLine(c)', calls'[c])
  <2> DEFINE e == [ev |-> sig[k], from |-> k, val |-> Signal(Elem[k], st[k], sig[k].cmd).val]
  <2>1. /\ UNCHANGED <<answers, req, calls>> /\ sig[k] # NoSig
        /\ sig' = [sig EXCEPT ![k] = NoSig]
        /\ rsp' = [rsp EXCEPT ![SigChan[k]] = Append(@, e)]
    BY <1>2 DEF RunSignal
  <2>2. CASE k # t
    <3>1. sig'[t] = sig[t] /\ rsp'[ch] = rsp[ch]
      BY <1>t, <1>x, <1>y, <2>1, <2>2 DEF TypeOK
    <3>2. QED
      BY <1>f, <2>1, <3>1
  <2>3. CASE k = t
    <3>1. e \in Responses /\ e.ev = sig[t] /\ sig[t] \in Requests
      <4>1. sig[k] \in Requests /\ st[k] \in StateOf(Elem[k]) /\ Elem[k] \in Kinds
        BY <1>t, <2>1, SwEmuAssumption, ZenonT(40) DEF TypeOK
      <4>2. Signal(Elem[k], st[k], sig[k].cmd).val \in Nat
        BY <4>1, SignalType
      <4>3. QED
        BY <2>3, <4>1, <4>2 DEF Responses
    <3> HIDE DEF e
    <3>2. sig'[t] = NoSig /\ rsp'[ch] = Append(rsp[ch], e)
      BY <1>t, <1>y, <2>1, <2>3 DEF TypeOK
    <3>3. N = <<sig[t]>> /\ Served(t)' = <<>>
      BY <2>1, <2>3, <3>2 DEF Served
    <3>4. Asked(rsp'[ch]) = B \o N
      BY <1>y, <3>1, <3>2, <3>3, AskedAppend
    <3>5. CallLine(c)' = ((A \o (B \o N)) \o <<>>) \o R
      BY <2>1, <3>3, <3>4 DEF CallLine, ChanOf
    <3> HIDE DEF A, B, N, R
    <3>6. CallLine(c)' = CallLine(c)
      <4>1. MovesAnswered(A, B, N, R)
        <5>1. /\ A \in Seq(Requests) /\ B \in Seq(Requests) /\ N \in Seq(Requests)
              /\ R \in Seq(Requests)
          BY <1>y
        <5>2. QED
          BY <5>1, LineAnswer
      <4>2. QED
        BY <1>l, <3>5, <4>1, Zenon DEF MovesAnswered
    <3>7. QED
      BY <1>t, <2>1, <3>6
  <2>4. QED
    BY <2>2, <2>3
<1>3. ASSUME NEW d \in Callers, Return(d) PROVE Numbered(CallLine(c)', calls'[c])
  <2>1. /\ UNCHANGED <<sig, req, calls>> /\ rsp[ChanOf(d)] # <<>>
        /\ answers' = [answers EXCEPT ![d] = Append(@, Head(rsp[ChanOf(d)]))]
        /\ rsp' = [rsp EXCEPT ![ChanOf(d)] = Tail(@)]
    BY <1>3 DEF Return, ChanOf
  <2>2. CASE d # c
    <3>1. answers'[c] = answers[c] /\ rsp'[ch] = rsp[ch]
      BY <1>t, <1>x, <1>y, <2>1, <2>2 DEF TypeOK
    <3>2. QED
      BY <1>f, <2>1, <3>1
  <2>3. CASE d = c
    <3>1. answers'[c] = Append(answers[c], Head(rsp[ch])) /\ rsp'[ch] = Tail(rsp[ch])
      BY <1>t, <1>y, <2>1, <2>3 DEF TypeOK
    <3>2. Head(rsp[ch]) \in Responses /\ Tail(rsp[ch]) \in Seq(Responses) /\ rsp[ch] # <<>>
      BY <1>y, <2>1, <2>3, HeadTailProperties
    <3>3. Asked(answers'[c]) = A \o <<Head(rsp[ch]).ev>>
      BY <1>y, <3>1, <3>2, AskedAppend
    <3>4. B = <<Head(rsp[ch]).ev>> \o Asked(rsp'[ch])
      BY <1>y, <3>1, <3>2, AskedHead
    <3>5. <<Head(rsp[ch]).ev>> \in Seq(Requests) /\ Asked(rsp'[ch]) \in Seq(Requests)
      <4>1. Asked(rsp'[ch]) \in Seq(Requests)
        BY <3>1, <3>2, AskedType
      <4>2. Head(rsp[ch]).ev \in Requests
        BY <3>2, ResponseEv
      <4> HIDE DEF ch
      <4>3. QED
        BY <4>1, <4>2
    <3>6. CallLine(c)' = (((A \o <<Head(rsp[ch]).ev>>) \o Asked(rsp'[ch])) \o N) \o R
      BY <2>1, <3>3 DEF CallLine, ChanOf, Served
    <3> HIDE DEF A, B, N, R
    <3>7. CallLine(c)' = CallLine(c)
      <4> DEFINE h == <<Head(rsp[ch]).ev>>
                 z == Asked(rsp'[ch])
      <4>1. h \in Seq(Requests) /\ z \in Seq(Requests) /\ B = h \o z
        BY <3>4, <3>5
      <4> HIDE DEF h, z
      <4>2. MovesReturned(A, z, h, N, R)
        <5>1. /\ A \in Seq(Requests) /\ N \in Seq(Requests)
              /\ R \in Seq(Requests)
          BY <1>y
        <5>2. QED
          BY <4>1, <5>1, LineReturn
      <4>3. CallLine(c)' = (((A \o h) \o z) \o N) \o R
        BY <3>6 DEF h, z
      <4>4. QED
        BY <1>l, <4>1, <4>2, <4>3, Zenon DEF MovesReturned
    <3>8. QED
      BY <1>t, <2>1, <3>7
  <2>4. QED
    BY <2>2, <2>3
<1>4. ASSUME NEW d \in Callers, NEW cmd \in Commands, Call(d, cmd)
      PROVE  Numbered(CallLine(c)', calls'[c])
  <2> DEFINE e == [kid |-> Target[d], caller |-> d, n |-> calls[d] + 1, cmd |-> cmd]
  <2>1. /\ UNCHANGED <<sig, rsp, answers>> /\ calls[d] < MaxCalls
        /\ calls' = [calls EXCEPT ![d] = @ + 1]
        /\ req' = [req EXCEPT ![ChanOf(d)] = Append(@, e)]
    BY <1>4 DEF Call, ChanOf
  <2>2. CASE d # c
    <3>1. calls'[c] = calls[c] /\ req'[ch] = req[ch]
      BY <1>t, <1>x, <1>y, <2>1, <2>2 DEF TypeOK
    <3>2. QED
      BY <1>f, <2>1, <3>1
  <2>3. CASE d = c
    <3>1. e \in Requests /\ e.n = calls[c] + 1 /\ calls[c] \in Nat
      BY <1>t, <1>y, <2>1, <2>3, SwEmuAssumption DEF TypeOK, Requests
    <3> HIDE DEF e
    <3>2. calls'[c] = calls[c] + 1 /\ req'[ch] = Append(R, e)
      BY <1>t, <1>y, <2>1, <2>3, SMTT(30) DEF TypeOK
    <3>3. CallLine(c)' = ((A \o B) \o N) \o Append(R, e)
      BY <2>1, <3>2 DEF CallLine, ChanOf, Served
    <3> HIDE DEF A, B, N, R
    <3>4. <<e>> \in Seq(Requests) /\ Append(R, e) = R \o <<e>>
      BY <1>y, <3>1, AppendIsConcat
    <3>5. /\ CallLine(c) \in Seq(Requests)
          /\ CallLine(c)' = CallLine(c) \o <<e>>
      <4> DEFINE h == <<e>>
      <4>1. h \in Seq(Requests) /\ Append(R, e) = R \o h
        BY <3>4
      <4> HIDE DEF h
      <4>2. MovesPosted(A, B, N, R, h)
        <5>1. /\ A \in Seq(Requests) /\ B \in Seq(Requests) /\ N \in Seq(Requests)
              /\ R \in Seq(Requests)
          BY <1>y
        <5>2. QED
          BY <4>1, <5>1, LinePost
      <4>3. CallLine(c)' = ((A \o B) \o N) \o (R \o h)
        BY <3>3, <4>1
      <4>4. QED
        BY <1>l, <4>2, <4>3, Zenon DEF h, MovesPosted
    <3>6. CallLine(c)' = Append(CallLine(c), e)
      BY <3>1, <3>5, AppendIsConcat
    <3>7. QED
      BY <1>t, <3>1, <3>2, <3>5, <3>6, NumberedAppend
  <2>4. QED
    BY <2>2, <2>3
<1>5. ASSUME UNCHANGED <<answers, rsp, sig, req, calls>>
      PROVE  Numbered(CallLine(c)', calls'[c])
  BY <1>f, <1>5
<1>6. QED
  <2>1. CASE UNCHANGED vars
    BY <1>5, <2>1 DEF vars, signalVars
  <2>2. CASE Stop
    BY <1>5, <2>2 DEF Stop, signalVars
  <2>3. ASSUME NEW k \in Kernels, Exit(k) \/ ReadPort(k) \/ RunHandler(k) \/ WritePort(k)
        PROVE  Numbered(CallLine(c)', calls'[c])
    BY <1>5, <2>3 DEF Exit, ReadPort, RunHandler, WritePort, signalVars
  <2>4. ASSUME NEW i, Inject(i) \/ Drain(i)
        PROVE  Numbered(CallLine(c)', calls'[c])
    BY <1>5, <2>4 DEF Inject, Drain, signalVars
  <2>5. ASSUME NEW d \in Callers, TimeOut(d)
        PROVE  Numbered(CallLine(c)', calls'[c])
    BY <1>5, <2>5 DEF TimeOut
  <2>6. QED
    BY <1>1, <1>2, <1>3, <1>4, <2>1, <2>2, <2>3, <2>4, <2>5 DEF Next, Kernel, Harness

LEMMA InitCalls == Init => CallInv
<1> SUFFICES ASSUME Init, NEW c \in Callers PROVE Numbered(CallLine(c), calls[c])
  BY DEF CallInv
<1>1. Target[c] \in Kernels /\ ChanOf(c) \in Chans
  BY SwEmuAssumption DEF ChanOf
<1>2. /\ answers[c] = <<>> /\ rsp[ChanOf(c)] = <<>> /\ req[ChanOf(c)] = <<>>
      /\ sig[Target[c]] = NoSig
  BY <1>1 DEF Init
<1>3. Asked(<<>>) = <<>>
  <2>1. <<>> \in Seq(Responses) /\ Len(<<>>) = 0
    BY EmptySeq
  <2>2. Asked(<<>>) \in Seq(Requests) /\ Len(Asked(<<>>)) = 0
    BY <2>1, AskedType
  <2>3. QED
    BY <2>2, EmptySeq
<1>4. CallLine(c) = ((<<>> \o <<>>) \o <<>>) \o <<>>
  BY <1>2, <1>3 DEF CallLine, Served
<1>5. CallLine(c) = <<>>
  <2>1. <<>> \in Seq(Requests)
    BY EmptySeq
  <2>2. <<>> \o <<>> = <<>>
    BY <2>1, ConcatEmptySeq
  <2>3. QED
    BY <1>4, <2>2
<1>6. Len(<<>>) = 0
  BY EmptySeq
<1>7. QED
  BY <1>5, <1>6 DEF Numbered

\* The answers a caller was handed are the first part of its line.
LEMMA AnswersFromInv ==
  ASSUME TypeOK, CallInv
  PROVE  AnswersInOrder
<1> SUFFICES ASSUME NEW c \in Callers
             PROVE  /\ Increasing(CallsAnswered(c))
                    /\ \A n \in 1 .. Len(answers[c]) : answers[c][n].ev.n <= calls[c]
  BY DEF AnswersInOrder
<1> DEFINE A == Asked(answers[c])
           B == Asked(rsp[ChanOf(c)])
           N == Served(Target[c])
           R == req[ChanOf(c)]
           L == Len(answers[c])
<1>1. /\ A \in Seq(Requests) /\ B \in Seq(Requests) /\ N \in Seq(Requests)
      /\ R \in Seq(Requests) /\ answers[c] \in Seq(Responses)
  BY LineType
<1>2. /\ Len(A) = L /\ L \in Nat
      /\ \A n \in 1 .. L : A[n] = answers[c][n].ev
  BY <1>1, AskedType, LenProperties
<1>3. CallLine(c) = ((A \o B) \o N) \o R
  BY DEF CallLine
<1> HIDE DEF A, B, N, R
<1>4. \E z \in Seq(Requests) : CallLine(c) = A \o z
  <2> DEFINE x == B \o N
  <2>1. x \in Seq(Requests)
    BY <1>1, LineConcat
  <2>2. (A \o B) \o N = A \o x
    BY <1>1, LineAssoc
  <2> HIDE DEF x
  <2>3. x \o R \in Seq(Requests)
    BY <1>1, <2>1, LineConcat
  <2>4. (A \o x) \o R = A \o (x \o R)
    BY <1>1, <2>1, LineAssoc, SMTT(30)
  <2>5. QED
    BY <1>3, <2>2, <2>3, <2>4
<1>5. PICK z \in Seq(Requests) : CallLine(c) = A \o z
  BY <1>4
<1>6. /\ Len(A \o z) = Len(A) + Len(z) /\ Len(z) \in Nat
      /\ \A i \in 1 .. Len(A) + Len(z) : (A \o z)[i] = IF i <= Len(A) THEN A[i] ELSE z[i - Len(A)]
  BY <1>1, ConcatProperties, LenProperties
<1>7. /\ Len(CallLine(c)) = L + Len(z) /\ Len(z) \in Nat
      /\ \A i \in 1 .. L + Len(z) : CallLine(c)[i] = IF i <= L THEN A[i] ELSE z[i - L]
  BY <1>2, <1>5, <1>6
<1>8. \A i \in 1 .. L : i \in 1 .. Len(CallLine(c)) /\ CallLine(c)[i] = answers[c][i].ev
  BY <1>2, <1>7
<1>9. /\ \A i, j \in 1 .. L : i < j => answers[c][i].ev.n < answers[c][j].ev.n
      /\ \A i \in 1 .. L : answers[c][i].ev.n <= calls[c]
  BY <1>8 DEF CallInv, Numbered
<1>10. Increasing(CallsAnswered(c))
  <2>1. Len([n \in 1 .. L |-> answers[c][n].ev.n]) = L
    <3> HIDE DEF L
    <3> QED BY <1>2
  <2>2. Len(CallsAnswered(c)) = L
    BY <2>1 DEF CallsAnswered
  <2>3. \A i \in 1 .. L : CallsAnswered(c)[i] = answers[c][i].ev.n
    BY DEF CallsAnswered
  <2>4. QED
    BY <1>9, <2>2, <2>3 DEF Increasing
<1>11. QED
  BY <1>9, <1>10

\* For any number of calls and of timeouts, and whatever else the kernels do:
\* a caller with a channel of its own never gets an answer twice, nor an
\* older answer after a newer one, nor one to a call it has not made.
THEOREM CallsInOrder ==
  ASSUME OwnChannels
  PROVE  Spec => []AnswersInOrder
<1>1. TypeInv /\ CallInv => AnswersInOrder
  BY AnswersFromInv DEF TypeInv
<1>2. TypeInv /\ TypeInv' /\ CallInv /\ [Next]_vars => CallInv'
  BY StepCalls
<1>3. QED
  BY InitTypeInv, StepTypeInv, InitCalls, <1>1, <1>2, PTL DEF Spec

(***************************************************************************)
(* Pipelines.  f[n] is what the first n of the sequences s hold together.  *)
(***************************************************************************)
Run(f, s, N) == \A n \in 1 .. N : f[n] = IF n = 1 THEN s[n] ELSE f[n - 1] \o s[n]

\* f and g are what the flits of s and of t make.
Runs(f, g, s, t, N, S) ==
  /\ s \in [1 .. N -> Seq(S)] /\ t \in [1 .. N -> Seq(S)]
  /\ Run(f, s, N) /\ Run(g, t, N)

\* Concatenation of sequences over S is associative.
Concatenates(S) == \A a, b, c \in Seq(S) : (a \o b) \o c = a \o (b \o c)

LEMMA Associative == \A S : Concatenates(S)
BY ConcatAssociative DEF Concatenates

LEMMA Concat == ASSUME NEW S PROVE \A a, b \in Seq(S) : a \o b \in Seq(S)
BY ConcatProperties

LEMMA NoneAdded == ASSUME NEW S PROVE \A a \in Seq(S) : a \o <<>> = a /\ <<>> \o a = a
BY ConcatEmptySeq

LEMMA HeadTailIs ==
  ASSUME NEW S, NEW s \in Seq(S), s # <<>>
  PROVE  Head(s) \in S /\ Tail(s) \in Seq(S) /\ s = <<Head(s)>> \o Tail(s)
PROOF
<1>1. Head(s) \in S /\ Tail(s) \in Seq(S)
  BY HeadTailProperties
<1>2. Len(s) \in Nat \ {0}
  BY EmptySeq
<1>3. SubSeq(s, 1, Len(s)) = <<s[1]>> \o SubSeq(s, 2, Len(s))
  <2>1. 1 \in 1 .. Len(s) /\ Len(s) \in 1 .. Len(s)
    BY <1>2
  <2> QED BY <2>1, SubSeqRecursiveFirst
<1>4. SubSeq(s, 1, Len(s)) = s /\ Tail(s) = SubSeq(s, 2, Len(s)) /\ Head(s) = s[1]
  BY SubSeqFull, TailIsSubSeq
<1> QED BY <1>1, <1>3, <1>4

LEMMA RunExists ==
  ASSUME NEW N \in Nat, NEW s
  PROVE  \E f : f = [n \in 1 .. N |-> IF n = 1 THEN s[n] ELSE f[n - 1] \o s[n]]
PROOF
<1> DEFINE Step(i, x) == IF i = 1 THEN s[i] ELSE x \o s[i]
           P(m) == \E f : f = [i \in 1 .. m |-> Step(i, f[i - 1])]
           S == {m \in Nat : P(m)}
<1>1. 0 \in S
  <2> DEFINE f == [i \in 1 .. 0 |-> s]
  <2>1. f = [i \in 1 .. 0 |-> Step(i, f[i - 1])]
    OBVIOUS
  <2> QED BY <2>1
<1>2. ASSUME NEW m \in 1 .. N, m - 1 \in S PROVE m \in S
  <2>0. ASSUME NEW y, NEW z PROVE Step(1, y) = Step(1, z)
    OBVIOUS
  <2> HIDE DEF Step
  <2>1. PICK f : f = [i \in 1 .. m - 1 |-> Step(i, f[i - 1])]
    BY <1>2
  <2> DEFINE g == [i \in 1 .. m |-> IF i < m THEN f[i] ELSE Step(m, f[m - 1])]
  <2>2. ASSUME NEW i \in 1 .. m PROVE g[i] = Step(i, g[i - 1])
    <3>1. CASE i < m
      <4>1. g[i] = Step(i, f[i - 1])
        BY <2>1, <3>1
      <4>2. CASE i = 1
        BY <2>0, <4>1, <4>2
      <4>3. CASE i # 1
        <5>1. g[i - 1] = f[i - 1]
          BY <3>1, <4>3
        <5> QED BY <4>1, <5>1
      <4> QED BY <4>2, <4>3
    <3>2. CASE i = m
      <4>1. g[i] = Step(i, f[i - 1])
        BY <3>2
      <4>2. CASE i = 1
        BY <2>0, <4>1, <4>2
      <4>3. CASE i # 1
        <5>1. g[i - 1] = f[i - 1]
          BY <3>2, <4>3
        <5> QED BY <4>1, <5>1
      <4> QED BY <4>2, <4>3
    <3> QED BY <3>1, <3>2
  <2>3. g = [i \in 1 .. m |-> Step(i, g[i - 1])]
    <3>1. g = [i \in 1 .. m |-> g[i]]
      OBVIOUS
    <3> HIDE DEF g
    <3>2. \A i \in 1 .. m : g[i] = Step(i, g[i - 1])
      BY <2>2
    <3>3. [i \in 1 .. m |-> g[i]] = [i \in 1 .. m |-> Step(i, g[i - 1])]
      BY <3>2, Zenon
    <3> QED BY <3>1, <3>3, Zenon
  <2> HIDE DEF g
  <2>4. P(m)
    BY <2>3, Zenon
  <2>5. m \in Nat
    OBVIOUS
  <2> HIDE DEF P
  <2> QED BY <2>4, <2>5
<1> HIDE DEF S
<1>3. N \in S
  BY <1>1, <1>2, UpTo
<1> QED BY <1>3 DEF S

LEMMA RunType ==
  ASSUME NEW N \in Nat, NEW S, NEW s \in [1 .. N -> Seq(S)], NEW f, Run(f, s, N)
  PROVE  \A n \in 1 .. N : f[n] \in Seq(S)
PROOF
<1> DEFINE K == {n \in 0 .. N : n = 0 \/ f[n] \in Seq(S)}
<1>1. 0 \in K
  OBVIOUS
<1>2. ASSUME NEW n \in 1 .. N, n - 1 \in K PROVE n \in K
  <2>1. s[n] \in Seq(S) /\ f[n] = IF n = 1 THEN s[n] ELSE f[n - 1] \o s[n]
    BY DEF Run
  <2>2. CASE n = 1
    BY <2>1, <2>2
  <2>3. CASE n # 1
    <3>1. f[n - 1] \in Seq(S)
      BY <1>2, <2>3
    <3>2. s[n] \in Seq(S)
      BY <2>1
    <3>3. f[n - 1] \o s[n] \in Seq(S)
      BY <3>1, <3>2, ConcatProperties
    <3>4. f[n] = f[n - 1] \o s[n]
      BY <2>1, <2>3
    <3>5. f[n] \in Seq(S)
      BY <3>3, <3>4, Zenon
    <3> QED BY <3>5
  <2> QED BY <2>2, <2>3
<1>3. \A n \in 0 .. N : n \in K
  <2> HIDE DEF K
  <2> QED BY <1>1, <1>2, UpTo
<1> QED BY <1>3

\* Above the m-th stretch they hold the same.
SameAbove(f, g, m, N, S) ==
  \E b \in Seq(S) : f[N] = f[m] \o b /\ g[N] = g[m] \o b /\ (m = N => b = <<>>)

\* Around the m-th stretch they hold the same.
SplitAt(f, g, s, t, m, N, S) ==
  \E a \in Seq(S), b \in Seq(S) :
    /\ f[N] = (a \o s[m]) \o b /\ g[N] = (a \o t[m]) \o b
    /\ (m = 1 => a = <<>>) /\ (m = N => b = <<>>)

\* They agree on D.
Agree(s, t, D) == \A n \in D : t[n] = s[n]

\* Two of them agree as long as the sequences do.
LEMMA RunSame ==
  ASSUME NEW N \in Nat, NEW S, NEW s, NEW t, NEW f, NEW g, Runs(f, g, s, t, N, S),
         NEW m \in 0 .. N, Agree(s, t, 1 .. m)
  PROVE  Agree(f, g, 1 .. m)
PROOF
<1>r. s \in [1 .. N -> Seq(S)] /\ t \in [1 .. N -> Seq(S)] /\ Run(f, s, N) /\ Run(g, t, N)
  BY DEF Runs
<1> DEFINE K == {n \in 0 .. m : n = 0 \/ g[n] = f[n]}
<1>1. 0 \in K
  OBVIOUS
<1>2. ASSUME NEW n \in 1 .. m, n - 1 \in K PROVE n \in K
  <2>1. /\ f[n] = IF n = 1 THEN s[n] ELSE f[n - 1] \o s[n]
        /\ g[n] = IF n = 1 THEN t[n] ELSE g[n - 1] \o t[n]
        /\ t[n] = s[n]
    BY DEF Run, Runs, Agree
  <2> QED BY <1>2, <2>1
<1>3. \A n \in 0 .. m : n \in K
  <2>1. m \in Nat
    OBVIOUS
  <2> HIDE DEF K
  <2> QED BY <1>1, <1>2, <2>1, UpTo
<1> QED BY <1>3 DEF Agree

\* What lies above the m-th sequence is the same for both when the sequences are.
LEMMA RunAbove ==
  ASSUME NEW N \in Nat, NEW S, NEW s, NEW t, NEW f, NEW g, Runs(f, g, s, t, N, S),
         NEW m \in 1 .. N, Agree(s, t, m + 1 .. N)
  PROVE  SameAbove(f, g, m, N, S)
PROOF
<1>r. s \in [1 .. N -> Seq(S)] /\ t \in [1 .. N -> Seq(S)] /\ Run(f, s, N) /\ Run(g, t, N)
  BY DEF Runs
<1> DEFINE Beyond(n) == \E b \in Seq(S) : f[n] = f[m] \o b /\ g[n] = g[m] \o b /\ (m = n => b = <<>>)
           K == {n \in 0 .. N - m : Beyond(m + n)}
<1>1. f[m] \in Seq(S) /\ g[m] \in Seq(S)
  BY <1>r, RunType
<1>2. 0 \in K
  <2>1. f[m] = f[m] \o <<>> /\ g[m] = g[m] \o <<>> /\ <<>> \in Seq(S)
    BY <1>1, NoneAdded, EmptySeq
  <2>2. Beyond(m)
    BY <2>1
  <2>3. m + 0 = m /\ 0 \in 0 .. N - m
    OBVIOUS
  <2> QED BY <2>2, <2>3
<1>3. ASSUME NEW n \in 1 .. N - m, n - 1 \in K PROVE n \in K
  <2>0. m + n \in m + 1 .. N /\ m + n \in 2 .. N /\ m + (n - 1) = (m + n) - 1
    OBVIOUS
  <2>1. PICK b \in Seq(S) : f[(m + n) - 1] = f[m] \o b /\ g[(m + n) - 1] = g[m] \o b
    BY <1>3, <2>0
  <2> DEFINE k == m + n
  <2>2. f[k] = f[k - 1] \o s[k] /\ g[k] = g[k - 1] \o s[k] /\ s[k] \in Seq(S)
    <3>1. k \in 1 .. N /\ k # 1 /\ t[k] = s[k]
      BY <2>0 DEF Agree
    <3> HIDE DEF k
    <3> QED BY <1>r, <3>1 DEF Run
  <2>3. f[k - 1] = f[m] \o b /\ g[k - 1] = g[m] \o b
    BY <2>1
  <2> HIDE DEF k
  <2>4. b \o s[k] \in Seq(S)
    BY <2>2, ConcatProperties
  <2>5. /\ (f[m] \o b) \o s[k] = f[m] \o (b \o s[k])
        /\ (g[m] \o b) \o s[k] = g[m] \o (b \o s[k])
    <3>1. Concatenates(S)
      BY Associative, Zenon
    <3> QED BY <1>1, <2>2, <3>1 DEF Concatenates
  <2>6. f[k] = f[m] \o (b \o s[k]) /\ g[k] = g[m] \o (b \o s[k])
    BY <2>2, <2>3, <2>5
  <2>7. m # k
    BY <2>0 DEF k
  <2>8. Beyond(k)
    BY <2>4, <2>6, <2>7
  <2> HIDE DEF Beyond
  <2> QED BY <2>8 DEF k
<1>4. \A n \in 0 .. N - m : n \in K
  <2>1. N - m \in Nat
    OBVIOUS
  <2> HIDE DEF K
  <2> QED BY <1>2, <1>3, <2>1, UpTo
<1>5. Beyond(N)
  <2>1. N - m \in 0 .. N - m /\ m + (N - m) = N
    OBVIOUS
  <2> HIDE DEF Beyond
  <2>2. Beyond(m + (N - m))
    BY <1>4, <2>1
  <2> QED BY <2>1, <2>2
<1> QED BY <1>5 DEF SameAbove

(***************************************************************************)
(* What happens to all of it when a flit moves.  What the m-th stretch and *)
(* those after it hold is a, and what the others hold b.                   *)
(***************************************************************************)
LEMMA RunSplit ==
  ASSUME NEW N \in Nat \ {0}, NEW S, NEW s, NEW t, NEW f, NEW g, Runs(f, g, s, t, N, S),
         NEW m \in 1 .. N, Agree(s, t, 1 .. N \ {m})
  PROVE  SplitAt(f, g, s, t, m, N, S)
PROOF
<1>r. s \in [1 .. N -> Seq(S)] /\ t \in [1 .. N -> Seq(S)] /\ Run(f, s, N) /\ Run(g, t, N)
  BY DEF Runs
<1>1. PICK b \in Seq(S) : f[N] = f[m] \o b /\ g[N] = g[m] \o b /\ (m = N => b = <<>>)
  <2>1. Agree(s, t, m + 1 .. N)
    BY DEF Agree
  <2>2. N \in Nat
    OBVIOUS
  <2>3. SameAbove(f, g, m, N, S)
    BY <2>1, <2>2, RunAbove
  <2> QED BY <2>3 DEF SameAbove
<1>2. s[m] \in Seq(S) /\ t[m] \in Seq(S)
  BY <1>r
<1>3. CASE m = 1
  <2>1. f[m] = s[m] /\ g[m] = t[m]
    BY <1>3 DEF Run, Runs
  <2>2. <<>> \o s[m] = s[m] /\ <<>> \o t[m] = t[m] /\ <<>> \in Seq(S)
    BY <1>2, NoneAdded, EmptySeq
  <2>3. f[N] = (<<>> \o s[m]) \o b /\ g[N] = (<<>> \o t[m]) \o b
    BY <1>1, <2>1, <2>2
  <2> QED BY <1>1, <1>3, <2>2, <2>3 DEF SplitAt
<1>4. CASE m # 1
  <2>1. m - 1 \in 1 .. N /\ m - 1 \in 0 .. N
    BY <1>4
  <2>2. f[m - 1] \in Seq(S)
    BY <2>1, <1>r, RunType
  <2>3. g[m - 1] = f[m - 1]
    <3>1. Agree(s, t, 1 .. m - 1)
      BY DEF Agree
    <3>2. Agree(f, g, 1 .. m - 1)
      BY <2>1, <3>1, RunSame
    <3> QED BY <2>1, <3>2 DEF Agree
  <2>4. f[m] = f[m - 1] \o s[m] /\ g[m] = g[m - 1] \o t[m]
    BY <1>4 DEF Run, Runs
  <2>5. f[N] = (f[m - 1] \o s[m]) \o b /\ g[N] = (f[m - 1] \o t[m]) \o b
    BY <1>1, <2>3, <2>4
  <2> QED BY <1>1, <1>4, <2>2, <2>5 DEF SplitAt
<1> QED BY <1>3, <1>4

\* s without its n-th element; v is u without some element, or without its first.
Without(s, n) == SubSeq(s, 1, n - 1) \o SubSeq(s, n + 1, Len(s))
Misses(u, v) == \E n \in 1 .. Len(u) : v = Without(u, n)
Takes(u, v, x) == u # <<>> /\ Head(u) = x /\ Tail(u) = v

\* t is s without the first of s[m], which is x.
Drops(s, t, m, x, N, S) ==
  /\ m \in 1 .. N /\ x \in S
  /\ Agree(s, t, 1 .. N \ {m})
  /\ s[m] = <<x>> \o t[m]

\* t is s with x at its very end.
Grows(s, t, x, N, S) ==
  /\ x \in S
  /\ Agree(s, t, 1 .. N \ {N})
  /\ t[N] = Append(s[N], x)

\* t is s with the first of s[m + 1], which is x, at the end of s[m].
Passes(s, t, m, x, N, S) ==
  /\ m \in 1 .. N - 1 /\ x \in S
  /\ Agree(s, t, 1 .. N \ {m, m + 1})
  /\ s[m + 1] = <<x>> \o t[m + 1]
  /\ t[m] = s[m] \o <<x>>

\* The first flit of a stretch leaves it.
LEMMA RunDrop ==
  ASSUME NEW N \in Nat \ {0}, NEW S, NEW s, NEW t, NEW f, NEW g, Runs(f, g, s, t, N, S),
         NEW m, NEW x, Drops(s, t, m, x, N, S)
  PROVE  Misses(f[N], g[N]) /\ (m = 1 => Takes(f[N], g[N], x))
PROOF
<1>r. s \in [1 .. N -> Seq(S)] /\ t \in [1 .. N -> Seq(S)] /\ Run(f, s, N) /\ Run(g, t, N)
  BY DEF Runs
<1>d. m \in 1 .. N /\ x \in S /\ Agree(s, t, 1 .. N \ {m}) /\ s[m] = <<x>> \o t[m]
  BY DEF Drops
<1> USE <1>d
<1>1. PICK a \in Seq(S), b \in Seq(S) :
        /\ f[N] = (a \o s[m]) \o b /\ g[N] = (a \o t[m]) \o b
        /\ (m = 1 => a = <<>>)
  <2>1. SplitAt(f, g, s, t, m, N, S)
    BY RunSplit
  <2> QED BY <2>1 DEF SplitAt
<1> DEFINE c == t[m] \o b
           u == a \o (<<x>> \o c)
<1>2. t[m] \in Seq(S) /\ <<x>> \in Seq(S)
  BY <1>r
<1>a. Concatenates(S)
  BY Associative, Zenon
<1>3. c \in Seq(S) /\ <<x>> \o c \in Seq(S)
  BY <1>2, ConcatProperties
<1>4. g[N] = a \o c
  <2>1. (a \o t[m]) \o b = a \o (t[m] \o b)
    BY <1>2, <1>a DEF Concatenates
  <2> QED BY <1>1, <2>1
<1>5. f[N] = u
  <2>1. (<<x>> \o t[m]) \in Seq(S)
    BY <1>2, ConcatProperties
  <2>2. (a \o (<<x>> \o t[m])) \o b = a \o ((<<x>> \o t[m]) \o b)
    BY <2>1, <1>a DEF Concatenates
  <2>3. (<<x>> \o t[m]) \o b = <<x>> \o (t[m] \o b)
    BY <1>2, <1>a DEF Concatenates
  <2>4. s[m] = <<x>> \o t[m]
    OBVIOUS
  <2> QED BY <1>1, <2>2, <2>3, <2>4
<1> HIDE DEF c, u
<1>6. /\ Len(a) \in Nat /\ Len(c) \in Nat /\ u \in Seq(S) /\ a \o c \in Seq(S)
      /\ Len(u) = Len(a) + 1 + Len(c) /\ Len(a \o c) = Len(a) + Len(c)
      /\ \A i \in 1 .. Len(a) : u[i] = a[i]
      /\ u[Len(a) + 1] = x
      /\ \A i \in 1 .. Len(c) : u[Len(a) + 1 + i] = c[i]
  <2>1. Len(<<x>>) = 1 /\ <<x>>[1] = x
    OBVIOUS
  <2>2. /\ Len(<<x>> \o c) = 1 + Len(c) /\ (<<x>> \o c)[1] = x
        /\ \A i \in 1 .. Len(c) : (<<x>> \o c)[1 + i] = c[i]
    <3>1. /\ Len(<<x>> \o c) = Len(<<x>>) + Len(c) /\ Len(c) \in Nat
          /\ \A i \in 1 .. Len(<<x>>) + Len(c) :
               (<<x>> \o c)[i] = IF i <= Len(<<x>>) THEN <<x>>[i] ELSE c[i - Len(<<x>>)]
      BY <1>2, <1>3, ConcatProperties, LenProperties
    <3> QED BY <2>1, <3>1
  <2> DEFINE d == <<x>> \o c
  <2>3. d \in Seq(S)
    BY <1>3
  <2> HIDE DEF d
  <2>4. /\ Len(a) \in Nat /\ Len(d) \in Nat /\ a \o d \in Seq(S) /\ Len(a \o d) = Len(a) + Len(d)
        /\ \A i \in 1 .. Len(a) + Len(d) : (a \o d)[i] = IF i <= Len(a) THEN a[i] ELSE d[i - Len(a)]
    BY <2>3, ConcatProperties, LenProperties
  <2>5. Len(c) \in Nat /\ a \o c \in Seq(S) /\ Len(a \o c) = Len(a) + Len(c)
    BY <1>3, ConcatProperties, LenProperties
  <2>6. Len(d) = 1 + Len(c) /\ d[1] = x /\ \A i \in 1 .. Len(c) : d[1 + i] = c[i]
    BY <2>2 DEF d
  <2>7. u = a \o d
    BY DEF u, d
  <2>8. \A i \in 1 .. Len(c) : u[Len(a) + 1 + i] = d[1 + i]
    <3> SUFFICES ASSUME NEW i \in 1 .. Len(c) PROVE (a \o d)[Len(a) + 1 + i] = d[1 + i]
      BY <2>7
    <3>1. Len(a) + 1 + i \in 1 .. Len(a) + Len(d) /\ ~(Len(a) + 1 + i <= Len(a))
          /\ Len(a) + 1 + i - Len(a) = 1 + i
      BY <2>4, <2>5, <2>6
    <3> QED BY <2>4, <3>1
  <2>9. u[Len(a) + 1] = d[1]
    <3>1. Len(a) + 1 \in 1 .. Len(a) + Len(d) /\ ~(Len(a) + 1 <= Len(a)) /\ Len(a) + 1 - Len(a) = 1
      BY <2>4, <2>5, <2>6
    <3> QED BY <2>4, <2>7, <3>1
  <2>10. \A i \in 1 .. Len(a) : u[i] = a[i]
    BY <2>4, <2>7
  <2> QED BY <2>4, <2>5, <2>6, <2>7, <2>8, <2>9, <2>10
<1>7. /\ Len(a \o c) = Len(a) + Len(c)
      /\ \A i \in 1 .. Len(a) + Len(c) : (a \o c)[i] = IF i <= Len(a) THEN a[i] ELSE c[i - Len(a)]
  BY <1>3, ConcatProperties
<1> DEFINE n == Len(a) + 1
           l == SubSeq(u, 1, n - 1)
           r == SubSeq(u, n + 1, Len(u))
<1>8. n \in 1 .. Len(u) /\ n - 1 = Len(a) /\ Len(u) = n + Len(c) /\ n \in Nat
  BY <1>6
<1>9. l = a
  <2>1. \A i \in 1 .. n - 1 : u[i] \in S
    BY <1>6, <1>8, ElementOfSeq
  <2>2. l \in Seq(S) /\ Len(l) = Len(a) /\ \A i \in 1 .. Len(a) : l[i] = u[i]
    <3>1. 1 \in Int /\ n - 1 \in Int
      BY <1>8
    <3>2. /\ l \in Seq(S) /\ Len(l) = IF 1 <= n - 1 THEN n - 1 - 1 + 1 ELSE 0
          /\ \A i \in 1 .. n - 1 - 1 + 1 : l[i] = u[1 + i - 1]
      BY <2>1, <3>1, SubSeqProperties
    <3> QED BY <1>6, <1>8, <3>2
  <2> HIDE DEF l
  <2> QED BY <1>6, <2>2, SeqEqual
<1>10. r = c
  <2>1. \A i \in n + 1 .. Len(u) : u[i] \in S
    BY <1>6, <1>8, ElementOfSeq
  <2>2. r \in Seq(S) /\ Len(r) = Len(c) /\ \A i \in 1 .. Len(c) : r[i] = c[i]
    <3>1. n + 1 \in Int /\ Len(u) \in Int
      BY <1>8, <1>6
    <3>2. /\ r \in Seq(S) /\ Len(r) = IF n + 1 <= Len(u) THEN Len(u) - (n + 1) + 1 ELSE 0
          /\ \A i \in 1 .. Len(u) - (n + 1) + 1 : r[i] = u[n + 1 + i - 1]
      BY <2>1, <3>1, SubSeqProperties
    <3>3. Len(u) - (n + 1) + 1 = Len(c) /\ \A i \in 1 .. Len(c) : n + 1 + i - 1 = Len(a) + 1 + i
      BY <1>6, <1>8
    <3> QED BY <1>6, <1>8, <3>2, <3>3
  <2> HIDE DEF r
  <2> QED BY <1>3, <1>6, <2>2, SeqEqual
<1>11. \E j \in 1 .. Len(f[N]) : g[N] = SubSeq(f[N], 1, j - 1) \o SubSeq(f[N], j + 1, Len(f[N]))
  <2>1. g[N] = SubSeq(f[N], 1, n - 1) \o SubSeq(f[N], n + 1, Len(f[N]))
    BY <1>4, <1>5, <1>9, <1>10
  <2> QED BY <1>5, <1>8, <2>1
<1>12. ASSUME m = 1 PROVE f[N] # <<>> /\ Head(f[N]) = x /\ Tail(f[N]) = g[N]
  <2>1. a = <<>> /\ Len(a) = 0
    BY <1>1, <1>12
  <2>2. Len(u) # 0 /\ Len(<<>>) = 0 /\ u # <<>> /\ u[1] = x
    BY <1>6, <2>1
  <2>3. Head(u) = x
    BY <2>2
  <2>4. Tail(u) = r
    <3>1. Tail(u) = SubSeq(u, 2, Len(u))
      BY <1>6, <2>2, TailIsSubSeq
    <3>2. n + 1 = 2
      BY <2>1
    <3> QED BY <3>1, <3>2
  <2>5. a \o c = c
    BY <1>3, <2>1, NoneAdded
  <2> QED BY <1>4, <1>5, <1>10, <2>2, <2>3, <2>4, <2>5
<1> QED BY <1>11, <1>12 DEF Misses, Takes, Without

\* A flit enters the last stretch.
LEMMA RunLast ==
  ASSUME NEW N \in Nat \ {0}, NEW S, NEW s, NEW t, NEW f, NEW g, Runs(f, g, s, t, N, S),
         NEW x, Grows(s, t, x, N, S)
  PROVE  g[N] = Append(f[N], x)
PROOF
<1>r. s \in [1 .. N -> Seq(S)] /\ t \in [1 .. N -> Seq(S)] /\ Run(f, s, N) /\ Run(g, t, N)
  BY DEF Runs
<1>d. x \in S /\ Agree(s, t, 1 .. N \ {N}) /\ t[N] = Append(s[N], x)
  BY DEF Grows
<1> USE <1>d
<1>1. PICK a \in Seq(S), b \in Seq(S) :
        f[N] = (a \o s[N]) \o b /\ g[N] = (a \o t[N]) \o b /\ b = <<>>
  <2>1. N \in 1 .. N
    OBVIOUS
  <2>2. SplitAt(f, g, s, t, N, N, S)
    BY <2>1, RunSplit
  <2> QED BY <2>2 DEF SplitAt
<1>2. s[N] \in Seq(S) /\ t[N] \in Seq(S) /\ <<x>> \in Seq(S)
  BY <1>r
<1>a. Concatenates(S)
  BY Associative, Zenon
<1>3. a \o s[N] \in Seq(S) /\ a \o t[N] \in Seq(S)
  BY <1>2, ConcatProperties
<1>4. f[N] = a \o s[N] /\ g[N] = a \o t[N]
  BY <1>1, <1>3, NoneAdded
<1>5. t[N] = s[N] \o <<x>>
  BY <1>2, AppendIsConcat
<1>6. (a \o s[N]) \o <<x>> = a \o (s[N] \o <<x>>)
  BY <1>2, <1>a DEF Concatenates
<1>7. Append(a \o s[N], x) = (a \o s[N]) \o <<x>>
  BY <1>3, AppendIsConcat
<1> QED BY <1>4, <1>5, <1>6, <1>7

\* A flit moves from one stretch to the one before.
LEMMA RunMove ==
  ASSUME NEW N \in Nat \ {0}, NEW S, NEW s, NEW t, NEW f, NEW g, Runs(f, g, s, t, N, S),
         NEW m, NEW x, Passes(s, t, m, x, N, S)
  PROVE  g[N] = f[N]
PROOF
<1>r. s \in [1 .. N -> Seq(S)] /\ t \in [1 .. N -> Seq(S)] /\ Run(f, s, N) /\ Run(g, t, N)
  BY DEF Runs
<1>d. m \in 1 .. N - 1 /\ x \in S /\ Agree(s, t, 1 .. N \ {m, m + 1})
      /\ s[m + 1] = <<x>> \o t[m + 1] /\ t[m] = s[m] \o <<x>>
  BY DEF Passes
<1> USE <1>d
<1> DEFINE k == m + 1
<1>0. k \in 1 .. N /\ k # 1 /\ m \in 1 .. N /\ m - 1 \in 0 .. N /\ N \in Nat
  OBVIOUS
<1>1. s[m] \in Seq(S) /\ t[k] \in Seq(S) /\ <<x>> \in Seq(S) /\ s[k] = <<x>> \o t[k]
  BY <1>r, <1>0
<1>a. Concatenates(S)
  BY Associative, Zenon
<1>2. f[k] = f[m] \o s[k] /\ g[k] = g[m] \o t[k]
  <2>1. k - 1 = m
    OBVIOUS
  <2>2. /\ f[k] = IF k = 1 THEN s[k] ELSE f[k - 1] \o s[k]
        /\ g[k] = IF k = 1 THEN t[k] ELSE g[k - 1] \o t[k]
    <3> HIDE DEF k
    <3> QED BY <1>r, <1>0 DEF Run
  <2> HIDE DEF k
  <2> QED BY <1>0, <2>1, <2>2
<1>3. PICK b \in Seq(S) : f[N] = f[k] \o b /\ g[N] = g[k] \o b
  <2>1. Agree(s, t, k + 1 .. N)
    <3>1. k + 1 .. N \subseteq 1 .. N \ {m, m + 1}
      OBVIOUS
    <3> HIDE DEF k
    <3> QED BY <3>1 DEF Agree
  <2> HIDE DEF k
  <2>2. SameAbove(f, g, k, N, S)
    BY <1>0, <2>1, RunAbove
  <2> QED BY <2>2 DEF SameAbove
<1> HIDE DEF k
<1>4. g[m] = f[m] \o <<x>> /\ f[m] \in Seq(S)
  <2>1. CASE m = 1
    <3>1. f[m] = s[m] /\ g[m] = t[m]
      BY <1>0, <2>1 DEF Run, Runs
    <3> QED BY <1>1, <3>1
  <2>2. CASE m # 1
    <3>1. f[m] = f[m - 1] \o s[m] /\ g[m] = g[m - 1] \o t[m]
      BY <1>0, <2>2 DEF Run, Runs
    <3>2. g[m - 1] = f[m - 1]
      <4>1. Agree(s, t, 1 .. m - 1)
        BY <1>0, <1>d DEF Agree
      <4>2. Agree(f, g, 1 .. m - 1)
        BY <1>0, <4>1, RunSame
      <4>3. m - 1 \in 1 .. m - 1
        BY <1>0, <2>2
      <4> QED BY <4>2, <4>3 DEF Agree
    <3>3. f[m - 1] \in Seq(S) /\ f[m] \in Seq(S)
      <4>1. \A n \in 1 .. N : f[n] \in Seq(S)
        BY <1>r, <1>0, RunType
      <4>2. m - 1 \in 1 .. N
        BY <2>2
      <4> QED BY <1>0, <4>1, <4>2
    <3>4. (f[m - 1] \o s[m]) \o <<x>> = f[m - 1] \o (s[m] \o <<x>>)
      <4> DEFINE u == f[m - 1]
                 v == s[m]
                 w == <<x>>
      <4>1. u \in Seq(S) /\ v \in Seq(S) /\ w \in Seq(S)
        BY <1>1, <3>3
      <4> HIDE <1>d DEF u, v, w
      <4>2. (u \o v) \o w = u \o (v \o w)
        BY <4>1, <1>a, SMTT(30) DEF Concatenates
      <4> QED BY <4>2 DEF u, v, w
    <3>5. t[m] = s[m] \o <<x>>
      OBVIOUS
    <3>6. g[m] = f[m] \o <<x>>
      BY <3>1, <3>2, <3>4, <3>5
    <3> QED BY <3>3, <3>6
  <2> QED BY <2>1, <2>2
<1>5. (f[m] \o <<x>>) \o t[k] = f[m] \o (<<x>> \o t[k])
  BY <1>1, <1>4, <1>a DEF Concatenates
<1>6. g[k] = f[k]
  BY <1>1, <1>2, <1>4, <1>5
<1> QED BY <1>3, <1>6

(***************************************************************************)
(* Paths.                                                                  *)
(***************************************************************************)
\* The kernel whose output leads to the n-th stretch, and its port.
Before(path, n) == Conns[path[n - 1]].src
Port(path, n) == Conns[path[n - 1]].sport

\* What the stretches hold, one by one.
Load(path) == [n \in 1 .. Len(path) |-> Stretch(path, n)]

LEMMA PipelineType ==
  ASSUME NEW path \in Pipelines
  PROVE  /\ Len(path) \in Nat \ {0} /\ DOMAIN path = 1 .. Len(path)
         /\ path \in [1 .. Len(path) -> DOMAIN Conns] /\ Pipeline(path)
PROOF
<1>1. PICK n \in DOMAIN Conns : path \in [1 .. n -> DOMAIN Conns] /\ Pipeline(path)
  BY DEF Pipelines
<1>2. n \in Nat \ {0}
  BY ConnsType
<1>3. path \in Seq(DOMAIN Conns) /\ Len(path) = n
  <2>1. path \in Seq(DOMAIN Conns)
    BY <1>1, <1>2, SeqDef
  <2>2. DOMAIN path = 1 .. Len(path) /\ Len(path) \in Nat /\ DOMAIN path = 1 .. n
    BY <1>1, <2>1, LenProperties
  <2> QED BY <1>2, <2>1, <2>2
<1> QED BY <1>1, <1>2, <1>3

\* The streams of a path are connections, all different, from the one source to
\* a sink.
LEMMA PathStreams ==
  ASSUME NEW path \in Pipelines
  PROVE  /\ \A n \in 1 .. Len(path) : path[n] \in DOMAIN Conns /\ path[n] \in Streams /\ path[n] # Null
         /\ \A m, n \in 1 .. Len(path) : path[m] = path[n] => m = n
         /\ path[1] \in Sinks /\ Sources = {path[Len(path)]}
PROOF
<1>1. Pipeline(path) /\ DOMAIN path = 1 .. Len(path)
  BY PipelineType
<1>2. \A n \in 1 .. Len(path) : path[n] \in 1 .. Len(Conns)
  BY PipelineType, ConnsType
<1>3. 1 .. Len(Conns) \subseteq Streams /\ Null \notin 1 .. Len(Conns)
  BY ConnsType DEF Streams, Null
<1> QED BY <1>1, <1>2, <1>3, ConnsType DEF Pipeline

\* Between two of them is a kernel of one input that reads the later one and
\* writes the earlier one.
LEMMA PathKernels ==
  ASSUME NEW path \in Pipelines, NEW n \in 2 .. Len(path)
  PROVE  /\ n - 1 \in 1 .. Len(path) /\ n \in 1 .. Len(path)
         /\ Before(path, n) \in Kernels /\ InPorts(Before(path, n)) = {1}
         /\ NIn(Elem[Before(path, n)]) = 1
         /\ InStream(Before(path, n), 1) = path[n]
         /\ Port(path, n) \in OutPorts(Before(path, n)) /\ Port(path, n) \in Ports
         /\ OutStream(Before(path, n), Port(path, n)) = path[n - 1]
         /\ Conns[path[n]].dst = Before(path, n)
         /\ path[n] \notin Sinks
PROOF
<1> DEFINE k == Before(path, n)
<1>1. n - 1 \in 1 .. Len(path) - 1 /\ (n - 1) + 1 = n /\ n - 1 \in 1 .. Len(path) /\ n \in 1 .. Len(path)
  BY PipelineType
<1>2. /\ k \in Kernels /\ NIn(Elem[k]) = 1 /\ InStream(k, 1) = path[(n - 1) + 1]
      /\ Port(path, n) \in OutPorts(k) /\ OutStream(k, Port(path, n)) = path[n - 1]
  <2>1. Pipeline(path)
    BY PipelineType
  <2> QED BY <1>1, <2>1 DEF Pipeline, Before, Port
<1> HIDE DEF k
<1>3. InPorts(k) = {1}
  <2>1. \A p \in Ports : p <= 1 <=> p = 1
    BY ElementsAssumption DEF Ports
  <2> QED BY <1>2, <2>1, PortsType DEF InPorts
<1>4. path[n] # Null
  BY <1>1, PathStreams
<1>5. Conns[path[n]].dst = k
  BY <1>1, <1>2, <1>4, InStreamType
<1>6. path[n] \notin Sinks
  BY <1>2, <1>5 DEF Sinks
<1> QED BY <1>1, <1>2, <1>3, <1>5, <1>6 DEF k, OutPorts

\* A kernel is on a path once.
LEMMA OnceOnPath ==
  ASSUME NEW path \in Pipelines, NEW m \in 2 .. Len(path), NEW n \in 2 .. Len(path),
         Before(path, m) = Before(path, n)
  PROVE  m = n
PROOF
<1>1. path[m] = path[n]
  BY PathKernels
<1>2. m \in 1 .. Len(path) /\ n \in 1 .. Len(path)
  OBVIOUS
<1> QED BY <1>1, <1>2, PathStreams

\* Whoever reads or writes a stream of the path is the kernel of the path.
LEMMA PathReader ==
  ASSUME NEW path \in Pipelines, NEW k \in Kernels, NEW p, NEW n \in 1 .. Len(path),
         InStream(k, p) = path[n]
  PROVE  n \in 2 .. Len(path) /\ k = Before(path, n)
PROOF
<1>1. Conns[path[n]].dst = k
  BY PathStreams, InStreamType
<1>2. n # 1
  BY <1>1, PathStreams DEF Sinks
<1>3. n \in 2 .. Len(path)
  BY <1>2
<1> QED BY <1>1, <1>3, PathKernels

LEMMA PathWriter ==
  ASSUME NEW path \in Pipelines, NEW k \in Kernels, NEW p, NEW n \in 1 .. Len(path),
         OutStream(k, p) = path[n]
  PROVE  n + 1 \in 2 .. Len(path) /\ k = Before(path, n + 1) /\ p = Port(path, n + 1)
PROOF
<1>1. Conns[path[n]].src = k /\ Conns[path[n]].sport = p
  BY PathStreams, OutStreamType
<1>2. n # Len(path)
  BY <1>1, PathStreams DEF Sources
<1>3. n + 1 \in 2 .. Len(path) /\ (n + 1) - 1 = n
  BY <1>2, PipelineType
<1> QED BY <1>1, <1>3 DEF Before, Port

(***************************************************************************)
(* What is under way.                                                      *)
(***************************************************************************)
LEMMA StretchIs ==
  ASSUME NEW path \in Pipelines, NEW n \in 1 .. Len(path)
  PROVE  /\ Load(path)[n] = Stretch(path, n)
         /\ n = 1 => Stretch(path, n) = q[path[1]]
         /\ n # 1 => Stretch(path, n) = Inside(Before(path, n), Port(path, n)) \o q[path[n]]
BY DEF Load, Stretch, Before, Port

LEMMA InsideType ==
  ASSUME TypeInv, NEW k \in Kernels, NEW p
  PROVE  /\ Leaving(k, p) \in Seq(Flits) /\ OneOf(Reg(k)) \in Seq(Flits)
         /\ OneOf(held[k][1]) \in Seq(Flits) /\ Inside(k, p) \in Seq(Flits)
PROOF
<1>1. Leaving(k, p) \in Seq(Flits)
  <2>1. (pc[k] = "write" /\ p \in todo[k]) => out[k][p] \in Flits
    BY DEF TypeInv, WriteOK
  <2> QED BY <2>1 DEF Leaving
<1>2. Reg(k) \in Flits \cup {NoFlit} /\ held[k][1] \in Flits \cup {NoFlit}
  BY PortsType DEF TypeInv, TypeOK, Reg, StateOf
<1>3. \A x \in Flits \cup {NoFlit} : OneOf(x) \in Seq(Flits)
  BY DEF OneOf
<1>4. OneOf(Reg(k)) \in Seq(Flits) /\ OneOf(held[k][1]) \in Seq(Flits)
  BY <1>2, <1>3
<1> QED BY <1>1, <1>4, Concat DEF Inside

LEMMA LoadType ==
  ASSUME TypeInv, NEW path \in Pipelines
  PROVE  Load(path) \in [1 .. Len(path) -> Seq(Flits)]
PROOF
<1>1. ASSUME NEW n \in 1 .. Len(path) PROVE Stretch(path, n) \in Seq(Flits)
  <2>0. \A m \in 1 .. Len(path) : q[path[m]] \in Seq(Flits)
    BY PathStreams DEF TypeInv, TypeOK
  <2>1. CASE n = 1
    BY <2>0, <2>1, StretchIs
  <2>2. CASE n # 1
    <3>1. n \in 2 .. Len(path)
      BY <2>2
    <3>2. Inside(Before(path, n), Port(path, n)) \in Seq(Flits)
      BY <3>1, PathKernels, InsideType
    <3>3. Inside(Before(path, n), Port(path, n)) \o q[path[n]] \in Seq(Flits)
      BY <2>0, <3>2, Concat
    <3> QED BY <2>2, <3>3, StretchIs
  <2> QED BY <2>1, <2>2
<1> QED BY <1>1 DEF Load

LEMMA LoadTypeNext == (TypeInv => \A path \in Pipelines : Load(path) \in [1 .. Len(path) -> Seq(Flits)])'
PROOF
<1>1. TypeInv => \A path \in Pipelines : Load(path) \in [1 .. Len(path) -> Seq(Flits)]
  BY LoadType
<1> QED BY <1>1, PTL

LEMMA FromSinkIs == \A path \in Pipelines : Run(FromSink(path), Load(path), Len(path))
PROOF
<1> SUFFICES ASSUME NEW path \in Pipelines PROVE Run(FromSink(path), Load(path), Len(path))
  OBVIOUS
<1> DEFINE N == Len(path)
           T == Load(path)
           Is(f) == f = [n \in 1 .. N |-> IF n = 1 THEN T[n] ELSE f[n - 1] \o T[n]]
           Was(f) == f = [n \in 1 .. N |-> IF n = 1 THEN Stretch(path, 1) ELSE f[n - 1] \o Stretch(path, n)]
<1>1. N \in Nat /\ DOMAIN path = 1 .. N
  BY PipelineType
<1>2. \E f : Is(f)
  BY <1>1, RunExists
<1>3. ASSUME NEW f PROVE Is(f) <=> Was(f)
  <2>1. \A n \in 1 .. N : T[n] = Stretch(path, n)
    BY StretchIs
  <2> HIDE DEF T, N
  <2>2. [n \in 1 .. N |-> IF n = 1 THEN T[n] ELSE f[n - 1] \o T[n]]
          = [n \in 1 .. N |-> IF n = 1 THEN Stretch(path, 1) ELSE f[n - 1] \o Stretch(path, n)]
    BY <2>1
  <2> QED BY <2>2, Zenon
<1>4. FromSink(path) = CHOOSE f : Was(f)
  BY <1>1, Zenon DEF FromSink
<1>5. Is(FromSink(path))
  <2> HIDE DEF Is, Was
  <2> QED BY <1>2, <1>3, <1>4, Zenon
<1>6. ASSUME NEW f, Is(f) PROVE Run(f, T, N)
  <2> HIDE DEF T, N
  <2> QED BY <1>6 DEF Run
<1> HIDE DEF Is
<1> QED BY <1>5, <1>6

LEMMA FromSinkNext == (\A path \in Pipelines : Run(FromSink(path), Load(path), Len(path)))'
BY FromSinkIs, PTL

(***************************************************************************)
(* What a step does to a path: nothing, a stretch sheds its first flit, or *)
(* a flit shifts from one stretch to the one before.                       *)
(***************************************************************************)
Still(path) == Agree(Load(path), Load(path)', 1 .. Len(path))

Sheds(path, n, x) ==
  /\ Agree(Load(path), Load(path)', 1 .. Len(path) \ {n})
  /\ Load(path)[n] = <<x>> \o Load(path)'[n]

Shifts(path, n, x) ==
  /\ Agree(Load(path), Load(path)', 1 .. Len(path) \ {n, n + 1})
  /\ Load(path)[n + 1] = <<x>> \o Load(path)'[n + 1]
  /\ Load(path)'[n] = Load(path)[n] \o <<x>>

\* A step of a kernel moves a path.
MovesOn(path) ==
  \/ Still(path)
  \/ \E n \in 1 .. Len(path), x \in Flits : Sheds(path, n, x)
  \/ \E n \in 1 .. Len(path) - 1, x \in Flits : Shifts(path, n, x)

LEMMA LoadIs ==
  ASSUME NEW path \in Pipelines, NEW n \in 1 .. Len(path)
  PROVE  /\ Load(path)[n] = Stretch(path, n) /\ Load(path)'[n] = Stretch(path, n)'
         /\ n = 1 => Stretch(path, n) = q[path[1]] /\ Stretch(path, n)' = q'[path[1]]
         /\ n # 1 =>
              /\ Stretch(path, n) = Inside(Before(path, n), Port(path, n)) \o q[path[n]]
              /\ Stretch(path, n)' = Inside(Before(path, n), Port(path, n))' \o q'[path[n]]
BY DEF Load, Stretch, Before, Port

\* A stretch is the same when its stream and the kernel before it are.
LEMMA SameStretch ==
  ASSUME NEW path \in Pipelines, NEW n \in 1 .. Len(path), q'[path[n]] = q[path[n]],
         n # 1 => Inside(Before(path, n), Port(path, n))' = Inside(Before(path, n), Port(path, n))
  PROVE  Load(path)'[n] = Load(path)[n]
PROOF
<1>1. CASE n = 1
  BY <1>1, LoadIs
<1>2. CASE n # 1
  <2>1. /\ Load(path)[n] = Inside(Before(path, n), Port(path, n)) \o q[path[n]]
        /\ Load(path)'[n] = Inside(Before(path, n), Port(path, n))' \o q'[path[n]]
    BY <1>2, LoadIs
  <2>2. Inside(Before(path, n), Port(path, n))' = Inside(Before(path, n), Port(path, n))
    BY <1>2
  <2>3. q'[path[n]] = q[path[n]]
    OBVIOUS
  <2> QED BY <2>1, <2>2, <2>3, Zenon
<1> QED BY <1>1, <1>2

\* Nothing of kernel k changes.
Untouched(k) ==
  /\ pc'[k] = pc[k] /\ todo'[k] = todo[k] /\ out'[k] = out[k]
  /\ Reg(k)' = Reg(k) /\ held'[k] = held[k]

LEMMA UntouchedInside ==
  ASSUME NEW k, NEW p, Untouched(k)
  PROVE  Inside(k, p)' = Inside(k, p)
BY DEF Untouched, Inside, Leaving, OneOf

\* Steps that leave the streams alone and every kernel what it holds.
LEMMA Calm ==
  ASSUME NEW path \in Pipelines, UNCHANGED q,
         \A k \in Kernels, p \in Ports : Inside(k, p)' = Inside(k, p)
  PROVE  Still(path)
PROOF
<1>1. ASSUME NEW n \in 1 .. Len(path) PROVE Load(path)'[n] = Load(path)[n]
  <2>1. ASSUME n # 1
        PROVE  Inside(Before(path, n), Port(path, n))' = Inside(Before(path, n), Port(path, n))
    <3>1. n \in 2 .. Len(path)
      BY <2>1
    <3>2. Before(path, n) \in Kernels /\ Port(path, n) \in Ports
      BY <3>1, PathKernels
    <3> QED BY <3>2
  <2> QED BY <2>1, SameStretch
<1> QED BY <1>1 DEF Still, Agree

LEMMA QuietSteps ==
  ASSUME TypeInv, NEW k \in Kernels, Exit(k) \/ LoopTop(k) \/ RunSignal(k), NEW path \in Pipelines
  PROVE  Still(path)
PROOF
<1>1. /\ q' = q /\ held' = held /\ \A j \in Kernels : Reg(j)' = Reg(j)
      /\ pc[k] # "write" /\ pc'[k] # "write"
      /\ \A j \in Kernels \ {k} : pc'[j] = pc[j] /\ todo'[j] = todo[j] /\ out'[j] = out[j]
  <2>1. CASE Exit(k)
    BY <2>1 DEF Exit, TypeInv, TypeOK, Reg, dataVars
  <2>2. CASE LoopTop(k)
    BY <2>2 DEF LoopTop, TypeInv, TypeOK, Reg, dataVars
  <2>3. CASE RunSignal(k)
    BY <2>3 DEF RunSignal, TypeInv, TypeOK, Reg, dataVars, Signal
  <2> QED BY <2>1, <2>2, <2>3
<1>2. ASSUME NEW j \in Kernels, NEW p \in Ports PROVE Inside(j, p)' = Inside(j, p)
  <2>1. CASE j = k
    BY <1>1, <2>1 DEF Inside, Leaving, OneOf
  <2>2. CASE j # k
    BY <1>1, <2>2, UntouchedInside DEF Untouched
  <2> QED BY <2>1, <2>2
<1> QED BY <1>1, <1>2, Calm

LEMMA ReadSteps ==
  ASSUME TypeInv, ReadOK, NEW k \in Kernels, ReadPort(k), NEW path \in Pipelines
  PROVE  Still(path)
PROOF
<1> DEFINE p == NextPort(k)
           i == InStream(k, p)
<1>1. p \in todo[k] /\ p \in Ports /\ p \in InPorts(k) /\ held[k][p] = NoFlit /\ pc[k] = "read"
  BY NextPortType DEF ReadPort, TypeInv, ReadOK
<1>2. /\ todo' = [todo EXCEPT ![k] = @ \ {p}]
      /\ UNCHANGED <<pc, out, st>>
      /\ \/ q[i] = <<>> /\ UNCHANGED <<q, held>>
         \/ /\ q[i] # <<>> /\ held' = [held EXCEPT ![k][p] = Head(q[i])]
            /\ q' = [q EXCEPT ![i] = Tail(@)]
  BY DEF ReadPort
<1>3. i \in Streams
  BY InStreamType
<1> HIDE DEF p, i
<1>4. /\ \A j \in Kernels : Reg(j)' = Reg(j)
      /\ \A j \in Kernels \ {k} : Untouched(j)
  BY <1>2 DEF TypeInv, TypeOK, Reg, Untouched
<1>5. \A r : Leaving(k, r) = <<>> /\ Leaving(k, r)' = <<>>
  BY <1>1, <1>2 DEF Leaving
<1>6. CASE q[i] = <<>>
  <2>1. UNCHANGED <<q, held>>
    BY <1>2, <1>6
  <2>2. ASSUME NEW j \in Kernels, NEW r \in Ports PROVE Inside(j, r)' = Inside(j, r)
    <3>1. CASE j = k
      BY <1>4, <1>5, <2>1, <3>1 DEF Inside, OneOf
    <3>2. CASE j # k
      BY <1>4, <3>2, UntouchedInside
    <3> QED BY <3>1, <3>2
  <2> QED BY <2>1, <2>2, Calm
<1>7. CASE q[i] # <<>>
  <2>1. held' = [held EXCEPT ![k][p] = Head(q[i])] /\ q' = [q EXCEPT ![i] = Tail(@)]
    BY <1>2, <1>7
  <2>2. ASSUME NEW n \in 1 .. Len(path), n = 1 \/ Before(path, n) # k
        PROVE  Load(path)'[n] = Load(path)[n]
    <3>1. path[n] # i
      BY <2>2, PathReader DEF i
    <3>2. q'[path[n]] = q[path[n]]
      BY <2>1, <3>1, PathStreams DEF TypeInv, TypeOK
    <3>3. ASSUME n # 1
          PROVE  Inside(Before(path, n), Port(path, n))' = Inside(Before(path, n), Port(path, n))
      <4>1. Before(path, n) \in Kernels
        BY <3>3, PathKernels
      <4> QED BY <1>4, <2>2, <3>3, <4>1, UntouchedInside
    <3> QED BY <3>2, <3>3, SameStretch
  <2>3. ASSUME NEW n \in 1 .. Len(path), n # 1, Before(path, n) = k
        PROVE  Load(path)'[n] = Load(path)[n]
    <3>1. n \in 2 .. Len(path)
      BY <2>3
    <3>2. p = 1 /\ path[n] = i
      BY <1>1, <2>3, <3>1, PathKernels DEF i
    <3> DEFINE h == Head(q[i])
               r == Port(path, n)
    <3>3. h \in Flits /\ Tail(q[i]) \in Seq(Flits) /\ q[i] = <<h>> \o Tail(q[i]) /\ q'[i] = Tail(q[i])
      <4>1. q[i] \in Seq(Flits)
        BY <1>3 DEF TypeInv, TypeOK
      <4> DEFINE s == q[i]
      <4>2. s \in Seq(Flits) /\ s # <<>>
        BY <4>1, <1>7
      <4> HIDE DEF s
      <4>3. Head(s) \in Flits /\ Tail(s) \in Seq(Flits) /\ s = <<Head(s)>> \o Tail(s)
        BY <4>2, HeadTailIs
      <4>4. q'[i] = Tail(q[i])
        BY <1>3, <2>1 DEF TypeInv, TypeOK
      <4> QED BY <4>3, <4>4 DEF s
    <3>4. held[k][1] = NoFlit /\ held'[k][1] = h
      BY <1>1, <2>1, <3>2 DEF TypeInv, TypeOK
    <3>5. OneOf(held[k][1]) = <<>> /\ OneOf(held[k][1])' = <<h>> /\ h # NoFlit
      BY <3>3, <3>4, FlitsType DEF OneOf
    <3> HIDE DEF h
    <3>6. OneOf(Reg(k))' = OneOf(Reg(k)) /\ OneOf(Reg(k)) \in Seq(Flits)
      BY <1>4, InsideType DEF OneOf
    <3>7. Inside(k, r) = OneOf(Reg(k)) /\ Inside(k, r)' = OneOf(Reg(k)) \o <<h>>
      <4> DEFINE e == OneOf(Reg(k))
      <4>1. Inside(k, r) = (<<>> \o e) \o <<>> /\ Inside(k, r)' = (<<>> \o e) \o <<h>>
        BY <1>5, <3>5, <3>6 DEF Inside
      <4>2. <<>> \o e = e /\ e \o <<>> = e
        BY <3>6, NoneAdded
      <4> HIDE DEF e
      <4>3. Inside(k, r) = e /\ Inside(k, r)' = e \o <<h>>
        BY <4>1, <4>2, Zenon
      <4> QED BY <4>3 DEF e
    <3> DEFINE e == OneOf(Reg(k))
               u == Tail(q[i])
    <3>8. Load(path)[n] = e \o (<<h>> \o u) /\ Load(path)'[n] = (e \o <<h>>) \o u
      <4>1. Load(path)[n] = Inside(k, r) \o q[path[n]] /\ Load(path)'[n] = Inside(k, r)' \o q'[path[n]]
        BY <2>3, LoadIs
      <4> QED BY <4>1, <3>2, <3>3, <3>7, Zenon
    <3>9. e \in Seq(Flits) /\ u \in Seq(Flits) /\ <<h>> \in Seq(Flits)
      BY <3>3, <3>6
    <3>10. Concatenates(Flits)
      BY Associative, Zenon
    <3> HIDE DEF e, u
    <3> QED BY <3>8, <3>9, <3>10 DEF Concatenates
  <2> QED BY <2>2, <2>3 DEF Still, Agree
<1> QED BY <1>6, <1>7

LEMMA InsideTypes == TypeInv => \A k \in Kernels : \A p : Inside(k, p) \in Seq(Flits)
BY InsideType

LEMMA InsideTypesNext == (TypeInv => \A k \in Kernels : \A p : Inside(k, p) \in Seq(Flits))'
BY InsideTypes, PTL

\* Stretch n sheds x when its kernel does.
LEMMA ShedsFirst ==
  ASSUME TypeInv, TypeInv', NEW path \in Pipelines, NEW n \in 2 .. Len(path), NEW x \in Flits,
         q'[path[n]] = q[path[n]],
         Inside(Before(path, n), Port(path, n))
           = <<x>> \o Inside(Before(path, n), Port(path, n))'
  PROVE  Load(path)[n] = <<x>> \o Load(path)'[n]
PROOF
<1> DEFINE b == Inside(Before(path, n), Port(path, n))'
           s == q[path[n]]
<1>1. n \in 1 .. Len(path) /\ n # 1 /\ Before(path, n) \in Kernels
  BY PathKernels
<1>2. Load(path)[n] = (<<x>> \o b) \o s /\ Load(path)'[n] = b \o s
  <2>1. /\ Load(path)[n] = Inside(Before(path, n), Port(path, n)) \o q[path[n]]
        /\ Load(path)'[n] = b \o q'[path[n]]
    BY <1>1, LoadIs
  <2>2. Inside(Before(path, n), Port(path, n)) = <<x>> \o b /\ q'[path[n]] = s
    OBVIOUS
  <2> HIDE DEF b, s
  <2> QED BY <2>1, <2>2 DEF s
<1>3. b \in Seq(Flits)
  BY <1>1, InsideTypesNext
<1>4. s \in Seq(Flits) /\ <<x>> \in Seq(Flits)
  BY <1>1, PathStreams DEF TypeInv, TypeOK
<1>5. Concatenates(Flits)
  BY Associative, Zenon
<1> HIDE DEF b, s
<1> QED BY <1>2, <1>3, <1>4, <1>5 DEF Concatenates

\* A handler moves the flit read last into the register and the registered one
\* to the port, or the flit read to the port; it keeps what it holds or drops
\* the first.
LEMMA HandlerInside ==
  ASSUME TypeInv, NEW k \in Kernels, RunHandler(k), NIn(Elem[k]) = 1, NEW p \in OutPorts(k)
  PROVE  \/ Inside(k, p)' = Inside(k, p)
         \/ \E x \in Flits : Inside(k, p) = <<x>> \o Inside(k, p)'
PROOF
<1> DEFINE r == Handler(Elem[k], held[k], st[k])
           w == {o \in OutPorts(k) : r.out[o] # NoFlit}
           h == held[k][1]
           g == Reg(k)
<1>0. Elem[k] \in Kinds /\ held[k] \in Held /\ st[k] \in StateOf(Elem[k]) /\ p \in Ports
  BY SwEmuAssumption DEF TypeInv, TypeOK, Held, OutPorts
<1>1. /\ pc[k] = "read" /\ held' = [held EXCEPT ![k] = r.held] /\ out' = [out EXCEPT ![k] = r.out]
      /\ st' = [st EXCEPT ![k] = r.st] /\ todo' = [todo EXCEPT ![k] = w]
      /\ pc' = [pc EXCEPT ![k] = IF w = {} THEN "top" ELSE "write"]
  BY DEF RunHandler
<1>2. /\ r.held[1] = NoFlit
      /\ Elem[k] = "StagingReg" =>
           r.st.a = held[k][1] /\ \A o \in Ports : r.out[o] \in {NoFlit, st[k].a}
      /\ Elem[k] # "StagingReg" => \A o \in Ports : r.out[o] \in {NoFlit, held[k][1]}
  BY <1>0, HandlerOrder
<1> HIDE DEF r
<1>3. /\ held'[k][1] = NoFlit /\ out'[k] = r.out /\ todo'[k] = w
      /\ pc'[k] = IF w = {} THEN "top" ELSE "write"
      /\ st'[k] = r.st
  BY <1>1, <1>2 DEF TypeInv, TypeOK
<1>4. h \in Flits \cup {NoFlit} /\ g \in Flits \cup {NoFlit} /\ NoFlit \notin Flits
  BY PortsType, FlitsType DEF TypeInv, TypeOK, Reg, StateOf
<1> DEFINE o == r.out[p]
<1>5. Leaving(k, p) = <<>> /\ Leaving(k, p)' = OneOf(o)
  <2>1. Leaving(k, p) = <<>>
    BY <1>1 DEF Leaving
  <2>2. Leaving(k, p)' = IF pc'[k] = "write" /\ p \in todo'[k] THEN <<out'[k][p]>> ELSE <<>>
    BY DEF Leaving
  <2>3. p \in w <=> o # NoFlit
    OBVIOUS
  <2> HIDE DEF w
  <2>4. p \in w => w # {}
    OBVIOUS
  <2> QED BY <1>3, <2>1, <2>2, <2>3, <2>4 DEF OneOf
<1>6. OneOf(held[k][1])' = <<>>
  BY <1>3 DEF OneOf
<1>7. /\ Elem[k] = "StagingReg" => OneOf(Reg(k))' = OneOf(h) /\ o \in {NoFlit, g}
      /\ Elem[k] # "StagingReg" => OneOf(Reg(k))' = <<>> /\ g = NoFlit /\ o \in {NoFlit, h}
  <2>1. CASE Elem[k] = "StagingReg"
    BY <1>0, <1>2, <1>3, <2>1 DEF Reg, OneOf
  <2>2. CASE Elem[k] # "StagingReg"
    BY <1>0, <1>2, <1>3, <2>2 DEF Reg, OneOf
  <2> QED BY <2>1, <2>2
<1>8. /\ Inside(k, p) = (<<>> \o OneOf(g)) \o OneOf(h)
      /\ Inside(k, p)' = (OneOf(o) \o OneOf(Reg(k))') \o <<>>
  BY <1>5, <1>6 DEF Inside
<1> HIDE DEF h, g, o, w
<1>9. OneOf(NoFlit) = <<>> /\ \A x \in Flits : OneOf(x) = <<x>>
  BY <1>4 DEF OneOf
<1>10. \A x \in Flits \cup {NoFlit} : OneOf(x) \in Seq(Flits)
  BY <1>4 DEF OneOf
<1>11. \A a \in Seq(Flits) : a \o <<>> = a /\ <<>> \o a = a
  BY NoneAdded, Zenon
<1>12. o \in Flits \cup {NoFlit}
  BY <1>4, <1>7
<1>13. CASE Elem[k] = "StagingReg"
  <2>1. Inside(k, p) = OneOf(g) \o OneOf(h)
    BY <1>4, <1>8, <1>10, <1>11
  <2>2. Inside(k, p)' = OneOf(o) \o OneOf(h)
    <3>1. OneOf(o) \o OneOf(h) \in Seq(Flits)
      BY <1>4, <1>10, <1>12, Concat
    <3> QED BY <1>7, <1>8, <1>11, <1>13, <3>1
  <2>3. CASE o = g
    BY <2>1, <2>2, <2>3
  <2>4. CASE o = NoFlit /\ g # NoFlit
    <3>1. Inside(k, p)' = OneOf(h)
      BY <1>4, <1>9, <1>10, <1>11, <2>2, <2>4
    <3>2. g \in Flits /\ OneOf(g) = <<g>>
      BY <1>4, <1>9, <2>4
    <3> QED BY <2>1, <3>1, <3>2
  <2> QED BY <1>7, <1>13, <2>3, <2>4
<1>14. CASE Elem[k] # "StagingReg"
  <2>1. Inside(k, p) = OneOf(h)
    BY <1>4, <1>7, <1>8, <1>9, <1>10, <1>11, <1>14
  <2>2. Inside(k, p)' = OneOf(o)
    BY <1>7, <1>8, <1>10, <1>11, <1>12, <1>14
  <2>3. CASE o = h
    BY <2>1, <2>2, <2>3
  <2>4. CASE o = NoFlit /\ h # NoFlit
    <3>1. h \in Flits /\ OneOf(h) = <<h>> /\ <<h>> \o <<>> = <<h>>
      BY <1>4, <1>9, <1>10, <1>11, <2>4
    <3> QED BY <1>9, <2>1, <2>2, <2>4, <3>1
  <2> QED BY <1>7, <1>14, <2>3, <2>4
<1> QED BY <1>13, <1>14

LEMMA HandlerSteps ==
  ASSUME TypeInv, TypeInv', NEW k \in Kernels, RunHandler(k), NEW path \in Pipelines
  PROVE  MovesOn(path)
PROOF
<1>1. /\ q' = q
      /\ \A j \in Kernels \ {k} : Untouched(j)
  BY DEF RunHandler, dataVars, TypeInv, TypeOK, Reg, Untouched
<1>2. ASSUME NEW n \in 1 .. Len(path), n = 1 \/ Before(path, n) # k
      PROVE  Load(path)'[n] = Load(path)[n]
  <2>1. ASSUME n # 1
        PROVE  Inside(Before(path, n), Port(path, n))' = Inside(Before(path, n), Port(path, n))
    <3>1. Before(path, n) \in Kernels
      BY <2>1, PathKernels
    <3> QED BY <1>1, <1>2, <2>1, <3>1, UntouchedInside
  <2> QED BY <1>1, <2>1, SameStretch
<1>3. CASE \E n \in 2 .. Len(path) : Before(path, n) = k
  <2>1. PICK n \in 2 .. Len(path) : Before(path, n) = k
    BY <1>3
  <2>2. \A m \in 1 .. Len(path) \ {n} : Load(path)'[m] = Load(path)[m]
    <3> SUFFICES ASSUME NEW m \in 1 .. Len(path) \ {n} PROVE m = 1 \/ Before(path, m) # k
      BY <1>2
    <3> QED BY <2>1, OnceOnPath
  <2>3. /\ NIn(Elem[k]) = 1 /\ Port(path, n) \in OutPorts(k)
        /\ n \in 1 .. Len(path) /\ n # 1
    BY <2>1, PathKernels
  <2>4. CASE Inside(k, Port(path, n))' = Inside(k, Port(path, n))
    <3>1. Load(path)'[n] = Load(path)[n]
      BY <1>1, <2>1, <2>3, <2>4, SameStretch
    <3>2. Still(path)
      BY <2>2, <3>1 DEF Still, Agree
    <3> QED BY <3>2 DEF MovesOn
  <2>5. ASSUME NEW x \in Flits, Inside(k, Port(path, n)) = <<x>> \o Inside(k, Port(path, n))'
        PROVE  MovesOn(path)
    <3>1. Load(path)[n] = <<x>> \o Load(path)'[n]
      BY <1>1, <2>1, <2>5, ShedsFirst
    <3>2. Sheds(path, n, x)
      BY <2>2, <3>1 DEF Sheds, Agree
    <3> QED BY <2>3, <3>2 DEF MovesOn
  <2> QED BY <2>3, <2>4, <2>5, HandlerInside
<1>4. CASE ~\E n \in 2 .. Len(path) : Before(path, n) = k
  <2>1. \A n \in 1 .. Len(path) : n = 1 \/ Before(path, n) # k
    BY <1>4
  <2>2. Still(path)
    BY <1>2, <2>1 DEF Still, Agree
  <2> QED BY <2>2 DEF MovesOn
<1> QED BY <1>3, <1>4

LEMMA WriteSteps ==
  ASSUME TypeInv, TypeInv', NEW k \in Kernels, WritePort(k), NEW path \in Pipelines
  PROVE  MovesOn(path)
PROOF
<1>0. PICK p \in Ports, x \in Flits : p = NextPort(k) /\ x = out[k][p] /\ p \in todo[k]
  BY NextPortType DEF WritePort, TypeInv, WriteOK
<1> DEFINE i == OutStream(k, p)
<1>1. p \in todo[k] /\ p \in Ports /\ pc[k] = "write" /\ x \in Flits /\ x = out[k][p]
  BY <1>0 DEF WritePort
<1>2. /\ todo' = [todo EXCEPT ![k] = @ \ {p}]
      /\ pc' = [pc EXCEPT ![k] = IF todo[k] = {p} THEN "top" ELSE "write"]
      /\ UNCHANGED <<held, out, st>>
      /\ q' = [q EXCEPT ![i] = Append(@, x)] \/ q' = q
  BY <1>0 DEF WritePort
<1>3. i \in Streams
  BY OutStreamType
<1> HIDE DEF i
<1>4. /\ \A j \in Kernels : Reg(j)' = Reg(j) /\ held'[j] = held[j]
      /\ \A j \in Kernels \ {k} : Untouched(j)
      /\ pc'[k] = (IF todo[k] = {p} THEN "top" ELSE "write") /\ todo'[k] = todo[k] \ {p}
  BY <1>2 DEF TypeInv, TypeOK, Reg, Untouched
\* Only the port written to is left.
<1>5. ASSUME NEW r, r # p PROVE Inside(k, r)' = Inside(k, r)
  <2>1. Leaving(k, r)' = Leaving(k, r)
    <3>1. pc'[k] = "write" /\ r \in todo'[k] <=> pc[k] = "write" /\ r \in todo[k]
      BY <1>1, <1>4, <1>5
    <3>2. out'[k] = out[k]
      BY <1>2
    <3> QED BY <3>1, <3>2 DEF Leaving
  <2> QED BY <1>4, <2>1 DEF Inside, OneOf
<1>6. Inside(k, p) = <<x>> \o Inside(k, p)'
  <2> DEFINE g == OneOf(Reg(k))
             h == OneOf(held[k][1])
  <2>1. Leaving(k, p) = <<x>> /\ Leaving(k, p)' = <<>>
    BY <1>1, <1>4 DEF Leaving
  <2>2. Inside(k, p) = (<<x>> \o g) \o h /\ Inside(k, p)' = (<<>> \o g) \o h
    <3>1. OneOf(Reg(k))' = g /\ OneOf(held[k][1])' = h
      BY <1>4 DEF OneOf
    <3> QED BY <2>1, <3>1 DEF Inside
  <2>3. g \in Seq(Flits) /\ h \in Seq(Flits) /\ <<x>> \in Seq(Flits)
    BY <1>1, InsideType
  <2>4. Concatenates(Flits) /\ <<>> \o g = g
    BY <2>3, Associative, NoneAdded, Zenon
  <2> HIDE DEF g, h
  <2>5. (<<x>> \o g) \o h = <<x>> \o (g \o h)
    BY <2>3, <2>4 DEF Concatenates
  <2> QED BY <2>2, <2>4, <2>5, Zenon
\* What the stretches whose kernel or port is another's hold.
<1>7. ASSUME NEW n \in 1 .. Len(path), q'[path[n]] = q[path[n]],
             n = 1 \/ Before(path, n) # k \/ Port(path, n) # p
      PROVE  Load(path)'[n] = Load(path)[n]
  <2>1. ASSUME n # 1
        PROVE  Inside(Before(path, n), Port(path, n))' = Inside(Before(path, n), Port(path, n))
    <3>1. Before(path, n) \in Kernels
      BY <2>1, PathKernels
    <3>2. CASE Before(path, n) # k
      BY <1>4, <3>1, <3>2, UntouchedInside
    <3>3. CASE Before(path, n) = k
      BY <1>5, <1>7, <2>1, <3>3
    <3> QED BY <3>2, <3>3
  <2> QED BY <1>7, <2>1, SameStretch
<1>8. ASSUME NEW n \in 1 .. Len(path), path[n] # i PROVE q'[path[n]] = q[path[n]]
  BY <1>2, <1>8, PathStreams DEF TypeInv, TypeOK
<1>9. CASE ~\E m \in 1 .. Len(path) : path[m] = i
  <2>1. ASSUME NEW n \in 1 .. Len(path)
        PROVE  n = 1 \/ Before(path, n) # k \/ Port(path, n) # p
    <3>1. CASE n # 1 /\ Before(path, n) = k /\ Port(path, n) = p
      <4>1. n \in 2 .. Len(path)
        BY <3>1
      <4>2. OutStream(k, p) = path[n - 1] /\ n - 1 \in 1 .. Len(path)
        BY <3>1, <4>1, PathKernels
      <4> QED BY <1>9, <4>2 DEF i
    <3> QED BY <3>1
  <2>2. \A n \in 1 .. Len(path) : Load(path)'[n] = Load(path)[n]
    BY <1>7, <1>8, <1>9, <2>1
  <2>3. Still(path)
    BY <2>2 DEF Still, Agree
  <2> QED BY <2>3 DEF MovesOn
<1>10. CASE \E m \in 1 .. Len(path) : path[m] = i
  <2>1. PICK m \in 1 .. Len(path) : path[m] = i
    BY <1>10
  <2>2. m + 1 \in 2 .. Len(path) /\ k = Before(path, m + 1) /\ p = Port(path, m + 1)
    BY <2>1, PathWriter DEF i
  <2>3. m + 1 \in 1 .. Len(path) /\ m + 1 # 1 /\ m \in 1 .. Len(path) - 1 /\ m + 1 # m
    BY <2>1, <2>2, PipelineType
  <2>4. \A n \in 1 .. Len(path) : n # m => path[n] # i
    BY <2>1, PathStreams
  <2>5. ASSUME NEW n \in 1 .. Len(path) \ {m + 1} PROVE n = 1 \/ Before(path, n) # k
    BY <2>2, OnceOnPath
  <2>6. q'[path[m + 1]] = q[path[m + 1]]
    BY <1>8, <2>3, <2>4
  <2>7. Load(path)[m + 1] = <<x>> \o Load(path)'[m + 1]
    <3>1. Inside(Before(path, m + 1), Port(path, m + 1))
            = <<x>> \o Inside(Before(path, m + 1), Port(path, m + 1))'
      BY <1>6, <2>2
    <3> QED BY <1>1, <2>2, <2>6, <3>1, ShedsFirst
  <2>8. CASE q' = q
    <3>1. \A n \in 1 .. Len(path) \ {m + 1} : Load(path)'[n] = Load(path)[n]
      BY <1>7, <2>5, <2>8
    <3>2. Sheds(path, m + 1, x)
      BY <2>7, <3>1 DEF Sheds, Agree
    <3> QED BY <1>1, <2>3, <3>2 DEF MovesOn
  <2>9. CASE q' = [q EXCEPT ![i] = Append(@, x)]
    <3>1. \A n \in 1 .. Len(path) \ {m, m + 1} : Load(path)'[n] = Load(path)[n]
      BY <1>7, <1>8, <2>4, <2>5
    <3>2. Load(path)'[m] = Load(path)[m] \o <<x>>
      <4> DEFINE s == q[i]
      <4>0. s \in Seq(Flits) /\ path[m] = i
        BY <1>3, <2>1 DEF TypeInv, TypeOK
      <4>1. q'[i] = s \o <<x>>
        <5>1. q'[i] = Append(s, x)
          BY <1>3, <2>9 DEF TypeInv, TypeOK
        <5> HIDE DEF s
        <5> QED BY <1>1, <4>0, <5>1, AppendIsConcat
      <4>2. CASE m = 1
        BY <2>1, <4>1, <4>2, LoadIs
      <4>3. CASE m # 1
        <5> DEFINE b == Inside(Before(path, m), Port(path, m))
        <5>1. Before(path, m) \in Kernels
          BY <2>1, <4>3, PathKernels
        <5>2. b \in Seq(Flits) /\ <<x>> \in Seq(Flits)
          BY <1>1, <5>1, InsideType
        <5>3. Inside(Before(path, m), Port(path, m))' = b
          <6>1. Before(path, m) # k
            BY <2>3, <2>5, <4>3
          <6> QED BY <1>4, <5>1, <6>1, UntouchedInside
        <5>4. Load(path)[m] = b \o s /\ Load(path)'[m] = Inside(Before(path, m), Port(path, m))' \o q'[i]
          BY <2>1, <4>3, LoadIs
        <5>5. Concatenates(Flits)
          BY Associative, Zenon
        <5> HIDE DEF b, s
        <5>6. (b \o s) \o <<x>> = b \o (s \o <<x>>)
          BY <4>0, <5>2, <5>5 DEF Concatenates
        <5> QED BY <4>1, <5>3, <5>4, <5>6
      <4> QED BY <4>2, <4>3
    <3>3. Shifts(path, m, x)
      BY <2>7, <3>1, <3>2 DEF Shifts, Agree
    <3> QED BY <1>1, <2>3, <3>3 DEF MovesOn
  <2> QED BY <1>2, <2>8, <2>9
<1> QED BY <1>9, <1>10

LEMMA PathRuns ==
  ASSUME TypeInv, TypeInv', NEW path \in Pipelines
  PROVE  /\ Runs(FromSink(path), FromSink(path)', Load(path), Load(path)', Len(path), Flits)
         /\ Len(path) \in Nat \ {0}
         /\ UnderWay(path) = FromSink(path)[Len(path)]
         /\ UnderWay(path)' = FromSink(path)'[Len(path)]
         /\ UnderWay(path) \in Seq(Flits) /\ UnderWay(path)' \in Seq(Flits)
PROOF
<1>1. Len(path) \in Nat \ {0}
  BY PipelineType
<1>2. /\ Run(FromSink(path), Load(path), Len(path))
      /\ Load(path) \in [1 .. Len(path) -> Seq(Flits)]
  BY FromSinkIs, LoadType
<1>3. /\ Run(FromSink(path)', Load(path)', Len(path))
      /\ Load(path)' \in [1 .. Len(path) -> Seq(Flits)]
  BY FromSinkNext, LoadTypeNext DEF Run
<1>4. /\ UnderWay(path) = FromSink(path)[Len(path)]
      /\ UnderWay(path)' = FromSink(path)'[Len(path)]
  BY DEF UnderWay
<1>5. Len(path) \in 1 .. Len(path)
  BY <1>1
<1>6. FromSink(path)[Len(path)] \in Seq(Flits)
  BY <1>1, <1>2, <1>5, RunType
<1> DEFINE g == FromSink(path)'
           t == Load(path)'
<1>7. g[Len(path)] \in Seq(Flits)
  <2> HIDE DEF g, t
  <2>1. Run(g, t, Len(path)) /\ t \in [1 .. Len(path) -> Seq(Flits)]
    BY <1>3 DEF g, t
  <2> QED BY <1>1, <1>5, <2>1, RunType
<1> QED BY <1>1, <1>2, <1>3, <1>4, <1>6, <1>7 DEF Runs

\* A step that moves a path loses one of the flits under way, or none.
LEMMA MovesLose ==
  ASSUME TypeInv, TypeInv', NEW path \in Pipelines, MovesOn(path)
  PROVE  \/ UnderWay(path)' = UnderWay(path)
         \/ Misses(UnderWay(path), UnderWay(path)')
PROOF
<1> DEFINE N == Len(path)
           f == FromSink(path)
           g == FromSink(path)'
           s == Load(path)
           t == Load(path)'
<1>1. /\ Runs(f, g, s, t, N, Flits) /\ N \in Nat \ {0}
      /\ UnderWay(path) = f[N] /\ UnderWay(path)' = g[N]
  BY PathRuns
<1>2. \/ Agree(s, t, 1 .. N)
      \/ \E n, x : Drops(s, t, n, x, N, Flits)
      \/ \E n, x : Passes(s, t, n, x, N, Flits)
  BY DEF MovesOn, Still, Sheds, Shifts, Drops, Passes
<1> HIDE DEF N, f, g, s, t
<1>3. CASE Agree(s, t, 1 .. N)
  <2>1. Agree(f, g, 1 .. N)
    BY <1>1, <1>3, RunSame
  <2>2. N \in 1 .. N
    BY <1>1
  <2> QED BY <1>1, <2>1, <2>2 DEF Agree
<1>4. ASSUME NEW n, NEW x, Drops(s, t, n, x, N, Flits)
      PROVE  Misses(f[N], g[N])
  BY <1>1, <1>4, RunDrop
<1>5. ASSUME NEW n, NEW x, Passes(s, t, n, x, N, Flits)
      PROVE  g[N] = f[N]
  BY <1>1, <1>5, RunMove
<1> QED BY <1>1, <1>2, <1>3, <1>4, <1>5

\* Draining the sink of a path takes what is first under way.
LEMMA DrainTakes ==
  ASSUME TypeInv, TypeInv', NEW i \in Sinks, Drain(i), NEW path \in Pipelines, path[1] = i
  PROVE  /\ UnderWay(path) # <<>> /\ UnderWay(path)' = Tail(UnderWay(path))
         /\ recv'[i] = Append(recv[i], Head(UnderWay(path)))
PROOF
<1> DEFINE N == Len(path)
           f == FromSink(path)
           g == FromSink(path)'
           s == Load(path)
           t == Load(path)'
           x == Head(q[i])
<1>0. i \in Streams
  BY ConnsType DEF Sinks, Streams
<1>1. /\ Runs(f, g, s, t, N, Flits) /\ N \in Nat \ {0} /\ 1 \in 1 .. N
      /\ UnderWay(path) = f[N] /\ UnderWay(path)' = g[N]
  BY PathRuns
<1>2. x \in Flits /\ q[i] = <<x>> \o q'[i]
  <2> DEFINE u == q[i]
  <2>1. u \in Seq(Flits) /\ u # <<>> /\ q'[i] = Tail(u)
    BY <1>0 DEF Drain, TypeInv, TypeOK
  <2> HIDE DEF u
  <2>2. Head(u) \in Flits /\ u = <<Head(u)>> \o Tail(u)
    BY <2>1, HeadTailIs
  <2> QED BY <2>1, <2>2 DEF u
<1>3. recv'[i] = Append(recv[i], x)
  BY DEF Drain, TypeInv, TypeOK
<1>4. s[1] = <<x>> \o t[1]
  BY <1>1, <1>2, LoadIs
<1>5. Agree(s, t, 1 .. N \ {1})
  <2> SUFFICES ASSUME NEW n \in 1 .. N, n # 1 PROVE t[n] = s[n]
    BY DEF Agree
  <2>1. path[n] \in Streams /\ path[n] # i
    BY <1>1, PathStreams
  <2>2. q'[path[n]] = q[path[n]]
    BY <2>1 DEF Drain, TypeInv, TypeOK
  <2>3. Inside(Before(path, n), Port(path, n))' = Inside(Before(path, n), Port(path, n))
    BY DEF Drain, kernelVars, Inside, Leaving, Reg
  <2> QED BY <2>2, <2>3, SameStretch
<1> HIDE DEF N, f, g, s, t, x
<1>d. Drops(s, t, 1, x, N, Flits)
  BY <1>1, <1>2, <1>4, <1>5 DEF Drops
<1>6. Takes(f[N], g[N], x)
  BY <1>1, <1>d, RunDrop
<1> QED BY <1>1, <1>3, <1>6 DEF Takes

\* Any other sink is not on the path.
LEMMA DrainElsewhere ==
  ASSUME TypeInv, NEW i \in Sinks, Drain(i), NEW path \in Pipelines, path[1] # i
  PROVE  Still(path) /\ recv'[path[1]] = recv[path[1]]
PROOF
<1>0. path[1] \in Sinks /\ 1 \in 1 .. Len(path)
  BY PathStreams, PipelineType
<1>1. ASSUME NEW n \in 1 .. Len(path) PROVE Load(path)'[n] = Load(path)[n]
  <2>1. path[n] # i
    <3>1. CASE n = 1
      BY <3>1
    <3>2. CASE n # 1
      <4>1. n \in 2 .. Len(path)
        BY <3>2
      <4>2. path[n] \notin Sinks
        BY <4>1, PathKernels
      <4> QED BY <4>2
    <3> QED BY <3>1, <3>2
  <2>2. path[n] \in Streams
    BY PathStreams
  <2>3. q'[path[n]] = q[path[n]]
    BY <2>1, <2>2 DEF Drain, TypeInv, TypeOK
  <2>4. Inside(Before(path, n), Port(path, n))' = Inside(Before(path, n), Port(path, n))
    BY DEF Drain, kernelVars, Inside, Leaving, Reg
  <2> QED BY <2>3, <2>4, SameStretch
<1>2. recv'[path[1]] = recv[path[1]]
  BY <1>0 DEF Drain, TypeInv, TypeOK
<1> QED BY <1>1, <1>2 DEF Still, Agree

\* What is injected is the last under way.
LEMMA InjectLast ==
  ASSUME TypeInv, TypeInv', NEW i \in Sources, Inject(i), NEW path \in Pipelines
  PROVE  UnderWay(path)' = Append(UnderWay(path), nxt + 1)
PROOF
<1> DEFINE N == Len(path)
           f == FromSink(path)
           g == FromSink(path)'
           s == Load(path)
           t == Load(path)'
           x == nxt + 1
<1>1. /\ Runs(f, g, s, t, N, Flits) /\ N \in Nat \ {0} /\ N \in 1 .. N
      /\ UnderWay(path) = f[N] /\ UnderWay(path)' = g[N]
  BY PathRuns
<1>2. path[N] = i /\ i \in Streams
  BY <1>1, PathStreams
<1>3. x \in Flits /\ nxt' = x
  BY ElementsAssumption DEF Inject, TypeInv, TypeOK, Flits
<1>4. q' = [q EXCEPT ![i] = Append(@, x)]
  BY DEF Inject
<1>5. \A n \in 1 .. N : Inside(Before(path, n), Port(path, n))' = Inside(Before(path, n), Port(path, n))
  BY DEF Inject, kernelVars, Inside, Leaving, Reg
<1>6. Agree(s, t, 1 .. N \ {N})
  <2> SUFFICES ASSUME NEW n \in 1 .. N, n # N PROVE t[n] = s[n]
    BY DEF Agree
  <2>1. path[n] \in Streams /\ path[n] # i
    BY <1>1, <1>2, PathStreams
  <2>2. q'[path[n]] = q[path[n]]
    BY <1>4, <2>1 DEF TypeInv, TypeOK
  <2> QED BY <1>5, <2>2, SameStretch
<1>7. t[N] = Append(s[N], x)
  <2> DEFINE u == q[i]
             b == Inside(Before(path, N), Port(path, N))
  <2>1. u \in Seq(Flits) /\ q'[i] = Append(u, x)
    BY <1>2, <1>4 DEF TypeInv, TypeOK
  <2>2. CASE N = 1
    BY <1>1, <1>2, <2>1, <2>2, LoadIs
  <2>3. CASE N # 1
    <3>1. s[N] = b \o u /\ t[N] = b \o q'[i]
      BY <1>1, <1>2, <1>5, <2>3, LoadIs
    <3>2. N \in 2 .. Len(path)
      <4>1. N = Len(path)
        OBVIOUS
      <4> HIDE DEF N
      <4> QED BY <1>1, <2>3, <4>1
    <3>3. b \in Seq(Flits)
      BY <3>2, PathKernels, InsideType
    <3>4. <<x>> \in Seq(Flits)
      BY <1>3
    <3>8. Concatenates(Flits)
      BY Associative, Zenon
    <3> HIDE DEF b, u, s, t, N, x
    <3>5. Append(u, x) = u \o <<x>> /\ b \o u \in Seq(Flits)
      BY <1>3, <2>1, <3>3, AppendIsConcat, Concat
    <3>6. Append(b \o u, x) = (b \o u) \o <<x>>
      BY <1>3, <3>5, AppendIsConcat
    <3>7. (b \o u) \o <<x>> = b \o (u \o <<x>>)
      BY <2>1, <3>3, <3>4, <3>8 DEF Concatenates
    <3> QED BY <2>1, <3>1, <3>5, <3>6, <3>7
  <2> QED BY <2>2, <2>3
<1> HIDE DEF N, f, g, s, t, x
<1>d. Grows(s, t, x, N, Flits)
  BY <1>3, <1>6, <1>7 DEF Grows
<1>8. g[N] = Append(f[N], x)
  BY <1>1, <1>d, RunLast
<1> QED BY <1>1, <1>8 DEF x

\* Nothing is under way where no stretch holds anything.
LEMMA RunEmpty ==
  ASSUME NEW N \in Nat, NEW f, NEW s, Run(f, s, N), \A n \in 1 .. N : s[n] = <<>>
  PROVE  \A n \in 1 .. N : f[n] = <<>>
PROOF
<1> DEFINE K == {n \in 0 .. N : n = 0 \/ f[n] = <<>>}
<1>1. 0 \in K
  OBVIOUS
<1>2. ASSUME NEW n \in 1 .. N, n - 1 \in K PROVE n \in K
  <2>1. f[n] = IF n = 1 THEN <<>> ELSE f[n - 1] \o <<>>
    BY DEF Run
  <2>2. <<>> \o <<>> = <<>>
    OBVIOUS
  <2> QED BY <1>2, <2>1, <2>2
<1>3. \A n \in 0 .. N : n \in K
  <2> HIDE DEF K
  <2> QED BY <1>1, <1>2, UpTo
<1> QED BY <1>3

LEMMA InitEmpty ==
  ASSUME Init, NEW path \in Pipelines
  PROVE  UnderWay(path) = <<>> /\ recv[path[1]] = <<>>
PROOF
<1>1. Len(path) \in Nat \ {0} /\ Run(FromSink(path), Load(path), Len(path))
  BY PipelineType, FromSinkIs
<1>2. ASSUME NEW k \in Kernels, NEW p PROVE Inside(k, p) = <<>>
  <2>1. Leaving(k, p) = <<>>
    BY DEF Leaving, Init
  <2>2. Reg(k) = NoFlit
    BY FlitsType DEF Reg, Init, InitState
  <2>3. held[k][1] = NoFlit
    BY PortsType DEF Init, Silent
  <2>4. OneOf(NoFlit) = <<>> /\ (<<>> \o <<>>) \o <<>> = <<>>
    BY DEF OneOf
  <2> QED BY <2>1, <2>2, <2>3, <2>4 DEF Inside
<1>3. ASSUME NEW n \in 1 .. Len(path) PROVE Load(path)[n] = <<>>
  <2>1. q[path[n]] = <<>>
    BY PathStreams DEF Init
  <2>2. CASE n = 1
    BY <2>1, <2>2, StretchIs
  <2>3. CASE n # 1
    <3>1. Before(path, n) \in Kernels
      BY <2>3, PathKernels
    <3>2. <<>> \o <<>> = <<>>
      OBVIOUS
    <3> QED BY <1>2, <2>1, <2>3, <3>1, <3>2, StretchIs
  <2> QED BY <2>2, <2>3
<1>4. FromSink(path)[Len(path)] = <<>>
  <2> DEFINE f == FromSink(path)
             s == Load(path)
             N == Len(path)
  <2>1. N \in Nat \ {0} /\ Run(f, s, N) /\ \A n \in 1 .. N : s[n] = <<>>
    BY <1>1, <1>3
  <2> HIDE DEF f, s, N
  <2>2. \A n \in 1 .. N : f[n] = <<>>
    BY <2>1, RunEmpty
  <2>3. f[N] = <<>>
    BY <2>1, <2>2
  <2> QED BY <2>3 DEF f, N
<1>5. path[1] \in Sinks
  BY PathStreams
<1> QED BY <1>4, <1>5 DEF UnderWay, Init

LEMMA InitFifo == Init => Fifo!Init
PROOF
<1> SUFFICES ASSUME Init PROVE Fifo!Init
  OBVIOUS
<1>1. \A path \in Pipelines : UnderWay(path) = <<>> /\ recv[path[1]] = <<>>
  BY InitEmpty
<1>2. nxt = 0
  BY DEF Init
<1> QED BY <1>1, <1>2 DEF Fifo!Init

\* What a step does to a pipeline and to what its sink has got.
Advances(path) ==
  \/ /\ UnderWay(path)' = UnderWay(path) \/ Misses(UnderWay(path), UnderWay(path)')
     /\ recv'[path[1]] = recv[path[1]]
  \/ /\ UnderWay(path) # <<>> /\ UnderWay(path)' = Tail(UnderWay(path))
     /\ recv'[path[1]] = Append(recv[path[1]], Head(UnderWay(path)))

LEMMA MovesAdvance ==
  ASSUME TypeInv, TypeInv', NEW path \in Pipelines, MovesOn(path),
         recv'[path[1]] = recv[path[1]]
  PROVE  Advances(path)
BY MovesLose DEF Advances

LEMMA AllAdvance ==
  ASSUME TypeInv, TypeInv', nxt' = nxt, \A path \in Pipelines : Advances(path)
  PROVE  Fifo!Proceed
PROOF
<1>0. \A s \in Seq(Flits) : s \in Seq(Nat)
  <2>1. Flits \subseteq Nat
    BY FlitsType
  <2> QED BY <2>1, SeqMonotonic
<1>1. ASSUME NEW path \in Pipelines
      PROVE  UnderWay(path)' \in Seq(Nat) /\ recv'[path[1]] \in Seq(Nat)
  <2>1. UnderWay(path)' \in Seq(Flits)
    BY PathRuns
  <2>2. recv'[path[1]] \in Seq(Flits)
    BY PathStreams DEF TypeInv, TypeOK
  <2> QED BY <1>0, <2>1, <2>2
<1>2. ASSUME NEW path \in Pipelines
      PROVE  Fifo!Deliver(path) \/ Fifo!Lose(path) \/ Fifo!Keep(path)
  <2>1. CASE /\ UnderWay(path)' = UnderWay(path)
             /\ recv'[path[1]] = recv[path[1]]
    BY <2>1 DEF Fifo!Keep
  <2>2. CASE /\ Misses(UnderWay(path), UnderWay(path)')
             /\ recv'[path[1]] = recv[path[1]]
    <3>1. PICK n \in 1 .. Len(UnderWay(path)) : UnderWay(path)' = Without(UnderWay(path), n)
      BY <2>2 DEF Misses
    <3>2. n \in DOMAIN UnderWay(path)
      <4>1. UnderWay(path) \in Seq(Flits)
        BY PathRuns
      <4> QED BY <4>1, LenProperties
    <3> QED BY <2>2, <3>1, <3>2 DEF Fifo!Lose, Fifo!RemoveAt, Without
  <2>3. CASE /\ UnderWay(path) # <<>> /\ UnderWay(path)' = Tail(UnderWay(path))
             /\ recv'[path[1]] = Append(recv[path[1]], Head(UnderWay(path)))
    BY <2>3 DEF Fifo!Deliver
  <2> QED BY <2>1, <2>2, <2>3 DEF Advances
<1> QED BY <1>1, <1>2 DEF Fifo!Proceed

LEMMA KernelStep ==
  ASSUME TypeInv, TypeInv', ReadOK, NEW k \in Kernels, Kernel(k)
  PROVE  Fifo!Proceed
PROOF
<1>1. nxt' = nxt /\ recv' = recv
  BY DEF Kernel, Exit, LoopTop, ReadPort, RunSignal, RunHandler, WritePort, dataVars
<1>2. ASSUME NEW path \in Pipelines PROVE MovesOn(path)
  <2>1. CASE Exit(k) \/ LoopTop(k) \/ RunSignal(k)
    BY <2>1, QuietSteps DEF MovesOn
  <2>2. CASE ReadPort(k)
    BY <2>2, ReadSteps DEF MovesOn
  <2>3. CASE RunHandler(k)
    BY <2>3, HandlerSteps
  <2>4. CASE WritePort(k)
    BY <2>4, WriteSteps
  <2> QED BY <2>1, <2>2, <2>3, <2>4 DEF Kernel
<1>3. \A path \in Pipelines : Advances(path)
  BY <1>1, <1>2, MovesAdvance
<1> QED BY <1>1, <1>3, AllAdvance

\* Steps that touch neither a stream nor a kernel.
LEMMA OutsideStep ==
  ASSUME UNCHANGED <<dataVars, kernelVars>>
  PROVE  UNCHANGED Fifo!vars
PROOF
<1>1. ASSUME NEW path \in Pipelines PROVE UnderWay(path)' = UnderWay(path)
  BY DEF UnderWay, FromSink, Stretch, Inside, Leaving, Reg, OneOf, dataVars, kernelVars
<1>2. nxt' = nxt /\ recv' = recv
  BY DEF dataVars
<1> QED BY <1>1, <1>2 DEF Fifo!vars

LEMMA InjectStep ==
  ASSUME TypeInv, TypeInv', NEW i \in Sources, Inject(i)
  PROVE  Fifo!Send
PROOF
<1>1. \A path \in Pipelines : UnderWay(path)' = Append(UnderWay(path), nxt + 1)
  BY InjectLast
<1>2. nxt < MaxFlits /\ nxt' = nxt + 1 /\ recv' = recv
  BY DEF Inject
<1> QED BY <1>1, <1>2 DEF Fifo!Send

LEMMA DrainStep ==
  ASSUME TypeInv, TypeInv', NEW i \in Sinks, Drain(i)
  PROVE  Fifo!Proceed
PROOF
<1>1. nxt' = nxt
  BY DEF Drain
<1>2. ASSUME NEW path \in Pipelines PROVE Advances(path)
  <2>1. CASE path[1] = i
    BY <2>1, DrainTakes DEF Advances
  <2>2. CASE path[1] # i
    <3>1. Still(path) /\ recv'[path[1]] = recv[path[1]]
      BY <2>2, DrainElsewhere
    <3> QED BY <3>1, MovesAdvance DEF MovesOn
  <2> QED BY <2>1, <2>2
<1> QED BY <1>1, <1>2, AllAdvance

LEMMA StepFifo == TypeInv /\ ReadOK /\ [Next]_vars => [Fifo!Next]_Fifo!vars
PROOF
<1> SUFFICES ASSUME TypeInv, ReadOK, [Next]_vars PROVE Fifo!Next \/ UNCHANGED Fifo!vars
  OBVIOUS
<1>t. TypeInv'
  BY StepTypeInv
<1>1. CASE \E k \in Kernels : Kernel(k)
  BY <1>t, <1>1, KernelStep DEF Fifo!Next
<1>2. CASE \E i \in Sources : Inject(i)
  BY <1>t, <1>2, InjectStep DEF Fifo!Next
<1>3. CASE \E i \in Sinks : Drain(i)
  BY <1>t, <1>3, DrainStep DEF Fifo!Next
<1>4. CASE UNCHANGED <<dataVars, kernelVars>>
  BY <1>4, OutsideStep
<1>5. CASE \/ \E c \in Callers, cmd \in Commands : Call(c, cmd)
           \/ \E c \in Callers : Return(c) \/ TimeOut(c)
           \/ Stop \/ UNCHANGED vars
  <2>1. UNCHANGED <<dataVars, kernelVars>>
    BY <1>5 DEF Call, Return, TimeOut, Stop, vars
  <2> QED BY <1>4, <2>1
<1> QED BY <1>1, <1>2, <1>3, <1>5 DEF Next, Harness

\* Every pipeline of single-input elements from the one source to a sink is a
\* lossy FIFO, whatever network hangs on its other outputs: a step of a kernel
\* thread moves a flit on, loses one, or changes nothing, none is overtaken,
\* repeated or made up, and what the sink hands over was sent.
THEOREM PipelinesImplementFifo == Spec => ImplementsFifo
PROOF
<1>1. Init => TypeInv /\ ReadOK
  BY InitTypeInv, InitRead
<1>2. TypeInv /\ ReadOK /\ [Next]_vars => (TypeInv /\ ReadOK)'
  BY StepTypeInv, StepRead
<1> QED BY InitFifo, StepFifo, <1>1, <1>2, PTL DEF Spec, ImplementsFifo, Fifo!Spec

=============================================================================
