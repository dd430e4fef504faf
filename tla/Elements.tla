------------------------------ MODULE Elements ------------------------------
(***************************************************************************)
(* The `.handler` and `.signal` bodies of the core elements the emulator   *)
(* networks are built from (elements/core/ *.clnp), as operators.           *)
(*                                                                         *)
(* A flit is a number from 1 to MaxFlits and NoFlit stands for a port bit  *)
(* that is not set, so held[p] # NoFlit is bit p of `_input_port` together *)
(* with _input_data[p], and out[p] # NoFlit is bit p of `_output_port`     *)
(* together with _output_data[p].  Every flit is a packet of its own       *)
(* (sop = eop = 1).  The `_state` of an element is a pair of numbers:      *)
(*                                                                         *)
(*    Pass        a = flits forwarded    b = flits with an error flag      *)
(*    Counter     a = flits counted      b unused                          *)
(*    Mux         a = rr                 b = merged                        *)
(*    FlitMux2RR  a = turn               b unused                          *)
(*    Demux2      a = rr                 b unused                          *)
(*    StagingReg  a = reg (NoFlit: not valid)  b unused                    *)
(*                                                                         *)
(* A handler returns what it leaves in the input ports, what it emits,     *)
(* its port mask and its new `_state`.                                     *)
(***************************************************************************)
EXTENDS Naturals

CONSTANTS
  NumPorts,    \* ports an instance may have in each direction
  MaxFlits,    \* flits the environment ever injects
  Erroneous    \* flits whose error or fcs_error flag is set

ASSUME ElementsAssumption ==
  /\ NumPorts \in Nat \ {0, 1}
  /\ MaxFlits \in Nat
  /\ Erroneous \subseteq 1 .. MaxFlits

Ports  == 1 .. NumPorts
Flits  == 1 .. MaxFlits
NoFlit == 0

\* _output_port = 0
Silent == [p \in Ports |-> NoFlit]

Kinds == {"Pass", "PassThrough", "Tee", "Demux2", "Mux", "FlitMux",
          "FlitMux2RR", "StagingReg", "Counter"}

\* element <n_in, n_out>
NIn(kind)  == IF kind \in {"Mux", "FlitMux", "FlitMux2RR"} THEN 2 ELSE 1
NOut(kind) == CASE kind \in {"Tee", "Demux2"} -> 2
                [] kind = "Counter"           -> 0
                [] OTHER                      -> 1

\* The values `_state` can take.
StateOf(kind) ==
  [a : CASE kind = "Demux2"     -> {1, 2}
         [] kind = "Mux"        -> 0 .. 8
         [] kind = "FlitMux2RR" -> {0, 1}
         [] kind = "StagingReg" -> Flits \cup {NoFlit}
         [] OTHER               -> Nat,
   b : Nat]

\* The `.init` blocks: Demux2 starts at output 1, everything else at zero.
InitState(kind) == [a |-> IF kind = "Demux2" THEN 1 ELSE 0, b |-> 0]

-----------------------------------------------------------------------------
(* Handlers.                                                               *)

Take(h, p)   == [h EXCEPT ![p] = NoFlit]     \* read_input_port / clear_input_ready
Emit(p, f)   == [Silent EXCEPT ![p] = f]     \* set_output_port; f may be NoFlit
Bump(n, c)   == IF c THEN n + 1 ELSE n

PassThrough(h, s) ==
  [held |-> Take(h, 1), out |-> Emit(1, h[1]), ret |-> {1}, st |-> s]

\* Forwards flits without an error flag, counts both sorts.
Pass(h, s) ==
  LET bad == h[1] \in Erroneous
  IN  [held |-> Take(h, 1),
       out  |-> Emit(1, IF bad THEN NoFlit ELSE h[1]),
       ret  |-> {1},
       st   |-> [a |-> Bump(s.a, h[1] # NoFlit /\ ~bad), b |-> Bump(s.b, bad)]]

Tee(h, s) ==
  [held |-> Take(h, 1),
   out  |-> [Silent EXCEPT ![1] = h[1], ![2] = h[1]],
   ret  |-> {1}, st |-> s]

Demux2(h, s) ==
  [held |-> Take(h, 1), out |-> Emit(s.a, h[1]), ret |-> {1},
   st   |-> IF h[1] = NoFlit THEN s ELSE [s EXCEPT !.a = IF @ = 1 THEN 2 ELSE 1]]

\* Mutants: the flit is not cleared; a miss does not advance the pointer.
MutMuxKeeps(h, s) ==
  LET p   == (s.a % 8) + 1
      hit == p \in Ports /\ h[p] # NoFlit
  IN  [held |-> h, out |-> IF hit THEN Emit(1, h[p]) ELSE Silent, ret |-> Ports,
       st   |-> [a |-> p, b |-> Bump(s.b, hit)]]

MutMuxSticks(h, s) ==
  LET p   == (s.a % 8) + 1
      hit == p \in Ports /\ h[p] # NoFlit
  IN  [held |-> IF hit THEN Take(h, p) ELSE h,
       out  |-> IF hit THEN Emit(1, h[p]) ELSE Silent,
       ret  |-> Ports,
       st   |-> [a |-> IF hit THEN p ELSE s.a, b |-> Bump(s.b, hit)]]

\* One port of a fixed range of eight is examined in every iteration.
Mux(h, s) ==
  LET p   == (s.a % 8) + 1
      hit == p \in Ports /\ h[p] # NoFlit
  IN  [held |-> IF hit THEN Take(h, p) ELSE h,
       out  |-> IF hit THEN Emit(1, h[p]) ELSE Silent,
       ret  |-> Ports,
       st   |-> [a |-> p, b |-> Bump(s.b, hit)]]

\* Input 1 has strict priority.
FlitMux(h, s) ==
  LET p == IF h[1] # NoFlit THEN 1 ELSE 2
  IN  [held |-> Take(h, p), out |-> Emit(1, h[p]), ret |-> Ports, st |-> s]

\* The turn changes hands only when the port whose turn it is was served.
FlitMux2RR(h, s) ==
  LET one == h[1] # NoFlit
      two == h[2] # NoFlit
      p   == IF one /\ (s.a = 0 \/ ~two) THEN 1 ELSE 2
      own == h[s.a + 1] # NoFlit
  IN  [held |-> Take(h, p), out |-> Emit(1, h[p]), ret |-> Ports,
       st   |-> IF own THEN [s EXCEPT !.a = 1 - @] ELSE s]

\* Mutant: a flit that arrives while the register is valid bypasses it.
MutStagingRegBypass(h, s) ==
  LET bypass == s.a # NoFlit /\ h[1] # NoFlit
  IN  [held |-> Take(h, 1), out |-> Emit(1, IF bypass THEN h[1] ELSE s.a), ret |-> {1},
       st   |-> IF bypass THEN s ELSE [s EXCEPT !.a = h[1]]]

\* Emits the registered flit and registers the one just read.
StagingReg(h, s) ==
  [held |-> Take(h, 1), out |-> Emit(1, s.a), ret |-> {1},
   st   |-> [s EXCEPT !.a = h[1]]]

Counter(h, s) ==
  [held |-> Take(h, 1), out |-> Silent, ret |-> {1},
   st   |-> [s EXCEPT !.a = Bump(@, h[1] # NoFlit)]]

Handler(kind, h, s) ==
  CASE kind = "PassThrough" -> PassThrough(h, s)
    [] kind = "Pass"        -> Pass(h, s)
    [] kind = "Tee"         -> Tee(h, s)
    [] kind = "Demux2"      -> Demux2(h, s)
    [] kind = "Mux"         -> Mux(h, s)
    [] kind = "FlitMux"     -> FlitMux(h, s)
    [] kind = "FlitMux2RR"  -> FlitMux2RR(h, s)
    [] kind = "StagingReg"  -> StagingReg(h, s)
    [] kind = "Counter"     -> Counter(h, s)

-----------------------------------------------------------------------------
(* Signal bodies: lparam[0] of the answer and the new `_state`.  Command 1 *)
(* makes a Counter start again from zero; Pass ignores the command.        *)

Commands == {0, 1}

\* Mutant: the counter is reset before it is reported.
MutSignalResetsFirst(kind, s, cmd) ==
  LET n == IF kind = "Counter" /\ cmd = 1 THEN [s EXCEPT !.a = 0] ELSE s
  IN  [val |-> n.a, st |-> n]

Signal(kind, s, cmd) ==
  [val |-> s.a,
   st  |-> IF kind = "Counter" /\ cmd = 1 THEN [s EXCEPT !.a = 0] ELSE s]
=============================================================================
