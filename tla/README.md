# A verification development for OpenClickNP

OpenClickNP compiles a network of packet-processing *elements*, written in
`.clnp` files, to HLS kernels for an FPGA, and to a multithreaded software
emulator of the same network.  A C++ runtime lets a host program talk to the
kernels: by *signals* (a small RPC) and by *slots* (streams of flits between
host and FPGA).  Verilog shells connect the kernels to the network ports and to
the host.

This directory holds TLA+ modules for the compiler, for the parts in which
threads, kernels, registers and clocked logic interact, and for the arithmetic
and hashing that its crypto elements and its OpenSSL engine share; the TLC
configurations that check them on small instances; and proofs, checked by TLAPS,
of what holds for every instance.
`PROJECT.json` lists the components, runs, mutants, source lines behind each
definition, findings, hazards and theorems.

## The system

| Part | State | Operations | Interacts with |
| --- | --- | --- | --- |
| Emulator kernel loop (`sw_emu/emit.cpp`) | held inputs, outputs, masks, `_state`, pending event | read ports, run `.signal` or `.handler`, write ports, stop test | streams, signal channel, `_stop` |
| `SwStream` | bounded deque | `write_nb`, `write`, `read_nb` | two kernels, or a kernel and the harness |
| `SignalChannel` | request and response deques | `post_request`, `try_recv`, `send_response`, `wait_response` | host threads, kernels |
| Elements (`elements/`) | `_state` | `.handler`, `.signal` | the loop |
| Signal RPC (`Platform::dispatchSignal`, `hls_runtime.hpp`) | AXI-Lite register block | write request, ring, poll, read response; poll, copy, respond | host threads, one kernel |
| Slot bridges | 64 queues with mutex and condition variable, `stopped_` | `send`, `recv`, `shutdown` | application threads, `Platform` |
| `Platform`, `Element` | bridge, open flag, element cache | `open`, `close`, `sendSlot`, `recvSlot`, `dispatchSignal` | all of the above |
| `slot_mux` | round-robin pointer | grant, transfer | slot streams, the host's DMA channel |
| `slot_demux` | none | route by slot number | DMA channel, slot streams |
| `openclicknp_status` | counters, AXI-Lite handshakes | count, read, write | host |
| Lexer (`lexer.cpp`) | position | skip, next token, block of C++ | parser, which switches its two modes |
| Compiler (`parser.cpp`, `resolver.cpp`, `analyses/`, `lower.cpp`, `driver.cpp`) | files seen, statements, declarations, kernels, edges, error count, build plan | import, parse a statement, collect, instantiate, inline a group, connect, synthesise boundaries, number signals, check ports, search cycles, lower, emit | back ends |
| Back ends | none | print C++, Verilog, scripts | |
| `bigint.hpp`, `sha1.hpp` | none; a hashing context | limb arithmetic, exponentiation, two halves of an RSA key; update, digest | engine, crypto elements |
| Crypto elements | operands collected, loop variables; hashing context | collect, one turn of the loop per handler run, emit; hash a flit | the loop |
| OpenSSL engine (`openclicknp_engine.c`) | counters, a cipher object built on first use | modexp, RSA private key, AES | threads of the application, libcrypto |

What is hard about it: kernel threads run without any synchronisation but the
streams' mutexes, and every stream is bounded and written without blocking, so
what happens depends on the schedule; signals interrupt the data path between
any two iterations; the host and a kernel share registers, which each numbers for
itself, and the host stops waiting after a while; a receiver waits on a
condition variable that shutdown notifies without the mutex; clocked logic has
handshakes in which either side may stall, and one channel carries the flits of
all slots; the engine's hooks run in any thread without a lock, and choose among
four ways to the same result; carries, padding and the last subtraction of a
Montgomery product depend on rare values; an element spreads a long loop over
many handler runs while its operands and those of the next job come in.  The
compiler is sequential, but where a block of C++ ends depends on comments and
literals inside it, its phases depend on names and numbers that earlier phases made up, files import
each other in circles, and an error must not be forgotten on the way to the exit
status.  `PROJECT.json` lists these as
hazards, at their lines.

## The modules

### `Elements`, `SwEmu`: the software emulator

`Elements` has the handlers and signal bodies of nine core elements, as
operators from held inputs and `_state` to held inputs, outputs, port mask and
`_state`.  A flit is its number; `NoFlit` in a port stands for a clear bit of
`_input_port` or `_output_port`.  A flit is a packet of its own, so the packet
and byte counters are left out: they are derived from the same branch.

`SwEmu` is the loop `emitKernelFunc` generates.  Each access to a `SwStream` or
a `SignalChannel` is a critical section of that object's mutex and so a step;
what lies between two of them touches only the thread's locals.  `LoopTop`,
`ReadPort`, `RunSignal`, `RunHandler` and `WritePort` are the phases of an
iteration; `Inject`, `Drain`, `Call`, `Return`, `TimeOut` and `Stop` are the
harness, after `tests/elements/element_test_harness.hpp`.  `InStream` and
`OutStream` are the `port2stream` table of `emitMain`, with its overwriting and
the null stream for ports it has no entry for.  The topology, the stream depths,
the elements and the assignment of signal channels are CONSTANTS.  `last` and
`lost` are history variables.

`LossyFifo` says what the chains of elements that lead from one source to several
exits promise: order, no duplication, possible loss.  `SwEmu` maps to it: a
pipeline is a path of streams from a sink back to the only source, with
single-input elements between them (`Pipeline`); under way on it is what its
streams, and the ports and registers of its kernels, hold (`UnderWay`).  The exits
are all pipelines of the network at once, since a stream that two of them share
loses a flit for both.  `ImplementsFifo` is that specification.

### `SignalRpc`: signals to a synthesised kernel

One register of each sort, one action per register access.  The kernel has the
fields of `SignalIO`, and the host the offsets it writes and reads.  What lies at
an offset is the layout C gives the struct: `status` 0x00, `cmd` 0x04, `sparam`
0x08, `lparam` from 0x10 to 0x47, `rsp_lparam` from 0x48 to 0x7f, `rsp_cmd` 0x80,
`rsp_sparam` 0x84.  (That the synthesis tool numbers the registers of the struct's
port like this is an assumption; it is the layout the offsets of the request
follow, and the header says that it is the host's.)  The host takes the command of
the response from 0x44, which is a word of its own request, `rsp.sparam` and
`lparam[0..5]` from 0x48 to 0x7f, which is `rsp_lparam`, and `lparam[6]` from 0x80,
which is `rsp_cmd`.  Words carry the call they belong to, so that a mixture of two
calls shows, and once read the register they come from, so that it shows whether
it is the right one.  `OwnAnswer` is about the former, and depends on nothing but
the order of the accesses; `LayoutKept` is about the latter.  `GiveUp` is the end
of the polling loop, after which the code continues as if it had an answer.
`disturbed` remembers the two things after which an answer may be another call's:
that a call has stopped waiting, or that two threads were inside `dispatchSignal`
at once, which takes no lock.

### `SlotBridge`: host slots

`send` is one step under the slot's mutex.  `recv` is broken up where
`wait_for` gives the mutex up: `Test`, `Block`, and then a notification or
`TimeOut` and `Relock`.  `Close` raises `stopped_`; the notifications
(`Notify`) follow one at a time, without the mutex, in any order.  `Open`
requires that no thread is inside `recv`: the code destroys the old bridge, and
what a thread inside it then does is undefined.  The cache of `Element` objects
is not part of this module.

### `SlotMux`, `SlotDemux`, `StatusBlock`: clocked logic

One step is one clock cycle.  In `SlotMux` sources keep `tvalid` up until they
are served, and the reader's `tready` is arbitrary.  `waited[s]` counts
transfers of other slots that slot `s` has watched.  `SlotDemux` extends it to
the whole host channel: the host queues flits, `slot_demux` hands the first to
the kernel of its slot if there is room, kernels of one flit each send them back
through `slot_mux`, and `away` counts what the host has not got back.  Host and
kernels are the environment; a flit is its `slot_id`, of which one is out of
range.  In `StatusBlock` the
conjuncts `Count`, `ReadPath` and `WritePath` are the block's three clocked
processes; `Reader` and `Writer` are an AXI-Lite master with one transaction of
each sort under way, which offers the data of a write with the address or later;
`late` remembers that it came after the address handshake.  The cycle counter is
not modelled.  `MCShell` checks the channel and the status block in one run;
they share only the clock, so a behaviour has one of them.

### `BigInt`, `SslEngine`, `RsaElement`, `Sha1`: crypto

`BigInt` translates `bigint.hpp` loop by loop.  A number is kept as the natural
number its limbs spell; every definition takes limbs out and hands carries and
borrows on as the C++ does, so a wrong carry gives a wrong number.  `LimbBits`
is 4 instead of 64; the six Hensel steps become `HenselSteps`, with the same
relation to the width (`LimbAssumption`).  `Loop` is a C++ loop: the value it works
on, turn by turn; `Carried` is one over limbs, with the carry in that value.
`PowMod`, by halving the exponent, is the reference.

`SslEngine` has the hooks as they are called by any thread: a computation is
local to its thread and one step; `++counter` is a load and a store; the test of
`g_ocnp_aes128_ecb`, the allocation, the setting of the hooks and the
publication are steps of their own.  Every test that leads to libcrypto is
there.  `RequestAssumption` says what a request is: of a key with `crt_params`, the
parts belong together as `rsa_crt_decrypt` asks of its caller (`ValidKey`).  TLC
evaluates it on every key of the runs.  `MaxBits` bounds the search of
`BN_num_bits` for the length of a number.  The stores of one thread are assumed to become visible in program order,
as on x86.  The AES block function is left out.

`RsaElement` is `RSA_ModExp_1024` (the files for 2048 and 4096 bits differ only
in the number of limbs and flits) inside the kernel loop: before each handler
run any of the ports that are free may yield its next flit.  Jobs come in back to
back, with an odd modulus, which `compute_n_inv` requires (`FeedAssumption`).

`Sha1` has the incremental interface and the two elements.  The compression
function is replaced by one that cannot collide (its value is the sequence of
everything compressed), so the property is about which bytes are hashed, in
which order, with which padding.

`MCCrypto` has the inputs of the three.  `MCRuntime` puts them, `SignalRpc` and
`SlotBridge` in one run, the runtime library, with one of the five per behaviour.

### `Lexer`: the body of an element

The two modes of the lexer, and `parseElementBody`, which goes back behind the
`{` of a block to switch from one to the other.  The alphabet has the characters
that the two modes tell apart, and a letter each for a word, a directive with a
block, `.hls_pragma`, a number, and a prefix of raw strings.  A turn of
`lexOpaqueBlock`'s loop is a step.

The reference for where a block ends (`Readings`, `ClosingBrace`) is C++17's, and
knows more than the lexer: a backslash at the end of a line joins it to the
next, before comments and literals are made out and except in a raw string; a quote
inside a number is a digit separator; a raw string ends at `)"`.  It does not know
digraphs, macros, `#if` and the delimiters of raw strings.  Where a block has one of
the three things that `lexOpaqueBlock` does not provide for, the two disagree
(`OpaqueCpp17`, the run `compile_cpp`); `BlocksMatch` is about the others, which
`Plain` describes in the reference's own terms.  A joined line is plain where it
does no harm: in code, in a literal, inside a comment of the other sort.

`MCFront` enumerates every block of up to five of the characters that the lexer
tells apart, every block of up to four with words, numbers, raw strings and
parentheses in it, every text of up to four tokens and every `.hls_pragma` block of
up to four, in the same run as the compiler's programs.

### `Tarjan`, `Compiler`: from statements to the build plan

`Compiler` runs the driver's phases on an input chosen in `Init`: a set of files,
each a sequence of forms (one per top-level statement), and the `--parse-only`
option.  One action is one turn of one of the code's loops: a statement parsed
(`ParseImport`, `ParseElementDecl`, `ParseElementGroupDecl`, `ParseDeclOrChain`,
`ParseError`, `EndFile`), collected (`CollectDecl`), processed (`ProcessTop`,
`InlineGroup`), then `SynthesizeSpecials`, `EndResolve` with the signal numbers,
`AnalyzePortArity`, the cycle search, `LowerToBackend` and `Emit`, in which any
number of files, up to a bound, cannot be written.  The C++ call stack of
`parseFile` is `stack`, that of `inlineGroup` is `frames`.  A name is a sequence
of components, so the resolver's `g::p` and its `Type__anon_3` are values that
may or may not meet a connection's end, as in the code.  Element bodies are the
`Lexer`'s; parameters are left out.  The literals of port numbers and counts are
cast to `int`, so either may be negative, which `AnalyzePortArity` reports.
`CompilerAssumption` asks of `Programs` only what the grammar gives: lists are
lists, numbers are integers and an inline instance has an instance's fields.

`Tarjan` has the steps of the search for strongly connected components on a
record with the code's `idx`, `low`, `stk` and `sccs`, and the calls of `strong`
that are under way.

`MCCompiler` enumerates 4000 programs: all ways to make up to two connections
among six sources and five destinations, ports that do not exist included; all
graphs of three edges on three instances, with and without host control; two
rings connected in all ways; imports in circles, of missing files and of a missing
input; nested groups; groups that contain themselves or each other without
being instantiated, or hidden by an element; a port number that wraps to -1; and faulty programs, one
with 256 errors.

## What is checked

Passing runs, deadlock included (where threads have no more calls or requests to
make, `Over` in `MCRuntime` lets them stop):

| Run | Instance | Properties |
| --- | --- | --- |
| `sw_tree` | StagingReg and Tee, depths 1, 2 and 0 (raised to 1), 4 flits | `Ordered`; `Joined` under fair kernel threads only; `ImplementsFifo` (refinement) |
| `sw_mux` | Demux2 and Mux, two paths, 3 flits | `NoDuplication`, `Accounted`, `Delivered` |
| `sw_signal` | Pass and Counter, 3 flits, one erroneous, one caller, 2 calls | `Accounted`, `AnswersInOrder`, `Answered` |
| `runtime`: RPC | two callers, 1 call each, 2 polls | `OwnAnswer`, `ServedOnce`, `Returns` |
| `runtime`: bridge | two receivers, two slots and one out of range, 2 sends, 2 opens | `BridgeTypeOK`, `SlotFifo`, `NoSleepOnFlit`, `RecvReturns` |
| `runtime`: crypto | limbs of 4 bits, 2 and 4 limbs; two threads; up to three jobs; blocks of 6 bytes, 21 bytes in all | `RsaRight`, `Confirmed`, `CipherComplete`; `ElementRight`, `MontForm`, `ElementAnswers`; `DigestRight` |
| `shell` | 3 slots and one out of range, a queue of 2; or two counters, up to 2 packets each | `PathTypeOK`, `OneGrant`, `BoundedWait`, `Conserved`, `HostServed`, `StallKeepsOrder`; `ReadFresh`, `NoSpuriousResponse`, `ReadsAnswered`, `WritesAnswered` |
| `compile` | the texts of `MCFront`; the programs of `MCCompiler`, up to 2 write errors | `Wired`, `Addressed`, `ExitCode`, `ImportedOnce`, `CyclesFound`, `BlocksMatch`, `Finishes` |

What each property says is stated above its definition.  Type invariants are
proved; `BridgeTypeOK` and `PathTypeOK` are run as well.  `Finishes` covers the lexer too: in
`MCFront` the compiler begins when the element's body is over.  It excepts the
programs that instantiate a group which contains itself (`Endless`): `inlineGroup`
then calls itself without end, and no bounded run could have them.

Why the bounds are enough.  With streams of depth 1 or 2 and three or four
flits every stream is found full, every arbiter finds both inputs occupied and
every element sees a flit while it still has one.  Two calls, of one thread in the emulator and of
two in `runtime`, are needed for an answer to meet the wrong call.  Two receivers are
the fewest that compete for a flit and for the mutex; a second `open` shows that
a reopened bridge starts afresh.  Three slots are not a power of two, so the
pointer's wrap differs from that of its bits; a queue of two has a flit behind
one that is blocked.  With limbs of 4 bits every odd modulus of two limbs is
tried, so that every carry into the third limb and every last subtraction
happens, and all keys of two primes of one limb with all messages; three jobs
meet in the element when it emits one, holds flits of the next and the third
waits.  In 21 bytes a message ends at every place of a block, and the next one
follows.  Five characters are enough for a literal with an escape and a brace
behind it, and for `/*/` inside a block.  `MaxPolls` stands for 10000:
only whether the limit is reached matters.  Three kernels and three edges make
every shape of component, and two rings the case of an edge into a component
that is already complete.  `CyclesFound` compares the search with a definition
that does not search: two nodes are in one component if the same closed sets of
nodes contain them.

Fairness.  `ThreadFairness`: a kernel thread ends every iteration with
`yield` and blocks nowhere, so the operating system schedules it again.
`HarnessFairness`: the harness goes on draining, and a caller in
`wait_response` is woken by `notify_all`.  `Joined` assumes only the former.
`RpcFairness`: a host thread inside `dispatchSignal` is scheduled;
the kernel may stop for ever.  `BridgeFairness`: a thread in `recv` is
scheduled and its 50 ms pass (weak fairness); a mutex that is free again and
again is eventually obtained (strong fairness of `Relock`).  `StatusFairness`:
the clock runs and the master is ready again and again.  `PathFairness`: so does
the host, and no kernel keeps a flit for ever for which the mux has room.
`ElemFairness`: the kernel's thread is scheduled, and a flit under way to a port
arrives; it is weak fairness of the handler and of each port, written with the
conditions that enable them.
`Compiler`'s
`Spec` and `LexSpec`: the compiler is a single process that runs.

### Disagreements

Six runs check a sentence of the repository's documentation that the code does
not keep to, and find a counterexample:

* `sw_lossless`: `->` is documented as lossless.  The generated loop tries each
  output once; a flit for a full stream is dropped.  (For the same reason a Tee
  can lose one of its two copies.)
* `rpc_stale`: the host is documented to poll until the kernel responds.
  `dispatchSignal` stops after 10000 polls and returns `true` with whatever the
  registers of the response hold: zeros, or the answer to an earlier call.
* `rpc_layout`: the struct of the registers is documented to have the layout the
  host expects.  For the response it has not: even when the kernel answers in
  time, the caller is given a word of its own request as the command, and the
  command as the last parameter, and `rsp.sparam` and `rsp.lparam` are one place off.
* `compile_cpp`: a block of C++ is documented to be opaque C++17, passed through up to
  its matching brace.  The lexer takes the separator in `1'000` for the start of a
  character literal and misses the brace; it also ends a `//` comment at a line feed
  that is joined, and knows no raw strings.
* `compile_nodes`: an anonymous instance in a chain is documented to create an
  instance.  The parser names it by line and column and connects that name, the
  resolver names its kernel with a counter, and both connections are reported as
  unknown nodes.  The same run fails for groups: `begin` and `end` become the
  name of the group's instance, which no kernel has, and so does every
  connection to the group from outside.
* `rsa_crt`: `rsa_crt_decrypt` is documented to return c^d mod n.  It adds p
  once to a negative difference of the two residues, which is too little if
  q > p and the residues are far enough apart; the subtraction then wraps
  around.  `RsaRight`, in the passing run, says that exactly these keys and
  messages give a wrong result.

Other things a reader of the code should know, which no run is about.  The null
stream, commented "Reads always fail, writes always succeed silently.", is an
ordinary stream of capacity 1 that all unconnected ports share, so that a flit
sent to `Drop` may come out of `Idle`.  A comment in `slot_demux.v` promises a
round robin; there is one channel, and a flit whose slot is full, or out of
range, holds up all behind it (`HostServed` is stated for slots in range, and
lowering numbers its slots from 32, the first that is not).  While the reader of
`slot_mux` stalls, its data may change when a flit arrives at a slot nearer to
its turn (`StallKeepsOrder` says that nothing else changes it).  The SHA1
element hashes all 32 bytes of every flit, so only messages of whole flits have
their right digest.  `.timing { ii = 0x10; }` means 10: the lexer cuts the prefix off and the parser converts the text again.  A
write to the status block whose data comes after the address handshake never
gets its response (`WritesAnswered` excludes it by `~late`).  The exit status
is the number of errors, of which the system keeps 8 bits, so that 256 errors
look like success (`ExitCode` names the exception).  If the input file
cannot be opened, rendering the diagnostic throws and the compiler aborts
(phase `aborted`).  Two instances may have one name, two connections one port,
and `begin` and `end` may stand outside a group; all three are accepted.  The
range of a node in the middle of a chain counts for both of its connections.
All kernels with signals in a generated emulator poll one dummy channel (its
`main` posts no request; the runs give each kernel a channel, as the test harness
does).  `Platform::close` destroys the `Element` objects whose pointers
`element()` has handed out.

### Mutants

Each property has a variant of a modelled definition (`Mut...`, defined just
before it) with a plausible slip in the code, which makes TLC find the property
violated: a register bypassed, a pointer that does not advance, an input read
again while held, a response written or declared in the wrong order, a test
without its mutex, a timeout that retries, a search that does not wrap, an
import that is not remembered, a port count that stays open, a carry that is
dropped, an index that is not reset, an escape that is taken for the next one's.

## What is proved

`SwEmu_proofs`, from the assumptions on the constants only:

* `TypeCorrect`: `TypeOK` is invariant for every topology, and so is `PortsExist`,
  that the ports a thread has yet to read or write are ports of its element.
  Inductive once strengthened by `WriteOK` (a kernel in its write phase has a
  port to write, and only ports with a flit) and `SignalOK` (a kernel holds an
  event only if it has a channel).
* `InOrder`: in a network of single-input elements whose ports are connected
  (`Linear`), `Ordered` is invariant, for any depths, any number of sources and
  any schedule.  `Ordered` alone is not inductive: it says nothing of flits
  inside kernels.  `OrderInv` adds `last[i]`, the newest flit stream `i` has
  carried, and orders, for each kernel, what its outputs have carried, what it
  is about to write, its register, its held flit and its input queue.  The proof
  takes one lemma per action, and lemmas on appending to and removing from
  sorted sequences.
* `PipelinesImplementFifo`: the emulator implements `LossyFifo`, for every network,
  along every pipeline in it, whatever hangs on the other outputs of the pipeline's
  elements.  The invariant is `TypeInv` with `ReadOK` (a kernel reads into empty
  ports only).  `Load` is what the stretches of a path hold, a stretch being a
  stream with the kernel before it.  A step of a kernel `MovesOn`: every
  stretch stays as it is (`QuietSteps`, `ReadSteps`), one loses its first flit, or a
  flit goes from the front of one to the back of the next (`HandlerSteps`,
  `WriteSteps`).  `FromSink` joins the stretches, and lemmas by induction along the
  path say what each of the three does to the whole (`RunSame`, `RunDrop`,
  `RunMove`; `RunLast` for a flit that is injected).
* `NothingTwice`: `NoDuplication`, for every network without a Tee (a Tee copies
  on purpose), with arbiters, cycles, ports that share the null stream, and
  signals.  Each action gives an injective map from the places a flit is in
  afterwards to the places it was in before, and a flit that is injected was in
  none; so the number of places never grows.  Where an element may merge two
  places, the map needs facts of the loop that are invariants of their own, such
  as that no port is both held and about to be read.
* `NothingUnaccounted`: `Accounted`, for every finite network without a Tee.  Every
  step but a handler's keeps both the flits that are somewhere (`Present`) and
  the counts.  That needs both directions: a flit must not vanish uncounted,
  which is where `ReadOK` comes in (a kernel reads into empty ports only, so that
  no held flit is overwritten).  A handler drops a flit only if it counts it, and
  because no flit is in two places (`NothingTwice`'s invariant) that flit is then
  nowhere.  A resetting read moves a count from the element into an answer, and
  its return moves the answer from the channel to the caller.  The sums over
  kernels, callers and answers are the community modules' folds; `Induction`
  proves of them what the steps need: a sum changes by what its one changed term
  changes by, and a sum over a sequence splits at its head and its end.
* `CallsInOrder`: `AnswersInOrder`, for any number of kernels, callers, calls and
  time-outs, if every caller has a channel to itself and no two kernels share
  one (`OwnChannels`), as in `KernelHarness`
  (`tests/elements/element_test_harness.hpp:43`).  The invariant lines up the calls
  answered, the responses under way, the event the kernel is serving and the
  requests under way: their numbers rise along the whole line, and none exceeds
  `calls`.

`SignalRpc_proofs`:

* `TypeCorrect`: `RpcTypeOK`, for any number of callers, overlapping in any way.
* `CallsAnswered` and `CallsServed`: `OwnAnswer` and `ServedOnce`, for any number of
  threads, calls and polls.  `RpcInv` says that, until something is `disturbed`,
  some thread owns the register block (`Owns`): no other one is inside
  `dispatchSignal` (`Alone`); `Turn` says for each pair of program counters whose
  turn it is and what the registers then hold; `Past`, that all events served so
  far belong to earlier calls.  Between two calls the block is whosever calls next
  (`Free`).  Neither theorem says that a word is taken from the register it
  is meant to come from, which is false: `rpc_layout`.  The hypothesis `~disturbed`
  cannot be dropped: `rpc_stale`.

`Shell_proofs`, for the clocked logic of the shell, for any number of slots, length
of the queue, set of counters and bound on them:

* `NoStarvation`: `BoundedWait`.  The invariant bounds `waited[s]` plus the
  distance of `s` from the pointer.
* `GrantsOne`: `OneGrant`.
* `StallOrder`: `StallKeepsOrder`, an action property.  A cycle without
  `tready` leaves the pointer alone, so the distances of the old grant and of
  any slot that was waiting are as they were, and the first of them stays first.
* `PathTypeCorrect`, `FlitsConserved` (`Conserved`): each half of a cycle, the
  host's and the clocked logic's, moves a flit of slot `i` between two of the
  three places and no other.
* `PathImplementsMux`: the channel implements `SlotMux`'s specification, so that
  `BoundedWait`, `OneGrant` and `StallKeepsOrder`, proved there, hold in it.  The
  kernels' outputs meet what `SlotMux` supposes of its sources: none drops
  `tvalid` before it is served.
* `StatusTypeCorrect`, `ReadsFresh` and `AnswersOwed`.  `ReadFresh` needs
  `ReadTurn`, which relates the handshake signals to the master's state, and
  `Risen`, that a counter is never below what it was when the read began.

`SlotBridge_proofs`, for any number of threads, slots, sends and opens:

* `BridgeTypeCorrect`, `SlotsInOrder` (`SlotFifo`) and `NobodySleepsOnFlit`
  (`NoSleepOnFlit`).  The first two are inductive with the types.  The last is
  not: it needs that the queue is still empty between the test and the sleep
  (`WaitInv`), which holds because the thread has the slot's mutex all that time
  (`LockInv`) and `send` needs it too.

`BigInt_proofs` is about the arithmetic, for any number of limbs of any size
(`LimbAssumption`: a power of two of bits, and the Hensel steps that go with it).
From the bottom up: what a loop keeps it keeps to its last turn (`LoopInvariant`,
by induction over the turns); a loop over limbs with a carry spells the sum of what
comes to each limb, and the carry is what does not fit (`CarriedRight`), from which
`SubRight`, `AddRowRight`, `ShiftedRight` and `ProductRowRight` follow; six
doublings of the good bits invert the modulus (`InverseRight`); a row of the
Montgomery product leaves a number below twice the modulus and clears its lowest
limb (`MontRowRight`), so the product is reduced and stands for a * b / R
(`MontMulRight`).  `ModexpPower` and `ModexpConsttimePower` follow the exponent bit
by bit in Montgomery form, R being invertible modulo an odd number (`BaseInverse`).
`PowModRight` says that the reference is the power.  `CrtPower` is about the two
halves: if the second residue does not exceed the first by more than p,
Garner's formula has the power's residues modulo p and q, hence is the power
(`CrtUnique`, from q * qInv = 1 modulo p, which makes p and q coprime); if it does,
the wrapped difference is off by R, which is not 0 modulo p, so the result is wrong.

`Crypto_proofs` is about those who use it, and about SHA-1:

* `PowersRight`: `RsaRight`, for any number of threads, any widths and any requests.
  `HookRight` goes through the ways a request may take, and `RightInv` says that
  whatever a thread has not yet answered is right.  The keys' half exponents are
  assumed to do what the exponent does (in `ValidKey`); for primes that is Fermat's
  theorem, which is not proved here.  That p and q are prime is not used otherwise.
* `ElementsAnswer` and `MontgomeryKept`: `ElementRight` and `MontForm`, for any
  number of limbs, flits and jobs.  Neither is inductive: `ElemInv` also says of
  each port how many flits of which job have been read (`PortInv`), that the limbs
  so far collected are those of the job (`BufInv`), and of the running result, in
  each state of the machine, which power it is (`StateInv`).
* `CountersConfirm`: `Confirmed`.  Not inductive alone, since a store writes
  what was loaded earlier: `HeldOK` adds that a value held by a thread is at most
  the number of stores so far.
* `CipherAlwaysComplete`: `CipherComplete`.  `CipherInv` adds that a thread about
  to publish has set the hooks of its object.
* `DigestsRight`: `DigestRight`, under `LengthFits`, FIPS 180-4's limit on the
  length of a message (2^61 bytes with the code's field of 64 bits).  The
  invariant (`Holds`) says that the bytes compressed and those in the buffer
  spell the message so far, that the former are full blocks and that the latter
  do not fill one.  The loop of `update` and the one that adds zeros are
  recursive functions on an interval; what a turn preserves is carried to the last
  turn by a lemma (`UpTo`, in `Induction`) that takes the least turn at which it
  would fail, from the well-foundedness of the order on the natural numbers.  The number of zeros
  is unique because the remainder of a division is.

`Compiler_proofs`, for any set of programs whose statements are well-formed, hence
for any number and nesting of files, groups, instances and connections:

* `CompilerTypeCorrect`: the invariant `Shape`, which says what the parser's stack,
  the statements, the inlining frames and the graph may hold; one lemma per action.
* `BuildWired`: `Wired`, the end of a chain of facts about phases, `Progress`.
  `SynthesizeSpecials` leaves no unknown end behind if it counts no error
  (`Known`); `AnalyzePortArity` then leaves no port that its kernel lacks
  (`PortsFit`), which neither `Shape` nor `Known` says; errors never shrink, so
  when the graph is lowered there are none.  The five lists partition the
  connections because `Channel` gives each exactly one (`ListsPartition`), and
  selecting from a sequence keeps as many entries as it selects (`SelectedRight`).
* `BuildAddressed`: `Addressed`.  The number of host-controlled kernels before a
  kernel rises along the sequence of kernels (`NumbersRise`) and selecting keeps
  the order, so blocks of 128 bytes from that number are disjoint.
* `ExitCodeRight`: `ExitCode`, in the invariant with a step per way the driver ends.
* `FilesImportedOnce`: `ImportedOnce`.  `ImportInv` counts while the parser reads: the
  element statements so far are, over all the files in `seen`, the element forms
  read of each (`ReadOf`: those before the position of its activation, all of them if
  it has none), a file has at most one activation, and no import that has been read
  leads out of `seen`, which every closed set with the input contains.  When
  the stack is empty `seen` is closed itself, hence `Reached`, and every file is
  read to its end.  The sums are those of `Induction`.
* `CyclesAllFound`: `CyclesFound`, for any graph of kernels.  `SearchInv` says of
  `Tarjan`'s record, for any graph at all: the stack and the activations are in the order
  of the numbers (`SearchType`, `PathOK`), what is complete is closed and made of
  components (`CompleteOK`), a node of the stack reaches those above it and
  one of the path at or below it (`StackConnected`), and `low` of a node of the path is
  the number of a node of the stack that it reaches, no higher than any that the nodes
  up to the next one of the path have looked at (`LowRight`).  There is a lemma per
  step: `EnterOK`, `LookOK`, `LeaveOK`.  When the stack is cut at a node whose
  `low` is its number, the part above together with what is complete is closed
  (`LeaveComplete`), so it is one component.  With `MutLookAnySeen`, `LowRight` does not
  hold: `low` may be the number of a node that has left the stack.  `KernelClasses` is
  the step from the graph to `ClassOf`.
* `BlocksAreMatched`: `BlocksMatch`, for any text of the alphabet
  (`LexerAssumption`), in two parts.  The first is about a reading that knows only
  what the lexer does (`PlainStep`): `Scanned` says that the lexer, at a turn of the
  loop over a block, is in step with it: that reading has not been at depth 0 since
  the block began, it is at the lexer's depth, and the next character will be
  read as code.  The last is not that it is in the mode `code`: behind a `/` that
  opens no comment it is not, and neither is it at the line feed that ends a `//`.
  The second (`PlainEnds`) is that in a block that is `Plain` this reading and that
  of C++17 come to depth 0 at the same character: after each one they agree up to
  what they call it (`Agree`), being allowed to differ between the two characters that
  join a line.
  There is a lemma per kind of turn: `CodeTurn`, `LineTurn`, `CommentTurn`, `LiteralTurn`.
  That the recursive functions of the model exist on the text, and where they lead, is
  `JumpsExist` and `JumpsLand`: each jumps forward until it meets a position where it
  stops.

Only model-checked is all liveness (`Joined`, `Delivered`, `Answered`, `Returns`,
`RecvReturns`, `HostServed`, `ReadsAnswered`, `WritesAnswered`, `Finishes`,
`ElementAnswers`), which is out of the prover's reach.

## What is not modelled

* The compiler composed with the emulator: the network `emitMain` makes of a
  build, ports with two connections among them.  Each of the two fills a run of
  its own.  What becomes of a program that instantiates a group which contains
  itself: the compiler's stack would overflow.
* Elements with longer memories: PacketBuffer, PriorityQueue, FlowCache,
  RateLimit, FixSopEop and CheckSopEop; they need flits with `sop`, `eop` and
  fields, which `Elements` abstracts to a number.  The SystemC loop, with its
  blocking writes.
* `Platform`'s element cache and registry: the hazard is a pointer that dangles,
  of which the outcome is undefined.
* The cycle counter of the status block: it differs in every state.
* AES and the header elements (the data is the point there), text generation of
  the back ends, pcap files, numbers and the other token-only parts of the
  syntax, driver options, build and evaluation scripts.
