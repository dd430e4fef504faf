------------------------------ MODULE Compiler ------------------------------
(***************************************************************************)
(* The compiler from the parser's statements to the build plan that the    *)
(* back ends print: imports, the expansion of connection chains, the       *)
(* resolver with its inlining of groups, the analyses and the lowering,    *)
(* under the control of the driver.                                        *)
(*                                                                         *)
(* A source file is a sequence of forms, one for each top-level statement. *)
(* Characters and tokens are left out: a form the grammar rejects is       *)
(* "bad", and counts as one error.  A name is a sequence of components,    *)
(* which "::" joins.  An identifier is <<id>>, a name of the parser's own  *)
(* <<type, line, column>>, one of the resolver's <<type, n>>.              *)
(*                                                                         *)
(* Recursion of the code is a stack here: stack of parseFile, frames of    *)
(* inlineGroup.  Left out are the element bodies, parameters and pragmas,  *)
(* which are copied; the autorun flag, which its analysis sets in every    *)
(* kernel; channel_depth, which nothing reads; and the bandwidth analysis, *)
(* whose warning cannot appear at the clock rate the driver gives it.      *)
(***************************************************************************)
EXTENDS Integers, Sequences, FiniteSets, SequencesExt, Tarjan

CONSTANTS
  Programs,        \* inputs: [files, main, parse_only]
  MaxWriteErrors   \* bound on the files a back end fails to open

\* Of a form the grammar has let through: its lists are lists, and where it has
\* numbers there are numbers, of either sign: a literal is cast to int.  -1 is a
\* count that is not written, 0 such a port.
IsList(s) == s \in Seq(ToSet(s))

InstForm(n) ==
  n.nin \in Int /\ n.nout \in Int /\ n.host \in BOOLEAN /\ n.anonymous \in BOOLEAN

NodeForm(n) ==
  n.port \in Int /\ n.anonymous \in BOOLEAN /\ (n.anonymous => InstForm(n))

DeclForm(f) ==
  /\ f.form = "inst" => InstForm(f)
  /\ f.form = "chain" => IsList(f.nodes) /\ \A k \in DOMAIN f.nodes : NodeForm(f.nodes[k])

TopForm(f) ==
  /\ DeclForm(f)
  /\ f.form = "element" => f.nin \in Int /\ f.nout \in Int
  /\ f.form = "group" => IsList(f.body) /\ \A i \in DOMAIN f.body : DeclForm(f.body[i])

ASSUME CompilerAssumption ==
  /\ MaxWriteErrors \in Nat
  /\ \A p \in Programs : \A f \in DOMAIN p.files :
       IsList(p.files[f]) /\ \A i \in DOMAIN p.files[f] : TopForm(p.files[f][i])

VARIABLES
  program,    \* the input
  phase,      \* where the driver is
  stack,      \* parseFile activations: [file, next]
  seen,       \* seen_files_
  stmts,      \* the module's statements
  at,         \* statement the resolver's current loop is at
  elems,      \* elem_decls_
  groups,     \* group_decls_
  frames,     \* inlineGroup activations: [inst, body, next]
  anon,       \* anon_counter_
  kernels,    \* kernels of the graph
  edges,      \* edges of the graph
  errors,     \* error_count_
  search,     \* the cycle search
  warned,     \* components warned of
  build,      \* the build plan
  exit        \* what Driver::run returns

parserVars   == <<stack, seen, stmts>>
resolverVars == <<at, elems, groups, frames, anon>>
graphVars    == <<kernels, edges>>
backVars     == <<search, warned, build, exit>>
vars == <<program, phase, parserVars, resolverVars, graphVars, errors, backVars>>

Id(s) == <<<<s>>>>

\* The elements of s at the indices in I, in their order.
Selected(s, I) ==
  LET take[n \in 0 .. Len(s)] ==
        IF n = 0 THEN <<>>
        ELSE IF n \in I THEN Append(take[n - 1], s[n]) ELSE take[n - 1]
  IN  take[Len(s)]

NoBuild == [made |-> FALSE, kernels |-> <<>>, signals |-> <<>>, stream |-> <<>>,
            tor |-> <<>>, nic |-> <<>>, host |-> <<>>]

Init ==
  /\ program \in Programs
  /\ phase = "open"
  /\ stack = <<>> /\ seen = {} /\ stmts = <<>>
  /\ at = 1 /\ elems = <<>> /\ groups = <<>> /\ frames = <<>> /\ anon = 0
  /\ kernels = <<>> /\ edges = <<>>
  /\ errors = 0
  /\ search = NewSearch /\ warned = {} /\ build = NoBuild /\ exit = 0

-----------------------------------------------------------------------------
(* Parser.                                                                 *)

\* The input file is opened.  If it cannot be, the one diagnostic names a
\* file of which there is no buffer, and rendering it throws.
OpenInput ==
  /\ phase = "open"
  /\ seen' = {program.main}
  /\ \/ /\ program.main \in DOMAIN program.files
        /\ stack' = <<[file |-> program.main, next |-> 1]>>
        /\ phase' = "parse"
        /\ UNCHANGED errors
     \/ /\ program.main \notin DOMAIN program.files
        /\ errors' = errors + 1
        /\ phase' = "aborted"
        /\ UNCHANGED stack
  /\ UNCHANGED <<program, stmts, resolverVars, graphVars, backVars>>

Forms == program.files[Last(stack).file]

\* The next form of the file that is being read has the given shape.
Reading(form) ==
  /\ phase = "parse" /\ stack # <<>>
  /\ Last(stack).next <= Len(Forms)
  /\ Forms[Last(stack).next].form = form

Form == Forms[Last(stack).next]

Passed == [stack EXCEPT ![Len(stack)].next = @ + 1]

\* Recovery in parseFile: on to the next declaration or import.
Recovered ==
  LET next == Last(stack).next
      stop == {i \in next + 1 .. Len(Forms) : Forms[i].form \in {"element", "group", "import"}}
  IN  [stack EXCEPT ![Len(stack)].next =
         IF stop = {} THEN Len(Forms) + 1 ELSE CHOOSE i \in stop : \A j \in stop : i <= j]

ImportDecl == [kind |-> "import"]

\* Mutant: files are not remembered.
MutParseImportAgain ==
  /\ Reading("import")
  /\ \/ /\ Form.file \in DOMAIN program.files
        /\ Len(stack) < 4
        /\ seen' = seen \cup {Form.file}
        /\ stack' = Append(Passed, [file |-> Form.file, next |-> 1])
        /\ UNCHANGED <<stmts, errors>>
     \/ /\ Form.file \notin DOMAIN program.files
        /\ seen' = seen \cup {Form.file}
        /\ errors' = errors + 2
        /\ stack' = Recovered
        /\ UNCHANGED stmts
  /\ UNCHANGED <<program, phase, resolverVars, graphVars, backVars>>

\* A file that has been seen, even one still being read, contributes nothing.
\* A file that cannot be opened counts as seen, and as two errors.
ParseImport ==
  /\ Reading("import")
  /\ seen' = seen \cup {Form.file}
  /\ \/ /\ Form.file \in seen
        /\ stmts' = Append(stmts, ImportDecl)
        /\ stack' = Passed
        /\ UNCHANGED errors
     \/ /\ Form.file \in DOMAIN program.files \ seen
        /\ stack' = Append(Passed, [file |-> Form.file, next |-> 1])
        /\ UNCHANGED <<stmts, errors>>
     \/ /\ Form.file \notin DOMAIN program.files \cup seen
        /\ errors' = errors + 2
        /\ stack' = Recovered
        /\ UNCHANGED stmts
  /\ UNCHANGED <<program, phase, resolverVars, graphVars, backVars>>

Instance(n) ==
  [kind |-> "inst", type |-> n.type, name |-> n.name, anonymous |-> n.anonymous,
   host |-> n.host, nin |-> n.nin, nout |-> n.nout]

\* A node's range serves as its input port in the connection before it and
\* as its output port in the one after it.
ConnEnd(n) == [name |-> n.name, port |-> n.port, depth |-> n.depth]

\* The statements of an instance declaration or of a chain.  Each node of a
\* chain that is an anonymous instance is declared before its connection.
DeclOrChain(f) ==
  CASE f.form = "inst"  -> <<Instance(f)>>
    [] f.form = "chain" ->
         FlattenSeq([k \in DOMAIN f.nodes |->
           (IF f.nodes[k].anonymous THEN <<Instance(f.nodes[k])>> ELSE <<>>) \o
           (IF k = 1 THEN <<>>
            ELSE <<[kind |-> "conn", source |-> ConnEnd(f.nodes[k - 1]),
                    dest |-> ConnEnd(f.nodes[k]), lossy |-> f.lossy[k - 1]]>>)])
    [] OTHER -> <<>>

ParseElementDecl ==
  /\ Reading("element")
  /\ stmts' = Append(stmts, [kind |-> "element", name |-> Form.name,
                             nin |-> Form.nin, nout |-> Form.nout])
  /\ stack' = Passed
  /\ UNCHANGED <<program, phase, seen, resolverVars, graphVars, errors, backVars>>

\* A statement of the body that does not parse is reported and left out.
ParseElementGroupDecl ==
  /\ Reading("group")
  /\ errors' = errors + Cardinality({i \in DOMAIN Form.body : Form.body[i].form = "bad"})
  /\ stmts' = Append(stmts, [kind |-> "group", name |-> Form.name,
                body |-> FlattenSeq([i \in DOMAIN Form.body |-> DeclOrChain(Form.body[i])])])
  /\ stack' = Passed
  /\ UNCHANGED <<program, phase, seen, resolverVars, graphVars, backVars>>

ParseDeclOrChain ==
  /\ Reading("inst") \/ Reading("chain")
  /\ stmts' = stmts \o DeclOrChain(Form)
  /\ stack' = Passed
  /\ UNCHANGED <<program, phase, seen, resolverVars, graphVars, errors, backVars>>

ParseError ==
  /\ Reading("bad")
  /\ errors' = errors + 1
  /\ stack' = Recovered
  /\ UNCHANGED <<program, phase, seen, stmts, resolverVars, graphVars, backVars>>

\* The end of a file.  After the input file itself the driver goes on to the
\* resolver, or returns if it was only to parse.
EndFile ==
  /\ phase = "parse" /\ Last(stack).next > Len(Forms)
  /\ stack' = Front(stack)
  /\ IF Len(stack) > 1
     THEN stmts' = Append(stmts, ImportDecl) /\ UNCHANGED <<phase, exit>>
     ELSE /\ phase' = IF program.parse_only THEN "ended" ELSE "collect"
          /\ exit' = IF program.parse_only THEN errors ELSE exit
          /\ UNCHANGED stmts
  /\ UNCHANGED <<program, seen, resolverVars, graphVars, errors, search, warned, build>>

-----------------------------------------------------------------------------
(* Resolver.                                                               *)

\* decls with the declaration s added.
WithDecl(decls, s) ==
  [name \in DOMAIN decls \cup {s.name} |-> IF name = s.name THEN s ELSE decls[name]]

CollectDecl ==
  /\ phase = "collect" /\ at <= Len(stmts)
  /\ at' = at + 1
  /\ LET s == stmts[at] IN
     /\ elems' = IF s.kind = "element" /\ s.name \notin DOMAIN elems
                 THEN WithDecl(elems, s) ELSE elems
     /\ groups' = IF s.kind = "group" /\ s.name \notin DOMAIN groups
                  THEN WithDecl(groups, s) ELSE groups
     /\ errors' = IF \/ s.kind = "element" /\ s.name \in DOMAIN elems
                     \/ s.kind = "group" /\ s.name \in DOMAIN groups
                  THEN errors + 1 ELSE errors
  /\ UNCHANGED <<program, phase, parserVars, frames, anon, graphVars, backVars>>

EndCollect ==
  /\ phase = "collect" /\ at > Len(stmts)
  /\ phase' = "process" /\ at' = 1
  /\ UNCHANGED <<program, parserVars, elems, groups, frames, anon, graphVars, errors, backVars>>

AnonName(type) == <<<<type, anon>>>>

\* Mutant: a port count nobody gives stays ANY.
MutPortCountAny(inst, decl) == IF inst > 0 THEN inst ELSE decl

\* -1 stands for a count that is not given.
PortCount(inst, decl) ==
  IF inst > 0 THEN inst ELSE IF decl < 0 THEN 1 ELSE decl

Kernel(name, d) ==
  [name |-> name, type |-> d.type, special |-> "none", host |-> d.host,
   nin |-> PortCount(d.nin, elems[d.type].nin), nout |-> PortCount(d.nout, elems[d.type].nout),
   gid |-> -1, base |-> -1]

\* processTop of instance d.  name is the name of its kernel, open are the
\* activations of inlineGroup as they are after the statement d comes from.
Instantiate(d, name, open) ==
  \/ /\ d.type \in DOMAIN elems
     /\ kernels' = Append(kernels, Kernel(name, d))
     /\ frames' = open
     /\ UNCHANGED errors
  \/ /\ d.type \in DOMAIN groups \ DOMAIN elems
     /\ frames' = Append(open, [inst |-> d.name, body |-> groups[d.type].body, next |-> 1])
     /\ UNCHANGED <<kernels, errors>>
  \/ /\ d.type \notin DOMAIN groups \cup DOMAIN elems
     /\ errors' = errors + 1
     /\ frames' = open
     /\ UNCHANGED kernels

AddConnection(source, dest, lossy) ==
  edges' = Append(edges,
    [src |-> source.name, sport |-> IF source.port = 0 THEN 1 ELSE source.port,
     dst |-> dest.name, dport |-> IF dest.port = 0 THEN 1 ELSE dest.port,
     lossy |-> lossy,
     depth |-> IF dest.depth > 0 THEN dest.depth
               ELSE IF source.depth > 0 THEN source.depth ELSE 64])

\* A top-level statement.  A kernel of an anonymous instance gets a fresh
\* name; a group keeps the parser's.
ProcessTop ==
  /\ phase = "process" /\ frames = <<>> /\ at <= Len(stmts)
  /\ at' = at + 1
  /\ LET s == stmts[at]
         fresh == s.kind = "inst" /\ s.anonymous /\ s.type \in DOMAIN elems
     IN
     /\ anon' = IF fresh THEN anon + 1 ELSE anon
     /\ \/ /\ s.kind = "inst"
           /\ Instantiate(s, IF fresh THEN AnonName(s.type) ELSE s.name, <<>>)
           /\ UNCHANGED edges
        \/ /\ s.kind = "conn"
           /\ AddConnection(s.source, s.dest, s.lossy)
           /\ UNCHANGED <<kernels, frames, errors>>
        \/ /\ s.kind \in {"import", "element", "group"}
           /\ UNCHANGED <<kernels, edges, frames, errors>>
  /\ UNCHANGED <<program, phase, parserVars, elems, groups, backVars>>

\* begin and end become the group's instance; every other node gets the
\* instance's name as a prefix.
RewriteEnd(inst, e) ==
  [e EXCEPT !.name = IF @ \in {Id("begin"), Id("end")} THEN inst ELSE inst \o @]

\* A statement of the body of the group that is being inlined.
InlineGroup ==
  /\ phase = "process" /\ frames # <<>>
  /\ Last(frames).next <= Len(Last(frames).body)
  /\ LET f == Last(frames)
         s == f.body[f.next]
         open == [frames EXCEPT ![Len(frames)].next = @ + 1]
         copy == [s EXCEPT !.name = f.inst \o (IF s.anonymous THEN AnonName(s.type) ELSE @),
                           !.anonymous = FALSE]
     IN
     \/ /\ s.kind = "inst"
        /\ anon' = IF s.anonymous THEN anon + 1 ELSE anon
        /\ Instantiate(copy, copy.name, open)
        /\ UNCHANGED edges
     \/ /\ s.kind = "conn"
        /\ AddConnection(RewriteEnd(f.inst, s.source), RewriteEnd(f.inst, s.dest), s.lossy)
        /\ frames' = open
        /\ UNCHANGED <<anon, kernels, errors>>
  /\ UNCHANGED <<program, phase, parserVars, at, elems, groups, backVars>>

InlineEnd ==
  /\ phase = "process" /\ frames # <<>>
  /\ Last(frames).next > Len(Last(frames).body)
  /\ frames' = Front(frames)
  /\ UNCHANGED <<program, phase, parserVars, at, elems, groups, anon, graphVars, errors, backVars>>

Sources == {"tor_in", "nic_in", "host_in", "Idle"}
Sinks   == {"tor_out", "nic_out", "host_out", "Drop"}
Aliases == {"begin", "end"}

\* In the order of std::set<std::string>.
SpecialNames == <<"Drop", "Idle", "begin", "end", "host_in", "host_out",
                  "nic_in", "nic_out", "tor_in", "tor_out">>

SpecialKernel(s) ==
  [name |-> Id(s), type |-> s, special |-> s, host |-> FALSE,
   nin |-> IF s \in Sources THEN 0 ELSE 1, nout |-> IF s \in Sinks THEN 0 ELSE 1,
   gid |-> -1, base |-> -1]

NamesOf(ks) == {ks[i].name : i \in DOMAIN ks}

\* The boundary kernels the connections name, unless an instance has taken
\* the name; then an error for every end that is still unknown.
SynthesizeSpecials ==
  /\ phase = "process" /\ frames = <<>> /\ at > Len(stmts)
  /\ phase' = "slots"
  /\ LET referenced == UNION {{edges[i].src, edges[i].dst} : i \in DOMAIN edges}
         new == Selected(SpecialNames,
                  {i \in DOMAIN SpecialNames :
                     Id(SpecialNames[i]) \in referenced \ NamesOf(kernels)})
     IN  kernels' = kernels \o [i \in DOMAIN new |-> SpecialKernel(new[i])]
  /\ errors' = errors
       + Cardinality({i \in DOMAIN edges : edges[i].src \notin NamesOf(kernels')})
       + Cardinality({i \in DOMAIN edges : edges[i].dst \notin NamesOf(kernels')})
  /\ UNCHANGED <<program, parserVars, resolverVars, edges, backVars>>


\* Mutant: a block has half its size.
MutAssignHalf(ks) ==
  LET gid(i) == Cardinality({j \in 1 .. i - 1 : ks[j].host /\ ks[j].special = "none"})
  IN  [i \in DOMAIN ks |->
         IF ks[i].host /\ ks[i].special = "none"
         THEN [ks[i] EXCEPT !.gid = gid(i), !.base = 4096 + 64 * gid(i)] ELSE ks[i]]

\* Signal numbers, and register blocks of 128 bytes from 0x1000 on, to the
\* host-controlled kernels in their order.
AssignSignalSlots(ks) ==
  LET gid(i) == Cardinality({j \in 1 .. i - 1 : ks[j].host /\ ks[j].special = "none"})
  IN  [i \in DOMAIN ks |->
         IF ks[i].host /\ ks[i].special = "none"
         THEN [ks[i] EXCEPT !.gid = gid(i), !.base = 4096 + 128 * gid(i)] ELSE ks[i]]

Failure(n) == IF n = 0 THEN 1 ELSE n

\* The end of resolve(): with any error so far, the driver returns.
EndResolve ==
  /\ phase = "slots"
  /\ kernels' = AssignSignalSlots(kernels)
  /\ phase' = IF errors > 0 THEN "ended" ELSE "arity"
  /\ exit' = IF errors > 0 THEN Failure(errors) ELSE exit
  /\ UNCHANGED <<program, parserVars, resolverVars, edges, errors, search, warned, build>>

-----------------------------------------------------------------------------
(* Analyses.                                                               *)

\* Graph::find: the first kernel of that name.
Find(name) ==
  kernels[CHOOSE i \in DOMAIN kernels :
            kernels[i].name = name /\ \A j \in 1 .. i - 1 : kernels[j].name # name]

\* Mutant: only the output side is tested.
MutArityErrorsOut ==
  {<<i, "source">> : i \in {j \in DOMAIN edges : edges[j].sport > Find(edges[j].src).nout}}

\* The ends of edges that name a port their kernel does not have.
ArityErrors ==
  LET At(what, I) == {<<i, what>> : i \in I}
  IN  At("source", {i \in DOMAIN edges : edges[i].sport > Find(edges[i].src).nout})
        \cup At("dest", {i \in DOMAIN edges : edges[i].dport > Find(edges[i].dst).nin})
        \cup At("source below 1", {i \in DOMAIN edges : edges[i].sport < 1})
        \cup At("dest below 1", {i \in DOMAIN edges : edges[i].dport < 1})

AnalyzePortArity ==
  /\ phase = "arity"
  /\ errors' = errors + Cardinality(ArityErrors)
  /\ phase' = "cycles"
  /\ UNCHANGED <<program, parserVars, resolverVars, graphVars, backVars>>

Succ ==
  [v \in NamesOf(kernels) |->
     LET out == Selected(edges, {i \in DOMAIN edges : edges[i].src = v})
     IN  [i \in DOMAIN out |-> out[i].dst]]

\* Tarjan::run starts from each kernel that has not been reached.
StartSearch ==
  /\ phase = "cycles" /\ search.calls = <<>>
  /\ \E i \in DOMAIN kernels :
       /\ kernels[i].name \notin DOMAIN search.idx
       /\ \A j \in 1 .. i - 1 : kernels[j].name \in DOMAIN search.idx
       /\ search' = Enter(search, kernels[i].name)
  /\ UNCHANGED <<program, phase, parserVars, resolverVars, graphVars, errors, warned, build, exit>>

LookAtSuccessor ==
  /\ phase = "cycles" /\ search.calls # <<>>
  /\ Last(search.calls).next <= Len(Succ[Last(search.calls).v])
  /\ search' = Look(Succ, search)
  /\ UNCHANGED <<program, phase, parserVars, resolverVars, graphVars, errors, warned, build, exit>>

LeaveNode ==
  /\ phase = "cycles" /\ search.calls # <<>>
  /\ Last(search.calls).next > Len(Succ[Last(search.calls).v])
  /\ search' = Leave(search)
  /\ UNCHANGED <<program, phase, parserVars, resolverVars, graphVars, errors, warned, build, exit>>

\* A component of two or more kernels is warned of unless one of them is
\* host-controlled.  With an error from the analyses, the driver returns.
AnalyzeCycles ==
  /\ phase = "cycles" /\ search.calls = <<>>
  /\ NamesOf(kernels) \subseteq DOMAIN search.idx
  /\ warned' = {c \in search.sccs : Cardinality(c) >= 2 /\ \A n \in c : ~Find(n).host}
  /\ phase' = IF errors > 0 THEN "ended" ELSE "lower"
  /\ exit' = IF errors > 0 THEN errors ELSE exit
  /\ UNCHANGED <<program, parserVars, resolverVars, graphVars, errors, search, build>>

-----------------------------------------------------------------------------
(* Lowering and the back ends.                                             *)

\* The list an edge goes to.  Its source is looked at first.
Channel(e) ==
  LET s == Find(e.src).special
      d == Find(e.dst).special
  IN  CASE s = "tor_in"  -> "tor"
        [] s = "nic_in"  -> "nic"
        [] s = "host_in" -> "host_in"
        [] s = "Idle"    -> "none"
        [] s \notin Sources /\ d = "tor_out"  -> "tor"
        [] s \notin Sources /\ d = "nic_out"  -> "nic"
        [] s \notin Sources /\ d = "host_out" -> "host_out"
        [] s \notin Sources /\ d = "Drop"     -> "none"
        [] OTHER -> "stream"

\* The edges that go to one of the lists cs.
EdgesTo(cs) == Selected(edges, {i \in DOMAIN edges : Channel(edges[i]) \in cs})

\* Host streams get slot numbers from 32 on, in the order of their edges.
HostStreams ==
  LET es == EdgesTo({"host_in", "host_out"})
  IN  [i \in DOMAIN es |->
         [slot |-> 31 + i, to_host |-> Channel(es[i]) = "host_out",
          kernel |-> IF Channel(es[i]) = "host_in" THEN es[i].dst ELSE es[i].src,
          port |-> IF Channel(es[i]) = "host_in" THEN es[i].dport ELSE es[i].sport]]

LowerToBackend ==
  /\ phase = "lower"
  /\ LET user == Selected(kernels, {i \in DOMAIN kernels : kernels[i].special = "none"})
         host == Selected(user, {i \in DOMAIN user : user[i].host})
     IN  build' = [made |-> TRUE, kernels |-> user,
                   signals |-> [i \in DOMAIN host |-> [gid |-> host[i].gid,
                                 name |-> host[i].name, base |-> host[i].base]],
                   stream |-> EdgesTo({"stream"}),
                   tor    |-> EdgesTo({"tor"}),
                   nic    |-> EdgesTo({"nic"}),
                   host   |-> HostStreams]
  /\ phase' = "emit"
  /\ UNCHANGED <<program, parserVars, resolverVars, graphVars, errors, search, warned, exit>>

\* Mutant: whether the back ends could write their files is not looked at.
MutEmitSilent ==
  /\ phase = "emit"
  /\ \E n \in 0 .. MaxWriteErrors : errors' = errors + n
  /\ exit' = errors
  /\ phase' = "ended"
  /\ UNCHANGED <<program, parserVars, resolverVars, graphVars, search, warned, build>>

\* The back ends: each file that cannot be opened is an error.
Emit ==
  /\ phase = "emit"
  /\ \E n \in 0 .. MaxWriteErrors :
       /\ errors' = errors + n
       /\ exit' = IF n = 0 THEN errors' ELSE Failure(errors')
  /\ phase' = "ended"
  /\ UNCHANGED <<program, parserVars, resolverVars, graphVars, search, warned, build>>

\* The process has ended.
Terminated ==
  /\ phase \in {"ended", "aborted"}
  /\ UNCHANGED vars

Parse    == ParseImport \/ ParseElementDecl \/ ParseElementGroupDecl \/ ParseDeclOrChain
              \/ ParseError \/ EndFile
Resolve  == CollectDecl \/ EndCollect \/ ProcessTop \/ InlineGroup \/ InlineEnd
              \/ SynthesizeSpecials \/ EndResolve
Analyze  == AnalyzePortArity \/ StartSearch \/ LookAtSuccessor \/ LeaveNode \/ AnalyzeCycles

Next == OpenInput \/ Parse \/ Resolve \/ Analyze \/ LowerToBackend \/ Emit \/ Terminated

\* The compiler runs.
Spec == Init /\ [][Next]_vars /\ WF_vars(Next)

-----------------------------------------------------------------------------
(* Properties.                                                             *)

Accepted == build.made

\* The subsets of V that no pair of R leaves.  A node reaches another if
\* every closed set with the one has the other.
ClosedSets(V, R) == {S \in SUBSET V : \A p \in R : p[1] \in S => p[2] \in S}

\* The files that name each other in an import, and those the input reaches.
ImportPairs ==
  LET F == DOMAIN program.files
  IN  {p \in F \X F : \E i \in DOMAIN program.files[p[1]] :
         program.files[p[1]][i].form = "import" /\ program.files[p[1]][i].file = p[2]}

Reached ==
  {f \in DOMAIN program.files :
     \A S \in ClosedSets(DOMAIN program.files, ImportPairs) : program.main \in S => f \in S}

\* Indices of the elements that a file declares.
ElementsOf(f) == {i \in DOMAIN program.files[f] : program.files[f][i].form = "element"}

\* ImportedOnce: the elements of every file that is reached by imports are
\* declared exactly once, however often and in whatever circle the files
\* import each other.
ImportedOnce ==
  /\ \A m, n \in DOMAIN stack : stack[m].file = stack[n].file => m = n
  /\ phase = "collect" /\ errors = 0 =>
       Cardinality({i \in DOMAIN stmts : stmts[i].kind = "element"})
         = SumFunction([f \in Reached |-> Cardinality(ElementsOf(f))])

\* The kernels that reach x along the connections and are reached from it.
ClassOf(x) ==
  LET V == NamesOf(kernels)
      C == ClosedSets(V, {<<edges[i].src, edges[i].dst>> : i \in DOMAIN edges})
  IN  {y \in V : \A S \in C : x \in S <=> y \in S}

\* CyclesFound: the components the search warns of are exactly the classes
\* of two or more kernels that reach each other along the connections, none
\* of them host-controlled.
CyclesFound ==
  phase \in {"lower", "ended"} /\ search # NewSearch =>
    warned = {c \in {ClassOf(x) : x \in NamesOf(kernels)} :
                Cardinality(c) >= 2 /\ \A n \in c : ~Find(n).host}

\* Name and port of one end of a connection of the build are a kernel and a
\* port of it.
Connected(name, port, inputs) ==
  \E i \in DOMAIN build.kernels :
    /\ build.kernels[i].name = name
    /\ port \in 1 .. (IF inputs THEN build.kernels[i].nin ELSE build.kernels[i].nout)

Among(name, specials) == \E s \in specials : name = Id(s)

\* Idle never produces and Drop discards; a boundary stream that ends in Drop
\* is still a stream of the boundary.
Swallowed(e) ==
  \/ Find(e.src).special = "Idle"
  \/ Find(e.src).special \notin Sources /\ Find(e.dst).special = "Drop"

\* Wired: every connection of an accepted program is in exactly one list of
\* the build, unless Idle or Drop swallows it, and each of its ends is a port
\* that a kernel of the build has or a boundary.  (begin and end are accepted
\* outside a group, and then count as boundaries.)  Every kernel has a definite
\* number of ports, also if neither its instance nor its element gives one.
Wired ==
  Accepted =>
    /\ \A k \in ToSet(build.kernels) : k.nin \in Nat /\ k.nout \in Nat
    /\ \A i \in DOMAIN build.stream :
         LET e == build.stream[i] IN
         /\ Connected(e.src, e.sport, FALSE) \/ Among(e.src, Aliases)
         /\ Connected(e.dst, e.dport, TRUE) \/ Among(e.dst, Aliases)
    /\ \A e \in ToSet(build.tor) \cup ToSet(build.nic) :
         /\ Connected(e.src, e.sport, FALSE) \/ Among(e.src, Sources \cup Aliases)
         /\ Connected(e.dst, e.dport, TRUE) \/ Among(e.dst, Sinks \cup Aliases)
    /\ \A i \in DOMAIN build.host :
         LET h == build.host[i] IN
         Connected(h.kernel, h.port, ~h.to_host) \/ Among(h.kernel, Sinks \cup Aliases)
    /\ Len(build.stream) + Len(build.tor) + Len(build.nic) + Len(build.host)
         = Cardinality({i \in DOMAIN edges : ~Swallowed(edges[i])})

\* Addressed: the register blocks of different host-controlled kernels do not
\* overlap and their signal numbers differ, also where a group or an anonymous
\* instance brings the kernel in; host streams have slots of their own.
Addressed ==
  Accepted =>
    /\ \A i, j \in DOMAIN build.signals :
         i # j => /\ build.signals[i].gid # build.signals[j].gid
                  /\ \/ build.signals[i].base + 128 <= build.signals[j].base
                     \/ build.signals[j].base + 128 <= build.signals[i].base
    /\ \A i, j \in DOMAIN build.host :
         i # j => build.host[i].slot # build.host[j].slot

\* What the operating system keeps of the value main returns.
Status == exit % 256

\* ExitCode: when the compiler ends, its status is 0 exactly if there was no
\* error in any phase, including the writing of the files, and, unless it was
\* only to parse, a build was made; a number of errors divisible by 256 is
\* the one exception.
ExitCode ==
  phase = "ended" =>
    (Status = 0 <=> \/ errors = 0 /\ (program.parse_only \/ build.made)
                    \/ errors > 0 /\ errors % 256 = 0)

\* The program instantiates a group that contains itself, directly or through
\* others: in G every group has an instance of a group of G in its body, and
\* some statement instantiates one.  An element hides a group of its name.
\* inlineGroup then calls itself without end.
Endless ==
  /\ phase = "process"
  /\ \E G \in SUBSET (DOMAIN groups \ DOMAIN elems) :
       LET InstanceOf(ss) == \E i \in DOMAIN ss : ss[i].kind = "inst" /\ ss[i].type \in G
       IN  InstanceOf(stmts) /\ \A g \in G : InstanceOf(groups[g].body)

\* Finishes: the compiler ends, whatever files import each other and however
\* groups are nested, unless the program instantiates a group that contains
\* itself.
Finishes == []~Endless => <>(phase \in {"ended", "aborted"})
=============================================================================
