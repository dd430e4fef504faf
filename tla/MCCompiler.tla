----------------------------- MODULE MCCompiler -----------------------------
(***************************************************************************)
(* Programs for the compiler: every way to connect two instances and the   *)
(* boundary with up to MaxConns connections, over two elements, and        *)
(* programs with imports, groups, anonymous instances and errors.          *)
(***************************************************************************)
EXTENDS Compiler

CONSTANT MaxConns   \* connections in the enumerated programs

Element(name, nin, nout) == [form |-> "element", name |-> name, nin |-> nin, nout |-> nout]

Inst(type, name, host, nin, nout) ==
  [form |-> "inst", type |-> type, name |-> Id(name), anonymous |-> FALSE,
   host |-> host, nin |-> nin, nout |-> nout]

Node(name, port) == [anonymous |-> FALSE, name |-> Id(name), port |-> port, depth |-> -1]

Anon(type, line, column) ==
  [anonymous |-> TRUE, type |-> type, name |-> <<<<type, line, column>>>>, host |-> FALSE,
   nin |-> 1, nout |-> 1, port |-> 0, depth |-> -1]

Chain(nodes) == [form |-> "chain", nodes |-> nodes, lossy |-> [k \in 1 .. Len(nodes) - 1 |-> FALSE]]

Group(name, body) == [form |-> "group", name |-> name, body |-> body]
Import(file)      == [form |-> "import", file |-> file]
Bad               == [form |-> "bad"]

File(forms) == [files |-> [f \in {"main"} |-> forms], main |-> "main", parse_only |-> FALSE]

Declared == <<Element("Pass", -1, -1), Element("Tee", 1, 2),
              Inst("Pass", "a", FALSE, -1, -1), Inst("Tee", "b", FALSE, 0, 2)>>

\* Ends of connections.  Port 0 is a port that is not written.
From == {Node("a", 0), Node("b", 0), Node("b", 2), Node("a", 2), Node("tor_in", 0),
         Node("Idle", 0)}
To   == {Node("a", 0), Node("a", 2), Node("b", 1), Node("nic_out", 0), Node("Drop", 0)}

Graphs3 ==
  {File(Declared \o cs) :
     cs \in UNION {[1 .. n -> {Chain(<<x, y>>) : x \in From, y \in To}] : n \in 0 .. MaxConns}}

\* Three host-controlled or plain instances in rings and chains of all shapes.
Rings ==
  {File(<<Element("Pass", 1, 1), Inst("Pass", "a", ha, -1, -1), Inst("Pass", "b", FALSE, -1, -1),
          Inst("Pass", "c", hc, -1, -1)>> \o cs) :
     ha \in BOOLEAN, hc \in BOOLEAN,
     cs \in [1 .. 3 -> {Chain(<<Node(x, 0), Node(y, 0)>>) :
                          x \in {"a", "b", "c"}, y \in {"a", "b", "c"}}]}

\* Components that share successors with others that are already complete.
TwoRings ==
  {File(<<Element("Pass", 2, 2), Inst("Pass", "a", FALSE, -1, -1), Inst("Pass", "b", FALSE, -1, -1),
          Inst("Pass", "c", FALSE, -1, -1), Inst("Pass", "d", FALSE, -1, -1),
          Chain(<<Node("a", 0), Node("b", 0), Node("a", 2)>>),
          Chain(<<Node("c", 0), Node("d", 0)>>), x, y>>) :
     x \in {Chain(<<Node("d", 2), Node(n, 2)>>) : n \in {"a", "b", "c"}},
     y \in {Chain(<<Node(m, 2), Node(n, 2)>>) : m \in {"a", "b", "c", "d"}, n \in {"a", "c", "d"}}}

Imports ==
  {[files |-> [f \in {"main", "x", "y"} |->
                 CASE f = "main" -> <<Import(i), Import(j), Inst("Pass", "a", TRUE, -1, -1),
                                      Inst("Tee", "b", TRUE, -1, -1),
                                      Chain(<<Node("host_in", 0), Node("a", 0), Node("host_out", 0)>>)>>
                   [] f = "x" -> <<Import(k), Element("Pass", 1, 1)>>
                   [] f = "y" -> <<Element("Tee", 1, 2), Import("main")>>],
    main |-> m, parse_only |-> p] :
     i \in {"x", "y"}, j \in {"x", "y", "none"}, k \in {"x", "y", "main"},
     m \in {"main", "none"}, p \in BOOLEAN}

Inner == Group("Inner", <<Inst("Pass", "p", FALSE, -1, -1), Inst("Pass", "q", TRUE, -1, -1),
                          Chain(<<Node("p", 0), Node("q", 0)>>)>>)

\* Groups that touch nothing outside, once and nested.
Closed ==
  {File(<<Element("Pass", 1, 1), Inner,
          Group("Outer", <<Inst("Inner", "u", FALSE, -1, -1), Anon2, Inst("Inner", "v", FALSE, -1, -1)>>),
          Inst(t, "g", FALSE, -1, -1), Inst("Inner", "h", FALSE, -1, -1)>>) :
     t \in {"Inner", "Outer"},
     Anon2 \in {Chain(<<Anon("Pass", 3, 9)>>), Inst("Nope", "n", FALSE, -1, -1), Bad}}

\* Groups that contain themselves or each other, below groups that do not.  Only
\* what is instantiated is inlined, and an element hides the group of its name.
Recursive ==
  {File(<<Element("Pass", 1, 1), Inner, Group("Self", <<Inst(s, "p", FALSE, -1, -1)>>),
          Group("Ping", <<Inst("Inner", "i", FALSE, -1, -1), Inst("Pong", "p", FALSE, -1, -1)>>),
          Group("Pong", <<Inst("Ping", "q", FALSE, -1, -1)>>),
          Element(e, 1, 1), Inst(t, "g", FALSE, -1, -1)>>) :
     <<s, e, t>> \in {<<"Self", "Tee", "Inner">>, <<"Self", "Self", "Self">>,
                      <<"Self", "Ping", "Pong">>, <<"Self", "Pong", "Ping">>,
                      <<"Ping", "Ping", "Self">>}}

\* A group, and an anonymous instance, in the middle of a path.
Open ==
  {File(<<Element("Pass", 1, 1),
          Group("G", <<Inst("Pass", "p", FALSE, -1, -1),
                       Chain(<<Node("begin", 0), Node("p", 0), Node("end", 0)>>)>>),
          Inst("G", "g", FALSE, -1, -1),
          Chain(<<Node("tor_in", 0), Node("g", 0), Node("nic_out", 0)>>)>>),
   File(<<Element("Pass", 1, 1),
          Chain(<<Node("tor_in", 0), Anon("Pass", 2, 11), Node("nic_out", 0)>>)>>)}

\* Programs with errors of every sort.
Faulty ==
  {File(<<Element("Pass", 1, 1), e, Inst("Pass", "a", FALSE, -1, -1),
          Chain(<<Node(n, 0), Node("a", 0), Node("host_out", 0)>>), d>>) :
     e \in {Element("Pass", 1, 1), Inner, Bad},
     n \in {"host_in", "begin", "zzz", "a"},
     d \in {Inner, Inst("Nope", "z", FALSE, -1, -1), Inst("Pass", "a", FALSE, 2, 2)}}

\* A port number that the cast to int has made negative.
Wrapped ==
  {File(<<Element("Pass", 1, 1), Inst("Pass", "a", FALSE, -1, -1),
          Chain(<<Node("tor_in", 0), Node("a", -1), Node("nic_out", 0)>>)>>)}

\* A program with 256 errors.
Long == {File([i \in 1 .. 256 |-> Inst("Nope", "a", FALSE, -1, -1)])}

MCPrograms == Graphs3 \cup Rings \cup TwoRings \cup Imports \cup Closed \cup Recursive \cup Open \cup Faulty \cup Wrapped \cup Long

-----------------------------------------------------------------------------
\* Nodes a connection may name in the statements ss.
Nameable(ss, specials) ==
  {Id(s) : s \in specials} \cup {ss[i].name : i \in {j \in DOMAIN ss : ss[j].kind = "inst"}}

NamesKnown(ss, specials) ==
  \A i \in DOMAIN ss :
    /\ ss[i].kind = "inst" => ss[i].type \in DOMAIN elems \cup DOMAIN groups
    /\ ss[i].kind = "conn" => {ss[i].source.name, ss[i].dest.name} \subseteq Nameable(ss, specials)

\* NodesFound: if every type that is used is declared and every node of a
\* chain is an instance of the program, named or anonymous, of an element or
\* of a group, or a special node, then the resolver reports no unknown node.
NodesFound ==
  (/\ phase = "slots"
   /\ NamesKnown(stmts, Sources \cup Sinks)
   /\ \A i \in DOMAIN stmts : stmts[i].kind = "group" => NamesKnown(stmts[i].body, Aliases))
  => \A i \in DOMAIN edges : {edges[i].src, edges[i].dst} \subseteq NamesOf(kernels)
=============================================================================
