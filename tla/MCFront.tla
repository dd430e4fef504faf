------------------------------ MODULE MCFront -------------------------------
(***************************************************************************)
(* The compiler from characters to the build plan: either the body of an   *)
(* element is lexed, or one of MCCompiler's programs is compiled.  (A body *)
(* that is lexed belongs to a program without an input file, so that the   *)
(* compiler itself has next to nothing to do.)                             *)
(***************************************************************************)
EXTENDS MCCompiler, Lexer

CONSTANTS BlockLength, TokenLength   \* bounds on the enumerated texts

Strings(chars, n) == UNION {[1 .. k -> chars] : k \in 0 .. n}

\* Every short block, and what is left when it is over; every short text of
\* tokens; every short .hls_pragma block, followed by a block.
MCTexts ==
  {<<>>}
  \cup {<<"k", "{">> \o s : s \in Strings({"{", "}", "/", "*", "dq", "sq", "bs", "nl"}, BlockLength)}
  \cup {<<"k", "{">> \o s : s \in Strings({"{", "}", "dq", "sq", "x", "R", "1", "(", ")"}, TokenLength)}
  \cup Strings({"k", "{", "}", "/", "*", "#", "nl", "x", "bs"}, TokenLength)
  \cup {<<"p", "{">> \o s \o <<"}", "sp", "k", "{", "#", "}", "}">> :
          s \in Strings({"dq", "bs", ";", "/", "}"}, TokenLength)}

\* Every short block with numbers, comments and joined lines in it.
CppTexts == {<<"k", "{">> \o s : s \in Strings({"}", "1", "sq", "/", "bs", "nl"}, BlockLength)}

NoInput == [files |-> <<>>, main |-> "none", parse_only |-> FALSE]
MCInputs == MCPrograms \cup {NoInput}
OneInput == {NoInput}

MCInit == (text = <<>> \/ program = NoInput) /\ LexInit /\ Init

\* The body comes first.
MCNext == \/ LexNext /\ UNCHANGED vars
          \/ place \in {"done", "failed"} /\ Next /\ UNCHANGED lexVars

MCSpec == /\ MCInit /\ [][MCNext]_<<vars, lexVars>>
          /\ WF_<<vars, lexVars>>(MCNext)
=============================================================================
