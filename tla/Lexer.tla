------------------------------- MODULE Lexer --------------------------------
(***************************************************************************)
(* The body of an element, from its characters to the blocks of C++ that   *)
(* are passed through: the lexer's two modes, tokens and opaque blocks,    *)
(* and parseElementBody, which switches between them.                      *)
(*                                                                         *)
(* A character is one of those that the two modes tell apart:              *)
(*   { } / * # ;   themselves        dq, sq   a double, a single quote     *)
(*   ( )           themselves        bs       backslash                    *)
(*   nl, sp        line feed, any other white space or punctuation         *)
(*   R             a prefix of raw strings: R, LR, uR, UR or u8R           *)
(*   x, 1          any other word; a number; each in one character         *)
(*   k, p          the directives .state, .init and .handler; .hls_pragma  *)
(* .timing and the parameters of .signal, which have tokens only, are left *)
(* out.                                                                    *)
(***************************************************************************)
EXTENDS Integers, Sequences, FiniteSetsExt

CONSTANT Texts   \* what may follow the { that opens the element's body

\* The alphabet, and nothing else, is asked of the texts.
Chars == {"{", "}", "/", "*", "#", ";", "(", ")", "dq", "sq", "bs", "nl", "sp",
          "x", "R", "1", "k", "p"}

ASSUME LexerAssumption == \A t \in Texts : t \in Seq(Chars)

VARIABLES
  text,      \* the characters
  pos,       \* pos_, from 1
  cur,       \* the parser's current token: [kind, to]
  place,     \* where the parser is
  depth,     \* of the braces in the current block
  from,      \* where that block began
  blocks,    \* the blocks found: [from, to]
  reported   \* errors reported

lexVars == <<text, pos, cur, place, depth, from, blocks, reported>>

peek(p) == IF p <= Len(text) THEN text[p] ELSE "end"

\* The first position from p on at which test holds, or the end.
Seek(p, test(_)) == Min({q \in p .. Len(text) : test(q)} \cup {Len(text) + 1})

EndOfLine(p) == Seek(p, LAMBDA q : text[q] = "nl")

\* Mutant: the star of the opening is also taken for that of the close.
MutEndOfComment(p) ==
  Min({Len(text) + 1, Seek(p + 1, LAMBDA q : text[q] = "*" /\ peek(q + 1) = "/") + 2})

\* Where a comment that begins at p is over.
EndOfComment(p) ==
  Min({Len(text) + 1, Seek(p + 2, LAMBDA q : text[q] = "*" /\ peek(q + 1) = "/") + 2})

\* Mutant: an escaped backslash escapes the quote behind it.
MutClosing(p, quote) == Seek(p, LAMBDA q : text[q] = quote /\ peek(q - 1) # "bs")

\* The quote that ends a literal whose contents begin at p, or the end.
Closing(p, quote) ==
  LET close[q \in 1 .. Len(text) + 2] ==
        IF q > Len(text) THEN Len(text) + 1
        ELSE IF text[q] = quote THEN q
        ELSE close[IF text[q] = "bs" THEN q + 2 ELSE q + 1]
  IN  close[p]

skipWhitespaceAndComments(p) ==
  LET skip[q \in 1 .. Len(text) + 1] ==
        CASE peek(q) \in {"sp", "nl"}                -> skip[q + 1]
          [] peek(q) = "/" /\ peek(q + 1) = "/"      -> skip[EndOfLine(q)]
          [] peek(q) = "/" /\ peek(q + 1) = "*"      -> skip[EndOfComment(q)]
          [] peek(q) = "#"                           -> skip[EndOfLine(q)]
          [] OTHER                                   -> q
  IN  skip[p]

Token(kind, to) == [kind |-> kind, to |-> to]

lexString(p) ==
  LET q == Closing(p + 1, "dq")
  IN  IF q > Len(text) THEN Token("Error", q) ELSE Token("StringLit", q + 1)

\* Identifiers, keywords and numbers; directives the lexer knows.  A directive it
\* does not know is an error like any character out of place.
Words      == {"x", "R", "1"}
Directives == {"k", "p"}

\* The token at or after p.
next(p) ==
  LET s == skipWhitespaceAndComments(p)
      c == peek(s)
  IN  CASE c = "end"                              -> Token("Eof", s)
        [] c = "dq"                               -> lexString(s)
        [] c \in {"{", "}", ";", "*", "(", ")"}    -> Token(c, s + 1)
        [] c \in Words \cup Directives            -> Token(c, s + 1)
        [] OTHER                                  -> Token("Error", s + 1)

\* The lexer reports the tokens it cannot make out.
Faults(t) == IF t.kind = "Error" THEN 1 ELSE 0

\* The parser's advance(), with errors of its own beside the lexer's.
Advance(p, errs) ==
  /\ cur' = next(p)
  /\ pos' = cur'.to
  /\ reported' = reported + errs + Faults(cur')

\* The parser reports an error and stays where it is.
Refuse(verdict) ==
  /\ place' = verdict
  /\ reported' = reported + 1
  /\ UNCHANGED <<pos, cur>>

LexInit ==
  /\ text \in Texts
  /\ cur = next(1) /\ pos = cur.to
  /\ place = "body" /\ depth = 0 /\ from = 0
  /\ blocks = <<>> /\ reported = Faults(cur)

-----------------------------------------------------------------------------
\* One turn of parseElementBody.  The end of the text is reported, and accepted.
ElementBody ==
  /\ place = "body"
  /\ \/ cur.kind = "k" /\ place' = "brace" /\ Advance(pos, 0)
     \/ cur.kind = "p" /\ place' = "pragma brace" /\ Advance(pos, 0)
     \/ cur.kind = "}" /\ place' = "done" /\ Advance(pos, 0)
     \/ cur.kind = "Eof" /\ Refuse("done")
     \/ cur.kind \notin {"k", "p", "}", "Eof"} /\ Refuse("failed")
  /\ UNCHANGED <<text, depth, from, blocks>>

\* The strings of a .hls_pragma block.  A semicolon that is missing is
\* reported, and nothing more.
Pragma ==
  /\ \/ /\ place = "pragma brace"
        /\ \/ cur.kind = "{" /\ place' = "pragma" /\ Advance(pos, 0)
           \/ cur.kind # "{" /\ Refuse("failed")
     \/ /\ place = "pragma"
        /\ \/ cur.kind = "}" /\ place' = "body" /\ Advance(pos, 0)
           \/ cur.kind = "Eof" /\ Refuse("body")
           \/ cur.kind = "StringLit" /\ place' = "semicolon" /\ Advance(pos, 0)
           \/ cur.kind \notin {"}", "Eof", "StringLit"} /\ Refuse("failed")
     \/ /\ place = "semicolon"
        /\ \/ cur.kind = ";" /\ place' = "pragma" /\ Advance(pos, 0)
           \/ cur.kind # ";" /\ Refuse("pragma")
  /\ UNCHANGED <<text, depth, from, blocks>>

\* The lexer goes back behind the brace, into the other mode.
parseBraceBlock ==
  /\ place = "brace"
  /\ \/ /\ cur.kind = "{"
        /\ place' = "block" /\ depth' = 1 /\ from' = cur.to /\ pos' = cur.to
        /\ UNCHANGED <<cur, reported>>
     \/ /\ cur.kind # "{"
        /\ Refuse("failed")
        /\ UNCHANGED <<depth, from>>
  /\ UNCHANGED <<text, blocks>>

\* Mutant: a literal that is left open is given back.
MutOpaqueTurn(p) ==
  CASE peek(p) = "/" /\ peek(p + 1) = "/" -> EndOfLine(p)
    [] peek(p) = "/" /\ peek(p + 1) = "*" -> EndOfComment(p)
    [] peek(p) \in {"dq", "sq"} ->
         LET q == Closing(p + 1, peek(p)) IN IF q > Len(text) THEN p ELSE q + 1
    [] OTHER -> p + 1

\* Where a turn of lexOpaqueBlock's loop that begins at p leads.
OpaqueTurn(p) ==
  CASE peek(p) = "/" /\ peek(p + 1) = "/" -> EndOfLine(p)
    [] peek(p) = "/" /\ peek(p + 1) = "*" -> EndOfComment(p)
    [] peek(p) \in {"dq", "sq"} -> Min({Len(text) + 1, Closing(p + 1, peek(p)) + 1})
    [] OTHER -> p + 1

\* One turn; at the brace that closes the block, the parser takes over again.
lexOpaqueBlock ==
  /\ place = "block"
  /\ \/ /\ pos > Len(text)
        /\ Refuse("failed")
        /\ UNCHANGED <<depth, blocks>>
     \/ /\ peek(pos) = "}" /\ depth = 1
        /\ depth' = 0
        /\ blocks' = Append(blocks, [from |-> from, to |-> pos])
        /\ place' = "body"
        /\ Advance(pos + 1, 0)
     \/ /\ pos <= Len(text) /\ ~(peek(pos) = "}" /\ depth = 1)
        /\ depth' = CASE peek(pos) = "{" -> depth + 1
                      [] peek(pos) = "}" -> depth - 1
                      [] OTHER           -> depth
        /\ pos' = OpaqueTurn(pos)
        /\ UNCHANGED <<cur, place, blocks, reported>>
  /\ UNCHANGED <<text, from>>

LexNext == ElementBody \/ Pragma \/ parseBraceBlock \/ lexOpaqueBlock

LexSpec == LexInit /\ [][LexNext]_lexVars /\ WF_lexVars(LexNext)

-----------------------------------------------------------------------------
\* Reference: the C++17 a block is said to be, one character at a time, with the
\* depth of the braces and what the reading is in:
\*   code; x, R, 1          plain code; a word, a raw string's prefix, a number
\*   1'                     behind a number's quote, which may be a separator
\*   dq, sq; dq bs, sq bs   a literal; behind a backslash in it
\*   R dq; raw, raw )       before the ( of a raw string; in it, behind a )
\*   /; //; /*, /* *        behind a slash; a comment of either sort; behind a *
\* Raw strings have no delimiter; digraphs, macros and #if are not known.

\* Code that ends in c, in a reading that was in m.
Glue(m, c) ==
  CASE c \notin {"x", "R", "1", "k", "p"} -> "code"
    [] m \in {"1", "1'"}                  -> "1"
    [] m \in {"x", "R"}                   -> "x"
    [] OTHER                              -> IF c \in {"R", "1"} THEN c ELSE "x"

Literal(m, c) ==
  IF c = m THEN "code" ELSE IF c = "bs" THEN [dq |-> "dq bs", sq |-> "sq bs"][m] ELSE m

Step(s, c) ==
  CASE s.in \in {"dq", "sq"} -> [s EXCEPT !.in = Literal(s.in, c)]
    [] s.in = "dq bs" -> [s EXCEPT !.in = "dq"]
    [] s.in = "sq bs" -> [s EXCEPT !.in = "sq"]
    [] s.in = "R dq"  -> [s EXCEPT !.in = IF c = "(" THEN "raw" ELSE @]
    [] s.in = "raw"   -> [s EXCEPT !.in = IF c = ")" THEN "raw )" ELSE @]
    [] s.in = "raw )" -> [s EXCEPT !.in = IF c = "dq" THEN "code" ELSE IF c = ")" THEN @ ELSE "raw"]
    [] s.in = "//"    -> [s EXCEPT !.in = IF c = "nl" THEN "code" ELSE @]
    [] s.in = "/*"    -> [s EXCEPT !.in = IF c = "*" THEN "/* *" ELSE @]
    [] s.in = "/* *"  -> [s EXCEPT !.in = IF c = "/" THEN "code" ELSE IF c = "*" THEN @ ELSE "/*"]
    [] s.in = "/" /\ c = "/"  -> [s EXCEPT !.in = "//"]
    [] s.in = "/" /\ c = "*"  -> [s EXCEPT !.in = "/*"]
    [] s.in = "1" /\ c = "sq" -> [s EXCEPT !.in = "1'"]
    [] s.in = "1'" /\ Glue("1'", c) = "code" -> [s EXCEPT !.in = Literal("sq", c)]
    [] s.in = "R" /\ c = "dq" -> [s EXCEPT !.in = "R dq"]
    [] OTHER ->
         [in |-> IF c \in {"dq", "sq", "/"} THEN c ELSE Glue(s.in, c),
          depth |-> CASE c = "{" -> s.depth + 1 [] c = "}" -> s.depth - 1 [] OTHER -> s.depth]

\* A backslash at the end of a line joins it to the next.
Splice(i)  == text[i] = "bs" /\ peek(i + 1) = "nl"
Spliced(i) == Splice(i) \/ (i > 1 /\ text[i] = "nl" /\ text[i - 1] = "bs")

\* The readings of a block that begins at b, after each of its characters.  Lines
\* are joined before anything else is made out, but not in a raw string.
Readings(b) ==
  LET read[i \in b - 1 .. Len(text)] ==
        IF i < b THEN [in |-> "code", depth |-> 1]
        ELSE IF \/ read[i - 1].depth = 0
                \/ Spliced(i) /\ read[i - 1].in \notin {"R dq", "raw", "raw )"}
          THEN read[i - 1]
        ELSE Step(read[i - 1], text[i])
  IN  read

\* Where the block that begins at b ends, by the reference.
ClosingBrace(b) ==
  LET read == Readings(b)
  IN  Min({i \in b .. Len(text) : read[i].depth = 0} \cup {Len(text) + 1})

\* Nothing in the block that lexOpaqueBlock does not provide for: no digit
\* separator, no raw string, and no line joined to the next in the middle of
\* a // comment, of a comment's opening or close, or behind an escape.
Plain(b) ==
  LET read == Readings(b)
  IN  \A i \in b .. Len(text) : read[i - 1].depth # 0 =>
        /\ text[i] = "sq" => read[i - 1].in # "1"
        /\ text[i] = "dq" => read[i - 1].in # "R"
        /\ Splice(i) => read[i - 1].in \in {"code", "x", "R", "1", "dq", "sq", "/*"}

\* Braces are counted with regard to comments, strings with escapes and
\* character literals: every block that is plain ends at the brace that closes it
\* in C++, and is refused only if there is none.
BlocksMatch ==
  /\ \A i \in DOMAIN blocks : Plain(blocks[i].from) => blocks[i].to = ClosingBrace(blocks[i].from)
  /\ place = "failed" /\ depth > 0 /\ Plain(from) => ClosingBrace(from) > Len(text)

\* The same of every block, whatever C++ is in it.
OpaqueCpp17 ==
  /\ \A i \in DOMAIN blocks : blocks[i].to = ClosingBrace(blocks[i].from)
  /\ place = "failed" /\ depth > 0 => ClosingBrace(from) > Len(text)
=============================================================================
