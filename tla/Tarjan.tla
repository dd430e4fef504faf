------------------------------- MODULE Tarjan -------------------------------
(***************************************************************************)
(* The search for strongly connected components of cycles.cpp, as steps on *)
(* a record.  calls is the C++ stack of strong(v): which node, and which   *)
(* of its successors is looked at next.  succ maps a node to the sequence  *)
(* of its successors.  onstack of the code is membership in stk.           *)
(***************************************************************************)
EXTENDS Naturals, Sequences, SequencesExt

NewSearch ==
  [idx |-> <<>>, low |-> <<>>, counter |-> 0, stk |-> <<>>, sccs |-> {}, calls |-> <<>>]

Least(m, n) == IF m <= n THEN m ELSE n

\* f with one more argument.
Extended(f, v, n) == [x \in DOMAIN f \cup {v} |-> IF x = v THEN n ELSE f[x]]

\* The head of strong(v).
Enter(t, v) ==
  [t EXCEPT !.idx = Extended(@, v, t.counter), !.low = Extended(@, v, t.counter),
            !.counter = @ + 1, !.stk = Append(@, v),
            !.calls = Append(@, [v |-> v, next |-> 1])]

\* strong(w) has come back to the loop of its caller, if it has one.
Returned(t, w) ==
  IF t.calls = <<>> THEN t
  ELSE [t EXCEPT !.low[Last(t.calls).v] = Least(@, t.low[w]),
                 !.calls[Len(t.calls)].next = @ + 1]

\* Mutant: a successor that has been seen is taken to be in the component
\* under construction.
MutLookAnySeen(succ, t) ==
  LET c == Last(t.calls)
      w == succ[c.v][c.next]
  IN  IF w \notin DOMAIN t.idx THEN Enter(t, w)
      ELSE [t EXCEPT !.low[c.v] = Least(@, t.idx[w]),
                     !.calls[Len(t.calls)].next = @ + 1]

\* Mutant: the loop does not go on after a successor that has been seen.
MutLookStays(succ, t) ==
  LET c == Last(t.calls)
      w == succ[c.v][c.next]
  IN  IF w \notin DOMAIN t.idx THEN Enter(t, w)
      ELSE [t EXCEPT !.low[c.v] = IF Contains(t.stk, w) THEN Least(@, t.idx[w]) ELSE @]

\* One turn of the loop over succ[v].
Look(succ, t) ==
  LET c == Last(t.calls)
      w == succ[c.v][c.next]
  IN  IF w \notin DOMAIN t.idx THEN Enter(t, w)
      ELSE [t EXCEPT !.low[c.v] = IF Contains(t.stk, w) THEN Least(@, t.idx[w]) ELSE @,
                     !.calls[Len(t.calls)].next = @ + 1]

\* The end of strong(v): the root of a component takes it off stk.
Leave(t) ==
  LET v    == Last(t.calls).v
      back == [t EXCEPT !.calls = Front(@)]
      at   == CHOOSE i \in DOMAIN t.stk : t.stk[i] = v
  IN  Returned(IF t.low[v] # t.idx[v] THEN back
               ELSE [back EXCEPT !.stk = SubSeq(@, 1, at - 1),
                                 !.sccs = @ \cup {ToSet(SubSeq(t.stk, at, Len(t.stk)))}],
               v)
=============================================================================
