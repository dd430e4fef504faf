------------------------------ MODULE SlotMux -------------------------------
(***************************************************************************)
(* slot_mux: the round-robin merger of NUM_SLOTS streams onto one AXIS     *)
(* output, cycle by cycle.  A source that asserts tvalid keeps it asserted *)
(* until its flit is taken; the reader of the output asserts tready when   *)
(* it likes.  waited[s] counts the flits of other slots that went out      *)
(* while slot s had one waiting.                                           *)
(***************************************************************************)
EXTENDS Naturals

CONSTANT NumSlots

ASSUME SlotMuxAssumption == NumSlots \in Nat \ {0}

Slots == 0 .. NumSlots - 1

VARIABLES valid, ready, rr, waited

vars == <<valid, ready, rr, waited>>

TypeOK ==
  /\ valid \subseteq Slots
  /\ ready \in BOOLEAN
  /\ rr \in Slots
  /\ waited \in [Slots -> Nat]

Init ==
  /\ valid = {}
  /\ ready = FALSE
  /\ rr = 0
  /\ waited = [s \in Slots |-> 0]

\* Mutants: the search starts at the slot served last; it does not wrap.
MutCandidateSame(j)   == (rr + j) % NumSlots
MutCandidateNoWrap(j) == rr + 1 + j

\* The slot examined in turn j.
Candidate(j) == (rr + 1 + j) % NumSlots

\* grant: the first valid candidate.
Grants(s) ==
  \E j \in Slots : /\ s = Candidate(j)
                   /\ s \in valid
                   /\ \A i \in Slots : i < j => Candidate(i) \notin valid

\* Flits that arrive in this cycle at sources whose last one is gone.
Arrive(rest, new) == valid' = rest \cup new

\* tvalid and tready: the flit of the granted slot goes out.
Transfer(s, new) ==
  /\ ready
  /\ Grants(s)
  /\ rr' = s
  /\ Arrive(valid \ {s}, new)
  /\ waited' = [t \in Slots |->
       IF t # s /\ t \in valid THEN waited[t] + 1 ELSE 0]

\* Mutant: the pointer moves on a valid flit even if it is not taken.
MutHoldMoves(new) ==
  /\ ~ready \/ valid = {}
  /\ Arrive(valid, new)
  /\ rr' = CHOOSE r \in Slots : Grants(r) \/ (valid = {} /\ r = rr)
  /\ UNCHANGED waited

\* A cycle without a transfer.
Hold(new) ==
  /\ ~ready \/ valid = {}
  /\ Arrive(valid, new)
  /\ UNCHANGED <<rr, waited>>

\* rstn is low; the sources are reset too.
Reset ==
  /\ rr' = 0
  /\ valid' = {}
  /\ waited' = [s \in Slots |-> 0]

Next ==
  /\ ready' \in BOOLEAN
  /\ \/ \E new \in SUBSET Slots : Hold(new) \/ \E s \in Slots : Transfer(s, new)
     \/ Reset

Spec == Init /\ [][Next]_vars

-----------------------------------------------------------------------------
\* The output never idles while a slot has a flit, and never mixes the flits of
\* two slots: whatever rr is, the search reaches every slot exactly once.
OneGrant ==
  valid # {} => \E s \in Slots : /\ Grants(s)
                                 /\ \A t \in Slots : Grants(t) => t = s

\* No slot starves: while its flit waits, at most NUM_SLOTS - 1 flits of other
\* slots go out, whenever they arrive and however long the reader stalls.
BoundedWait == \A s \in Slots : waited[s] <= NumSlots - 1

\* While the reader stalls with tready low, the flit it is offered is replaced
\* only by one that has just arrived at a slot nearer to its turn, never by one
\* that was already waiting.
StallKeepsOrder ==
  [][(~ready /\ valid \subseteq valid') =>
       \A s \in Slots, t \in valid : Grants(s) /\ Grants(t)' => t = s]_vars
=============================================================================
