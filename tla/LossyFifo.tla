----------------------------- MODULE LossyFifo ------------------------------
(***************************************************************************)
(* What the pipelines of elements that lead from one source to several     *)
(* exits promise: each hands over the numbers that are sent in the order   *)
(* in which they were sent, none of them twice, and may lose any of them   *)
(* on the way; what one of them loses another may still hand over.         *)
(***************************************************************************)
EXTENDS Naturals, Sequences, SequencesExt

CONSTANTS MaxSent, Exits

VARIABLES
  sent,    \* numbers 1 .. sent have been sent
  flight,  \* flight[x]: the ones under way to exit x
  got      \* got[x]: the ones handed over at exit x

vars == <<sent, flight, got>>

Init ==
  /\ sent = 0
  /\ flight = [x \in Exits |-> <<>>]
  /\ got = [x \in Exits |-> <<>>]

Send ==
  /\ sent < MaxSent
  /\ sent' = sent + 1
  /\ flight' = [x \in Exits |-> Append(flight[x], sent + 1)]
  /\ UNCHANGED got

Deliver(x) ==
  /\ flight[x] # <<>>
  /\ got'[x] = Append(got[x], Head(flight[x]))
  /\ flight'[x] = Tail(flight[x])

Lose(x) ==
  /\ got'[x] = got[x]
  /\ \E n \in DOMAIN flight[x] : flight'[x] = RemoveAt(flight[x], n)

Keep(x) ==
  /\ got'[x] = got[x]
  /\ flight'[x] = flight[x]

\* A stream that several pipelines share loses a number for all of them.
Proceed ==
  /\ UNCHANGED sent
  /\ flight' \in [Exits -> Seq(Nat)]
  /\ got' \in [Exits -> Seq(Nat)]
  /\ \A x \in Exits : Deliver(x) \/ Lose(x) \/ Keep(x)

Next == Send \/ Proceed

Spec == Init /\ [][Next]_vars
=============================================================================
