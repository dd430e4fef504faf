----------------------------- MODULE RsaElement -----------------------------
(***************************************************************************)
(* RSA_ModExp_1024: the element that spreads a modular exponentiation over *)
(* many handler runs.  The three operands come in on three ports, Flits    *)
(* flits of LimbsPerFlit limbs each, in whatever order and at whatever     *)
(* pace the ports deliver them; the flits of the next job may be there     *)
(* while the element is still busy with this one.                          *)
(*                                                                         *)
(* A step is an iteration of the kernel loop: since every run returns      *)
(* PORT_ALL, each port whose flit has been taken is read again first, and  *)
(* yields a flit or not; then the handler runs.                            *)
(***************************************************************************)
EXTENDS BigInt, Sequences

CONSTANTS
  Flits, LimbsPerFlit,   \* 4 and 4 in the code
  Feeds                  \* what may come in: sequences of jobs <<m, e, n>>

ASSUME FlitAssumption == Flits \in Nat \ {0} /\ LimbsPerFlit \in Nat \ {0}

LIMBS == Flits * LimbsPerFlit
Ports == 1 .. 3

\* Operands of LIMBS limbs; the modulus is odd, as compute_n_inv requires.
Operand == 0 .. Power(Base, LIMBS) - 1
Job     == Operand \X Operand \X {n \in Operand : n % 2 = 1}

ASSUME FeedAssumption == Feeds \subseteq Seq(Job)

Empty == -1

VARIABLES
  feed,   \* the jobs of this run
  fed,    \* fed[p]: flits read from port p so far
  input,   \* input[p]: the flit in _input_data[p], or Empty
  st,     \* _state; an operand's limbs are one number, as in BigInt
  outs    \* history: the flits the element emitted

elemVars == <<feed, fed, input, st, outs>>

FlitBase == Power(Base, LimbsPerFlit)

\* The limbs of x that flit i carries; x with those limbs replaced.
Slice(x, i)       == (x \div Power(FlitBase, i)) % FlitBase
SetSlice(x, i, v) == x + (v - Slice(x, i)) * Power(FlitBase, i)

\* .init; it leaves the buffers as they are, and none is read before it is set.
ElemInit ==
  /\ feed \in Feeds
  /\ fed = [p \in Ports |-> 0]
  /\ input = [p \in Ports |-> Empty]
  /\ st = [state |-> "COLLECT", idx |-> [p \in Ports |-> 0], out_idx |-> 0,
           bit_idx |-> 0, buf |-> [p \in Ports |-> 0], c_buf |-> 0,
           m_mont |-> 0, r_mont |-> 0, n_inv |-> 0]
  /\ outs = <<>>

-----------------------------------------------------------------------------
\* Flit k, from 0, of port p.
FlitOf(p, k) == Slice(feed[k \div Flits + 1][p], k % Flits)

\* What the ports hold once those in S have been read.
AfterRead(S) == [p \in Ports |-> IF p \in S THEN FlitOf(p, fed[p]) ELSE input[p]]

\* The ports whose flit is taken: one whose operand is complete keeps it.
Takes(h) == {p \in Ports : st.idx[p] < Flits /\ h[p] # Empty}

\* Mutant: the three indices are tested only when a flit of n has been taken.
MutCollected(i) == st.idx[3] < Flits /\ \A p \in Ports : i[p] = Flits

Collected(i) == \A p \in Ports : i[p] = Flits

Collect(S) ==
  /\ st.state = "COLLECT"
  /\ LET h    == AfterRead(S)
         take == Takes(h)
         i    == [p \in Ports |-> IF p \in take THEN st.idx[p] + 1 ELSE st.idx[p]]
     IN  /\ input' = [p \in Ports |-> IF p \in take THEN Empty ELSE h[p]]
         /\ st' = [st EXCEPT
              !.buf = [p \in Ports |->
                 IF p \in take THEN SetSlice(st.buf[p], st.idx[p], h[p]) ELSE st.buf[p]],
              !.idx = i,
              !.state = IF Collected(i) THEN "INIT" ELSE @]
  /\ UNCHANGED outs

Times(x, y) == mont_mul(LIMBS, x, y, st.buf[3], st.n_inv)

InitJob ==
  /\ st.state = "INIT"
  /\ LET n     == st.buf[3]
         n_inv == compute_n_inv(n)
     IN  st' = [st EXCEPT
           !.n_inv  = n_inv,
           !.m_mont = mont_mul(LIMBS, st.buf[1], compute_R2_mod_n(LIMBS, n), n, n_inv),
           !.r_mont = compute_R_mod_n(LIMBS, n),
           !.state  = "FIND_BIT"]
  /\ UNCHANGED outs

\* Where the loop goes with bit b; below 0 it is over.
Bit(b) == [st EXCEPT !.bit_idx = b, !.state = IF b < 0 THEN "FINAL" ELSE "SQUARE"]

FindBit ==
  /\ st.state = "FIND_BIT"
  /\ st' = Bit(bitlen(LIMBS, st.buf[2]) - 1)
  /\ UNCHANGED outs

Square ==
  /\ st.state = "SQUARE"
  /\ st' = [st EXCEPT !.r_mont = Times(@, @), !.state = "MAYBE_MUL"]
  /\ UNCHANGED outs

\* Mutant: the operand is multiplied in before it is in Montgomery form.
MutMaybeMul ==
  /\ st.state = "MAYBE_MUL"
  /\ st' = [st EXCEPT
       !.r_mont = IF bit(st.buf[2], st.bit_idx) = 1 THEN Times(@, st.buf[1]) ELSE @,
       !.state = "NEXT_BIT"]
  /\ UNCHANGED outs

MaybeMul ==
  /\ st.state = "MAYBE_MUL"
  /\ st' = [st EXCEPT
       !.r_mont = IF bit(st.buf[2], st.bit_idx) = 1 THEN Times(@, st.m_mont) ELSE @,
       !.state = "NEXT_BIT"]
  /\ UNCHANGED outs

NextBit ==
  /\ st.state = "NEXT_BIT"
  /\ st' = Bit(st.bit_idx - 1)
  /\ UNCHANGED outs

Final ==
  /\ st.state = "FINAL"
  /\ st' = [st EXCEPT !.c_buf = Times(st.r_mont, 1), !.state = "EMIT"]
  /\ UNCHANGED outs

\* The flit that goes out next.
OutFlit ==
  [data |-> Slice(st.c_buf, st.out_idx),
   sop |-> st.out_idx = 0, eop |-> st.out_idx + 1 = Flits]

\* Mutant: the index of the modulus is not reset.
MutEmit ==
  /\ st.state = "EMIT"
  /\ outs' = Append(outs, OutFlit)
  /\ st' = IF st.out_idx + 1 < Flits THEN [st EXCEPT !.out_idx = @ + 1]
           ELSE [st EXCEPT !.out_idx = 0, !.idx = [@ EXCEPT ![1] = 0, ![2] = 0],
                           !.state = "COLLECT"]

\* The last flit makes the element ready for the next job.
Emit ==
  /\ st.state = "EMIT"
  /\ outs' = Append(outs, OutFlit)
  /\ st' = IF st.out_idx + 1 < Flits THEN [st EXCEPT !.out_idx = @ + 1]
           ELSE [st EXCEPT !.out_idx = 0, !.idx = [p \in Ports |-> 0],
                           !.state = "COLLECT"]

\* One iteration, in which the ports of S yield a flit.
Iterate(S) ==
  /\ \A p \in S : input[p] = Empty /\ fed[p] < Flits * Len(feed)
  /\ fed' = [p \in Ports |-> IF p \in S THEN fed[p] + 1 ELSE fed[p]]
  /\ UNCHANGED feed
  /\ \/ Collect(S)
     \/ /\ input' = AfterRead(S)
        /\ InitJob \/ FindBit \/ Square \/ MaybeMul \/ NextBit \/ Final \/ Emit

ElemNext == \E S \in SUBSET Ports : Iterate(S)

ElemSpec == ElemInit /\ [][ElemNext]_elemVars

\* The handler has something to do whatever the ports yield; port p has a flit
\* to yield.
Busy       == st.state # "COLLECT" \/ \E p \in Ports : input[p] # Empty /\ st.idx[p] < Flits
Pending(p) == input[p] = Empty /\ fed[p] < Flits * Len(feed)

\* The kernel's thread is scheduled again and again, and a flit that is under
\* way to a port arrives there: weak fairness of the handler and of each port,
\* with the conditions that enable them written out.
ElemFairness ==
  /\ []<>~Busy \/ []<><<st' # st>>_st
  /\ \A p \in Ports : []<>~Pending(p) \/ []<><<fed'[p] > fed[p]>>_fed

-----------------------------------------------------------------------------
\* Every flit that comes out is its part of the power of the job it belongs to,
\* with the first and the last one marked as such: no operand is mixed with
\* one of the job before or after it, however far the ports are apart.
ElementRight ==
  \A k \in 1 .. Len(outs) :
    LET job == feed[(k - 1) \div Flits + 1]
        i   == (k - 1) % Flits
    IN  outs[k] = [data |-> Slice(PowMod(job[1], job[2], job[3]), i),
                   sop |-> i = 0, eop |-> i = Flits - 1]

\* From one handler run to the next, r_mont is the power of m to the bits of e
\* already worked off, in Montgomery form.
MontForm ==
  LET job  == feed[Len(outs) \div Flits + 1]
      done == CASE st.state = "SQUARE"    -> job[2] \div Power(2, st.bit_idx + 1)
                [] st.state = "MAYBE_MUL" -> 2 * (job[2] \div Power(2, st.bit_idx + 1))
                [] st.state = "NEXT_BIT"  -> job[2] \div Power(2, st.bit_idx)
                [] OTHER                  -> job[2]
  IN  st.state \in {"SQUARE", "MAYBE_MUL", "NEXT_BIT", "FINAL"} =>
        st.r_mont = (PowMod(job[1], done, job[3]) * Power(Base, LIMBS)) % job[3]

\* Every job that comes in is answered in full.
ElementAnswers == <>(Len(outs) = Flits * Len(feed))
=============================================================================
