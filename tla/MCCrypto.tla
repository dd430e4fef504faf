------------------------------ MODULE MCCrypto ------------------------------
(***************************************************************************)
(* The users of bigint.hpp and sha1.hpp, with limbs of 4 bits in numbers   *)
(* of 2 and 4 limbs, and blocks of 6 bytes: threads that call the engine,  *)
(* jobs that go through RSA_ModExp_1024, or messages that are hashed.      *)
(* They share nothing, so each behaviour has one of them.                  *)
(***************************************************************************)
EXTENDS SslEngine, RsaElement, Sha1

VARIABLE part

CONSTANTS t1, t2

MCThreads == {t1, t2}
MCWidths  == {2, 4}

Idle == [t \in MCThreads |-> <<>>]
One(r)    == [Idle EXCEPT ![t1] = <<r>>]
Two(r, s) == [Idle EXCEPT ![t1] = <<r>>, ![t2] = <<s>>]

Exp(a, p, m, ct) ==
  [op |-> "bn_mod_exp", a |-> a, p |-> p, m |-> m, consttime |-> ct]

\* Every modulus of 2 limbs, with bases below, at and above it and above the
\* 2 limbs; then moduli of 4 limbs, and some beyond them.
Small == {Exp(a, p, m, ct) : <<a, p, m, ct>> \in
            {<<x + (IF x < 0 THEN m ELSE 0), p, m, ct>> :
               x \in {0, 2, -1, 255, 300}, p \in {0, 1, 2, 17, 255},
               m \in {k \in 1 .. 255 : k % 2 = 1 \/ k % 16 = 0}, ct \in BOOLEAN}}
Large == {Exp(a, p, m, ct) :
            a \in {1, 3, 40000}, p \in {1, 3, 65537},
            m \in {257, 4097, 32769, 46339}, ct \in BOOLEAN}
Beyond == {Exp(a, 1, 65537, ct) : a \in {0, 1, 5}, ct \in BOOLEAN}

Primes == {3, 5, 7, 11, 13}
ModInverse(x, n) == CHOOSE y \in 0 .. n - 1 : (x * y) % n = 1 % n

Key(I, p, q, d, crt) ==
  [op |-> "rsa_mod_exp", I |-> I, n |-> p * q, d |-> d, crt_params |-> crt,
   p |-> p, q |-> q, dp |-> d % (p - 1), dq |-> d % (q - 1), qi |-> ModInverse(q % p, p)]

\* Every message and every key of two primes of one limb, either one first;
\* keys of 4 limbs; a prime that does not fit half of the limbs; a key
\* without the parameters for the two halves.
Private == {Key(I, p, q, d, TRUE) : <<I, p, q, d>> \in
              UNION {{<<I, pq[1], pq[2], d>> : I \in 0 .. pq[1] * pq[2] - 1, d \in {7, 11}} :
                       pq \in {x \in Primes \X Primes : x[1] # x[2]}}}
  \cup {Key(I, pq[1], pq[2], 7, TRUE) :
          I \in {2, 30000, 31312}, pq \in {<<181, 173>>, <<173, 181>>, <<17, 3>>}}
  \cup {Key(I, 11, 7, 7, FALSE) : I \in {0, 76}}

Aes(inl) == [op |-> "aes", inl |-> inl]

\* Two threads at once: on one counter, on several, and on the cipher.
Races ==
  {[Idle EXCEPT ![t1] = <<Exp(2, 3, 15, TRUE), r, Exp(2, 3, 15, FALSE)>>,
                ![t2] = <<s, Exp(4, 3, 15, TRUE)>>] :
     r \in {Exp(2, 3, 16, TRUE), Aes(32)}, s \in {Exp(2, 3, 16, TRUE), Key(9, 11, 7, 7, TRUE)}}
  \cup {[Idle EXCEPT ![t1] = <<Aes(n), Aes(48)>>, ![t2] = <<Aes(16), Aes(k)>>] :
          n \in {0, 32}, k \in {24, 32}}

MCWorkloads == {Idle} \cup {One(r) : r \in Small \cup Large \cup Beyond \cup Private} \cup Races

\* The private keys alone.
MCPrivate == {One(r) : r \in Private}
MCNoFeed  == {<<>>}

\* One and two jobs, with exponents that end at every kind of bit.
MCJobs  == {<<m, e, n>> : m \in {0, 2, 255}, e \in {0, 1, 6, 129}, n \in {1, 15, 255}}
MCFeeds == {<<>>} \cup {<<j>> : j \in MCJobs}
  \cup {<<<<7, 5, 187>>, j>> : j \in {<<3, 0, 33>>, <<255, 11, 13>>}}
  \cup {<<<<2, 3, 5>>, <<9, 1, 7>>, <<4, 2, 9>>>>}

MCInit ==
  /\ \/ part = "engine" /\ feed = <<>> /\ client = "program"
     \/ part = "element" /\ todo = Idle /\ client = "program"
     \/ part = "sha1" /\ todo = Idle /\ feed = <<>>
  /\ Init /\ ElemInit /\ ShaInit

MCNext ==
  /\ UNCHANGED part
  /\ \/ part = "engine" /\ Next /\ UNCHANGED <<elemVars, shaVars>>
     \/ part = "element" /\ ElemNext /\ UNCHANGED <<vars, shaVars>>
     \/ part = "sha1" /\ ShaNext /\ UNCHANGED <<vars, elemVars>>

MCSpec == MCInit /\ [][MCNext]_<<part, vars, elemVars, shaVars>> /\ ElemFairness
=============================================================================
