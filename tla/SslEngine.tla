----------------------------- MODULE SslEngine ------------------------------
(***************************************************************************)
(* The OpenSSL engine: the two RSA hooks with their way out to libcrypto,  *)
(* the AES-128-ECB cipher that is built when it is first asked for, and    *)
(* the call counters.  Any thread of the application may be in a hook; the *)
(* code has no lock.  What a hook computes is local to its thread and one  *)
(* step; a counter is loaded and stored in two, and the cipher's pointer   *)
(* is tested, and set later, in steps of their own.                        *)
(*                                                                         *)
(* Numbers stand for BIGNUMs.  Blocks of data are left out: of an AES      *)
(* request only its length matters here.                                   *)
(***************************************************************************)
EXTENDS BigInt, Sequences

CONSTANTS
  Threads,
  MaxBits,     \* of the numbers the threads use
  Widths,      \* limb counts the accelerator has (16, 32 and 64 in the code)
  Workloads,   \* what the threads ask for: functions from Threads to sequences
  Error,       \* a hook or a shim failed
  Nobody       \* no cipher

\* Of a key, p, q and what goes with them are there if crt_params is set.  They
\* belong together: the half exponents do modulo p and q what d does, which
\* for primes is Fermat's theorem.
ValidKey(r) ==
  /\ r.n % 2 = 1
  /\ r.crt_params => /\ r.n = r.p * r.q /\ r.p > 1 /\ (r.q * r.qi) % r.p = 1
                     /\ PowMod(r.I, r.dp, r.p) = PowMod(r.I, r.d, r.p)
                     /\ PowMod(r.I, r.dq, r.q) = PowMod(r.I, r.d, r.q)

Requests ==
  [op : {"bn_mod_exp"}, a : Nat, p : Nat, m : Nat, consttime : BOOLEAN]
  \cup {r \in [op : {"rsa_mod_exp"}, I : Nat, n : Nat, d : Nat, crt_params : BOOLEAN,
                p : Nat, q : Nat, dp : Nat, dq : Nat, qi : Nat] : ValidKey(r)}
  \cup [op : {"aes"}, inl : Nat]

ASSUME EngineAssumption ==
  /\ Nobody \notin Threads
  /\ Widths \subseteq {N \in Nat : N % 2 = 0}

ASSUME RequestAssumption == Workloads \subseteq [Threads -> Seq(Requests)]

Counters == {"modexp", "modexp_consttime", "crt", "unsupported", "aes_blocks"}

VARIABLES
  todo,      \* requests of each thread, the current one first
  pc,        \* where the thread is in it
  path,      \* the counter its current request bumps
  out,       \* what the hook will return
  held,      \* the counter's value as the thread loaded it
  left,      \* blocks of data still to be ciphered
  count,     \* the g_..._calls counters, g_modexp_unsupported and g_aes_blocks
  cipher,    \* g_ocnp_aes128_ecb: the thread that built it
  complete,  \* threads whose cipher object has all its hooks
  using,     \* the cipher object ocnp_ciphers gave the thread
  bumps,     \* history: how often each counter was stored
  answers    \* history: requests and what came of them

threadVars == <<todo, pc, path, out, held, left>>
vars == <<threadVars, count, cipher, complete, using, bumps, answers>>

Init ==
  /\ todo \in Workloads
  /\ pc = [t \in Threads |-> "idle"]
  /\ path = [t \in Threads |-> "unsupported"]
  /\ out = [t \in Threads |-> Error]
  /\ held = [t \in Threads |-> 0]
  /\ left = [t \in Threads |-> 0]
  /\ count = [c \in Counters |-> 0]
  /\ cipher = Nobody /\ complete = {}
  /\ using = [t \in Threads |-> Nobody]
  /\ bumps = [c \in Counters |-> 0]
  /\ answers = {}

-----------------------------------------------------------------------------
(* libcrypto.                                                              *)

\* BN_mod_exp_mont and its constant-time variant refuse an even modulus.
BN_mod_exp_mont(a, p, m) == IF m % 2 = 0 THEN Error ELSE PowMod(a, p, m)

BN_num_bits(x) == Min({k \in 0 .. MaxBits : x \div Power(2, k) = 0})

-----------------------------------------------------------------------------
(* The RSA hooks.                                                          *)

round_up_limbs_for_bits(bits) ==
  LET enough == {N \in Widths : bits <= N * LimbBits}
  IN  IF enough = {} THEN 0 ELSE Min(enough)

\* bn_to_limbs succeeds.
Fits(x, N) == x < Power(Base, N)

Fallback(a, p, m) == [path |-> "unsupported", out |-> BN_mod_exp_mont(a, p, m)]

\* The shims: each has an instance for every width and refuses an even modulus.
openclicknp_modexp(m, e, n, N) ==
  IF N \in Widths /\ n % 2 = 1 THEN modexp(N, m, e, n) ELSE Error

openclicknp_modexp_consttime(m, e, n, N) ==
  IF N \in Widths /\ n % 2 = 1 THEN modexp_consttime(N, m, e, n) ELSE Error

openclicknp_rsa_crt(c, p, q, dp, dq, qInv, N) ==
  IF N \in Widths /\ p % 2 = 1 /\ q % 2 = 1
  THEN rsa_crt_decrypt(N \div 2, c, p, q, dp, dq, qInv) ELSE Error

\* Mutant: the operands are not tested.
MutBnModExp(r) ==
  LET N  == round_up_limbs_for_bits(BN_num_bits(r.m))
      rc == openclicknp_modexp(r.a % Power(Base, N), r.p % Power(Base, N), r.m, N)
  IN  IF N = 0 \/ rc = Error THEN Fallback(r.a, r.p, r.m) ELSE [path |-> "modexp", out |-> rc]

ocnp_bn_mod_exp(r) ==
  LET N  == round_up_limbs_for_bits(BN_num_bits(r.m))
      rc == IF r.consttime THEN openclicknp_modexp_consttime(r.a, r.p, r.m, N)
            ELSE openclicknp_modexp(r.a, r.p, r.m, N)
  IN  IF N = 0 \/ ~Fits(r.a, N) \/ ~Fits(r.p, N) \/ ~Fits(r.m, N) \/ rc = Error
      THEN Fallback(r.a, r.p, r.m)
      ELSE [path |-> IF r.consttime THEN "modexp_consttime" ELSE "modexp", out |-> rc]

\* The factors and the parameters that go with them have half the limbs.
ocnp_rsa_mod_exp(r) ==
  LET N  == round_up_limbs_for_bits(BN_num_bits(r.n))
      rc == openclicknp_rsa_crt(r.I, r.p, r.q, r.dp, r.dq, r.qi, N)
  IN  IF \/ ~r.crt_params \/ N = 0
         \/ ~Fits(r.I, N) \/ \E x \in {r.p, r.q, r.dp, r.dq, r.qi} : ~Fits(x, N \div 2)
         \/ rc = Error
      THEN Fallback(r.I, r.d, r.n)
      ELSE [path |-> "crt", out |-> rc]

Hook(r) == IF r.op = "bn_mod_exp" THEN ocnp_bn_mod_exp(r) ELSE ocnp_rsa_mod_exp(r)

\* A thread enters one of the hooks.
CallRsa(t) ==
  /\ pc[t] = "idle" /\ todo[t] # <<>> /\ Head(todo[t]).op # "aes"
  /\ \E h \in {Hook(Head(todo[t]))} :
       /\ path' = [path EXCEPT ![t] = h.path]
       /\ out' = [out EXCEPT ![t] = h.out]
  /\ pc' = [pc EXCEPT ![t] = "load"]
  /\ UNCHANGED <<todo, held, left, count, cipher, complete, using, bumps, answers>>

\* The request is answered, with res.
Answer(t, res) ==
  /\ todo' = [todo EXCEPT ![t] = Tail(@)]
  /\ answers' = answers \cup {[req |-> Head(todo[t]), path |-> path[t], out |-> res]}
  /\ pc' = [pc EXCEPT ![t] = "idle"]

\* ++counter, as a load and a store: two threads may lose an increment.
Load(t) ==
  /\ pc[t] = "load"
  /\ held' = [held EXCEPT ![t] = count[path[t]]]
  /\ pc' = [pc EXCEPT ![t] = "store"]
  /\ UNCHANGED <<todo, path, out, left, count, cipher, complete, using, bumps, answers>>

\* Mutant: the counter is reset if another thread has got in between.
MutBumped(t) == IF count[path[t]] = held[t] THEN held[t] + 1 ELSE 0

Bumped(t)  == held[t] + 1
OneLess(t) == IF left[t] > 0 THEN left[t] - 1 ELSE 0

\* An AES request goes on with its next block.
Store(t) ==
  /\ pc[t] = "store"
  /\ count' = [count EXCEPT ![path[t]] = Bumped(t)]
  /\ bumps' = [bumps EXCEPT ![path[t]] = @ + 1]
  /\ left' = [left EXCEPT ![t] = OneLess(t)]
  /\ IF left[t] > 1
     THEN pc' = [pc EXCEPT ![t] = "load"] /\ UNCHANGED <<todo, answers>>
     ELSE Answer(t, out[t])
  /\ UNCHANGED <<path, out, held, cipher, complete, using>>

-----------------------------------------------------------------------------
(* The cipher.                                                             *)

\* ocnp_ciphers looks for the cipher.
AskCipher(t) ==
  /\ pc[t] = "idle" /\ todo[t] # <<>> /\ Head(todo[t]).op = "aes"
  /\ \/ /\ cipher # Nobody
        /\ using' = [using EXCEPT ![t] = cipher]
        /\ pc' = [pc EXCEPT ![t] = "cipher"]
     \/ /\ cipher = Nobody
        /\ pc' = [pc EXCEPT ![t] = "new"]
        /\ UNCHANGED using
  /\ path' = [path EXCEPT ![t] = "aes_blocks"]
  /\ UNCHANGED <<todo, out, held, left, count, cipher, complete, bumps, answers>>

\* Mutant: the object is published when it is allocated.
MutNewCipher(t) ==
  /\ pc[t] = "new"
  /\ cipher' = t
  /\ pc' = [pc EXCEPT ![t] = "hooks"]
  /\ UNCHANGED <<todo, path, out, held, left, count, complete, using, bumps, answers>>

\* EVP_CIPHER_meth_new, which may fail: the caller then has no cipher.
NewCipher(t) ==
  /\ pc[t] = "new"
  /\ \/ /\ pc' = [pc EXCEPT ![t] = "hooks"]
        /\ UNCHANGED <<todo, answers>>
     \/ Answer(t, Error)
  /\ UNCHANGED <<path, out, held, left, count, cipher, complete, using, bumps>>

SetHooks(t) ==
  /\ pc[t] = "hooks"
  /\ complete' = complete \cup {t}
  /\ pc' = [pc EXCEPT ![t] = "publish"]
  /\ UNCHANGED <<todo, path, out, held, left, count, cipher, using, bumps, answers>>

\* Another thread's object may be replaced; it stays in use there.
Publish(t) ==
  /\ pc[t] = "publish"
  /\ cipher' = t
  /\ using' = [using EXCEPT ![t] = t]
  /\ pc' = [pc EXCEPT ![t] = "cipher"]
  /\ UNCHANGED <<todo, path, out, held, left, count, complete, bumps, answers>>

\* The key is expanded and do_cipher begins; it refuses a partial block.
DoCipher(t) ==
  /\ pc[t] = "cipher"
  /\ LET inl == Head(todo[t]).inl IN
     \/ /\ inl % 16 # 0
        /\ Answer(t, Error)
        /\ UNCHANGED <<out, left>>
     \/ /\ inl = 0
        /\ Answer(t, 1)
        /\ UNCHANGED <<out, left>>
     \/ /\ inl % 16 = 0 /\ inl # 0
        /\ out' = [out EXCEPT ![t] = 1]
        /\ left' = [left EXCEPT ![t] = inl \div 16]
        /\ pc' = [pc EXCEPT ![t] = "load"]
        /\ UNCHANGED <<todo, answers>>
  /\ UNCHANGED <<path, held, count, cipher, complete, using, bumps>>

Thread(t) ==
  \/ CallRsa(t) \/ Load(t) \/ Store(t)
  \/ AskCipher(t) \/ NewCipher(t) \/ SetHooks(t) \/ Publish(t) \/ DoCipher(t)

Next == \E t \in Threads : Thread(t)

Spec == Init /\ [][Next]_vars

-----------------------------------------------------------------------------
\* m2 exceeds m1 by more than p, so that "add p once" leaves it negative.
Underflows(r) == PowMod(r.I, r.dq, r.q) > PowMod(r.I, r.dp, r.p) + r.p

Right(r, way, res) ==
  /\ r.op = "bn_mod_exp" =>
       res = IF r.m % 2 = 0 THEN Error ELSE PowMod(r.a, r.p, r.m)
  /\ r.op = "rsa_mod_exp" =>
       (res = PowMod(r.I, r.d, r.n) <=> ~(way = "crt" /\ Underflows(r)))

\* Whatever way a request takes, through square-and-multiply, the ladder, the
\* two halves or libcrypto, the answer is the power it asks for; an odd modulus
\* is never refused.  The one exception is a key with q > p, of which the two
\* halves are recombined wrongly if the residues are far enough apart.
RsaRight == \A x \in answers : Right(x.req, x.path, x.out)

\* The claim of rsa_crt_decrypt's header without the exception: "Output (N
\* limbs): m = c^d mod n", whichever of the two primes is the larger one.
CrtRight ==
  \A x \in answers :
    x.req.op = "rsa_mod_exp" => x.out = PowMod(x.req.I, x.req.d, x.req.n)

\* The counters' purpose is to show that the engine is really called: although
\* threads lose each other's increments, a path that has been taken never
\* shows a zero, and none shows more calls than there were.
Confirmed ==
  \A c \in Counters : /\ count[c] <= bumps[c]
                      /\ bumps[c] > 0 => count[c] > 0

\* No thread is ever handed a cipher object whose hooks are not all set,
\* although two threads may build it at once.
CipherComplete ==
  /\ cipher # Nobody => cipher \in complete
  /\ \A t \in Threads : pc[t] = "cipher" => using[t] \in complete
=============================================================================
