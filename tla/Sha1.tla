-------------------------------- MODULE Sha1 --------------------------------
(***************************************************************************)
(* sha1.hpp's incremental hashing and the two elements that use it.  A     *)
(* client is a program that calls update with chunks of any length, the    *)
(* SHA1 element, which is given flits, or the SHA1_Block element, which    *)
(* compresses two flits at a time.                                         *)
(*                                                                         *)
(* The compression function is taken to be one that never collides: the    *)
(* chaining value h is the sequence of all bytes compressed so far.  So    *)
(* what is checked is which bytes go into it, and in which order.          *)
(***************************************************************************)
EXTENDS Integers, Sequences

CONSTANTS
  BlockSize,    \* 64 in the code
  LengthSize,   \* bytes of the length field: 8
  ByteBits,     \* 8
  FlitBytes,    \* 32
  MaxBytes      \* bound on the bytes a client is given

ASSUME Sha1Assumption ==
  /\ LengthSize \in 1 .. BlockSize - 1 /\ BlockSize = 2 * FlitBytes
  /\ FlitBytes \in Nat /\ ByteBits \in Nat \ {0} /\ MaxBytes \in Nat

Clients == {"program", "SHA1", "SHA1_Block"}

VARIABLES
  client,
  ctx,        \* Ctx: h, total_bytes, and the buf_len bytes of buf in use
  started,    \* the SHA1 element is in a message
  given,      \* history: the bytes of the current message
  sent,       \* history: bytes the client was given in all
  output      \* the last digest, beside the bytes it is to be of, if any

shaVars == <<client, ctx, started, given, sent, output>>

\* The initial chaining value, nothing buffered.
init == [h |-> <<>>, total_bytes |-> 0, buf |-> <<>>]

compress(h, block) == h \o block

\* Mutant: a full block is compressed only when the next byte comes.
MutBuffer(c, data) ==
  LET buf == c.buf \o data
  IN  IF Len(buf) > BlockSize
      THEN [c EXCEPT !.h = compress(@, SubSeq(buf, 1, BlockSize)),
                     !.buf = SubSeq(buf, BlockSize + 1, Len(buf))]
      ELSE [c EXCEPT !.buf = buf]

\* A turn of update's loop puts as much as there is room for in the buffer, and
\* compresses a full block.
Buffer(c, data) ==
  LET buf == c.buf \o data
  IN  IF Len(buf) = BlockSize THEN [c EXCEPT !.h = compress(@, buf), !.buf = <<>>]
      ELSE [c EXCEPT !.buf = buf]

\* One turn: the context, and the data that are left.
Turn(t) ==
  LET room == BlockSize - Len(t.ctx.buf)
      take == IF room > Len(t.left) THEN Len(t.left) ELSE room
  IN  IF t.left = <<>> THEN t
      ELSE [ctx  |-> Buffer(t.ctx, SubSeq(t.left, 1, take)),
            left |-> SubSeq(t.left, take + 1, Len(t.left))]

update(c, data) ==
  LET turns[k \in 0 .. Len(data)] ==
        IF k = 0 THEN [ctx |-> c, left |-> data] ELSE Turn(turns[k - 1])
  IN  [turns[Len(data)].ctx EXCEPT !.total_bytes = @ + Len(data)]

\* Mutant: no zero is added behind the place of the length field.
MutAddZero(c) ==
  IF Len(c.buf) >= BlockSize - LengthSize THEN c ELSE update(c, <<0>>)

AddZero(c) ==
  IF Len(c.buf) = BlockSize - LengthSize THEN c ELSE update(c, <<0>>)

\* Zeros up to the length field, past the end of this block if need be.
Zeros(c) ==
  LET zeros[k \in 0 .. BlockSize] == IF k = 0 THEN c ELSE AddZero(zeros[k - 1])
  IN  zeros[BlockSize]

\* n in LengthSize bytes, the most significant one first.
LengthField(n) ==
  [i \in 1 .. LengthSize |-> (n \div 2 ^ (ByteBits * (LengthSize - i))) % 2 ^ ByteBits]

\* The context final_digest leaves; its h is the digest.
final_digest(c) ==
  LET total_bits == (c.total_bytes * ByteBits) % 2 ^ (ByteBits * LengthSize)
  IN  update(Zeros(update(c, <<2 ^ (ByteBits - 1)>>)), LengthField(total_bits))

ShaInit ==
  /\ client \in Clients
  /\ ctx = init /\ started = FALSE
  /\ given = <<>> /\ sent = 0 /\ output = {}

-----------------------------------------------------------------------------
(* The clients.                                                            *)

\* The next n bytes that come in, all different from their neighbours.
Bytes(n) == [i \in 1 .. n |-> (sent + i) % 2 ^ ByteBits]

Emitted(h, message) == output' = {[h |-> h, of |-> message]}

\* A program adds a chunk, or asks for the digest and starts again.
Update(n) ==
  /\ client = "program" /\ sent + n <= MaxBytes
  /\ ctx' = update(ctx, Bytes(n))
  /\ given' = given \o Bytes(n) /\ sent' = sent + n
  /\ UNCHANGED <<client, started, output>>

Digest ==
  /\ client = "program"
  /\ Emitted(final_digest(ctx).h, given)
  /\ ctx' = init /\ given' = <<>>
  /\ UNCHANGED <<client, started, sent>>

\* Mutant: a message begins only with a flit that says so.
MutBegins(sop) == sop

\* A message begins with a flit that says so, or after the last one has ended.
Begins(sop) == ~started \/ sop

\* The SHA1 element is given a flit.
Handle(sop, eop) ==
  /\ client = "SHA1" /\ sent + FlitBytes <= MaxBytes
  /\ LET data == Bytes(FlitBytes)
         c    == update(IF Begins(sop) THEN init ELSE ctx, data)
         msg  == IF sop THEN data ELSE given \o data
     IN  IF eop
         THEN /\ ctx' = final_digest(c) /\ Emitted(final_digest(c).h, msg)
              /\ started' = FALSE /\ given' = <<>>
         ELSE /\ ctx' = c /\ started' = TRUE /\ given' = msg
              /\ UNCHANGED output
  /\ sent' = sent + FlitBytes
  /\ UNCHANGED client

\* The SHA1_Block element is given a flit: it fills the block's second half, if
\* flit_idx is 1, and the state goes out.
HandleBlock(sop) ==
  /\ client = "SHA1_Block" /\ sent + FlitBytes <= MaxBytes
  /\ LET data == Bytes(FlitBytes)
         c    == IF sop THEN init ELSE ctx
         msg  == IF sop THEN data ELSE given \o data
     IN  /\ IF c.buf # <<>>
            THEN /\ ctx' = [c EXCEPT !.h = compress(@, c.buf \o data), !.buf = <<>>]
                 /\ Emitted(ctx'.h, msg)
            ELSE /\ ctx' = [c EXCEPT !.buf = data]
                 /\ UNCHANGED output
         /\ given' = msg
  /\ sent' = sent + FlitBytes
  /\ UNCHANGED <<client, started>>

ShaNext ==
  \/ (\E n \in 0 .. MaxBytes : Update(n)) \/ Digest
  \/ \E sop, eop \in BOOLEAN : Handle(sop, eop)
  \/ \E sop \in BOOLEAN : HandleBlock(sop)

ShaSpec == ShaInit /\ [][ShaNext]_shaVars

-----------------------------------------------------------------------------
\* The message as FIPS 180-4 pads it: a one bit, the fewest zeros that fill the
\* last block, and the length in bits.
Padded(m) ==
  LET k == CHOOSE n \in 0 .. BlockSize - 1 :
             (Len(m) + 1 + n + LengthSize) % BlockSize = 0
  IN  m \o <<2 ^ (ByteBits - 1)>> \o [i \in 1 .. k |-> 0]
        \o LengthField(Len(m) * ByteBits)

\* Every digest is the one of the whole message and nothing but it, in whatever
\* pieces it came, wherever in a block it ends and whatever was hashed before.
\* SHA1_Block leaves the padding to its caller.
DigestRight ==
  \A x \in output :
    x.h = IF client = "SHA1_Block" THEN x.of ELSE Padded(x.of)
=============================================================================
