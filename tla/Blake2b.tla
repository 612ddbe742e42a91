------------------------------ MODULE Blake2b -------------------------------
(***************************************************************************)
(* import/blake2b.c: the streaming hasher under sighash.c and              *)
(* personal_message.c.  Data comes in pieces of any length, goes through a *)
(* buffer of one block, and is compressed a block at a time; the block     *)
(* that is compressed last is marked, so one must always be held back.     *)
(*                                                                         *)
(* blake2b_compress is taken to be injective: the chaining value h is the  *)
(* list of what was compressed.  Byte i of the message is the number i, a  *)
(* byte of the key is negative, 0 is a zero.                               *)
(***************************************************************************)
EXTENDS Integers, Sequences

CONSTANTS
    BlockBytes,     \* BLAKE2B_BLOCKBYTES: 128
    WordMod,        \* 2^64, the width of each half of the byte counter
    KeyLens,        \* lengths of the keys: 22 for a sighash, 26 for a message
    MaxPiece,       \* bound: bytes in one update
    MaxMessage      \* bound: bytes in a message

ASSUME Blake2bAssumption ==
    /\ BlockBytes \in Nat \ {0} /\ WordMod \in Nat /\ BlockBytes < WordMod
    /\ KeyLens \subseteq 1 .. BlockBytes
    /\ MaxPiece \in Nat /\ MaxMessage \in Nat /\ MaxMessage + BlockBytes < WordMod * WordMod

VARIABLES
    S,          \* the blake2b_state
    keylen,
    fed,        \* bytes of the message given to hash_update so far
    out         \* what hash_finalize delivered

blakevars == <<S, keylen, fed, out>>

OutBytes == 32
NoDigest == <<>>

-----------------------------------------------------------------------------
(* Memory *)
Zeroes(n) == [k \in 1 .. n |-> 0]
KeyBytes(n) == [k \in 1 .. n |-> -k]

\* memcpy(to + at, from, Len(from))
Copy(to, at, from) ==
    [k \in DOMAIN to |-> IF k - at \in DOMAIN from THEN from[k - at] ELSE to[k]]

\* Bytes from + 1 to from + n of the message.
Piece(from, n) == [k \in 1 .. n |-> from + k]
Drop(bytes, n) == SubSeq(bytes, n + 1, Len(bytes))

-----------------------------------------------------------------------------
\* The two words count bytes; the carry is seen from the low one being less
\* than what was added to it.
blake2b_increment_counter(s, inc) ==
    LET low == (s.t[1] + inc) % WordMod IN
    [s EXCEPT !.t = <<low, (s.t[2] + (IF low < inc THEN 1 ELSE 0)) % WordMod>>]

blake2b_set_lastblock(s) == [s EXCEPT !.f = TRUE]

blake2b_compress(s, block) ==
    [s EXCEPT !.h = Append(@, [block |-> block, t |-> s.t, f |-> s.f])]

\* A whole block, counted and compressed.
Absorb(s, block) == blake2b_compress(blake2b_increment_counter(s, BlockBytes), block)

\* The lengths of digest and key go into the first chaining value.
blake2b_init_param(outlen, n) ==
    [h |-> <<[digest_length |-> outlen, key_length |-> n]>>,
     t |-> <<0, 0>>, f |-> FALSE,
     buf |-> Zeroes(BlockBytes), buflen |-> 0, outlen |-> outlen]

\* How many whole blocks the loop takes from n bytes: it leaves the last one.
WholeBlocks_All(n) == n \div BlockBytes
WholeBlocks(n) == IF n = 0 THEN 0 ELSE (n - 1) \div BlockBytes

AbsorbAll(s, in, n) ==
    LET after[k \in 0 .. n] ==
            IF k = 0 THEN s
            ELSE LET before == after[k - 1] IN
                 Absorb(before, SubSeq(in, (k - 1) * BlockBytes + 1, k * BlockBytes))
    IN  after[n]

\* The last lines of blake2b_update.
Keep_AtStart(s, in) ==
    [s EXCEPT !.buf = Copy(@, 0, in), !.buflen = @ + Len(in)]
Keep(s, in) ==
    [s EXCEPT !.buf = Copy(@, s.buflen, in), !.buflen = @ + Len(in)]

blake2b_update(s, in) ==
    LET fill == BlockBytes - s.buflen
        full == Copy(s.buf, s.buflen, SubSeq(in, 1, fill))
        rest == Drop(in, fill)
        whole == WholeBlocks(Len(rest))
    IN  IF Len(in) <= fill THEN Keep(s, in)
        ELSE Keep(AbsorbAll(Absorb([s EXCEPT !.buf = full, !.buflen = 0], full), rest, whole),
                  Drop(rest, whole * BlockBytes))

\* blake2b_init_key, called by hash_init: the key fills the first block.
hash_init(n) ==
    blake2b_update(blake2b_init_param(OutBytes, n),
                   Copy(Zeroes(BlockBytes), 0, KeyBytes(n)))

Padded_Stale(s) == s.buf
Padded(s) == Copy(s.buf, s.buflen, Zeroes(BlockBytes - s.buflen))

\* blake2b_final after its two refusals.
Finished(s) ==
    LET last == blake2b_set_lastblock(blake2b_increment_counter(s, s.buflen))
    IN  blake2b_compress([last EXCEPT !.buf = Padded(s)], Padded(s))

-----------------------------------------------------------------------------
BlakeInit ==
    /\ keylen \in KeyLens
    /\ S = hash_init(keylen)
    /\ fed = 0
    /\ out = NoDigest

Update(n) ==
    /\ fed + n <= MaxMessage
    /\ ~S.f
    /\ S' = blake2b_update(S, Piece(fed, n))
    /\ fed' = fed + n
    /\ UNCHANGED <<keylen, out>>

Finalize ==
    /\ ~S.f                         \* a second call would return -1
    /\ S' = Finished(S)
    /\ out' = S'.h
    /\ UNCHANGED <<keylen, fed>>

BlakeNext == (\E n \in 0 .. MaxPiece : Update(n)) \/ Finalize

BlakeSpec == BlakeInit /\ [][BlakeNext]_blakevars

-----------------------------------------------------------------------------
(* RFC 7693: the blocks of a keyed message, padded with zeroes.            *)

Input(n, message) ==
    Copy(Zeroes(BlockBytes), 0, KeyBytes(n)) \o Piece(0, message)

Blocks(n, message) ==
    LET all == Input(n, message)
        count == (Len(all) + BlockBytes - 1) \div BlockBytes
        seen(k) == IF k = count THEN Len(all) ELSE k * BlockBytes
    IN  <<[digest_length |-> OutBytes, key_length |-> n]>>
        \o [k \in 1 .. count |->
              [block |-> Copy(Zeroes(BlockBytes), 0,
                              SubSeq(all, (k - 1) * BlockBytes + 1, seen(k))),
               t |-> <<seen(k) % WordMod, seen(k) \div WordMod>>,
               f |-> k = count]]

\* In whatever pieces a message came, its digest is that of the message: every
\* byte once and in order, counted right, padded with zeroes and not with what
\* a block before left in the buffer (blake2b.c:226-277; the pieces are the
\* calls of sighash.c:81-325).
DigestIsOfTheMessage == out # NoDigest => out = Blocks(keylen, fed)

\* Until the end a block is held back, for blake2b_final to mark as the last
\* one: the buffer is never empty, and what was compressed is a strict part of
\* what came in (the > in blake2b.c:233 and 240).
ABlockIsHeldBack ==
    ~S.f =>
        /\ S.buflen \in 1 .. BlockBytes
        /\ (Len(S.h) - 1) * BlockBytes + S.buflen = BlockBytes + fed
        /\ \A k \in 2 .. Len(S.h) : ~S.h[k].f

-----------------------------------------------------------------------------
(* The inductive invariant behind the two *)

\* Byte i of a message and the key block before it.
ByteAt(n, i) ==
    IF i > BlockBytes THEN i - BlockBytes ELSE IF i <= n THEN -i ELSE 0

\* The k-th block of it, and the byte count that goes with c bytes.
WholeBlock(n, k) == [i \in 1 .. BlockBytes |-> ByteAt(n, (k - 1) * BlockBytes + i)]
Counter(c) == <<c % WordMod, c \div WordMod>>

\* The chaining value of the first m blocks, none of them marked as the last.
Chain(n, m) ==
    [k \in 1 .. m + 1 |->
        IF k = 1 THEN [digest_length |-> OutBytes, key_length |-> n]
        ELSE [block |-> WholeBlock(n, k - 1), t |-> Counter((k - 1) * BlockBytes), f |-> FALSE]]

\* A hasher that has compressed them.
Hasher(n, m, buf, buflen) ==
    [h |-> Chain(n, m), t |-> Counter(m * BlockBytes), f |-> FALSE,
     buf |-> buf, buflen |-> buflen, outlen |-> OutBytes]

\* What came in is in the chaining value, a block at a time, and the rest, up
\* to one block, is in the buffer (blake2b.c:226-277).
BlakeInv ==
    LET m == Len(S.h) - 1 IN
    /\ keylen \in KeyLens
    /\ fed \in 0 .. MaxMessage
    /\ IF S.f THEN out = Blocks(keylen, fed)
       ELSE /\ out = NoDigest
            /\ S.buflen \in 1 .. BlockBytes
            /\ m \in Nat /\ m * BlockBytes + S.buflen = BlockBytes + fed
            /\ S.buf \in [1 .. BlockBytes -> Int]
            /\ \A i \in 1 .. S.buflen : S.buf[i] = ByteAt(keylen, m * BlockBytes + i)
            /\ S = Hasher(keylen, m, S.buf, S.buflen)
=============================================================================
