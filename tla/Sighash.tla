------------------------------ MODULE Sighash -------------------------------
(***************************************************************************)
(* sighash.c byte by byte: the preimage calc_sighash feeds to blake2b,     *)
(* assembled in one small buffer that is used again for every field.       *)
(* TxRules!calc_sighash says which fields the hash commits to; here is how *)
(* they become bytes.                                                      *)
(*                                                                         *)
(* A byte is a number <<"byte", n>>, or one of the n bytes of a value that *)
(* is not taken apart - an id, a key, a script, a digest - of which the    *)
(* first one stands for the value.                                         *)
(***************************************************************************)
EXTENDS TxRules

CONSTANTS SighashTxs    \* the transactions whose hashes are computed

\* n >> (8 * w)
Shifted(n, w) ==
    LET rest[k \in 0 .. w] == IF k = 0 THEN n ELSE rest[k - 1] \div ByteMod
    IN  rest[w]

\* n is an unsigned number of w bytes.
Fits(n, w) == Shifted(n, w) = 0

\* Transactions the parser accepts: uint16_t version, uint64_t values, and an
\* index that is read from one byte.
ASSUME SighashAssumption ==
    /\ ByteMod > 172        \* OP_CHECKSIG, 0xac, is a byte
    /\ \A t \in SighashTxs :
          /\ t \in Transactions /\ Fits(t.version, 2)
          /\ t.tx_output_len \in 1 .. 2 /\ t.tx_input_len \in 1 .. MaxInputCount
          /\ \A o \in OutputSlots : Fits(t.tx_outputs[o].value, 8)
          /\ \A i \in InputSlots :
                Fits(t.tx_inputs[i].value, 8) /\ Fits(t.tx_inputs[i].index, 4)

VARIABLES
    tx,             \* the transaction
    txin,           \* the input that is signed
    todo,           \* the statements of calc_sighash that are left
    outer_buffer,
    preimage        \* what was fed to the hash so far

sighashvars == <<tx, txin, todo, outer_buffer, preimage>>

-----------------------------------------------------------------------------
HashLen   == 32
BufferLen == 36     \* outer_buffer
InnerLen  == 32     \* inner_buffer

B(n) == <<"byte", n>>
Zeros(n) == [k \in 1 .. n |-> B(0)]
Opaque(value, n) == [k \in 1 .. n |-> IF k = 1 THEN <<"value", value, n>> ELSE <<"byte", n, k>>]

\* write_u16_le, write_u32_le, write_u64_le: n as w bytes, the lowest first.
LE(n, w) == [k \in 1 .. w |-> B(Shifted(n, k - 1) % ByteMod)]

\* A blake2b digest; blake2b is taken to be injective.
Digest(bytes) == Opaque(bytes, HashLen)

ScriptBytes(script) == Opaque(script, ScriptLen(script.kind))
KeyBytes(key) == Opaque(key, 32)
IdBytes(tx_id) == Opaque(tx_id, 32)

-----------------------------------------------------------------------------
(* Statements: memset of a buffer, a store at an offset, hash_update from  *)
(* the buffer, hash_update from somewhere else.                            *)
Clear         == [op |-> "clear"]
Store(o, bs)  == [op |-> "store", at |-> o, bytes |-> bs]
Feed(n)       == [op |-> "feed", len |-> n]
FeedBytes(bs) == [op |-> "bytes", bytes |-> bs]

BufferAfter(s, buffer) ==
    CASE s.op = "clear" -> Zeros(Len(buffer))
      [] s.op = "store" ->
            [k \in DOMAIN buffer |->
                IF k - s.at \in DOMAIN s.bytes THEN s.bytes[k - s.at] ELSE buffer[k]]
      [] OTHER -> buffer

FedBy(s, buffer) ==
    CASE s.op = "feed"  -> SubSeq(buffer, 1, s.len)
      [] s.op = "bytes" -> s.bytes
      [] OTHER          -> <<>>

\* What a whole sequence of statements feeds, from a buffer of zeroes.
FedByAll(ss) ==
    LET run[k \in 0 .. Len(ss)] ==
            IF k = 0 THEN [buffer |-> Zeros(InnerLen), fed |-> <<>>]
            ELSE LET before == run[k - 1] IN
                 [buffer |-> BufferAfter(ss[k], before.buffer),
                  fed    |-> before.fed \o FedBy(ss[k], before.buffer)]
    IN  run[Len(ss)].fed

\* The statements of the n turns of a loop.
Turns(turn, n) ==
    LET upto[k \in 0 .. n] == IF k = 0 THEN <<>> ELSE upto[k - 1] \o turn[k - 1]
    IN  upto[n]

-----------------------------------------------------------------------------
(* The four hashes inside, each with an inner_buffer of its own *)

calc_prev_outputs_hash(t) ==
    LET turn == [i \in InputSlots |->
            <<Clear, Store(0, LE(t.tx_inputs[i].index, 4)),
              FeedBytes(IdBytes(t.tx_inputs[i].tx_id)), Feed(4)>>]
    IN  Digest(FedByAll(Turns(turn, t.tx_input_len)))

\* No line of the application assigns a sequence: all of them are 0.
Sequence == 0

calc_sequences_hash(t) ==
    LET turn == [i \in InputSlots |->
            <<Clear, Store(0, LE(Sequence, 8)), Feed(8), Clear>>]
    IN  Digest(FedByAll(Turns(turn, t.tx_input_len)))

calc_sig_op_count_hash(t) ==
    LET turn == [i \in InputSlots |->
            <<Store(0, <<B(1)>>), Feed(1), Clear>>]
    IN  Digest(FedByAll(Turns(turn, t.tx_input_len)))

calc_outputs_hash_NoClear(t) ==
    LET turn == [o \in OutputSlots |->
            LET script == t.tx_outputs[o].script IN
            <<Clear, Store(0, LE(t.tx_outputs[o].value, 8)), Feed(8),
              Feed(2), Store(0, LE(ScriptLen(script.kind), 8)), Feed(8),
              FeedBytes(ScriptBytes(script))>>]
    IN  Digest(FedByAll(Turns(turn, t.tx_output_len)))

calc_outputs_hash(t) ==
    LET turn == [o \in OutputSlots |->
            LET script == t.tx_outputs[o].script IN
            <<Clear, Store(0, LE(t.tx_outputs[o].value, 8)), Feed(8), Clear,
              Feed(2), Store(0, LE(ScriptLen(script.kind), 8)), Feed(8),
              FeedBytes(ScriptBytes(script))>>]
    IN  Digest(FedByAll(Turns(turn, t.tx_output_len)))

\* 0x20, the key, OP_CHECKSIG
calc_txin_script_public_key(key) == <<B(32)>> \o KeyBytes(key) \o <<B(172)>>

SigningKey(t, i) == PublicKey(InputPath(t, i))

\* A field that is stored, fed and cleared away.
Field(bytes) == <<Store(0, bytes), Feed(Len(bytes)), Clear>>

\* calc_sighash from hash_init to hash_finalize.
Statements_StaleIndex(t, i) ==
    Field(LE(t.version, 2))
    \o Field(calc_prev_outputs_hash(t))
    \o Field(calc_sequences_hash(t))
    \o Field(calc_sig_op_count_hash(t))
    \o <<FeedBytes(IdBytes(i.tx_id)), Store(0, LE(i.index, 4)), Feed(4), Feed(2)>>
    \o <<Store(0, LE(34, 8)), Feed(8),
         Store(0, calc_txin_script_public_key(SigningKey(t, i))), Feed(34), Clear>>
    \o Field(LE(i.value, 8))
    \o Field(LE(Sequence, 8))
    \o Field(<<B(1)>>)
    \o Field(calc_outputs_hash(t))
    \o <<Feed(8), Feed(20), Feed(8), Feed(32), Store(0, <<B(1)>>), Feed(1)>>

Statements(t, i) ==
    Field(LE(t.version, 2))
    \o Field(calc_prev_outputs_hash(t))
    \o Field(calc_sequences_hash(t))
    \o Field(calc_sig_op_count_hash(t))
    \o <<FeedBytes(IdBytes(i.tx_id))>> \o Field(LE(i.index, 4)) \o <<Feed(2)>>
    \o <<Store(0, LE(34, 8)), Feed(8),
         Store(0, calc_txin_script_public_key(SigningKey(t, i))), Feed(34), Clear>>
    \o Field(LE(i.value, 8))
    \o Field(LE(Sequence, 8))
    \o Field(<<B(1)>>)
    \o Field(calc_outputs_hash(t))
    \o <<Feed(8), Feed(20), Feed(8), Feed(32), Store(0, <<B(1)>>), Feed(1)>>

-----------------------------------------------------------------------------
SighashInit ==
    /\ tx \in SighashTxs
    /\ txin \in {tx.tx_inputs[i] : i \in 0 .. tx.tx_input_len - 1}
    /\ todo = Statements(tx, txin)
    /\ outer_buffer = Zeros(BufferLen)
    /\ preimage = <<>>

Done == todo = <<>>

Step ==
    /\ ~Done
    /\ outer_buffer' = BufferAfter(Head(todo), outer_buffer)
    /\ preimage' = preimage \o FedBy(Head(todo), outer_buffer)
    /\ todo' = Tail(todo)
    /\ UNCHANGED <<tx, txin>>

SighashSpec == SighashInit /\ [][Step]_sighashvars

-----------------------------------------------------------------------------
(* The preimage of the client, Sighash.to_hash in kaspa_transaction.py:    *)
(* no buffers, the fields one after the other.                             *)
Concat(part, n) == Turns(part, n)

to_hash(t, i) ==
    LET spent  == [k \in InputSlots |->
                        IdBytes(t.tx_inputs[k].tx_id) \o LE(t.tx_inputs[k].index, 4)]
        zero   == [k \in InputSlots |-> LE(0, 8)]
        one    == [k \in InputSlots |-> LE(1, 1)]
        output == [o \in OutputSlots |->
                        LE(t.tx_outputs[o].value, 8) \o LE(0, 2)
                        \o LE(ScriptLen(t.tx_outputs[o].script.kind), 8)
                        \o ScriptBytes(t.tx_outputs[o].script)]
    IN  LE(t.version, 2)
        \o Digest(Concat(spent, t.tx_input_len))
        \o Digest(Concat(zero, t.tx_input_len))
        \o Digest(Concat(one, t.tx_input_len))
        \o IdBytes(i.tx_id) \o LE(i.index, 4) \o LE(0, 2)
        \o LE(34, 8) \o LE(32, 1) \o KeyBytes(SigningKey(t, i)) \o LE(172, 1)
        \o LE(i.value, 8) \o LE(0, 8) \o LE(1, 1)
        \o Digest(Concat(output, t.tx_output_len))
        \o LE(0, 8) \o LE(0, 20) \o LE(0, 8) \o LE(0, 32) \o LE(1, 1)

\* The bytes the device hashes are the ones the client hashes: nothing an
\* earlier field left in a buffer gets into a later one
\* (sighash.c:199-325, kaspa_transaction.py:190).
PreimageMatchesClient ==
    /\ preimage = SubSeq(to_hash(tx, txin), 1, Len(preimage))
    /\ Done => preimage = to_hash(tx, txin)

\* Two computations that hash the same bytes agree on every field TxRules says
\* the hash commits to, and the other way round: the widths, the order and the
\* length before a script leave no two readings of a preimage.
Commits(t, i) == calc_sighash(t, i, SigningKey(t, i), i)

PreimageIsUnambiguous ==
    Done =>
        \A t \in SighashTxs :
            \A i \in {t.tx_inputs[k] : k \in 0 .. t.tx_input_len - 1} :
                preimage = to_hash(t, i) <=> Commits(tx, txin) = Commits(t, i)
=============================================================================
