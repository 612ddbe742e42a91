---------------------------- MODULE TxSerialize -----------------------------
(***************************************************************************)
(* transaction/serialize.c byte by byte, and the parsers of                *)
(* transaction/deserialize.c it is the inverse of.  The unit tests and the *)
(* fuzzers run one after the other: what was parsed from a payload is      *)
(* written into a buffer.                                                  *)
(*                                                                         *)
(* The widths of the fields are the real ones.  Keys, hashes and ids are   *)
(* KeyLen bytes long, and a byte has ByteMod values, just enough for two   *)
(* lengths and four opcodes: with KeyLen 32 and 256 values of a byte,      *)
(* OP_CHECKSIG and the rest would be their real values.                    *)
(***************************************************************************)
EXTENDS Integers, Sequences

CONSTANTS
    KeyLen,         \* 32
    ByteMod,        \* 256
    MaxInputCount,  \* MAX_INPUT_COUNT
    ScriptRoom,     \* SCRIPT_PUBLIC_KEY_BUFFER_LEN: 40
    Payloads,       \* the payloads that get parsed, each with its kind
    BufferLens      \* lengths of the buffers serialised into

OP_BLAKE2B       == KeyLen + 2  \* 0xaa
OP_EQUAL         == KeyLen + 3  \* 0x87
OP_CHECKSIG      == KeyLen + 4  \* 0xac
OP_CHECKSIGECDSA == KeyLen + 5  \* 0xab

Kinds == {"header", "output", "input"}

ASSUME SerializeAssumption ==
    /\ KeyLen \in Nat /\ ByteMod \in Nat /\ ScriptRoom \in Nat
    /\ OP_CHECKSIGECDSA < ByteMod /\ KeyLen + 3 <= ScriptRoom
    /\ \A p \in Payloads : p.kind \in Kinds /\ p.bytes \in Seq(0 .. ByteMod - 1)

VARIABLES
    payload,    \* the payload parsed last
    ok,         \* whether its parser returned PARSING_OK
    slot,       \* the structure the parser of that kind fills
    out,        \* the memory from the buffer on
    result      \* what the serialiser returned; Pending before

serialvars == <<payload, ok, slot, out, result>>

Pending == -2
Failed  == -1
MemoryLen == 8 + KeyLen + 6     \* as much as any of them writes
Untouched == -1

-----------------------------------------------------------------------------
\* buffer_read_u16/u32/u64 and write_u16/u32/u64_be
FromBE(bytes) ==
    LET n[k \in 0 .. Len(bytes)] == IF k = 0 THEN 0 ELSE n[k - 1] * ByteMod + bytes[k]
    IN  n[Len(bytes)]

\* n >> (8 * w)
Shifted(n, w) ==
    LET rest[k \in 0 .. w] == IF k = 0 THEN n ELSE rest[k - 1] \div ByteMod
    IN  rest[w]

BE(n, w) == [k \in 1 .. w |-> Shifted(n, w - k) % ByteMod]

Hardened == ByteMod ^ 4 \div 2

Has(p, n) == Len(p) >= n
Field(p, from, w) == FromBE(SubSeq(p, from + 1, from + w))

\* A field that is not all there is read as 0, once the ones before it are.
ReadField(p, from, w, old) ==
    IF Has(p, from + w) THEN Field(p, from, w) ELSE IF Has(p, from) THEN 0 ELSE old

\* The bytes at the front of a memory replaced.
Overwrite(memory, bytes) ==
    [k \in DOMAIN memory |-> IF k \in DOMAIN bytes THEN bytes[k] ELSE memory[k]]

-----------------------------------------------------------------------------
(* Parsers: [ok, slot], the slot with what was stored on the way *)

\* The bytes of the script at offset 8, none where it is not accepted.
ScriptIn(p) ==
    LET first == p[9]
        whole(len, opcode) ==
            IF Has(p, 8 + len) /\ p[8 + len] = opcode THEN SubSeq(p, 9, 8 + len) ELSE <<>>
    IN  CASE ~Has(p, 9) -> <<>>
          [] Has(p, 9) /\ first = OP_BLAKE2B ->
                IF Has(p, 10) /\ p[10] = KeyLen THEN whole(KeyLen + 3, OP_EQUAL) ELSE <<>>
          [] Has(p, 9) /\ first = KeyLen -> whole(KeyLen + 2, OP_CHECKSIG)
          [] Has(p, 9) /\ first = KeyLen + 1 -> whole(KeyLen + 3, OP_CHECKSIGECDSA)
          [] OTHER -> <<>>

transaction_output_deserialize(p, old) ==
    LET script == ScriptIn(p) IN
    [ok |-> script # <<>> /\ Len(p) = 8 + Len(script),
     slot |-> [value |-> ReadField(p, 0, 8, old.value),
               script_public_key |-> Overwrite(old.script_public_key, script)]]

InputLen == 8 + KeyLen + 6      \* 46

transaction_input_deserialize(p, old) ==
    [ok |-> Len(p) = InputLen,
     slot |->
        [value |-> ReadField(p, 0, 8, old.value),
         tx_id |-> IF Has(p, 8 + KeyLen) THEN SubSeq(p, 9, 8 + KeyLen) ELSE old.tx_id,
         address_type  |-> ReadField(p, 8 + KeyLen, 1, old.address_type),
         address_index |-> ReadField(p, 9 + KeyLen, 4, old.address_index),
         index         |-> ReadField(p, 13 + KeyLen, 1, old.index)]]

HeaderLen == 13

\* A header that is refused leaves no more than its parts; nobody serialises it.
transaction_deserialize(p, old) ==
    LET accepted ==
            /\ Len(p) = HeaderLen
            /\ p[3] \in 1 .. 2 /\ p[4] \in 1 .. MaxInputCount /\ p[5] \in {0, 1}
            /\ Field(p, 9, 4) >= Hardened
    IN  [ok |-> accepted,
         slot |-> IF accepted
                  THEN [version |-> Field(p, 0, 2), tx_output_len |-> p[3], tx_input_len |-> p[4],
                        path |-> <<Field(p, 9, 4), p[5], Field(p, 5, 4)>>]
                  ELSE old]

Deserialize(p, old) ==
    CASE p.kind = "header" -> transaction_deserialize(p.bytes, old)
      [] p.kind = "output" -> transaction_output_deserialize(p.bytes, old)
      [] p.kind = "input"  -> transaction_input_deserialize(p.bytes, old)

-----------------------------------------------------------------------------
(* Serialisers: the room they ask for, and what they write.  path is       *)
(* bip32_path[2..4].                                                       *)
RoomAskedFor(kind) ==
    CASE kind = "header" -> 9
      [] kind = "output" -> 8 + KeyLen + 1      \* 41
      [] kind = "input"  -> InputLen

transaction_serialize(tx) ==
    BE(tx.version, 2) \o <<tx.tx_output_len, tx.tx_input_len, tx.path[2] % ByteMod>>
    \o BE(tx.path[3], 4) \o BE(tx.path[1], 4)

transaction_input_serialize(txin) ==
    BE(txin.value, 8) \o txin.tx_id \o <<txin.address_type>>
    \o BE(txin.address_index, 4) \o <<txin.index>>

transaction_output_serialize_FirstByte(txout) ==
    LET script == txout.script_public_key
    IN  BE(txout.value, 8) \o SubSeq(script, 1, script[1] + 2)

transaction_output_serialize(txout) ==
    LET script == txout.script_public_key
        len == IF script[1] = OP_BLAKE2B THEN script[2] + 3 ELSE script[1] + 2
    IN  BE(txout.value, 8) \o SubSeq(script, 1, len)

Serialized(kind) ==
    CASE kind = "header" -> transaction_serialize(slot)
      [] kind = "output" -> transaction_output_serialize(slot)
      [] kind = "input"  -> transaction_input_serialize(slot)

-----------------------------------------------------------------------------
ZeroSlot(kind) ==
    CASE kind = "header" -> [version |-> 0, tx_output_len |-> 0, tx_input_len |-> 0,
                             path |-> <<0, 0, 0>>]
      [] kind = "output" -> [value |-> 0, script_public_key |-> [k \in 1 .. ScriptRoom |-> 0]]
      [] kind = "input"  -> [value |-> 0, tx_id |-> [k \in 1 .. KeyLen |-> 0],
                             address_type |-> 0, address_index |-> 0, index |-> 0]

Clean == [k \in 1 .. MemoryLen |-> Untouched]

\* One slot of one kind, into which payloads of that kind are parsed.
SerialInit ==
    /\ \E kind \in Kinds : payload = [kind |-> kind, bytes |-> <<>>] /\ slot = ZeroSlot(kind)
    /\ ok = FALSE
    /\ out = Clean /\ result = Pending

Parse(p) ==
    LET parsed == Deserialize(p, slot) IN
    /\ p.kind = payload.kind
    /\ payload' = p
    /\ ok' = parsed.ok
    /\ slot' = parsed.slot
    /\ out' = Clean /\ result' = Pending

Serialize(n) ==
    /\ ok /\ result = Pending
    /\ IF n < RoomAskedFor(payload.kind)
       THEN result' = Failed /\ UNCHANGED out
       ELSE /\ result' = Len(Serialized(payload.kind))
            /\ out' = Overwrite(out, Serialized(payload.kind))
    /\ UNCHANGED <<payload, ok, slot>>

SerialNext == (\E p \in Payloads : Parse(p)) \/ (\E n \in BufferLens : Serialize(n))

SerialSpec == SerialInit /\ [][SerialNext]_serialvars

-----------------------------------------------------------------------------
Succeeded == result \notin {Pending, Failed}

\* What was parsed is written as it came: the two files agree on places, widths
\* and byte order of all fields, and on where a script ends - whatever an
\* earlier, longer or rejected chunk left in the slot (deserialize.c:30-200).
RoundTrip ==
    Succeeded =>
        /\ result = Len(payload.bytes)
        /\ SubSeq(out, 1, result) = payload.bytes
=============================================================================
