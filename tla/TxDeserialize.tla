--------------------------- MODULE TxDeserialize ----------------------------
(***************************************************************************)
(* transaction/deserialize.c: the three parsers of a SIGN_TX payload.       *)
(*                                                                         *)
(* A payload is a record: "size" is its length in bytes (0: no data), the  *)
(* other fields are what the bytes at each field's place decode to.  The   *)
(* parsers write straight into G_context and stop at the first field that  *)
(* is missing or rejected, so for every parser there are two results: what *)
(* it leaves in its destination, and whether it returned PARSING_OK.       *)
(***************************************************************************)
EXTENDS KaspaTypes

HeaderChunks == [size : Nat, version : Nat, n_output : Byte, n_input : Byte,
                 change_type : Nat, change_index : Nat, account : Nat]

\* A script is well formed when its last opcode (and, for P2SH, its second
\* byte) is the one its first byte calls for.
OutputChunks == [size : Nat, value : Amounts,
                 script : [kind : ScriptKinds \cup {"unknown"}, key : Keys],
                 wellformed : BOOLEAN]

InputChunks == [size : Nat, value : Amounts, tx_id : Nat, address_type : Nat,
                address_index : Nat, index : Nat]

\* What a destination holds after the parser has got as far as offset "from",
\* where it reads a field that ends at offset "to": buffer_read_u8/u32/u64
\* store 0 when the field is not all there.
ReadField(size, from, to, new, old) ==
    IF size >= to THEN new ELSE IF size >= from THEN 0 ELSE old

-----------------------------------------------------------------------------
(* transaction_deserialize: version 2, n_output 1, n_input 1, change type  *)
(* 1, change index 4, account 4 bytes; 13 in all.                          *)
OutputLenRead(h) == h.size >= 3
OutputLenOK(h)   == OutputLenRead(h) /\ h.n_output \in 1 .. 2
InputLenRead(h)  == OutputLenOK(h) /\ h.size >= 4
InputLenOK(h)    == InputLenRead(h) /\ h.n_input \in 1 .. MaxInputCount
AccountRead(h)   == InputLenOK(h) /\ h.change_type \in {0, 1} /\ h.size >= 13
AccountOK(h)     == AccountRead(h) /\ h.account >= Hardened

HeaderOK(h) == AccountOK(h) /\ h.size = 13

\* The transaction a header leaves behind; G_context was just zeroed.
HeaderTx(h) ==
    [ZeroTx EXCEPT
        !.version       = IF h.size >= 2 THEN h.version ELSE 0,
        !.tx_output_len = IF OutputLenRead(h) THEN h.n_output ELSE 0,
        !.tx_input_len  = IF InputLenRead(h) THEN h.n_input ELSE 0,
        !.account       = IF AccountRead(h) THEN h.account ELSE 0]

\* The bip32_path a header leaves behind: the path of the change address.
HeaderPath(h) ==
    IF AccountOK(h) THEN KaspaPath(h.account, h.change_type, h.change_index)
                    ELSE ZeroPath

-----------------------------------------------------------------------------
(* transaction_output_deserialize: 8 bytes of value, then the script.      *)
ScriptLen(kind) == IF kind = "schnorr" THEN 34 ELSE 35

OutputScriptRead(c) ==
    /\ c.script.kind \in ScriptKinds
    /\ c.size >= 8 + ScriptLen(c.script.kind)
    /\ c.wellformed

OutputOK_ValueOnly(c) == c.size >= 8
OutputOK(c) == OutputScriptRead(c) /\ c.size = 8 + ScriptLen(c.script.kind)

OutputWrite(c, slot) ==
    [value  |-> ReadField(c.size, 0, 8, c.value, slot.value),
     script |-> IF OutputScriptRead(c) THEN c.script ELSE slot.script]

-----------------------------------------------------------------------------
(* transaction_input_deserialize: value 8, tx_id 32, address type 1,       *)
(* address index 4, index 1 byte; 46 in all.                               *)
InputOK(c) == c.size = 46

InputWrite(c, slot) ==
    [value         |-> ReadField(c.size, 0, 8, c.value, slot.value),
     tx_id         |-> IF c.size >= 40 THEN c.tx_id ELSE slot.tx_id,
     address_type  |-> ReadField(c.size, 40, 41, c.address_type, slot.address_type),
     address_index |-> ReadField(c.size, 41, 45, c.address_index, slot.address_index),
     index         |-> ReadField(c.size, 45, 46, c.index, slot.index)]
=============================================================================
