------------------------------ MODULE TxRules -------------------------------
(***************************************************************************)
(* What the application computes from a parsed transaction: the checks of  *)
(* tx_validate.c, the fees and the address shown to the user (utils.c), the*)
(* path of an input's key (crypto.c) and the hash that is signed           *)
(* (sighash.c).                                                            *)
(*                                                                         *)
(* tx_input_len may exceed MaxInputCount after a rejected header, and      *)
(* signing_input_index may run past the array: the code then reads memory  *)
(* that is not an input.  "junk" is the input those bytes happen to form.  *)
(***************************************************************************)
EXTENDS TxDeserialize

InputAt(tx, i, junk) == IF i < MaxInputCount THEN tx.tx_inputs[i] ELSE junk

\* uint64_t sums: they wrap.
InputTotal(tx, junk) ==
    LET sum[n \in 0 .. tx.tx_input_len] ==
            IF n = 0 THEN 0
            ELSE (sum[n - 1] + InputAt(tx, n - 1, junk).value) % AmountMod
    IN  sum[tx.tx_input_len]

OutputTotal(tx) ==
    LET sum[n \in 0 .. tx.tx_output_len] ==
            IF n = 0 THEN 0
            ELSE (sum[n - 1] + tx.tx_outputs[n - 1].value) % AmountMod
    IN  sum[tx.tx_output_len]

calc_fees(tx, junk) == (InputTotal(tx, junk) - OutputTotal(tx)) % AmountMod

\* script_public_key_to_address: any first byte that is neither 0xaa nor 0x21
\* is displayed as a Schnorr address of the 32 bytes that follow.
script_public_key_to_address(script) ==
    [type |-> IF script.kind \in {"p2sh", "ecdsa"} THEN script.kind ELSE "schnorr",
     key  |-> script.key]

-----------------------------------------------------------------------------
(* tx_validate_parsed_transaction *)

HasChange(tx) == tx.tx_output_len = 2

LengthsOK(tx) == tx.tx_output_len \in 1 .. 2 /\ tx.tx_input_len >= 1

\* path[3] and path[4] are whatever the context holds.
ChangePath(tx, path) == KaspaPath(tx.account, path[4], path[5])

\* The change path is forced into the context before the key is compared,
\* and stays there when a later check fails.
ForcesChangePath(tx) ==
    LengthsOK(tx) /\ HasChange(tx) /\ tx.tx_outputs[1].script.kind = "schnorr"

\* "derives" is the outcome of the key derivation, which may fail.
crypto_validate_public_key(path, public_key, derives) ==
    derives /\ public_key = PublicKey(path)

ChangeOK_ScriptOnly(tx, path, derives) ==
    HasChange(tx) => tx.tx_outputs[1].script.kind = "schnorr"

ChangeOK(tx, path, derives) ==
    HasChange(tx) =>
        /\ tx.tx_outputs[1].script.kind = "schnorr"
        /\ crypto_validate_public_key(ChangePath(tx, path), tx.tx_outputs[1].script.key, derives)

tx_validate_parsed_transaction_NoTotals(tx, path, derives, junk) ==
    LengthsOK(tx) /\ ChangeOK(tx, path, derives)

tx_validate_parsed_transaction(tx, path, derives, junk) ==
    /\ LengthsOK(tx)
    /\ ChangeOK(tx, path, derives)
    /\ InputTotal(tx, junk) >= OutputTotal(tx)

-----------------------------------------------------------------------------
(* crypto_sign_transaction and calc_sighash.  A hash is known by the fields*)
(* it commits to: blake2b is taken to be injective.  Constants of the      *)
(* preimage (sequences of 0, one signature operation per input, lock time, *)
(* subnetwork, gas, payload, SigHashAll) are left out.                     *)

InputPath(tx, txin) == KaspaPath(tx.account, txin.address_type, txin.address_index)

Outpoint(txin) == [tx_id |-> txin.tx_id, index |-> txin.index]

PrevOutputsHash(tx, junk) ==
    [i \in 0 .. tx.tx_input_len - 1 |-> Outpoint(InputAt(tx, i, junk))]

OutputsHash(tx) == [o \in 0 .. tx.tx_output_len - 1 |-> tx.tx_outputs[o]]

\* calc_txin_script_public_key: the input is assumed to be a Schnorr one.
TxinScript(public_key) == [kind |-> "schnorr", key |-> public_key]

calc_sighash(tx, txin, public_key, junk) ==
    [version      |-> tx.version,
     prev_outputs |-> PrevOutputsHash(tx, junk),
     outpoint     |-> Outpoint(txin),
     script       |-> TxinScript(public_key),
     value        |-> txin.value,
     outputs      |-> OutputsHash(tx)]
=============================================================================
