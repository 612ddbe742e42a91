---------------------------- MODULE KaspaSafety -----------------------------
(***************************************************************************)
(* What the application promises its user, whatever the host sends.        *)
(***************************************************************************)
EXTENDS KaspaApp

\* Every variable has the type of the C object it stands for.
TypeOK ==
    /\ state \in States
    /\ req_type \in RequestTypes
    /\ tx \in Transactions
    /\ parsing_output_index \in 0 .. MaxOutputCount
    /\ parsing_input_index \in 0 .. MaxInputCount
    /\ signing_input_index \in Byte
    /\ message \in Seq(0 .. 255) /\ Len(message) <= MaxMessageLen
    /\ raw_public_key \in Keys
    /\ bip32_path \in Paths
    /\ bip32_path_len \in Byte
    /\ screen.kind \in {"menu", "transaction", "message", "address"}
    /\ rapdu.kind \in {"none", "sw", "signature", "message_signature", "public_key",
                       "GET_VERSION", "GET_APP_NAME"}
    /\ consent.kind \in {"none", "transaction", "message", "address"}
    /\ signed \subseteq Byte

-----------------------------------------------------------------------------
(* Signing a transaction *)

Signed == rapdu.kind = "signature"

\* No signature leaves the device unless the user approved a review of that
\* kind and nothing has ended the approval since: no new request, no failure,
\* no restart (sign_tx.c:145, validate.c:45 and the resets of the state).
SignatureHasConsent ==
    /\ Signed => consent.kind = "transaction" /\ consent.shown.kind = "transaction"
    /\ rapdu.kind = "message_signature" =>
           consent.kind = "message" /\ consent.shown.kind = "message"

\* The approval still stands for a review of the whole transaction: all the
\* outputs and inputs announced by the header had been received.
SignedComplete == Signed /\ consent.complete

\* A signature commits to the outputs the user was shown: the first one pays
\* the displayed amount to the displayed address (ui_display_transaction reads
\* the same G_context that calc_outputs_hash reads, possibly many commands
\* later).
SignedPaymentIsShown ==
    SignedComplete =>
        /\ rapdu.hash.outputs[0].value = consent.shown.amount
        /\ script_public_key_to_address(rapdu.hash.outputs[0].script) = consent.shown.address
        /\ rapdu.hash.outputs = OutputsHash(consent.tx)

\* A key this device derives under an account.
IsOwnKey(key, account) ==
    /\ key.owner = "device"
    /\ key.path[1] = Purpose /\ key.path[2] = CoinType /\ key.path[3] = account

\* A second output that is signed pays back to this device, to a key of the
\* account the inputs are spent from: it is not shown to the user, so it must
\* be the user's (tx_validate.c:43).
SignedChangeIsOwn ==
    SignedComplete /\ 1 \in DOMAIN rapdu.hash.outputs =>
        LET script == rapdu.hash.outputs[1].script IN
        /\ script.kind = "schnorr"
        /\ IsOwnKey(script.key, rapdu.path[3])

\* A signature for one of the announced inputs is by the key of that input's
\* path and spends that input, and the value it commits to is the one counted
\* in the fees (crypto.c:63).
SignedInputIsReviewed ==
    SignedComplete /\ rapdu.input_index < consent.tx.tx_input_len =>
        LET txin == consent.tx.tx_inputs[rapdu.input_index] IN
        /\ rapdu.path = InputPath(consent.tx, txin)
        /\ rapdu.hash.script = TxinScript(PublicKey(rapdu.path))
        /\ rapdu.hash.outpoint = Outpoint(txin)
        /\ rapdu.hash.value = txin.value
        /\ rapdu.hash.prev_outputs =
               [i \in 0 .. consent.tx.tx_input_len - 1 |-> Outpoint(consent.tx.tx_inputs[i])]

\* The fees are what the inputs of t leave over its outputs, without a borrow.
FeesAre(t, fees) ==
    \A junk \in JunkInputs : InputTotal(t, junk) = OutputTotal(t) + fees

\* The fees the user approved are what the signed inputs leave over the signed
\* outputs, and they are not the result of a borrow (utils.c:98 wraps,
\* tx_validate.c:82 is there to exclude it).
SignedFeesAreShown ==
    SignedComplete => FeesAre(consent.tx, consent.shown.fees)

\* When a response says that no more signatures follow, every input of the
\* approved transaction has been signed (send_reponse.c:58).
LastSignatureCompletesTheSet ==
    SignedComplete /\ consent.first = 0 /\ rapdu.has_more = 0 =>
        0 .. consent.tx.tx_input_len - 1 \subseteq signed

\* Under one approval no input is signed twice before the one-byte index has
\* taken all its values (sign_tx.c:52, validate.c:53).
NoInputSignedTwice ==
    [][ rapdu'.kind = "signature" /\ consent.kind = "transaction" =>
            \/ rapdu'.input_index \notin signed
            \/ signed = Byte ]_vars

\* Only chunks that parsed to their end are counted, whatever rejected ones
\* left behind: a counted output has a script of a known form
\* (sign_tx.c:97).
CountedOutputsAreScripts ==
    \A o \in OutputSlots :
        o < parsing_output_index => tx.tx_outputs[o].script.kind \in ScriptKinds

-----------------------------------------------------------------------------
(* Messages and addresses *)

\* The text the user approved is the signed message as it is formatted for the
\* screen, and the key is the one of the path on the screen (sign_msg.c:95,
\* crypto.c:139).
SignedMessageIsShown ==
    rapdu.kind = "message_signature" =>
        /\ consent.shown.path = rapdu.path
        /\ consent.shown.text = format_message_to_sign(TextLen, rapdu.hash.message)

\* The key that is returned after an address was confirmed is the key of the
\* address and the path that were on the screen, and a key never comes from
\* outside the Kaspa purpose and coin type (get_public_key.c:58).
ReturnedKeyIsShown ==
    rapdu.kind = "public_key" =>
        /\ consent.kind = "address" =>
               rapdu.key = consent.shown.key /\ rapdu.key = PublicKey(consent.shown.path)
        /\ SubSeq(rapdu.key.path, 1, 2) = <<Purpose, CoinType>>
-----------------------------------------------------------------------------
(* The inductive invariant behind the safety of transaction signing *)

\* The review s shows the transaction t, and the change output it does not
\* show is one of this device, under the account of t.
ShowsTransaction(s, t) ==
    /\ s.kind = "transaction"
    /\ t.tx_output_len \in 1 .. 2
    /\ s.amount = t.tx_outputs[0].value
    /\ s.address = script_public_key_to_address(t.tx_outputs[0].script)
    /\ HasChange(t) =>
           /\ t.tx_outputs[1].script.kind = "schnorr"
           /\ IsOwnKey(t.tx_outputs[1].script.key, t.account)

\* A pending review is of the request in the context, and of what it holds.
ScreenInv ==
    /\ screen.kind = "transaction" =>
           req_type = "CONFIRM_TRANSACTION" /\ ShowsTransaction(screen, tx)
    /\ screen.kind = "message" =>
           /\ req_type = "CONFIRM_MESSAGE"
           /\ screen.path = bip32_path
           /\ screen.text = format_message_to_sign(TextLen, message)
    /\ screen.kind = "address" =>
           /\ req_type = "CONFIRM_ADDRESS"
           /\ screen.key = raw_public_key /\ screen.key = PublicKey(screen.path)
           /\ SubSeq(screen.path, 1, 2) = <<Purpose, CoinType>>

\* The state that permits a signature always has an approval behind it, and an
\* approval of a whole transaction holds on to the transaction: no chunk is
\* taken any more.
ConsentInv ==
    /\ req_type = "CONFIRM_TRANSACTION" /\ state = "STATE_APPROVED" =>
           consent.kind = "transaction"
    /\ consent.kind = "transaction" =>
           /\ ShowsTransaction(consent.shown, consent.tx)
           /\ consent.complete => tx = consent.tx /\ AllReceived
    /\ consent.kind = "message" => consent.shown.kind = "message"

\* The fees on the screen and those that were approved are right for a whole
\* transaction: calc_fees subtracted what tx_validate_parsed_transaction had
\* compared, from the same inputs (utils.c:98, tx_validate.c:82).
FeesInv ==
    /\ screen.kind = "transaction" /\ AllReceived => FeesAre(tx, screen.fees)
    /\ consent.kind = "transaction" /\ consent.complete =>
           FeesAre(consent.tx, consent.shown.fees)

\* The indexes from "first" up to the one before "next", around the end of the
\* byte when next has wrapped.
SignedSoFar(first, next) ==
    IF first < next THEN first .. next - 1
    ELSE (first .. ByteMod - 1) \cup (0 .. next - 1)

\* A review is never answered under an earlier approval, and the inputs signed
\* under an approval are the ones from its first index to the one before the
\* index in the context, until all the values of a byte have been used
\* (sign_tx.c:52, validate.c:53).
CountingInv ==
    /\ screen.kind # "menu" => consent.kind = "none"
    /\ consent.kind = "transaction" =>
           /\ consent.first \in Byte
           /\ signed \in {Byte, SignedSoFar(consent.first, signing_input_index)}

-----------------------------------------------------------------------------
(* What a comment, or the documentation, says and the code does not do.    *)
(* Each of these is refuted by a run.                                      *)

\* "Must be 1 or 2 outputs, must match the number of outputs we parsed" and
\* "Must be at least 1, must match the number of inputs we parsed"
\* (deserialize.c:158, :169): a transaction is put up for review with all the
\* outputs and inputs its header announced.
ReviewedTransactionIsComplete ==
    screen.kind = "transaction" => AllReceived

\* "Account must be hardened" (deserialize.c:190): the account of a reviewed
\* transaction is a hardened index.
ReviewedAccountIsHardened ==
    screen.kind = "transaction" => tx.account >= Hardened

\* "path[3] and path[4] would've been set by transaction_deserialize"
\* (tx_validate.c:51): the change output of a reviewed transaction pays to the
\* change path its header announced.
ReviewedChangeIsAnnounced ==
    screen.kind = "transaction" /\ AllReceived /\ HasChange(tx) =>
        tx.tx_outputs[1].script.key = PublicKey(header_path)
=============================================================================
