------------------------------- MODULE SignTx -------------------------------
(***************************************************************************)
(* SIGN_TX: handler/sign_tx.c, the review of a transaction                 *)
(* (ui/nbgl_display_transaction.c, ui/bagl_display.c), the user's answer   *)
(* (ui/action/validate.c) and the signing of one input (crypto.c).         *)
(***************************************************************************)
EXTENDS AppState

NotASession == req_type # "CONFIRM_TRANSACTION"

(* Definitions whose name ends in _<Slip> are plausible slips in the code   *)
(* of the definition that follows them.  Nothing uses them: they show that  *)
(* a property depends on what the code does there.                         *)

NoOutputSlot_SlotsOnly    == parsing_output_index >= MaxOutputCount
NoInputSlot_AnnouncedOnly == parsing_input_index >= tx.tx_input_len
NoInputSlot_OneEarly == parsing_input_index + 1 >= tx.tx_input_len

\* No slot is left, or the header announced no more of them.
NoOutputSlot == \/ parsing_output_index >= MaxOutputCount
                \/ parsing_output_index >= tx.tx_output_len
NoInputSlot  == \/ parsing_input_index >= MaxInputCount
                \/ parsing_input_index >= tx.tx_input_len

\* The current slot after a parser ran on it, to its end or not.
WithOutput(c) ==
    [tx EXCEPT !.tx_outputs[parsing_output_index] = OutputWrite(c, @)]
WithInput(c) ==
    [tx EXCEPT !.tx_inputs[parsing_input_index] = InputWrite(c, @)]

\* A chunk is answered with sw and nothing else happens.
Refuse(sw) == Respond(SW(sw)) /\ UNCHANGED <<context, approval>>

-----------------------------------------------------------------------------
\* P1_START: a new session; a header that does not parse leaves the session
\* open with the fields that were read before the error.
SignTxHeader(h) ==
    /\ state' = "STATE_NONE"
    /\ req_type' = "CONFIRM_TRANSACTION"
    /\ tx' = HeaderTx(h)
    /\ parsing_output_index' = 0
    /\ parsing_input_index' = 0
    /\ signing_input_index' = 0
    /\ ClearMessage /\ ClearKey
    /\ bip32_path' = HeaderPath(h)
    /\ header_path' = HeaderPath(h)
    /\ bip32_path_len' = 0
    /\ Revoke
    /\ Respond(SW(IF HeaderOK(h) THEN "SW_OK" ELSE "SW_TX_PARSING_FAIL"))

\* P1_OUTPUTS.  The dispatcher requires P2_MORE.  The parser's own negative
\* status is sent as the status word.
SignTxOutput(c) ==
    \/ NotASession /\ Refuse("SW_BAD_STATE")
    \/ ~NotASession /\ NoOutputSlot /\ Refuse("SW_TX_PARSING_FAIL")
    \/ /\ ~NotASession /\ ~NoOutputSlot
       /\ tx' = WithOutput(c)
       /\ parsing_output_index' = parsing_output_index + (IF OutputOK(c) THEN 1 ELSE 0)
       /\ Respond(SW(IF OutputOK(c) THEN "SW_OK" ELSE "OUTPUT_PARSING_STATUS"))
       /\ UNCHANGED <<state, req_type, parsing_input_index, signing_input_index,
                      header_path, message, raw_public_key, path, approval>>

-----------------------------------------------------------------------------
AllReceived == /\ parsing_output_index = tx.tx_output_len
               /\ parsing_input_index = tx.tx_input_len

DisplayTransaction_LastOutput(t, junk) ==
    LET shown == t.tx_outputs[t.tx_output_len - 1] IN
    Show(TransactionReview(shown.value, script_public_key_to_address(shown.script),
                           calc_fees(t, junk)))

\* ui_display_transaction for the transaction t.
DisplayTransaction(t, junk) ==
    \/ Show(TransactionReview(t.tx_outputs[0].value,
                              script_public_key_to_address(t.tx_outputs[0].script),
                              calc_fees(t, junk)))
    \/ Respond(SW("SW_DISPLAY_AMOUNT_FAIL"))

\* The last chunk of inputs: validate the transaction t and show it.
ReviewTransaction(t) ==
    \E derives \in BOOLEAN, junk \in JunkInputs :
        /\ bip32_path' = IF ForcesChangePath(t) THEN ChangePath(t, bip32_path)
                                                ELSE bip32_path
        /\ bip32_path_len' = IF ForcesChangePath(t) THEN MaxPathLen ELSE bip32_path_len
        /\ IF tx_validate_parsed_transaction(t, bip32_path, derives, junk)
           THEN state' = "STATE_PARSED" /\ Revoke /\ DisplayTransaction(t, junk)
           ELSE Respond(SW("SW_TX_PARSING_FAIL")) /\ UNCHANGED <<state, approval>>

\* P1_INPUTS, with P2_MORE or P2_LAST.
SignTxInput(c, more) ==
    \/ NotASession /\ Refuse("SW_BAD_STATE")
    \/ ~NotASession /\ NoInputSlot /\ Refuse("SW_TX_PARSING_FAIL")
    \/ /\ ~NotASession /\ ~NoInputSlot
       /\ tx' = WithInput(c)
       /\ UNCHANGED <<req_type, parsing_output_index, signing_input_index,
                      header_path, message, raw_public_key>>
       /\ \/ /\ ~InputOK(c)
             /\ Respond(SW("SW_TX_PARSING_FAIL"))
             /\ UNCHANGED <<state, parsing_input_index, path, approval>>
          \/ /\ InputOK(c) /\ more
             /\ parsing_input_index' = parsing_input_index + 1
             /\ Respond(SW("SW_OK"))
             /\ UNCHANGED <<state, path, approval>>
          \/ /\ InputOK(c) /\ ~more
             /\ parsing_input_index' = parsing_input_index + 1
             /\ ReviewTransaction(WithInput(c))

-----------------------------------------------------------------------------
\* The indexes in a response are single bytes.
HasMore_AfterIncrement == (tx.tx_input_len - signing_input_index - 2) % ByteMod
HasMore == (tx.tx_input_len - signing_input_index - 1) % ByteMod

NextIndex_NotAdvanced == signing_input_index
NextIndex == (signing_input_index + 1) % ByteMod

\* helper_send_response_sig
SignatureResponse(txin, junk) ==
    LET p == InputPath(tx, txin) IN
    [kind        |-> "signature",
     has_more    |-> HasMore,
     input_index |-> signing_input_index,
     path        |-> p,
     hash        |-> calc_sighash(tx, txin, PublicKey(p), junk)]

InputToSign_First(junk) == InputAt(tx, 0, junk)
InputToSign(junk) == InputAt(tx, signing_input_index, junk)

\* crypto_sign_transaction and what its two callers make of the result; c is
\* the consent the signature is given under, s the inputs signed before.
SignInput(c, s) ==
    \E junk \in JunkInputs :
        LET txin == InputToSign(junk) IN
        /\ bip32_path' = InputPath(tx, txin)
        /\ bip32_path_len' = MaxPathLen
        /\ UNCHANGED <<req_type, tx, parsing_output_index, parsing_input_index,
                       header_path, message, raw_public_key>>
        /\ \/ /\ state' = "STATE_APPROVED"
              /\ rapdu' = SignatureResponse(txin, junk)
              /\ signing_input_index' = NextIndex
              /\ consent' = c
              /\ signed' = s \cup {signing_input_index}
           \/ /\ state' = "STATE_NONE"
              /\ rapdu' = SW("CRYPTO_ERROR")
              /\ Revoke
              /\ UNCHANGED signing_input_index

MaySignNext_AnyState   == ~NotASession
MaySignNext_AnyRequest == state = "STATE_APPROVED"
MaySignNext == ~NotASession /\ state = "STATE_APPROVED"

\* P1_NEXT_SIGNATURE
NextSignature ==
    \/ /\ ~MaySignNext
       /\ ClearContext
       /\ Revoke
       /\ Respond(SW("SW_BAD_STATE"))
    \/ /\ MaySignNext
       /\ SignInput(consent, signed)
       /\ UNCHANGED screen

-----------------------------------------------------------------------------
TransactionConsent ==
    [kind |-> "transaction", shown |-> screen, tx |-> tx, complete |-> AllReceived,
     first |-> signing_input_index]

\* validate_transaction(true)
ApproveTransaction ==
    /\ screen.kind = "transaction"
    /\ SignInput(TransactionConsent, {})
    /\ screen' = Menu

\* validate_transaction(false)
RejectTransaction ==
    /\ screen.kind = "transaction"
    /\ state' = "STATE_NONE"
    /\ Answered(SW("SW_DENY"))
    /\ UNCHANGED <<req_type, txInfo, message, raw_public_key, path, approval>>
=============================================================================
