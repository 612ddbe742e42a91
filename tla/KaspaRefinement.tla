--------------------------- MODULE KaspaRefinement --------------------------
(***************************************************************************)
(* The application implements SigningConsent: the refinement mapping.      *)
(***************************************************************************)
EXTENDS KaspaSafety

None == [kind |-> "none"]

\* Addresses are left out: a key may be asked for without a review.
Pending ==
    CASE screen.kind = "transaction" ->
            [kind |-> "transaction", shown |-> screen, tx |-> tx, complete |-> AllReceived]
      [] screen.kind = "message" ->
            [kind |-> "message", shown |-> screen, message |-> message]
      [] OTHER -> None

Approved ==
    IF consent.kind = "transaction"
    THEN [kind   |-> "approved",
          review |-> [kind |-> "transaction", shown |-> consent.shown, tx |-> consent.tx,
                      complete |-> consent.complete],
          next   |-> signing_input_index]
    ELSE None

Sent == IF rapdu.kind \in {"signature", "message_signature"} THEN rapdu ELSE None

\* The screen shows the content.
IsReviewOf(r) ==
    \/ r.kind = "transaction" /\ ShowsTransaction(r.shown, r.tx)
    \/ r.kind = "message" /\ r.shown.text = format_message_to_sign(TextLen, r.message)

\* The signature of input i of the transaction t, that announces how many
\* inputs are left.
IsInputSignature(t, i, s) ==
    \E junk \in JunkInputs :
        LET txin == InputAt(t, i, junk) IN
        /\ s.path = InputPath(t, txin)
        /\ s.hash = calc_sighash(t, txin, PublicKey(s.path), junk)
        /\ s.has_more = (t.tx_input_len - i - 1) % ByteMod

\* A review that came before all the outputs and inputs leaves the content
\* open: what is signed is then some transaction, not the reviewed one.
IsSignatureOf(r, i, s) ==
    \/ /\ r.kind = "transaction" /\ s.kind = "signature" /\ s.input_index = i
       /\ r.complete => IsInputSignature(r.tx, i, s)
    \/ /\ r.kind = "message" /\ s.kind = "message_signature"
       /\ s.hash = MessageHash(r.message) /\ s.path = r.shown.path

Consent == INSTANCE SigningConsent WITH
    Modulus     <- ByteMod,
    IsReview    <- IsReviewOf,
    IsSignature <- IsSignatureOf,
    pending     <- Pending,
    approved    <- Approved,
    output      <- Sent

\* The device signs what its user approved, and only that: every step of the
\* application is one of the abstract device or changes nothing it knows of
\* (sign_tx.c:145, validate.c:41, crypto.c:58).
ImplementsConsent == Consent!Spec
=============================================================================
