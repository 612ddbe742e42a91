----------------------------- MODULE SignMessage ----------------------------
(***************************************************************************)
(* SIGN_MESSAGE: handler/sign_msg.c, the review of a message               *)
(* (ui/nbgl_display_message.c, ui/bagl_display.c), the user's answer       *)
(* (ui/action/validate.c) and crypto_sign_personal_message (crypto.c).     *)
(***************************************************************************)
EXTENDS AppState

\* address type 1, address index 4, account 4, message length 1 byte, message.
MessageChunks == [size : Nat, address_type : Nat, address_index : Nat,
                  account : Nat, message : Seq(0 .. 255)]

MessagePath(m) == KaspaPath(m.account, m.address_type, m.address_index)

\* The checks of handler_sign_msg, in their order.
MessageError(m) ==
    CASE m.size < 1 \/ m.address_type \notin {0, 1} -> "SW_MESSAGE_ADDRESS_TYPE_FAIL"
      [] m.size < 9 \/ m.account < Hardened         -> "SW_MESSAGE_ADDRESS_TYPE_FAIL"
      [] m.size < 10                                -> "SW_MESSAGE_LEN_PARSING_FAIL"
      [] Len(m.message) = 0                         -> "SW_MESSAGE_TOO_SHORT"
      [] Len(m.message) > MaxMessageLen             -> "SW_MESSAGE_TOO_LONG"
      [] m.size < 10 + Len(m.message)               -> "SW_MESSAGE_PARSING_FAIL"
      [] OTHER                                      -> "SW_OK"

DisplayMessage_CutShort(m) ==
    Show(MessageReview(MessagePath(m),
                       format_message_to_sign(TextLen - 1, m.message)))

\* ui_display_message
DisplayMessage(m) ==
    \/ Show(MessageReview(MessagePath(m), format_message_to_sign(TextLen, m.message)))
    \/ Respond(SW("SW_DISPLAY_BIP32_PATH_FAIL"))

\* Bytes that follow the message are ignored.  A refused request leaves the
\* address fields it read in msg_info, which nothing reads afterwards.
handler_sign_msg(m) ==
    /\ state' = "STATE_NONE"
    /\ req_type' = "CONFIRM_MESSAGE"
    /\ ClearTxInfo /\ ClearKey
    /\ Revoke
    /\ IF MessageError(m) = "SW_OK"
       THEN /\ message' = m.message
            /\ bip32_path' = MessagePath(m)
            /\ bip32_path_len' = MaxPathLen
            /\ DisplayMessage(m)
       ELSE ClearMessage /\ ClearPath /\ Respond(SW(MessageError(m)))

-----------------------------------------------------------------------------
\* hash_personal_message
MessageHash(msg) == [key |-> "PersonalMessageSigningHash", message |-> msg]

MessageConsent == [kind |-> "message", shown |-> screen, message |-> message]

\* validate_message(true).  A failed derivation leaves a zeroed private key,
\* which the signing call that follows refuses.
ApproveMessage ==
    /\ screen.kind = "message"
    /\ \/ /\ state' = "STATE_APPROVED"
          /\ Answered([kind |-> "message_signature", path |-> bip32_path,
                       hash |-> MessageHash(message)])
          /\ Grant(MessageConsent)
       \/ /\ state' = "STATE_NONE"
          /\ Answered(SW("CRYPTO_ERROR"))
          /\ UNCHANGED approval
    /\ UNCHANGED <<req_type, txInfo, message, raw_public_key, path>>

\* validate_message(false)
RejectMessage ==
    /\ screen.kind = "message"
    /\ state' = "STATE_NONE"
    /\ Answered(SW("SW_DENY"))
    /\ UNCHANGED <<req_type, txInfo, message, raw_public_key, path, approval>>
=============================================================================
