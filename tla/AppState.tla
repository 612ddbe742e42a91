------------------------------ MODULE AppState ------------------------------
(***************************************************************************)
(* The state of the application: G_context (types.h, globals.h), the screen*)
(* and the last response on the wire.                                      *)
(*                                                                         *)
(* The three members of the union in global_ctx_t are separate variables:  *)
(* every request that starts to use another member zeroes the whole        *)
(* context first, and no code reads a member other than the one req_type   *)
(* selects.                                                                *)
(***************************************************************************)
EXTENDS TxRules, FormatMessage

CONSTANTS JunkInputs    \* what memory behind tx_inputs may hold, read as an input

ASSUME JunkAssumption == JunkInputs # {} /\ JunkInputs \subseteq Inputs

VARIABLES
    state,                  \* G_context.state
    req_type,               \* G_context.req_type
    tx,                     \* tx_info.transaction
    parsing_output_index,   \* tx_info.parsing_output_index
    parsing_input_index,    \* tx_info.parsing_input_index
    signing_input_index,    \* tx_info.signing_input_index
    message,                \* msg_info.message[0 .. message_len - 1]
    raw_public_key,         \* pk_info.raw_public_key
    bip32_path,             \* G_context.bip32_path
    bip32_path_len,         \* G_context.bip32_path_len
    screen,                 \* the menu, or the review the user is asked to answer
    rapdu,                  \* the response to the last command, once it is sent
    consent,                \* history: the review the user last approved
    signed,                 \* history: the inputs signed under that consent
    header_path             \* history: the change path of the session's header

txInfo  == <<tx, parsing_output_index, parsing_input_index, signing_input_index,
             header_path>>
path    == <<bip32_path, bip32_path_len>>
context == <<state, req_type, txInfo, message, raw_public_key, path>>
approval == <<consent, signed>>
vars    == <<context, screen, rapdu, approval>>

-----------------------------------------------------------------------------
(* Screens *)
Menu == [kind |-> "menu"]

TransactionReview(amount, address, fees) ==
    [kind |-> "transaction", amount |-> amount, address |-> address, fees |-> fees]
MessageReview(p, text) == [kind |-> "message", path |-> p, text |-> text]
AddressReview(p, key)  == [kind |-> "address", path |-> p, key |-> key]

(* Responses *)
NoResponse == [kind |-> "none"]
SW(sw)     == [kind |-> "sw", sw |-> sw]

(* Consent: what was on the screen when the user approved it and, for a     *)
(* transaction, the context it was computed from, whether every announced   *)
(* output and input had been received, and the first input to be signed.   *)
NoConsent == [kind |-> "none"]

-----------------------------------------------------------------------------
(* Parts of explicit_bzero(&G_context, sizeof(G_context)) *)
ClearTxInfo ==
    /\ tx' = ZeroTx
    /\ parsing_output_index' = 0
    /\ parsing_input_index' = 0
    /\ signing_input_index' = 0
    /\ header_path' = ZeroPath
ClearMessage == message' = <<>>
ClearKey     == raw_public_key' = ZeroKey
ClearPath    == bip32_path' = ZeroPath /\ bip32_path_len' = 0

\* A whole context of zeroes: the first enumerators are STATE_NONE and
\* CONFIRM_ADDRESS.
ClearContext ==
    /\ state' = "STATE_NONE"
    /\ req_type' = "CONFIRM_ADDRESS"
    /\ ClearTxInfo /\ ClearMessage /\ ClearKey /\ ClearPath

-----------------------------------------------------------------------------
(* Endings of a handler *)

\* The command is answered and the screen stays what it is.
Respond(r) == rapdu' = r /\ UNCHANGED screen

\* A review starts: the response is owed until the user answers it.
Show(s) == screen' = s /\ rapdu' = NoResponse

Answered_Silent(r) == screen' = Menu /\ rapdu' = NoResponse

\* The user has answered the review.
Answered(r) == screen' = Menu /\ rapdu' = r

\* A new request, a refused one, a new review or a failure ends what the user
\* had approved.
Grant(c) == consent' = c /\ signed' = {}
Revoke   == Grant(NoConsent)

-----------------------------------------------------------------------------
(* io_recv_command: a command is received only when the previous one has   *)
(* been answered, that is when no review is pending.                       *)
Idle == screen = Menu

(* app_main: at start-up the context is zeroed. *)
Init ==
    /\ state = "STATE_NONE"
    /\ req_type = "CONFIRM_ADDRESS"
    /\ tx = ZeroTx
    /\ parsing_output_index = 0
    /\ parsing_input_index = 0
    /\ signing_input_index = 0
    /\ message = <<>>
    /\ raw_public_key = ZeroKey
    /\ bip32_path = ZeroPath
    /\ bip32_path_len = 0
    /\ screen = Menu
    /\ rapdu = NoResponse
    /\ consent = NoConsent
    /\ signed = {}
    /\ header_path = ZeroPath
=============================================================================
