------------------------------ MODULE KaspaApp ------------------------------
(***************************************************************************)
(* The application: app_main.c (receive, dispatch, answer, for ever),      *)
(* apdu/dispatcher.c, and the user in front of the device.                 *)
(*                                                                         *)
(* The host is any host: it sends any command at any time the application  *)
(* receives one.  The payloads it may send are parameters.                 *)
(***************************************************************************)
EXTENDS SignTx, SignMessage, GetPublicKey

CONSTANTS Headers, OutputPayloads, InputPayloads, MessagePayloads, PathPayloads

ASSUME PayloadAssumption ==
    /\ Headers \subseteq HeaderChunks
    /\ OutputPayloads \subseteq OutputChunks
    /\ InputPayloads \subseteq InputChunks
    /\ MessagePayloads \subseteq MessageChunks
    /\ PathPayloads \subseteq PathChunks

-----------------------------------------------------------------------------
(* apdu_dispatcher: the checks made before a handler runs.  A command has  *)
(* a class, an instruction, P1, P2 and, when "data", a payload.            *)

KnownP1 == {P1_START, P1_OUTPUTS, P1_INPUTS, P1_NEXT_SIGNATURE}

WrongP1P2(cmd) ==
    CASE cmd.ins \in {"GET_VERSION", "GET_APP_NAME"} -> cmd.p1 # 0 \/ cmd.p2 # 0
      [] cmd.ins = "GET_PUBLIC_KEY" -> cmd.p1 > 1 \/ cmd.p2 > 0
      [] cmd.ins = "SIGN_TX" ->
            \/ cmd.p1 \in {P1_START, P1_OUTPUTS} /\ cmd.p2 # P2_MORE
            \/ cmd.p1 \notin KnownP1
            \/ cmd.p2 \notin {P2_LAST, P2_MORE}
      [] OTHER -> FALSE

MissingData(cmd) ==
    /\ ~cmd.data
    /\ \/ cmd.ins = "GET_PUBLIC_KEY"
       \/ cmd.ins = "SIGN_TX" /\ cmd.p1 # P1_NEXT_SIGNATURE

Instructions == {"GET_VERSION", "GET_APP_NAME", "GET_PUBLIC_KEY", "SIGN_TX", "SIGN_MESSAGE"}

DispatchError(cmd) ==
    CASE cmd.cla # "CLA"              -> "SW_CLA_NOT_SUPPORTED"
      [] cmd.ins \notin Instructions  -> "SW_INS_NOT_SUPPORTED"
      [] WrongP1P2(cmd)               -> "SW_WRONG_P1P2"
      [] MissingData(cmd)             -> "SW_WRONG_DATA_LENGTH"
      [] OTHER                        -> "SW_OK"

Command(ins, p1, p2, data) ==
    [cla |-> "CLA", ins |-> ins, p1 |-> p1, p2 |-> p2, data |-> data]

\* The commands whose refusal the model lets happen: one byte of each kind
\* stands for all the bytes the checks treat alike.
Commands == [cla : {"CLA", "other"}, ins : Instructions \cup {"other"},
             p1 : {0, 1, 2, 3, 4}, p2 : {P2_LAST, 1, P2_MORE}, data : BOOLEAN]

-----------------------------------------------------------------------------
(* One step per command received *)

\* A command that is too short for apdu_parser, or that no handler takes.
Refusals == {"SW_WRONG_DATA_LENGTH"} \cup {DispatchError(cmd) : cmd \in Commands}

Refused ==
    /\ \E sw \in Refusals \ {"SW_OK"} : Respond(SW(sw))
    /\ UNCHANGED <<context, approval>>

\* GET_VERSION and GET_APP_NAME answer with constants.
GetInfo ==
    \E ins \in {"GET_VERSION", "GET_APP_NAME"} :
        /\ DispatchError(Command(ins, 0, 0, FALSE)) = "SW_OK"
        /\ Respond([kind |-> ins])
        /\ UNCHANGED <<context, approval>>

Dispatched(ins, p1, p2, data) == DispatchError(Command(ins, p1, p2, data)) = "SW_OK"

ReceiveHeader ==
    \E p2 \in {P2_LAST, P2_MORE}, h \in Headers :
        Dispatched("SIGN_TX", P1_START, p2, TRUE) /\ SignTxHeader(h)

ReceiveOutput ==
    \E p2 \in {P2_LAST, P2_MORE}, c \in OutputPayloads :
        Dispatched("SIGN_TX", P1_OUTPUTS, p2, TRUE) /\ SignTxOutput(c)

ReceiveInput ==
    \E p2 \in {P2_LAST, P2_MORE}, c \in InputPayloads :
        Dispatched("SIGN_TX", P1_INPUTS, p2, TRUE) /\ SignTxInput(c, p2 = P2_MORE)

ReceiveNextSignature ==
    \E p2 \in {P2_LAST, P2_MORE}, data \in BOOLEAN :
        Dispatched("SIGN_TX", P1_NEXT_SIGNATURE, p2, data) /\ NextSignature

ReceiveSignMessage ==
    \E m \in MessagePayloads :
        Dispatched("SIGN_MESSAGE", 0, 0, m.size > 0) /\ handler_sign_msg(m)

ReceiveGetPublicKey ==
    \E p1 \in {0, 1}, c \in PathPayloads :
        Dispatched("GET_PUBLIC_KEY", p1, 0, TRUE) /\ handler_get_public_key(c, p1 = 1)

Receive ==
    /\ Idle
    /\ \/ Refused \/ GetInfo
       \/ ReceiveHeader \/ ReceiveOutput \/ ReceiveInput \/ ReceiveNextSignature
       \/ ReceiveSignMessage \/ ReceiveGetPublicKey

-----------------------------------------------------------------------------
(* The user answers the review on the screen *)
Approve == ApproveTransaction \/ ApproveMessage \/ ApproveAddress
Reject  == RejectTransaction \/ RejectMessage \/ RejectAddress
Answer  == Approve \/ Reject

(* The application ends - the device is unplugged, the user quits from the *)
(* menu, the transport fails - and is started again.                       *)
Restart ==
    /\ ClearContext
    /\ screen' = Menu
    /\ rapdu' = NoResponse
    /\ Revoke

Next == Receive \/ Answer \/ Restart

Spec == Init /\ [][Next]_vars
=============================================================================
