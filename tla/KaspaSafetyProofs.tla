------------------------- MODULE KaspaSafetyProofs --------------------------
(***************************************************************************)
(* Type correctness of the application, the safety of signing and the      *)
(* refinement of SigningConsent, for all widths, array sizes and payload   *)
(* sets that satisfy the assumptions.                                      *)
(*                                                                         *)
(* The inductive invariant says that a pending review shows what the       *)
(* context holds, and that an approval of a whole transaction holds on to  *)
(* it.  Every property of a signature follows from it in the step that     *)
(* makes the signature.  What needs more comes after: the fees the user    *)
(* approves are the ones that are paid, and the signatures of an approval  *)
(* go through the inputs one after the other.  The refinement comes last.  *)
(***************************************************************************)
EXTENDS KaspaRefinement, SequenceTheorems, WellFoundedInduction, TLAPS

-----------------------------------------------------------------------------
(* What the operators return *)

\* The path of a Kaspa key is a path.
LEMMA KaspaPathType ==
    ASSUME NEW account \in Nat, NEW type \in Nat, NEW index \in Nat
    PROVE  /\ KaspaPath(account, type, index) \in Paths
           /\ KaspaPath(account, type, index) \in Seq(Nat)
<1>1. Purpose \in Nat /\ CoinType \in Nat
  BY WidthAssumption DEF Purpose, CoinType
<1>2. KaspaPath(account, type, index) \in Seq(Nat)
  BY <1>1 DEF KaspaPath
<1>3. KaspaPath(account, type, index) \in [1 .. 5 -> Nat]
  BY <1>1 DEF KaspaPath
<1>4. QED
  BY <1>2, <1>3 DEF Paths, MaxPathLen

\* The zeroed context holds values of the right types.
LEMMA ZeroTypes ==
    /\ ZeroTx \in Transactions
    /\ ZeroPath \in Paths
    /\ ZeroKey \in Keys
<1>1. 0 \in Byte /\ 0 \in Amounts
  BY WidthAssumption DEF Byte, Amounts
<1>2. ZeroKey \in Keys
  BY DEF ZeroKey, Keys
<1>3. ZeroOutput \in Outputs
  BY <1>1, <1>2 DEF ZeroOutput, Outputs, ZeroScript, Scripts
<1>4. ZeroInput \in Inputs
  BY <1>1 DEF ZeroInput, Inputs
<1>5. ZeroTx \in Transactions
  BY <1>1, <1>3, <1>4 DEF ZeroTx, Transactions
<1>6. ZeroPath \in Paths
  BY DEF ZeroPath, Paths
<1>7. QED
  BY <1>2, <1>5, <1>6

\* Whatever its payload, the header parser leaves a transaction and a path.
LEMMA HeaderTypes ==
    ASSUME NEW h \in HeaderChunks
    PROVE  HeaderTx(h) \in Transactions /\ HeaderPath(h) \in Paths
<1>1. h.version \in Nat /\ h.account \in Nat /\ h.n_output \in Byte /\ h.n_input \in Byte
      /\ h.change_type \in Nat /\ h.change_index \in Nat
  BY DEF HeaderChunks
<1>2. 0 \in Byte
  BY WidthAssumption DEF Byte
<1>3. HeaderTx(h) \in Transactions
  BY <1>1, <1>2, ZeroTypes DEF HeaderTx, Transactions
<1>4. HeaderPath(h) \in Paths
  BY <1>1, ZeroTypes, KaspaPathType DEF HeaderPath
<1>5. QED
  BY <1>3, <1>4

\* Whatever its payload, the output parser leaves an output in its slot.
LEMMA OutputWriteType ==
    ASSUME NEW c \in OutputChunks, NEW slot \in Outputs
    PROVE  OutputWrite(c, slot) \in Outputs
<1>1. c.value \in Amounts /\ 0 \in Amounts /\ slot.value \in Amounts /\ slot.script \in Scripts
  BY WidthAssumption DEF OutputChunks, Amounts, Outputs
<1>2. OutputScriptRead(c) => c.script \in Scripts
  BY DEF OutputScriptRead, OutputChunks, Scripts
<1>3. QED
  BY <1>1, <1>2 DEF OutputWrite, ReadField, Outputs

\* Whatever its payload, the input parser leaves an input in its slot.
LEMMA InputWriteType ==
    ASSUME NEW c \in InputChunks, NEW slot \in Inputs
    PROVE  InputWrite(c, slot) \in Inputs
<1>1. 0 \in Amounts
  BY WidthAssumption DEF Amounts
<1>2. QED
  BY <1>1 DEF InputWrite, ReadField, Inputs, InputChunks

\* The input that is read at any index is an input, inside the array or not.
LEMMA InputAtType ==
    ASSUME NEW t \in Transactions, NEW i \in Nat, NEW junk \in Inputs
    PROVE  InputAt(t, i, junk) \in Inputs
  BY WidthAssumption DEF InputAt, Transactions, InputSlots

\* A chunk parsed into the current slot leaves a transaction, and nothing of
\* the transaction changes but that slot.
LEMMA WithOutputType ==
    ASSUME tx \in Transactions, parsing_output_index \in OutputSlots,
           NEW c \in OutputChunks
    PROVE  WithOutput(c) \in Transactions
<1>1. OutputWrite(c, tx.tx_outputs[parsing_output_index]) \in Outputs
  BY OutputWriteType DEF Transactions
<1>2. [tx.tx_outputs EXCEPT ![parsing_output_index] =
           OutputWrite(c, tx.tx_outputs[parsing_output_index])] \in [OutputSlots -> Outputs]
  BY <1>1 DEF Transactions
<1>3. QED
  BY <1>2 DEF WithOutput, Transactions

\* The same for an input chunk (sign_tx.c:113).
LEMMA WithInputType ==
    ASSUME tx \in Transactions, parsing_input_index \in InputSlots,
           NEW c \in InputChunks
    PROVE  WithInput(c) \in Transactions
<1>1. InputWrite(c, tx.tx_inputs[parsing_input_index]) \in Inputs
  BY InputWriteType DEF Transactions
<1>2. [tx.tx_inputs EXCEPT ![parsing_input_index] =
           InputWrite(c, tx.tx_inputs[parsing_input_index])] \in [InputSlots -> Inputs]
  BY <1>1 DEF Transactions
<1>3. QED
  BY <1>2 DEF WithInput, Transactions

-----------------------------------------------------------------------------
(* Type correctness *)

\* Start-up, and a restart, leave a well-typed state (app_main.c:43).
LEMMA InitTypeOK == Init => TypeOK
<1>1. 0 \in Byte /\ 0 \in 0 .. MaxInputCount /\ 0 \in 0 .. MaxOutputCount /\ MaxMessageLen \in Nat
  BY WidthAssumption DEF Byte, MaxOutputCount
<1>2. QED
  BY <1>1, ZeroTypes
  DEF Init, TypeOK, States, RequestTypes, Menu, NoResponse, NoConsent

\* Clearing the context leaves zeroes of the right types.
LEMMA ClearTypes ==
    /\ ClearTxInfo => /\ tx' \in Transactions
                      /\ parsing_output_index' \in 0 .. MaxOutputCount
                      /\ parsing_input_index' \in 0 .. MaxInputCount
                      /\ signing_input_index' \in Byte
    /\ ClearMessage => message' \in Seq(0 .. 255) /\ Len(message') <= MaxMessageLen
    /\ ClearKey => raw_public_key' \in Keys
    /\ ClearPath => bip32_path' \in Paths /\ bip32_path_len' \in Byte
<1>1. 0 \in Byte /\ 0 \in 0 .. MaxInputCount /\ 0 \in 0 .. MaxOutputCount /\ MaxMessageLen \in Nat
  BY WidthAssumption DEF Byte, MaxOutputCount
<1>2. ASSUME ClearMessage
      PROVE  message' \in Seq(0 .. 255) /\ Len(message') <= MaxMessageLen
  <2>1. <<>> \in Seq(0 .. 255) /\ Len(<<>>) = 0
    OBVIOUS
  <2>2. QED
    BY <1>1, <1>2, <2>1, WidthAssumption DEF ClearMessage
<1>3. QED
  BY <1>1, <1>2, ZeroTypes DEF ClearTxInfo, ClearKey, ClearPath

\* A header, sound or rejected, leaves a well-typed state (sign_tx.c:60).
LEMMA HeaderTypeOK ==
    ASSUME TypeOK, NEW h \in HeaderChunks, SignTxHeader(h)
    PROVE  TypeOK'
<1>1. 0 \in Byte /\ 0 \in 0 .. MaxInputCount /\ 0 \in 0 .. MaxOutputCount
  BY WidthAssumption DEF Byte, MaxOutputCount
<1>2. /\ state' \in States /\ req_type' \in RequestTypes
      /\ consent'.kind = "none" /\ signed' = {} /\ rapdu'.kind = "sw" /\ screen' = screen
  BY DEF SignTxHeader, States, RequestTypes, Revoke, Grant, NoConsent, Respond, SW
<1>3. tx' \in Transactions /\ bip32_path' \in Paths
  BY HeaderTypes DEF SignTxHeader
<1>4. QED
  BY <1>1, <1>2, <1>3, ClearTypes DEF TypeOK, SignTxHeader

\* An output chunk, sound or rejected, leaves a well-typed state (sign_tx.c:75).
LEMMA OutputTypeOK ==
    ASSUME TypeOK, NEW c \in OutputChunks, SignTxOutput(c)
    PROVE  TypeOK'
<1>1. CASE \E sw \in {"SW_BAD_STATE", "SW_TX_PARSING_FAIL"} : Refuse(sw)
  BY <1>1 DEF TypeOK, Refuse, Respond, SW, context, txInfo, path, approval
<1>2. CASE ~NotASession /\ ~NoOutputSlot /\ tx' = WithOutput(c)
           /\ parsing_output_index' = parsing_output_index + (IF OutputOK(c) THEN 1 ELSE 0)
           /\ Respond(SW(IF OutputOK(c) THEN "SW_OK" ELSE "OUTPUT_PARSING_STATUS"))
           /\ UNCHANGED <<state, req_type, parsing_input_index, signing_input_index,
                          header_path, message, raw_public_key, path, approval>>
  <2>1. parsing_output_index \in OutputSlots
    BY <1>2 DEF TypeOK, NoOutputSlot, OutputSlots, MaxOutputCount
  <2>2. tx' \in Transactions
    BY <1>2, <2>1, WithOutputType DEF TypeOK
  <2>3. parsing_output_index' \in 0 .. MaxOutputCount
    BY <1>2, <2>1 DEF OutputSlots, MaxOutputCount
  <2>4. rapdu'.kind = "sw" /\ screen' = screen
    BY <1>2 DEF Respond, SW
  <2>5. QED
    BY <1>2, <2>2, <2>3, <2>4 DEF TypeOK, path, approval
<1>3. QED
  BY <1>1, <1>2 DEF SignTxOutput

\* The path of an input's key is a path (crypto.c:66).
LEMMA InputPathType ==
    ASSUME NEW t \in Transactions, NEW txin \in Inputs
    PROVE  InputPath(t, txin) \in Paths
  BY KaspaPathType DEF InputPath, Transactions, Inputs

\* The path forced into the context for the change is a path (tx_validate.c:47).
LEMMA ChangePathType ==
    ASSUME NEW t \in Transactions, NEW p \in Paths
    PROVE  ChangePath(t, p) \in Paths
<1>1. p[4] \in Nat /\ p[5] \in Nat
  BY DEF Paths, MaxPathLen
<1>2. QED
  BY <1>1, KaspaPathType DEF ChangePath, Transactions

\* The path lengths the application stores fit into a byte.
LEMMA PathLenByte == 0 \in Byte /\ MaxPathLen \in Byte
  BY WidthAssumption DEF Byte, MaxPathLen

\* Validating and displaying a transaction leaves well-typed variables
\* (tx_validate.c:33, ui_display_transaction).
LEMMA ReviewTypeOK ==
    ASSUME TypeOK, NEW t \in Transactions, ReviewTransaction(t)
    PROVE  /\ state' \in States
           /\ bip32_path' \in Paths /\ bip32_path_len' \in Byte
           /\ screen'.kind \in {"menu", "transaction", "message", "address"}
           /\ rapdu'.kind \in {"none", "sw"}
           /\ consent'.kind \in {"none", "transaction", "message", "address"}
           /\ signed' \subseteq Byte
<1>1. bip32_path' \in Paths /\ bip32_path_len' \in Byte
  BY ChangePathType, PathLenByte DEF ReviewTransaction, TypeOK
<1>2. CASE Respond(SW("SW_TX_PARSING_FAIL")) /\ UNCHANGED <<state, approval>>
  BY <1>1, <1>2 DEF TypeOK, Respond, SW, approval
<1>3. CASE \E junk \in JunkInputs :
               state' = "STATE_PARSED" /\ Revoke /\ DisplayTransaction(t, junk)
  <2>1. /\ screen'.kind \in {"menu", "transaction", "message", "address"}
        /\ rapdu'.kind \in {"none", "sw"}
    BY <1>3 DEF DisplayTransaction, Show, Respond, SW, TransactionReview, NoResponse, TypeOK
  <2>2. QED
    BY <1>1, <1>3, <2>1 DEF States, Revoke, Grant, NoConsent
<1>4. QED
  BY <1>2, <1>3 DEF ReviewTransaction

\* An input chunk, the last one included, leaves a well-typed state
\* (sign_tx.c:102).
LEMMA InputTypeOK ==
    ASSUME TypeOK, NEW c \in InputChunks, NEW more \in BOOLEAN, SignTxInput(c, more)
    PROVE  TypeOK'
<1>1. CASE \E sw \in {"SW_BAD_STATE", "SW_TX_PARSING_FAIL"} : Refuse(sw)
  BY <1>1 DEF TypeOK, Refuse, Respond, SW, context, txInfo, path, approval
<1>2. ASSUME ~NotASession, ~NoInputSlot, tx' = WithInput(c),
             UNCHANGED <<req_type, parsing_output_index, signing_input_index,
                         header_path, message, raw_public_key>>
      PROVE  TypeOK'
  <2>1. parsing_input_index \in InputSlots /\ parsing_input_index + 1 \in 0 .. MaxInputCount
    BY <1>2, WidthAssumption DEF TypeOK, NoInputSlot, InputSlots
  <2>2. WithInput(c) \in Transactions
    BY <2>1, WithInputType DEF TypeOK
  <2>3. CASE ~InputOK(c) /\ Respond(SW("SW_TX_PARSING_FAIL"))
             /\ UNCHANGED <<state, parsing_input_index, path, approval>>
    BY <1>2, <2>2, <2>3 DEF TypeOK, Respond, SW, path, approval
  <2>4. CASE InputOK(c) /\ more /\ parsing_input_index' = parsing_input_index + 1
             /\ Respond(SW("SW_OK")) /\ UNCHANGED <<state, path, approval>>
    BY <1>2, <2>1, <2>2, <2>4 DEF TypeOK, Respond, SW, path, approval
  <2>5. CASE InputOK(c) /\ ~more /\ parsing_input_index' = parsing_input_index + 1
             /\ ReviewTransaction(WithInput(c))
    BY <1>2, <2>1, <2>2, <2>5, ReviewTypeOK DEF TypeOK
  <2>6. QED
    BY <2>3, <2>4, <2>5, <1>2 DEF SignTxInput, Refuse
<1>3. QED
  BY <1>1, <1>2 DEF SignTxInput

\* Signing an input, or failing to, leaves a well-typed state (crypto.c:60).
LEMMA SignInputTypeOK ==
    ASSUME TypeOK, NEW c, c.kind \in {"none", "transaction", "message", "address"},
           NEW s \in SUBSET Byte, SignInput(c, s),
           screen'.kind \in {"menu", "transaction", "message", "address"}
    PROVE  TypeOK'
<1>1. PICK junk \in JunkInputs : bip32_path' = InputPath(tx, InputToSign(junk))
  BY DEF SignInput
<1>2. signing_input_index \in Nat /\ junk \in Inputs
  BY <1>1, JunkAssumption DEF TypeOK, Byte
<1>3. bip32_path' \in Paths /\ bip32_path_len' \in Byte
  BY <1>1, <1>2, InputAtType, InputPathType, PathLenByte DEF InputToSign, TypeOK, SignInput
<1>4. NextIndex \in Byte
  BY <1>2, WidthAssumption DEF NextIndex, Byte
<1>5. UNCHANGED <<req_type, tx, parsing_output_index, parsing_input_index,
                  message, raw_public_key>>
  BY DEF SignInput
<1>6. CASE \E j \in JunkInputs :
               /\ state' = "STATE_APPROVED"
               /\ rapdu' = SignatureResponse(InputToSign(j), j)
               /\ signing_input_index' = NextIndex
               /\ consent' = c
               /\ signed' = s \cup {signing_input_index}
  BY <1>3, <1>4, <1>5, <1>6 DEF TypeOK, SignatureResponse, States
<1>7. CASE state' = "STATE_NONE" /\ rapdu' = SW("CRYPTO_ERROR") /\ Revoke
           /\ UNCHANGED signing_input_index
  BY <1>3, <1>5, <1>7 DEF TypeOK, SW, Revoke, Grant, NoConsent, States
<1>8. QED
  BY <1>6, <1>7 DEF SignInput

\* NEXT_SIGNATURE, taken or refused, leaves a well-typed state (sign_tx.c:144).
LEMMA NextSignatureTypeOK ==
    ASSUME TypeOK, NextSignature
    PROVE  TypeOK'
<1>1. CASE ClearContext /\ Revoke /\ Respond(SW("SW_BAD_STATE"))
  <2>1. /\ state' \in States /\ req_type' \in RequestTypes /\ screen' = screen
        /\ consent'.kind = "none" /\ signed' = {} /\ rapdu'.kind = "sw"
    BY <1>1 DEF ClearContext, States, RequestTypes, Revoke, Grant, NoConsent, Respond, SW
  <2>2. QED
    BY <1>1, <2>1, ClearTypes DEF TypeOK, ClearContext
<1>2. CASE SignInput(consent, signed) /\ UNCHANGED screen
  BY <1>2, SignInputTypeOK DEF TypeOK
<1>3. QED
  BY <1>1, <1>2 DEF NextSignature

\* The user's answer to the review of a transaction leaves a well-typed state
\* (validate.c:41).
LEMMA AnswerTransactionTypeOK ==
    ASSUME TypeOK, ApproveTransaction \/ RejectTransaction
    PROVE  TypeOK'
<1>1. CASE ApproveTransaction
  <2>1. TransactionConsent.kind = "transaction" /\ screen'.kind = "menu"
    BY <1>1 DEF ApproveTransaction, TransactionConsent, Menu
  <2>2. QED
    BY <1>1, <2>1, SignInputTypeOK DEF ApproveTransaction
<1>2. CASE RejectTransaction
  BY <1>2 DEF RejectTransaction, TypeOK, States, Answered, Menu, SW, txInfo, path, approval
<1>3. QED
  BY <1>1, <1>2

\* A message request leaves a well-typed state: a message longer than
\* MAX_MESSAGE_LEN never reaches the context (sign_msg.c:81).
LEMMA MessageTypeOK ==
    ASSUME TypeOK, NEW m \in MessageChunks, handler_sign_msg(m)
    PROVE  TypeOK'
<1>1. MessagePath(m) \in Paths
  BY KaspaPathType DEF MessagePath, MessageChunks
<1>2. MessageError(m) = "SW_OK" =>
          m.message \in Seq(0 .. 255) /\ Len(m.message) <= MaxMessageLen
  <2>1. Len(m.message) \in Nat /\ MaxMessageLen \in Nat /\ m.message \in Seq(0 .. 255)
    BY WidthAssumption DEF MessageChunks
  <2>2. CASE Len(m.message) <= MaxMessageLen
    BY <2>1, <2>2
  <2>3. CASE Len(m.message) > MaxMessageLen
    BY <2>3 DEF MessageError
  <2>4. QED
    BY <2>1, <2>2, <2>3
<1>3. message' \in Seq(0 .. 255) /\ Len(message') <= MaxMessageLen
  BY <1>2, ClearTypes DEF handler_sign_msg
<1>4. bip32_path' \in Paths /\ bip32_path_len' \in Byte
  BY <1>1, PathLenByte, ClearTypes DEF handler_sign_msg
<1>5. /\ screen'.kind \in {"menu", "transaction", "message", "address"}
      /\ rapdu'.kind \in {"none", "sw"}
  BY DEF handler_sign_msg, DisplayMessage, Show, Respond, SW, MessageReview, NoResponse, TypeOK
<1>6. state' \in States /\ req_type' \in RequestTypes /\ consent'.kind = "none" /\ signed' = {}
  BY DEF handler_sign_msg, States, RequestTypes, Revoke, Grant, NoConsent
<1>7. QED
  BY <1>3, <1>4, <1>5, <1>6, ClearTypes DEF TypeOK, handler_sign_msg

\* The user's answer to the review of a message leaves a well-typed state
\* (validate.c:59).
LEMMA AnswerMessageTypeOK ==
    ASSUME TypeOK, ApproveMessage \/ RejectMessage
    PROVE  TypeOK'
  BY DEF ApproveMessage, RejectMessage, TypeOK, States, Answered, Menu, SW, Grant,
         MessageConsent, txInfo, path, approval

\* The path buffer holds a path whatever the payload announced, and the key at
\* an accepted length is a key (get_public_key.c:49).
LEMMA PathChunkTypes ==
    ASSUME NEW c \in PathChunks
    PROVE  /\ StoredPath(c) \in Paths
           /\ LengthAfterRead(c) \subseteq Byte
           /\ \A len \in Byte : PathError(StoredPath(c), len) = "SW_OK" =>
                  KeyAt(StoredPath(c), len) \in Keys
<1>1. c.path_len \in Byte /\ c.components \in Seq(Nat) /\ c.path_len \in Nat
  BY DEF PathChunks, Byte
<1>2. StoredLen(c) \in Nat /\ StoredLen(c) <= Len(c.components)
  BY <1>1 DEF StoredLen
<1>3. StoredPath(c) \in Paths
  <2>1. ASSUME NEW i \in 1 .. MaxPathLen, i <= StoredLen(c)
        PROVE  c.components[i] \in Nat
    BY <1>1, <1>2, <2>1 DEF MaxPathLen
  <2>2. QED
    BY <2>1 DEF StoredPath, Paths
<1>4. LengthAfterRead(c) \subseteq Byte
  BY <1>1 DEF LengthAfterRead
<1>5. ASSUME NEW len \in Byte, PathError(StoredPath(c), len) = "SW_OK"
      PROVE  KeyAt(StoredPath(c), len) \in Keys
  <2>1. len \in 1 .. MaxPathLen
    BY <1>5 DEF PathError, MaxPathLen, Byte
  <2>2. StoredPath(c) \in Seq(Nat) /\ Len(StoredPath(c)) = MaxPathLen
    <3>1. MaxPathLen \in Nat
      BY DEF MaxPathLen
    <3>2. StoredPath(c) \in Seq(Nat)
      BY <1>3, <3>1, SeqDef DEF Paths
    <3>3. DOMAIN StoredPath(c) = 1 .. MaxPathLen
      BY <1>3 DEF Paths
    <3>4. QED
      BY <3>1, <3>2, <3>3, LenProperties DEF MaxPathLen
  <2>3. SubSeq(StoredPath(c), 1, len) \in Seq(Nat)
    BY <2>1, <2>2
  <2>4. QED
    BY <2>3 DEF KeyAt, PublicKey, Keys
<1>6. QED
  BY <1>3, <1>4, <1>5

\* A request for a public key leaves a well-typed state (get_public_key.c:42).
LEMMA PublicKeyTypeOK ==
    ASSUME TypeOK, NEW c \in PathChunks, NEW display \in BOOLEAN,
           handler_get_public_key(c, display)
    PROVE  TypeOK'
<1>1. PICK len \in LengthAfterRead(c) :
          /\ bip32_path' = StoredPath(c)
          /\ bip32_path_len' = len
          /\ \/ /\ ~PathRead(c)
                /\ ClearKey /\ Respond(SW("SW_WRONG_DATA_LENGTH"))
             \/ /\ PathRead(c) /\ PathError(StoredPath(c), len) # "SW_OK"
                /\ ClearKey /\ Respond(SW(PathError(StoredPath(c), len)))
             \/ /\ PathRead(c) /\ PathError(StoredPath(c), len) = "SW_OK"
                /\ \/ ClearKey /\ Respond(SW("CRYPTO_ERROR"))
                   \/ /\ raw_public_key' = KeyAt(StoredPath(c), len)
                      /\ DisplayAddress(StoredPath(c), len, display)
  BY DEF handler_get_public_key
<1>2. len \in Byte
  BY PathChunkTypes
<1>3. bip32_path' \in Paths /\ bip32_path_len' \in Byte
  BY <1>1, <1>2, PathChunkTypes
<1>4. raw_public_key' \in Keys
  BY <1>1, <1>2, PathChunkTypes, ClearTypes
<1>5. /\ screen'.kind \in {"menu", "transaction", "message", "address"}
      /\ rapdu'.kind \in {"none", "sw", "public_key"}
  BY <1>1 DEF DisplayAddress, Show, Respond, SW, AddressReview, NoResponse,
              PublicKeyResponse, TypeOK
<1>6. state' \in States /\ req_type' \in RequestTypes /\ consent'.kind = "none" /\ signed' = {}
  BY DEF handler_get_public_key, States, RequestTypes, Revoke, Grant, NoConsent
<1>7. QED
  BY <1>3, <1>4, <1>5, <1>6, ClearTypes DEF TypeOK, handler_get_public_key

\* The user's answer to the review of an address leaves a well-typed state
\* (validate.c:33).
LEMMA AnswerAddressTypeOK ==
    ASSUME TypeOK, ApproveAddress \/ RejectAddress
    PROVE  TypeOK'
  BY DEF ApproveAddress, RejectAddress, TypeOK, Answered, Menu, SW, Grant,
         AddressConsent, PublicKeyResponse, context, txInfo, path, approval

\* A restart leaves a well-typed state (app_main.c:43).
LEMMA RestartTypeOK ==
    ASSUME TypeOK, Restart
    PROVE  TypeOK'
<1>1. /\ state' \in States /\ req_type' \in RequestTypes /\ screen'.kind = "menu"
      /\ consent'.kind = "none" /\ signed' = {} /\ rapdu'.kind = "none"
  BY DEF Restart, ClearContext, States, RequestTypes, Revoke, Grant, NoConsent,
         NoResponse, Menu
<1>2. QED
  BY <1>1, ClearTypes DEF TypeOK, Restart, ClearContext

\* A refused command and a request for constants change only the response
\* (dispatcher.c:44).
LEMMA NoEffectTypeOK ==
    ASSUME TypeOK, Refused \/ GetInfo
    PROVE  TypeOK'
<1>1. UNCHANGED <<context, approval, screen>>
  BY DEF Refused, GetInfo, Respond
<1>2. rapdu'.kind \in {"sw", "GET_VERSION", "GET_APP_NAME"}
  <2>1. CASE Refused
    BY <2>1 DEF Refused, Respond, SW
  <2>2. CASE GetInfo
    <3>1. PICK ins \in {"GET_VERSION", "GET_APP_NAME"} : rapdu' = [kind |-> ins]
      BY <2>2 DEF GetInfo, Respond
    <3>2. rapdu'.kind = ins
      BY <3>1
    <3>3. QED
      BY <3>1, <3>2
  <2>3. QED
    BY <2>1, <2>2
<1>3. QED
  BY <1>1, <1>2 DEF TypeOK, context, txInfo, path, approval

-----------------------------------------------------------------------------
(* A step of the application, one action at a time *)

\* A command that is received is one of those the dispatcher knows, and its
\* payload is one the parsers expect (dispatcher.c:44).
LEMMA ReceiveCases ==
    ASSUME Receive
    PROVE  \/ Refused \/ GetInfo \/ NextSignature
           \/ \E h \in HeaderChunks : SignTxHeader(h)
           \/ \E c \in OutputChunks : SignTxOutput(c)
           \/ \E c \in InputChunks, more \in BOOLEAN : SignTxInput(c, more)
           \/ \E m \in MessageChunks : handler_sign_msg(m)
           \/ \E c \in PathChunks, display \in BOOLEAN : handler_get_public_key(c, display)
<1>1. CASE ReceiveHeader
  BY <1>1, PayloadAssumption DEF ReceiveHeader
<1>2. CASE ReceiveOutput
  BY <1>2, PayloadAssumption DEF ReceiveOutput
<1>3. CASE ReceiveInput
  <2>1. PICK p2 \in {P2_LAST, P2_MORE}, c \in InputPayloads : SignTxInput(c, p2 = P2_MORE)
    BY <1>3 DEF ReceiveInput
  <2>2. (p2 = P2_MORE) \in BOOLEAN
    OBVIOUS
  <2>3. QED
    BY <2>1, <2>2, PayloadAssumption
<1>4. CASE ReceiveSignMessage
  BY <1>4, PayloadAssumption DEF ReceiveSignMessage
<1>5. CASE ReceiveGetPublicKey
  <2>1. PICK p1 \in {0, 1}, c \in PathPayloads : handler_get_public_key(c, p1 = 1)
    BY <1>5 DEF ReceiveGetPublicKey
  <2>2. (p1 = 1) \in BOOLEAN
    OBVIOUS
  <2>3. QED
    BY <2>1, <2>2, PayloadAssumption
<1>6. QED
  BY <1>1, <1>2, <1>3, <1>4, <1>5 DEF Receive, ReceiveNextSignature

\* Every step leaves a well-typed state.
LEMMA NextTypeOK == TypeOK /\ [Next]_vars => TypeOK'
<1> SUFFICES ASSUME TypeOK, [Next]_vars PROVE TypeOK'
  OBVIOUS
<1>1. CASE Receive
  BY <1>1, ReceiveCases, NoEffectTypeOK, NextSignatureTypeOK, HeaderTypeOK, OutputTypeOK,
     InputTypeOK, MessageTypeOK, PublicKeyTypeOK
<1>2. CASE Answer
  BY <1>2, AnswerTransactionTypeOK, AnswerMessageTypeOK, AnswerAddressTypeOK
  DEF Answer, Approve, Reject
<1>3. CASE Restart
  BY <1>3, RestartTypeOK
<1>4. CASE UNCHANGED vars
  BY <1>4 DEF TypeOK, vars, context, txInfo, path, approval
<1>5. QED
  BY <1>1, <1>2, <1>3, <1>4 DEF Next

\* Every variable always has the type of the C object it stands for: the array
\* indexes stay within the arrays and the message within its maximum, for all
\* widths, array sizes and payloads.
THEOREM TypeCorrect == Spec => []TypeOK
  BY InitTypeOK, NextTypeOK, PTL DEF Spec

-----------------------------------------------------------------------------
(* Safety *)

SafetyInv == TypeOK /\ ScreenInv /\ ConsentInv

-----------------------------------------------------------------------------
(* The invariant holds at first and every step preserves it *)

\* At start-up nothing is shown and nothing was approved (app_main.c:43).
LEMMA InitSafetyInv == Init => SafetyInv
  BY InitTypeOK DEF SafetyInv, Init, ScreenInv, ConsentInv, Menu, NoConsent

\* A step that changes neither the context nor the screen nor the approval
\* preserves the invariant.
LEMMA NoEffectSafetyInv ==
    ASSUME ScreenInv, ConsentInv, UNCHANGED <<context, screen, approval>>
    PROVE  ScreenInv' /\ ConsentInv'
  BY DEF ScreenInv, ConsentInv, AllReceived, context, txInfo, path, approval

\* A step that revokes the approval and leaves a state that permits no
\* signature preserves what is said of approvals.
LEMMA RevokeConsentInv ==
    ASSUME Revoke, state' # "STATE_APPROVED"
    PROVE  ConsentInv'
  BY DEF Revoke, Grant, NoConsent, ConsentInv

\* With the menu on the screen there is no review to speak of.
LEMMA MenuScreenInv == screen'.kind = "menu" => ScreenInv'
  BY DEF ScreenInv

\* Outside a review the screen is the menu (io_recv_command).
LEMMA IdleMenu == Idle => screen.kind = "menu"
  BY DEF Idle, Menu

\* A new header ends the approval (sign_tx.c:60).
LEMMA HeaderSafetyInv ==
    ASSUME Idle, NEW h \in HeaderChunks, SignTxHeader(h)
    PROVE  ScreenInv' /\ ConsentInv'
<1>1. Revoke /\ state' # "STATE_APPROVED" /\ screen' = screen
  BY DEF SignTxHeader, Respond
<1>2. QED
  BY <1>1, IdleMenu, RevokeConsentInv, MenuScreenInv

\* An output chunk that is taken finds no approval of a whole transaction:
\* such a transaction has no slot left (sign_tx.c:84).
LEMMA OutputSafetyInv ==
    ASSUME SafetyInv, Idle, NEW c \in OutputChunks, SignTxOutput(c)
    PROVE  ScreenInv' /\ ConsentInv'
<1>1. CASE \E sw \in {"SW_BAD_STATE", "SW_TX_PARSING_FAIL"} : Refuse(sw)
  BY <1>1, NoEffectSafetyInv DEF SafetyInv, Refuse, Respond
<1>2. CASE ~NoOutputSlot /\ UNCHANGED <<screen, state, req_type, approval>>
  <2>1. ~AllReceived
    BY <1>2 DEF NoOutputSlot, AllReceived, SafetyInv, TypeOK, Transactions, Byte
  <2>2. QED
    BY <1>2, <2>1, IdleMenu, MenuScreenInv DEF SafetyInv, ConsentInv, approval
<1>3. QED
  BY <1>1, <1>2 DEF SignTxOutput, Respond

\* What is put up for review is a transaction that passed the validation: one
\* or two outputs, the second one to a key of the account
\* (tx_validate.c:43, ui_display_transaction).
LEMMA ReviewShows ==
    ASSUME NEW t \in Transactions, NEW p, NEW derives, NEW junk,
           tx_validate_parsed_transaction(t, p, derives, junk),
           NEW s,
           s = TransactionReview(t.tx_outputs[0].value,
                                 script_public_key_to_address(t.tx_outputs[0].script),
                                 calc_fees(t, junk))
    PROVE  ShowsTransaction(s, t)
<1>1. t.tx_output_len \in 1 .. 2
  BY DEF tx_validate_parsed_transaction, LengthsOK
<1>2. ASSUME HasChange(t)
      PROVE  /\ t.tx_outputs[1].script.kind = "schnorr"
             /\ IsOwnKey(t.tx_outputs[1].script.key, t.account)
  <2>1. /\ t.tx_outputs[1].script.kind = "schnorr"
        /\ t.tx_outputs[1].script.key = PublicKey(ChangePath(t, p))
    BY <1>2 DEF tx_validate_parsed_transaction, ChangeOK, crypto_validate_public_key
  <2>2. IsOwnKey(PublicKey(ChangePath(t, p)), t.account)
    BY DEF IsOwnKey, PublicKey, ChangePath, KaspaPath
  <2>3. QED
    BY <2>1, <2>2
<1>3. s.kind = "transaction" /\ s.amount = t.tx_outputs[0].value
      /\ s.address = script_public_key_to_address(t.tx_outputs[0].script)
  BY DEF TransactionReview
<1>4. QED
  BY <1>1, <1>2, <1>3 DEF ShowsTransaction

\* An input chunk that is taken finds no approval of a whole transaction, and
\* the review it may start is of the transaction with that input
\* (sign_tx.c:105, :135).
LEMMA InputSafetyInv ==
    ASSUME SafetyInv, Idle, NEW c \in InputChunks, NEW more \in BOOLEAN,
           SignTxInput(c, more)
    PROVE  ScreenInv' /\ ConsentInv'
<1>1. CASE \E sw \in {"SW_BAD_STATE", "SW_TX_PARSING_FAIL"} : Refuse(sw)
  BY <1>1, NoEffectSafetyInv DEF SafetyInv, Refuse, Respond
<1>2. ASSUME ~NotASession, ~NoInputSlot, tx' = WithInput(c), req_type' = req_type
      PROVE  ScreenInv' /\ ConsentInv'
  <2>1. ~AllReceived
    BY <1>2, WidthAssumption
    DEF NoInputSlot, AllReceived, SafetyInv, TypeOK, Transactions, Byte
  <2>2. WithInput(c) \in Transactions
    BY <1>2, WidthAssumption, WithInputType
    DEF NoInputSlot, SafetyInv, TypeOK, InputSlots
  <2>3. CASE UNCHANGED <<screen, state, approval>>
    BY <1>2, <2>1, <2>3, IdleMenu, MenuScreenInv DEF SafetyInv, ConsentInv, approval
  <2>4. CASE \E derives \in BOOLEAN, junk \in JunkInputs :
                 /\ tx_validate_parsed_transaction(WithInput(c), bip32_path, derives, junk)
                 /\ state' = "STATE_PARSED"
                 /\ Revoke
                 /\ DisplayTransaction(WithInput(c), junk)
    <3>1. ConsentInv'
      BY <2>4, RevokeConsentInv
    <3>2. CASE screen' = screen
      BY <3>1, <3>2, IdleMenu, MenuScreenInv
    <3>3. CASE screen'.kind = "transaction" /\ ShowsTransaction(screen', WithInput(c))
      BY <1>2, <3>1, <3>3 DEF ScreenInv, NotASession
    <3>4. \/ screen' = screen
          \/ screen'.kind = "transaction" /\ ShowsTransaction(screen', WithInput(c))
      BY <2>2, <2>4, ReviewShows DEF DisplayTransaction, Show, Respond, ShowsTransaction
    <3>5. QED
      BY <3>2, <3>3, <3>4
  <2>5. CASE ReviewTransaction(WithInput(c))
    BY <2>3, <2>4, <2>5 DEF ReviewTransaction, Respond
  <2>6. CASE Respond(SW("SW_TX_PARSING_FAIL"))
             /\ UNCHANGED <<state, parsing_input_index, path, approval>>
    BY <2>3, <2>6 DEF Respond
  <2>7. CASE Respond(SW("SW_OK")) /\ UNCHANGED <<state, path, approval>>
    BY <2>3, <2>7 DEF Respond
  <2>8. QED
    BY <1>2, <2>5, <2>6, <2>7 DEF SignTxInput
<1>3. QED
  BY <1>1, <1>2 DEF SignTxInput

\* Signing an input keeps the approval it is given under and the transaction it
\* is of; a failure to sign revokes the approval (crypto.c:58, validate.c:47).
LEMMA SignInputConsentInv ==
    ASSUME NEW c, NEW s, SignInput(c, s),
           c.kind = "transaction", ShowsTransaction(c.shown, c.tx),
           c.complete => tx = c.tx /\ AllReceived
    PROVE  ConsentInv'
<1>1. CASE Revoke /\ state' = "STATE_NONE"
  BY <1>1, RevokeConsentInv
<1>2. CASE consent' = c
  <2>1. UNCHANGED <<tx, parsing_output_index, parsing_input_index>>
    BY DEF SignInput
  <2>2. ShowsTransaction(consent'.shown, consent'.tx) /\ consent'.kind = "transaction"
    BY <1>2
  <2>3. consent'.complete => tx' = consent'.tx /\ AllReceived'
    BY <1>2, <2>1 DEF AllReceived
  <2>4. QED
    BY <2>2, <2>3 DEF ConsentInv
<1>3. QED
  BY <1>1, <1>2 DEF SignInput

\* NEXT_SIGNATURE signs only under the approval there is (sign_tx.c:145).
LEMMA NextSignatureSafetyInv ==
    ASSUME SafetyInv, Idle, NextSignature
    PROVE  ScreenInv' /\ ConsentInv'
<1>1. screen' = screen
  BY DEF NextSignature, Respond
<1>2. CASE ClearContext /\ Revoke
  BY <1>2, RevokeConsentInv, IdleMenu, MenuScreenInv, <1>1 DEF ClearContext
<1>3. CASE MaySignNext /\ SignInput(consent, signed)
  <2>1. /\ consent.kind = "transaction" /\ ShowsTransaction(consent.shown, consent.tx)
        /\ consent.complete => tx = consent.tx /\ AllReceived
    BY <1>3 DEF SafetyInv, ConsentInv, MaySignNext, NotASession
  <2>2. QED
    BY <1>1, <1>3, <2>1, SignInputConsentInv, IdleMenu, MenuScreenInv
<1>4. QED
  BY <1>2, <1>3 DEF NextSignature

\* The approval of a transaction is of the transaction on the screen
\* (validate.c:41).
LEMMA AnswerTransactionSafetyInv ==
    ASSUME SafetyInv, ApproveTransaction \/ RejectTransaction
    PROVE  ScreenInv' /\ ConsentInv'
<1>1. screen'.kind = "menu"
  BY DEF ApproveTransaction, RejectTransaction, Answered, Menu
<1>2. CASE ApproveTransaction
  <2>1. /\ TransactionConsent.kind = "transaction"
        /\ TransactionConsent.shown = screen /\ TransactionConsent.tx = tx
        /\ TransactionConsent.complete = AllReceived
    BY DEF TransactionConsent
  <2>2. ShowsTransaction(screen, tx)
    BY <1>2 DEF ApproveTransaction, SafetyInv, ScreenInv
  <2>3. QED
    BY <1>1, <1>2, <2>1, <2>2, SignInputConsentInv, MenuScreenInv DEF ApproveTransaction
<1>3. CASE RejectTransaction
  <2>1. ConsentInv'
    BY <1>3 DEF RejectTransaction, SafetyInv, ConsentInv, AllReceived, txInfo, path, approval
  <2>2. QED
    BY <1>1, <2>1, MenuScreenInv
<1>4. QED
  BY <1>2, <1>3

\* A message request ends the approval, and what it puts up for review is the
\* message and the path in the context (sign_msg.c:93, ui_display_message).
LEMMA MessageSafetyInv ==
    ASSUME SafetyInv, Idle, NEW m \in MessageChunks, handler_sign_msg(m)
    PROVE  ScreenInv' /\ ConsentInv'
<1>1. ConsentInv'
  BY RevokeConsentInv DEF handler_sign_msg
<1>2. CASE screen' = screen
  BY <1>1, <1>2, IdleMenu, MenuScreenInv
<1>3. CASE /\ message' = m.message /\ bip32_path' = MessagePath(m)
           /\ Show(MessageReview(MessagePath(m),
                                 format_message_to_sign(TextLen, m.message)))
  <2>1. /\ screen'.kind = "message" /\ screen'.path = bip32_path'
        /\ screen'.text = format_message_to_sign(TextLen, message')
    BY <1>3 DEF Show, MessageReview
  <2>2. QED
    BY <1>1, <2>1 DEF ScreenInv, handler_sign_msg
<1>4. QED
  BY <1>2, <1>3 DEF handler_sign_msg, DisplayMessage, Respond

\* The approval of a message is not an approval of a transaction, whatever the
\* state it leaves (validate.c:59).
LEMMA AnswerMessageSafetyInv ==
    ASSUME SafetyInv, ApproveMessage \/ RejectMessage
    PROVE  ScreenInv' /\ ConsentInv'
<1>1. screen'.kind = "menu" /\ screen.kind = "message" /\ req_type = "CONFIRM_MESSAGE"
  BY DEF ApproveMessage, RejectMessage, Answered, Menu, SafetyInv, ScreenInv
<1>2. CASE Grant(MessageConsent)
  BY <1>1, <1>2, MenuScreenInv
  DEF Grant, MessageConsent, ConsentInv, ApproveMessage, RejectMessage
<1>3. CASE UNCHANGED approval
  BY <1>1, <1>3, MenuScreenInv
  DEF ApproveMessage, RejectMessage, SafetyInv, ConsentInv, AllReceived, txInfo, path,
      approval
<1>4. QED
  BY <1>2, <1>3 DEF ApproveMessage, RejectMessage, txInfo, approval

\* The first two elements of a sequence survive in every longer prefix.
LEMMA PrefixOfSeq ==
    ASSUME NEW p \in Seq(Nat), NEW len \in Nat, 2 <= len, len <= Len(p)
    PROVE  /\ SubSeq(p, 1, len) \in Seq(Nat)
           /\ Len(SubSeq(p, 1, len)) = len
           /\ SubSeq(p, 1, len)[1] = p[1] /\ SubSeq(p, 1, len)[2] = p[2]
<1>1. \A i \in 1 .. len : p[i] \in Nat
  OBVIOUS
<1>2. /\ SubSeq(p, 1, len) \in Seq(Nat)
      /\ Len(SubSeq(p, 1, len)) = IF 1 <= len THEN len - 1 + 1 ELSE 0
      /\ \A i \in 1 .. len - 1 + 1 : SubSeq(p, 1, len)[i] = p[1 + i - 1]
  BY <1>1, SubSeqProperties
<1>3. Len(SubSeq(p, 1, len)) = len
  BY <1>2
<1>4. SubSeq(p, 1, len)[1] = p[1 + 1 - 1] /\ SubSeq(p, 1, len)[2] = p[1 + 2 - 1]
  BY <1>2
<1>5. QED
  BY <1>2, <1>3, <1>4

\* A prefix of two elements is the pair of them.
LEMMA PrefixOfTwo ==
    ASSUME NEW p \in Seq(Nat), 2 <= Len(p)
    PROVE  SubSeq(p, 1, 2) = <<p[1], p[2]>>
<1>1. p[1] \in Nat /\ p[2] \in Nat
  OBVIOUS
<1>2. /\ SubSeq(p, 1, 2) \in Seq(Nat) /\ Len(SubSeq(p, 1, 2)) = 2
      /\ SubSeq(p, 1, 2)[1] = p[1] /\ SubSeq(p, 1, 2)[2] = p[2]
  BY PrefixOfSeq
<1>3. <<p[1], p[2]>> \in Seq(Nat) /\ Len(<<p[1], p[2]>>) = 2
  BY <1>1
<1>4. \A i \in 1 .. 2 : SubSeq(p, 1, 2)[i] = <<p[1], p[2]>>[i]
  BY <1>2
<1>5. QED
  BY <1>2, <1>3, <1>4, SeqEqual

\* The path of an accepted request begins with Kaspa's purpose and coin type
\* (get_public_key.c:58).
LEMMA AcceptedPath ==
    ASSUME NEW c \in PathChunks, NEW len \in Byte, PathError(StoredPath(c), len) = "SW_OK"
    PROVE  SubSeq(SubSeq(StoredPath(c), 1, len), 1, 2) = <<Purpose, CoinType>>
<1>1. 2 <= len /\ len <= 5 /\ len \in Nat
  BY DEF PathError, Byte, MaxPathLen
<1>2. StoredPath(c)[1] = Purpose /\ StoredPath(c)[2] = CoinType
  BY DEF PathError
<1>3. StoredPath(c) \in Seq(Nat) /\ Len(StoredPath(c)) = 5
  <2>1. StoredPath(c) \in [1 .. 5 -> Nat]
    BY PathChunkTypes DEF Paths, MaxPathLen
  <2>2. StoredPath(c) \in Seq(Nat)
    BY <2>1, SeqDef
  <2>3. DOMAIN StoredPath(c) = 1 .. 5
    BY <2>1
  <2>4. QED
    BY <2>2, <2>3, LenProperties
<1>4. /\ SubSeq(StoredPath(c), 1, len) \in Seq(Nat)
      /\ Len(SubSeq(StoredPath(c), 1, len)) = len
      /\ SubSeq(StoredPath(c), 1, len)[1] = Purpose
      /\ SubSeq(StoredPath(c), 1, len)[2] = CoinType
  BY <1>1, <1>2, <1>3, PrefixOfSeq
<1>5. QED
  BY <1>1, <1>4, PrefixOfTwo

\* A request for a public key ends the approval, and the key it puts up for
\* review is the one of the path on the screen (get_public_key.c:66).
LEMMA PublicKeySafetyInv ==
    ASSUME SafetyInv, Idle, NEW c \in PathChunks, NEW display \in BOOLEAN,
           handler_get_public_key(c, display)
    PROVE  ScreenInv' /\ ConsentInv'
<1>1. ConsentInv'
  BY RevokeConsentInv DEF handler_get_public_key
<1>2. CASE screen' = screen
  BY <1>1, <1>2, IdleMenu, MenuScreenInv
<1>3. CASE \E len \in LengthAfterRead(c) :
               /\ PathError(StoredPath(c), len) = "SW_OK"
               /\ raw_public_key' = KeyAt(StoredPath(c), len)
               /\ Show(AddressReview(SubSeq(StoredPath(c), 1, len), KeyAt(StoredPath(c), len)))
  <2>1. PICK len \in Byte :
            /\ PathError(StoredPath(c), len) = "SW_OK"
            /\ raw_public_key' = KeyAt(StoredPath(c), len)
            /\ Show(AddressReview(SubSeq(StoredPath(c), 1, len), KeyAt(StoredPath(c), len)))
    BY <1>3, PathChunkTypes
  <2>2. /\ screen'.kind = "address" /\ screen'.key = raw_public_key'
        /\ screen'.path = SubSeq(StoredPath(c), 1, len)
        /\ screen'.key = PublicKey(screen'.path)
    BY <2>1 DEF Show, AddressReview, KeyAt
  <2>3. SubSeq(screen'.path, 1, 2) = <<Purpose, CoinType>>
    BY <2>1, <2>2, AcceptedPath
  <2>4. QED
    BY <1>1, <2>2, <2>3 DEF ScreenInv, handler_get_public_key
<1>4. QED
  BY <1>2, <1>3 DEF handler_get_public_key, DisplayAddress, Respond

\* The approval of an address leaves the context as it is, and is no approval
\* of a transaction (validate.c:33).
LEMMA AnswerAddressSafetyInv ==
    ASSUME SafetyInv, ApproveAddress \/ RejectAddress
    PROVE  ScreenInv' /\ ConsentInv'
<1>1. screen'.kind = "menu" /\ screen.kind = "address" /\ req_type = "CONFIRM_ADDRESS"
  BY DEF ApproveAddress, RejectAddress, Answered, Menu, SafetyInv, ScreenInv
<1>2. CASE Grant(AddressConsent) /\ UNCHANGED context
  BY <1>1, <1>2, MenuScreenInv DEF Grant, AddressConsent, ConsentInv, context
<1>3. CASE UNCHANGED <<context, approval>>
  BY <1>1, <1>3, MenuScreenInv
  DEF SafetyInv, ConsentInv, AllReceived, context, txInfo, approval
<1>4. QED
  BY <1>2, <1>3 DEF ApproveAddress, RejectAddress

\* A restart forgets the approval (app_main.c:54).
LEMMA RestartSafetyInv ==
    ASSUME Restart
    PROVE  ScreenInv' /\ ConsentInv'
<1>1. Revoke /\ state' = "STATE_NONE" /\ screen'.kind = "menu"
  BY DEF Restart, ClearContext, Menu
<1>2. QED
  BY <1>1, RevokeConsentInv, MenuScreenInv

\* Every step preserves the invariant.
LEMMA NextSafetyInv == SafetyInv /\ [Next]_vars => SafetyInv'
<1> SUFFICES ASSUME SafetyInv, [Next]_vars PROVE ScreenInv' /\ ConsentInv'
  BY NextTypeOK DEF SafetyInv
<1>1. CASE Receive
  <2>1. CASE Refused \/ GetInfo
    BY <2>1, NoEffectSafetyInv DEF Refused, GetInfo, Respond, SafetyInv
  <2>2. QED
    BY <1>1, <2>1, ReceiveCases, NextSignatureSafetyInv, HeaderSafetyInv, OutputSafetyInv,
       InputSafetyInv, MessageSafetyInv, PublicKeySafetyInv DEF Receive
<1>2. CASE Answer
  BY <1>2, AnswerTransactionSafetyInv, AnswerMessageSafetyInv, AnswerAddressSafetyInv
  DEF Answer, Approve, Reject
<1>3. CASE Restart
  BY <1>3, RestartSafetyInv
<1>4. CASE UNCHANGED vars
  BY <1>4, NoEffectSafetyInv DEF vars, SafetyInv
<1>5. QED
  BY <1>1, <1>2, <1>3, <1>4 DEF Next

\* The inductive invariant: a pending review shows what the context holds, and
\* an approval of a whole transaction holds on to it.
THEOREM SafetyInvariant == Spec => []SafetyInv
  BY InitSafetyInv, NextSafetyInv, PTL DEF Spec

\* A pending review belongs to the request in G_context and shows what
\* G_context holds (validate.c:33-74 answers from G_context).
THEOREM ScreenIsCurrent == Spec => []ScreenInv
<1>1. SafetyInv => ScreenInv
  BY DEF SafetyInv
<1> QED
  BY <1>1, SafetyInvariant, PTL

\* A state that permits signatures has an approval behind it, and the approval
\* of a whole transaction holds on to that transaction (sign_tx.c:84, :105, :145).
THEOREM ConsentHolds == Spec => []ConsentInv
<1>1. SafetyInv => ConsentInv
  BY DEF SafetyInv
<1> QED
  BY <1>1, SafetyInvariant, PTL

-----------------------------------------------------------------------------
(* Which steps answer with a signature or a key *)

Quiet == rapdu'.kind \in {"none", "sw", "GET_VERSION", "GET_APP_NAME"}

\* A header, a chunk and a message request are answered with a status word or
\* not yet (sign_tx.c:55, sign_msg.c:47).
LEMMA QuietRequests ==
    /\ \A h \in HeaderChunks : SignTxHeader(h) => Quiet
    /\ \A c \in OutputChunks : SignTxOutput(c) => Quiet
    /\ \A c \in InputChunks, more \in BOOLEAN : SignTxInput(c, more) => Quiet
    /\ \A m \in MessageChunks : handler_sign_msg(m) => Quiet
<1>1. \A h \in HeaderChunks : SignTxHeader(h) => Quiet
  BY DEF SignTxHeader, Quiet, Respond, SW
<1>2. \A c \in OutputChunks : SignTxOutput(c) => Quiet
  BY DEF SignTxOutput, Refuse, Quiet, Respond, SW
<1>3. ASSUME NEW c \in InputChunks, NEW more \in BOOLEAN, SignTxInput(c, more)
      PROVE  Quiet
  <2>1. CASE ReviewTransaction(WithInput(c))
    BY <2>1 DEF ReviewTransaction, DisplayTransaction, Show, NoResponse, Quiet, Respond, SW
  <2>2. CASE \E sw \in {"SW_OK", "SW_BAD_STATE", "SW_TX_PARSING_FAIL"} : Respond(SW(sw))
    BY <2>2 DEF Quiet, Respond, SW
  <2>3. QED
    BY <1>3, <2>1, <2>2 DEF SignTxInput, Refuse
<1>4. \A m \in MessageChunks : handler_sign_msg(m) => Quiet
  BY DEF handler_sign_msg, DisplayMessage, Show, NoResponse, Quiet, Respond, SW
<1>5. QED
  BY <1>1, <1>2, <1>3, <1>4

\* The steps whose response may be more than a status word.
LEMMA ResponseCases ==
    ASSUME Next
    PROVE  \/ Quiet \/ NextSignature \/ ApproveTransaction \/ ApproveMessage \/ ApproveAddress
           \/ \E c \in PathChunks, display \in BOOLEAN : handler_get_public_key(c, display)
<1>1. CASE Receive
  <2>1. CASE Refused
    BY <2>1 DEF Refused, Quiet, Respond, SW
  <2>2. CASE GetInfo
    <3>1. PICK ins \in {"GET_VERSION", "GET_APP_NAME"} : rapdu' = [kind |-> ins]
      BY <2>2 DEF GetInfo, Respond
    <3>2. rapdu'.kind = ins
      BY <3>1
    <3>3. QED
      BY <3>1, <3>2 DEF Quiet
  <2>3. QED
    BY <1>1, <2>1, <2>2, ReceiveCases, QuietRequests
<1>2. CASE Reject
  BY <1>2 DEF Reject, RejectTransaction, RejectMessage, RejectAddress, Answered, Quiet, SW
<1>3. CASE Restart
  BY <1>3 DEF Restart, NoResponse, Quiet
<1>4. QED
  BY <1>1, <1>2, <1>3 DEF Next, Answer, Approve

\* A signature is made under the approval of a transaction, from the
\* transaction in the context (crypto.c:58, send_reponse.c:49).
LEMMA SignatureStep ==
    ASSUME SafetyInv, Next, rapdu'.kind = "signature"
    PROVE  /\ consent'.kind = "transaction"
           /\ tx' = tx
           /\ \E junk \in JunkInputs :
                  rapdu' = SignatureResponse(InputToSign(junk), junk)
<1>1. ASSUME NEW c, NEW s, SignInput(c, s), c.kind = "transaction"
      PROVE  /\ consent'.kind = "transaction"
             /\ tx' = tx
             /\ \E junk \in JunkInputs :
                    rapdu' = SignatureResponse(InputToSign(junk), junk)
  BY <1>1 DEF SignInput, SW
<1>2. CASE NextSignature
  <2>1. ~Respond(SW("SW_BAD_STATE"))
    BY DEF Respond, SW
  <2>2. MaySignNext /\ SignInput(consent, signed)
    BY <1>2, <2>1 DEF NextSignature
  <2>3. consent.kind = "transaction"
    BY <2>2 DEF SafetyInv, ConsentInv, MaySignNext, NotASession
  <2>4. QED
    BY <1>1, <2>2, <2>3
<1>3. CASE ApproveTransaction
  <2>1. SignInput(TransactionConsent, {}) /\ TransactionConsent.kind = "transaction"
    BY <1>3 DEF ApproveTransaction, TransactionConsent
  <2>2. QED
    BY <1>1, <2>1
<1>4. CASE ApproveMessage \/ ApproveAddress
  BY <1>4 DEF ApproveMessage, ApproveAddress, Answered, SW, PublicKeyResponse
<1>5. CASE \E c \in PathChunks, display \in BOOLEAN : handler_get_public_key(c, display)
  BY <1>5 DEF handler_get_public_key, DisplayAddress, Show, NoResponse, Respond, SW,
              PublicKeyResponse
<1>6. ~Quiet
  BY DEF Quiet
<1>7. QED
  BY <1>2, <1>3, <1>4, <1>5, <1>6, ResponseCases

\* A message is signed in the step that approves it (validate.c:59).
LEMMA MessageSignatureStep ==
    ASSUME SafetyInv, Next, rapdu'.kind = "message_signature"
    PROVE  /\ screen.kind = "message"
           /\ consent' = MessageConsent
           /\ rapdu'.path = bip32_path
           /\ rapdu'.hash = MessageHash(message)
<1>1. ASSUME NEW c, NEW s, SignInput(c, s)
      PROVE  FALSE
  BY <1>1 DEF SignInput, SW, SignatureResponse
<1>2. CASE NextSignature
  BY <1>1, <1>2 DEF NextSignature, Respond, SW
<1>3. CASE ApproveTransaction
  BY <1>1, <1>3 DEF ApproveTransaction
<1>4. CASE ApproveMessage
  BY <1>4 DEF ApproveMessage, Answered, SW, Grant
<1>5. CASE ApproveAddress
  BY <1>5 DEF ApproveAddress, Answered, PublicKeyResponse
<1>6. CASE \E c \in PathChunks, display \in BOOLEAN : handler_get_public_key(c, display)
  BY <1>6 DEF handler_get_public_key, DisplayAddress, Show, NoResponse, Respond, SW,
              PublicKeyResponse
<1>7. ~Quiet
  BY DEF Quiet
<1>8. QED
  BY <1>2, <1>3, <1>4, <1>5, <1>6, <1>7, ResponseCases

-----------------------------------------------------------------------------
(* The properties of what is signed *)

\* At start-up nothing has been answered (app_main.c:43).
LEMMA InitResponse == Init => rapdu.kind = "none"
  BY DEF Init, NoResponse

\* No signature without an approval of a review of that kind that nothing has
\* ended (sign_tx.c:145, validate.c:45).
THEOREM SignatureNeedsConsent == Spec => []SignatureHasConsent
<1>1. Init => SignatureHasConsent
  BY InitResponse DEF SignatureHasConsent, Signed
<1>2. SignatureHasConsent /\ SafetyInv /\ SafetyInv' /\ [Next]_vars => SignatureHasConsent'
  <2> SUFFICES ASSUME SignatureHasConsent, SafetyInv, SafetyInv', [Next]_vars
               PROVE  SignatureHasConsent'
    OBVIOUS
  <2>1. CASE Next
    <3>1. ASSUME rapdu'.kind = "signature"
          PROVE  consent'.kind = "transaction" /\ consent'.shown.kind = "transaction"
      <4>1. consent'.kind = "transaction"
        BY <2>1, <3>1, SignatureStep
      <4>2. QED
        BY <4>1 DEF SafetyInv, ConsentInv, ShowsTransaction
    <3>2. ASSUME rapdu'.kind = "message_signature"
          PROVE  consent'.kind = "message" /\ consent'.shown.kind = "message"
      BY <2>1, <3>2, MessageSignatureStep DEF MessageConsent
    <3>3. QED
      BY <3>1, <3>2 DEF SignatureHasConsent, Signed
  <2>2. CASE UNCHANGED vars
    BY <2>2 DEF SignatureHasConsent, Signed, vars, approval
  <2>3. QED
    BY <2>1, <2>2
<1>3. QED
  BY <1>1, <1>2, SafetyInvariant, PTL DEF Spec

\* What the step that signs an input of a whole transaction knows: the
\* transaction is the approved one, and it is the one the review showed.
LEMMA CompleteSignatureStep ==
    ASSUME SafetyInv, SafetyInv', Next, SignedComplete'
    PROVE  /\ consent'.tx = tx /\ tx' = tx
           /\ ShowsTransaction(consent'.shown, tx)
           /\ tx.tx_input_len \in 0 .. MaxInputCount
           /\ \E junk \in JunkInputs : rapdu' = SignatureResponse(InputToSign(junk), junk)
<1>1. /\ consent'.kind = "transaction" /\ consent'.complete /\ tx' = tx
      /\ \E junk \in JunkInputs : rapdu' = SignatureResponse(InputToSign(junk), junk)
  BY SignatureStep DEF SignedComplete, Signed
<1>2. tx' = consent'.tx /\ AllReceived' /\ ShowsTransaction(consent'.shown, consent'.tx)
  BY <1>1 DEF SafetyInv, ConsentInv
<1>3. tx.tx_input_len \in 0 .. MaxInputCount
  BY <1>1, <1>2 DEF AllReceived, SafetyInv, TypeOK
<1>4. QED
  BY <1>1, <1>2, <1>3

\* The signed outputs are those of the approved transaction, and the first one
\* pays the displayed amount to the displayed address
\* (ui_display_transaction, sighash.c:129).
THEOREM PaymentIsShown == Spec => []SignedPaymentIsShown
<1>1. Init => SignedPaymentIsShown
  BY InitResponse DEF SignedPaymentIsShown, SignedComplete, Signed
<1>2. SignedPaymentIsShown /\ SafetyInv /\ SafetyInv' /\ [Next]_vars => SignedPaymentIsShown'
  <2> SUFFICES ASSUME SignedPaymentIsShown, SafetyInv, SafetyInv', [Next]_vars
               PROVE  SignedPaymentIsShown'
    OBVIOUS
  <2>1. ASSUME Next, SignedComplete'
        PROVE  SignedPaymentIsShown'
    <3>1. PICK junk \in JunkInputs : rapdu' = SignatureResponse(InputToSign(junk), junk)
      BY <2>1, CompleteSignatureStep
    <3>2. rapdu'.hash.outputs = OutputsHash(tx)
      BY <3>1 DEF SignatureResponse, calc_sighash
    <3>3. ShowsTransaction(consent'.shown, tx) /\ consent'.tx = tx
      BY <2>1, CompleteSignatureStep
    <3>4. OutputsHash(tx)[0] = tx.tx_outputs[0]
      BY <3>3 DEF OutputsHash, ShowsTransaction
    <3>5. QED
      BY <3>2, <3>3, <3>4 DEF SignedPaymentIsShown, ShowsTransaction
  <2>2. CASE UNCHANGED vars
    BY <2>2 DEF SignedPaymentIsShown, SignedComplete, Signed, vars, approval
  <2>3. QED
    BY <2>1, <2>2 DEF SignedPaymentIsShown
<1>3. QED
  BY <1>1, <1>2, SafetyInvariant, PTL DEF Spec

\* A signed second output pays to a key of this device, under the account the
\* input is spent from (tx_validate.c:43).
THEOREM ChangeIsOwn == Spec => []SignedChangeIsOwn
<1>1. Init => SignedChangeIsOwn
  BY InitResponse DEF SignedChangeIsOwn, SignedComplete, Signed
<1>2. SignedChangeIsOwn /\ SafetyInv /\ SafetyInv' /\ [Next]_vars => SignedChangeIsOwn'
  <2> SUFFICES ASSUME SignedChangeIsOwn, SafetyInv, SafetyInv', [Next]_vars
               PROVE  SignedChangeIsOwn'
    OBVIOUS
  <2>1. ASSUME Next, SignedComplete'
        PROVE  SignedChangeIsOwn'
    <3>1. PICK junk \in JunkInputs : rapdu' = SignatureResponse(InputToSign(junk), junk)
      BY <2>1, CompleteSignatureStep
    <3>2. /\ rapdu'.hash.outputs = OutputsHash(tx)
          /\ rapdu'.path = InputPath(tx, InputToSign(junk))
      BY <3>1 DEF SignatureResponse, calc_sighash
    <3>3. rapdu'.path[3] = tx.account
      BY <3>2 DEF InputPath, KaspaPath
    <3>4. ShowsTransaction(consent'.shown, tx)
      BY <2>1, CompleteSignatureStep
    <3>5. ASSUME 1 \in DOMAIN OutputsHash(tx)
          PROVE  HasChange(tx) /\ OutputsHash(tx)[1] = tx.tx_outputs[1]
      BY <3>4, <3>5 DEF OutputsHash, ShowsTransaction, HasChange
    <3>6. QED
      BY <3>2, <3>3, <3>4, <3>5 DEF SignedChangeIsOwn, ShowsTransaction
  <2>2. CASE UNCHANGED vars
    BY <2>2 DEF SignedChangeIsOwn, SignedComplete, Signed, vars, approval
  <2>3. QED
    BY <2>1, <2>2 DEF SignedChangeIsOwn
<1>3. QED
  BY <1>1, <1>2, SafetyInvariant, PTL DEF Spec

\* A signature for an announced input spends that input of the approved
\* transaction, with the key of its path (crypto.c:63).
THEOREM InputIsReviewed == Spec => []SignedInputIsReviewed
<1>1. Init => SignedInputIsReviewed
  BY InitResponse DEF SignedInputIsReviewed, SignedComplete, Signed
<1>2. SignedInputIsReviewed /\ SafetyInv /\ SafetyInv' /\ [Next]_vars => SignedInputIsReviewed'
  <2> SUFFICES ASSUME SignedInputIsReviewed, SafetyInv, SafetyInv', [Next]_vars
               PROVE  SignedInputIsReviewed'
    OBVIOUS
  <2>1. ASSUME Next, SignedComplete', rapdu'.input_index < consent'.tx.tx_input_len
        PROVE  SignedInputIsReviewed'
    <3>1. PICK junk \in JunkInputs : rapdu' = SignatureResponse(InputToSign(junk), junk)
      BY <2>1, CompleteSignatureStep
    <3>2. consent'.tx = tx /\ tx.tx_input_len \in 0 .. MaxInputCount
      BY <2>1, CompleteSignatureStep
    <3>3. rapdu'.input_index = signing_input_index
      BY <3>1 DEF SignatureResponse
    <3>4. InputToSign(junk) = tx.tx_inputs[signing_input_index]
      BY <2>1, <3>2, <3>3, WidthAssumption DEF InputToSign, InputAt, SafetyInv, TypeOK, Byte
    <3> DEFINE txin == tx.tx_inputs[signing_input_index]
    <3>5. /\ rapdu'.path = InputPath(tx, txin)
          /\ rapdu'.hash = calc_sighash(tx, txin, PublicKey(InputPath(tx, txin)), junk)
      BY <3>1, <3>4 DEF SignatureResponse
    <3>6. PrevOutputsHash(tx, junk) =
              [i \in 0 .. tx.tx_input_len - 1 |-> Outpoint(tx.tx_inputs[i])]
      BY <3>2, WidthAssumption DEF PrevOutputsHash, InputAt
    <3>7. /\ rapdu'.hash.script = TxinScript(PublicKey(rapdu'.path))
          /\ rapdu'.hash.outpoint = Outpoint(txin)
          /\ rapdu'.hash.value = txin.value
          /\ rapdu'.hash.prev_outputs = PrevOutputsHash(tx, junk)
      BY <3>5 DEF calc_sighash
    <3>8. QED
      BY <3>2, <3>3, <3>5, <3>6, <3>7 DEF SignedInputIsReviewed
  <2>2. CASE UNCHANGED vars
    BY <2>2 DEF SignedInputIsReviewed, SignedComplete, Signed, vars, approval
  <2>3. QED
    BY <2>1, <2>2 DEF SignedInputIsReviewed
<1>3. QED
  BY <1>1, <1>2, SafetyInvariant, PTL DEF Spec

\* The signed message is the one whose text was approved, and the key is the
\* one of the displayed path (sign_msg.c:93, crypto.c:125).
THEOREM MessageIsShown == Spec => []SignedMessageIsShown
<1>1. Init => SignedMessageIsShown
  BY InitResponse DEF SignedMessageIsShown
<1>2. SignedMessageIsShown /\ SafetyInv /\ [Next]_vars => SignedMessageIsShown'
  <2> SUFFICES ASSUME SignedMessageIsShown, SafetyInv, [Next]_vars
               PROVE  SignedMessageIsShown'
    OBVIOUS
  <2>1. ASSUME Next, rapdu'.kind = "message_signature"
        PROVE  SignedMessageIsShown'
    <3>1. /\ screen.kind = "message" /\ consent' = MessageConsent
          /\ rapdu'.path = bip32_path /\ rapdu'.hash = MessageHash(message)
      BY <2>1, MessageSignatureStep
    <3>2. consent'.shown = screen /\ rapdu'.hash.message = message
      BY <3>1 DEF MessageConsent, MessageHash
    <3>3. QED
      BY <3>1, <3>2 DEF SafetyInv, ScreenInv, SignedMessageIsShown
  <2>2. CASE UNCHANGED vars
    BY <2>2 DEF SignedMessageIsShown, vars, approval
  <2>3. QED
    BY <2>1, <2>2 DEF SignedMessageIsShown
<1>3. QED
  BY <1>1, <1>2, SafetyInvariant, PTL DEF Spec

-----------------------------------------------------------------------------
(* Keys *)

\* A key is answered in the step that approves its address, or without a
\* review at once (get_public_key.c:66, validate.c:33).
LEMMA PublicKeyStep ==
    ASSUME SafetyInv, Next, rapdu'.kind = "public_key"
    PROVE  \/ /\ screen.kind = "address" /\ consent' = AddressConsent
              /\ rapdu'.key = raw_public_key
           \/ /\ consent'.kind = "none"
              /\ \E c \in PathChunks, len \in Byte :
                     /\ PathError(StoredPath(c), len) = "SW_OK"
                     /\ rapdu'.key = KeyAt(StoredPath(c), len)
<1>1. ASSUME NEW c, NEW s, SignInput(c, s)
      PROVE  FALSE
  BY <1>1 DEF SignInput, SW, SignatureResponse
<1>2. CASE NextSignature
  BY <1>1, <1>2 DEF NextSignature, Respond, SW
<1>3. CASE ApproveTransaction
  BY <1>1, <1>3 DEF ApproveTransaction
<1>4. CASE ApproveMessage
  BY <1>4 DEF ApproveMessage, Answered, SW
<1>5. CASE ApproveAddress
  BY <1>5 DEF ApproveAddress, Answered, PublicKeyResponse, Grant
<1>6. CASE \E c \in PathChunks, display \in BOOLEAN : handler_get_public_key(c, display)
  <2>1. PICK c \in PathChunks, display \in BOOLEAN : handler_get_public_key(c, display)
    BY <1>6
  <2>2. consent'.kind = "none"
    BY <2>1 DEF handler_get_public_key, Revoke, Grant, NoConsent
  <2>3. \E len \in LengthAfterRead(c) :
            /\ PathError(StoredPath(c), len) = "SW_OK"
            /\ Respond(PublicKeyResponse(KeyAt(StoredPath(c), len)))
    BY <2>1 DEF handler_get_public_key, DisplayAddress, Show, NoResponse, Respond, SW
  <2>4. QED
    BY <2>2, <2>3, PathChunkTypes DEF Respond, PublicKeyResponse
<1>7. ~Quiet
  BY DEF Quiet
<1>8. QED
  BY <1>2, <1>3, <1>4, <1>5, <1>6, <1>7, ResponseCases

\* A confirmed key is the one of the displayed address and path, and no key
\* leaves the device that is outside Kaspa's purpose and coin type
\* (get_public_key.c:58).
THEOREM KeyIsShown == Spec => []ReturnedKeyIsShown
<1>1. Init => ReturnedKeyIsShown
  BY InitResponse DEF ReturnedKeyIsShown
<1>2. ReturnedKeyIsShown /\ SafetyInv /\ [Next]_vars => ReturnedKeyIsShown'
  <2> SUFFICES ASSUME ReturnedKeyIsShown, SafetyInv, [Next]_vars
               PROVE  ReturnedKeyIsShown'
    OBVIOUS
  <2>1. ASSUME Next, rapdu'.kind = "public_key"
        PROVE  ReturnedKeyIsShown'
    <3>1. CASE screen.kind = "address" /\ consent' = AddressConsent
               /\ rapdu'.key = raw_public_key
      <4>1. consent'.shown = screen
        BY <3>1 DEF AddressConsent
      <4>2. /\ screen.key = raw_public_key /\ screen.key = PublicKey(screen.path)
            /\ SubSeq(screen.path, 1, 2) = <<Purpose, CoinType>>
        BY <3>1 DEF SafetyInv, ScreenInv
      <4>3. rapdu'.key.path = screen.path
        BY <3>1, <4>2 DEF PublicKey
      <4>4. QED
        BY <3>1, <4>1, <4>2, <4>3 DEF ReturnedKeyIsShown
    <3>2. CASE consent'.kind = "none"
               /\ \E c \in PathChunks, len \in Byte :
                      /\ PathError(StoredPath(c), len) = "SW_OK"
                      /\ rapdu'.key = KeyAt(StoredPath(c), len)
      <4>1. PICK c \in PathChunks, len \in Byte :
                /\ PathError(StoredPath(c), len) = "SW_OK"
                /\ rapdu'.key = KeyAt(StoredPath(c), len)
        BY <3>2
      <4>2. rapdu'.key.path = SubSeq(StoredPath(c), 1, len)
        <5>1. \A p : PublicKey(p).path = p
          BY DEF PublicKey
        <5>2. rapdu'.key = PublicKey(SubSeq(StoredPath(c), 1, len))
          BY <4>1 DEF KeyAt
        <5>3. QED
          BY <5>1, <5>2, Zenon
      <4>3. SubSeq(SubSeq(StoredPath(c), 1, len), 1, 2) = <<Purpose, CoinType>>
        BY <4>1, AcceptedPath
      <4>4. SubSeq(rapdu'.key.path, 1, 2) = <<Purpose, CoinType>>
        BY <4>2, <4>3
      <4>5. consent'.kind # "address"
        BY <3>2
      <4>6. QED
        BY <4>4, <4>5 DEF ReturnedKeyIsShown
    <3>3. QED
      BY <2>1, <3>1, <3>2, PublicKeyStep
  <2>2. CASE UNCHANGED vars
    BY <2>2 DEF ReturnedKeyIsShown, vars, approval
  <2>3. QED
    BY <2>1, <2>2 DEF ReturnedKeyIsShown
<1>3. QED
  BY <1>1, <1>2, SafetyInvariant, PTL DEF Spec

-----------------------------------------------------------------------------
(* Counted outputs *)

\* A counted output has a script of a known form, whatever chunks were cut or
\* rejected before and after it (sign_tx.c:91, deserialize.c:96).
THEOREM OutputsAreScripts == Spec => []CountedOutputsAreScripts
<1>1. Init => CountedOutputsAreScripts
  BY DEF Init, CountedOutputsAreScripts, OutputSlots
<1>2. CountedOutputsAreScripts /\ TypeOK /\ TypeOK' /\ [Next]_vars => CountedOutputsAreScripts'
  <2> SUFFICES ASSUME CountedOutputsAreScripts, TypeOK, TypeOK', [Next]_vars
               PROVE  CountedOutputsAreScripts'
    OBVIOUS
  <2>1. CASE parsing_output_index' = 0
    BY <2>1 DEF CountedOutputsAreScripts, OutputSlots
  <2>2. CASE tx'.tx_outputs = tx.tx_outputs /\ parsing_output_index' = parsing_output_index
    BY <2>2 DEF CountedOutputsAreScripts
  <2>3. ASSUME NEW c \in OutputChunks, tx' = WithOutput(c), ~NoOutputSlot,
               parsing_output_index' = parsing_output_index + (IF OutputOK(c) THEN 1 ELSE 0)
        PROVE  CountedOutputsAreScripts'
    <3>1. parsing_output_index \in OutputSlots
      BY <2>3 DEF TypeOK, NoOutputSlot, OutputSlots, MaxOutputCount
    <3>2. tx.tx_outputs \in [OutputSlots -> Outputs]
      BY DEF TypeOK, Transactions
    <3>3. tx'.tx_outputs =
              [tx.tx_outputs EXCEPT ![parsing_output_index] =
                   OutputWrite(c, tx.tx_outputs[parsing_output_index])]
      BY <2>3 DEF WithOutput, TypeOK, Transactions
    <3>4. OutputOK(c) => tx'.tx_outputs[parsing_output_index].script.kind \in ScriptKinds
      BY <3>1, <3>2, <3>3 DEF OutputOK, OutputScriptRead, OutputWrite
    <3>5. \A o \in OutputSlots :
              o # parsing_output_index => tx'.tx_outputs[o] = tx.tx_outputs[o]
      BY <3>2, <3>3
    <3>6. QED
      BY <2>3, <3>1, <3>4, <3>5 DEF CountedOutputsAreScripts, OutputSlots
  <2>4. CASE Receive
    <3>1. CASE Refused \/ GetInfo
      BY <2>2, <3>1 DEF Refused, GetInfo, context, txInfo
    <3>2. ASSUME NEW c \in OutputChunks, SignTxOutput(c)
          PROVE  CountedOutputsAreScripts'
      <4>1. CASE tx' = WithOutput(c) /\ ~NoOutputSlot
                 /\ parsing_output_index' =
                        parsing_output_index + (IF OutputOK(c) THEN 1 ELSE 0)
        BY <2>3, <4>1
      <4>2. CASE UNCHANGED context
        BY <2>2, <4>2 DEF context, txInfo
      <4>3. QED
        BY <3>2, <4>1, <4>2 DEF SignTxOutput, Refuse
    <3>3. ASSUME NEW c \in InputChunks, NEW more \in BOOLEAN, SignTxInput(c, more)
          PROVE  CountedOutputsAreScripts'
      <4>1. CASE tx' = WithInput(c) /\ parsing_output_index' = parsing_output_index
        <5>1. tx'.tx_outputs = tx.tx_outputs
          BY <4>1 DEF WithInput, TypeOK, Transactions
        <5>2. QED
          BY <2>2, <4>1, <5>1
      <4>2. CASE UNCHANGED context
        BY <2>2, <4>2 DEF context, txInfo
      <4>3. QED
        BY <3>3, <4>1, <4>2 DEF SignTxInput, Refuse
    <3>4. CASE NextSignature
      BY <2>1, <2>2, <3>4 DEF NextSignature, ClearContext, ClearTxInfo, SignInput
    <3>5. CASE \/ \E h \in HeaderChunks : SignTxHeader(h)
               \/ \E m \in MessageChunks : handler_sign_msg(m)
               \/ \E c \in PathChunks, display \in BOOLEAN : handler_get_public_key(c, display)
      BY <2>1, <3>5 DEF SignTxHeader, handler_sign_msg, handler_get_public_key, ClearTxInfo
    <3>6. QED
      BY <2>4, <3>1, <3>2, <3>3, <3>4, <3>5, ReceiveCases
  <2>5. CASE Answer
    BY <2>2, <2>5 DEF Answer, Approve, Reject, ApproveTransaction, ApproveMessage,
       ApproveAddress, RejectTransaction, RejectMessage, RejectAddress, SignInput, context,
       txInfo
  <2>6. CASE Restart
    BY <2>1, <2>6 DEF Restart, ClearContext, ClearTxInfo
  <2>7. CASE UNCHANGED vars
    BY <2>2, <2>7 DEF vars, context, txInfo
  <2>8. QED
    BY <2>4, <2>5, <2>6, <2>7 DEF Next
<1>3. QED
  BY <1>1, <1>2, TypeCorrect, PTL DEF Spec

-----------------------------------------------------------------------------
(* Sums modulo AmountMod *)

\* Induction over the natural numbers, with a set in place of a predicate.
LEMMA SetInduction ==
    ASSUME NEW S, 0 \in S, \A n \in Nat : n \in S => n + 1 \in S
    PROVE  Nat \subseteq S
<1> DEFINE R == OpToRel(<, Nat)
<1> DEFINE T == Nat \ S
<1> SUFFICES ASSUME T # {} PROVE FALSE
  OBVIOUS
<1>1. IsWellFoundedOn(R, Nat)
  BY NatLessThanWellFounded, Zenon
<1>2. \A x, y \in Nat : x < y => <<x, y>> \in R
  BY DEF OpToRel
<1> HIDE DEF R
<1>3. PICK x \in T : \A y \in T : ~(<<y, x>> \in R)
  <2>1. T \subseteq Nat
    OBVIOUS
  <2>2. \E x \in T : \A y \in T : ~(<<y, x>> \in R)
    BY <1>1, <2>1, WFMin
  <2>3. QED
    BY <2>2
<1>4. x \in Nat /\ x # 0 /\ x - 1 \in Nat /\ x - 1 < x
  OBVIOUS
<1>5. x - 1 \in S
  BY <1>2, <1>3, <1>4
<1>6. QED
  BY <1>4, <1>5

\* f holds the running totals of the first n values, as the loops of
\* calc_fees and tx_validate_parsed_transaction compute them.
IsRunningTotal(f, v, n) ==
    f = [k \in 0 .. n |-> IF k = 0 THEN 0 ELSE (f[k - 1] + v[k - 1]) % AmountMod]

Values(n) == [0 .. n - 1 -> Amounts]

\* The next total is an amount again.
LEMMA NextTotalType == \A a, b \in Amounts : (a + b) % AmountMod \in Amounts
  BY WidthAssumption DEF Amounts

\* The loop computes something: there are running totals of any values.
LEMMA RunningTotalExists ==
    ASSUME NEW n \in Nat, NEW v \in Values(n)
    PROVE  \E f \in [0 .. n -> Amounts] : IsRunningTotal(f, v, n)
<1> DEFINE Totals(f, m) ==
        \A k \in 0 .. m : f[k] = IF k = 0 THEN 0 ELSE (f[k - 1] + v[k - 1]) % AmountMod
           S == {m \in Nat : m <= n => \E f \in [0 .. m -> Amounts] : Totals(f, m)}
<1>1. 0 \in S
  <2>1. 0 \in Amounts
    BY WidthAssumption DEF Amounts
  <2>2. [k \in 0 .. 0 |-> 0] \in [0 .. 0 -> Amounts]
    BY <2>1
  <2>3. Totals([k \in 0 .. 0 |-> 0], 0)
    OBVIOUS
  <2>4. QED
    BY <2>2, <2>3
<1>2. ASSUME NEW m \in Nat, m \in S
      PROVE  m + 1 \in S
  <2> SUFFICES ASSUME m + 1 <= n
               PROVE  \E f \in [0 .. m + 1 -> Amounts] : Totals(f, m + 1)
    OBVIOUS
  <2>1. PICK f \in [0 .. m -> Amounts] : Totals(f, m)
    BY <1>2
  <2> DEFINE last == (f[m] + v[m]) % AmountMod
             g == [k \in 0 .. m + 1 |-> IF k = m + 1 THEN last ELSE f[k]]
  <2>2. v[m] \in Amounts
    BY DEF Values
  <2>3. last \in Amounts
    BY <2>1, <2>2, NextTotalType
  <2> HIDE DEF last
  <2>4. g \in [0 .. m + 1 -> Amounts]
    BY <2>1, <2>3
  <2>5. \A k \in 0 .. m : g[k] = f[k]
    OBVIOUS
  <2>6. g[m + 1] = (g[m] + v[m]) % AmountMod
    BY <2>5 DEF last
  <2>7. \A k \in 0 .. m : g[k] = IF k = 0 THEN 0 ELSE (g[k - 1] + v[k - 1]) % AmountMod
    <3> SUFFICES ASSUME NEW k \in 0 .. m
                 PROVE  g[k] = IF k = 0 THEN 0 ELSE (g[k - 1] + v[k - 1]) % AmountMod
      OBVIOUS
    <3>1. f[k] = IF k = 0 THEN 0 ELSE (f[k - 1] + v[k - 1]) % AmountMod
      BY <2>1
    <3>2. k # 0 => k - 1 \in 0 .. m
      OBVIOUS
    <3> HIDE DEF g
    <3>3. QED
      BY <2>5, <3>1, <3>2
  <2> HIDE DEF g
  <2>8. Totals(g, m + 1)
    <3>1. ASSUME NEW k \in 0 .. m + 1, k \notin 0 .. m
          PROVE  k = m + 1 /\ k # 0 /\ k - 1 = m
      BY <3>1
    <3>2. QED
      BY <2>6, <2>7, <3>1
  <2>9. QED
    BY <2>4, <2>8
<1>3. n \in S
  <2> HIDE DEF S
  <2>1. QED
    BY <1>1, <1>2, SetInduction
<1>4. PICK f \in [0 .. n -> Amounts] : Totals(f, n)
  BY <1>3
<1>5. f = [k \in 0 .. n |-> IF k = 0 THEN 0 ELSE (f[k - 1] + v[k - 1]) % AmountMod]
  BY <1>4
<1>6. QED
  BY <1>5 DEF IsRunningTotal

\* Running totals are amounts, and there is only one way to compute them.
LEMMA RunningTotalUnique ==
    ASSUME NEW n \in Nat, NEW v \in Values(n), NEW f, NEW g,
           IsRunningTotal(f, v, n), IsRunningTotal(g, v, n)
    PROVE  f[n] = g[n] /\ f[n] \in Amounts
<1> DEFINE S == {m \in Nat : m <= n => f[m] = g[m] /\ f[m] \in Amounts}
<1>1. \A k \in 0 .. n : /\ f[k] = IF k = 0 THEN 0 ELSE (f[k - 1] + v[k - 1]) % AmountMod
                        /\ g[k] = IF k = 0 THEN 0 ELSE (g[k - 1] + v[k - 1]) % AmountMod
  BY DEF IsRunningTotal
<1>2. 0 \in S
  BY <1>1, WidthAssumption DEF Amounts
<1>3. ASSUME NEW m \in Nat, m \in S
      PROVE  m + 1 \in S
  <2> SUFFICES ASSUME m + 1 <= n
               PROVE  f[m + 1] = g[m + 1] /\ f[m + 1] \in Amounts
    OBVIOUS
  <2>1. f[m] = g[m] /\ f[m] \in Amounts /\ v[m] \in Amounts
    BY <1>3 DEF Values
  <2>2. m + 1 \in 0 .. n /\ m + 1 # 0 /\ m + 1 - 1 = m
    OBVIOUS
  <2>3. f[m + 1] = (f[m] + v[m]) % AmountMod /\ g[m + 1] = (g[m] + v[m]) % AmountMod
    BY <1>1, <2>2
  <2>4. QED
    BY <2>1, <2>3, NextTotalType
<1>4. n \in S
  <2> HIDE DEF S
  <2>1. QED
    BY <1>2, <1>3, SetInduction
<1>5. QED
  BY <1>4

InputValues(t)  == [i \in 0 .. t.tx_input_len - 1 |-> t.tx_inputs[i].value]
OutputValues(t) == [o \in 0 .. t.tx_output_len - 1 |-> t.tx_outputs[o].value]

\* The total of the inputs is a running total of the values in the array, and
\* of nothing behind it, when the announced inputs fit into the array
\* (tx_validate.c:74, utils.c:90).
LEMMA InputTotalIsTotal ==
    ASSUME NEW t \in Transactions, t.tx_input_len <= MaxInputCount, NEW junk
    PROVE  /\ t.tx_input_len \in Nat /\ InputValues(t) \in Values(t.tx_input_len)
           /\ \E f : /\ IsRunningTotal(f, InputValues(t), t.tx_input_len)
                     /\ InputTotal(t, junk) = f[t.tx_input_len]
<1> DEFINE n == t.tx_input_len
           v == InputValues(t)
           Sum(f) == f = [k \in 0 .. n |->
                             IF k = 0 THEN 0
                             ELSE (f[k - 1] + InputAt(t, k - 1, junk).value) % AmountMod]
           sum == CHOOSE f : Sum(f)
<1>1. n \in Nat
  BY WidthAssumption DEF Transactions, Byte
<1>2. \A i \in 0 .. n - 1 : i \in InputSlots /\ InputAt(t, i, junk) = t.tx_inputs[i]
  BY <1>1, WidthAssumption DEF InputSlots, InputAt
<1>3. v \in Values(n)
  BY <1>1, <1>2 DEF InputValues, Values, Transactions, Inputs
<1>4. \A k \in 0 .. n : k # 0 => v[k - 1] = InputAt(t, k - 1, junk).value
  <2>1. \A k \in 0 .. n : k # 0 => k - 1 \in 0 .. n - 1
    BY <1>1
  <2>2. QED
    BY <1>2, <2>1 DEF InputValues
<1> HIDE DEF v
<1>5. ASSUME NEW f
      PROVE  Sum(f) <=> IsRunningTotal(f, v, n)
  <2>1. [k \in 0 .. n |-> IF k = 0 THEN 0 ELSE (f[k - 1] + v[k - 1]) % AmountMod]
        = [k \in 0 .. n |-> IF k = 0 THEN 0
                            ELSE (f[k - 1] + InputAt(t, k - 1, junk).value) % AmountMod]
    BY <1>4
  <2>2. QED
    BY <2>1, Zenon DEF IsRunningTotal
<1>6. Sum(sum)
  <2>1. \E f : Sum(f)
    <3> HIDE DEF Sum
    <3>1. QED
      BY <1>1, <1>3, <1>5, RunningTotalExists
  <2>2. QED
    BY <2>1, Zenon
<1>7. InputTotal(t, junk) = sum[n]
  BY Zenon DEF InputTotal
<1> HIDE DEF sum, Sum
<1>8. QED
  BY <1>1, <1>3, <1>5, <1>6, <1>7 DEF v

\* The total of the outputs is a running total of their values (tx_validate.c:77).
LEMMA OutputTotalIsTotal ==
    ASSUME NEW t \in Transactions, t.tx_output_len \in 1 .. 2
    PROVE  OutputTotal(t) \in Amounts
<1> DEFINE n == t.tx_output_len
           v == OutputValues(t)
           Sum(f) == f = [k \in 0 .. n |->
                             IF k = 0 THEN 0
                             ELSE (f[k - 1] + t.tx_outputs[k - 1].value) % AmountMod]
           sum == CHOOSE f : Sum(f)
<1>1. n \in Nat
  OBVIOUS
<1>2. v \in Values(n)
  BY DEF OutputValues, Values, Transactions, Outputs, OutputSlots, MaxOutputCount
<1>3. \A k \in 0 .. n : k # 0 => v[k - 1] = t.tx_outputs[k - 1].value
  <2>1. \A k \in 0 .. n : k # 0 => k - 1 \in 0 .. n - 1
    BY <1>1
  <2>2. QED
    BY <2>1 DEF OutputValues
<1> HIDE DEF v
<1>4. ASSUME NEW f
      PROVE  Sum(f) <=> IsRunningTotal(f, v, n)
  <2>1. [k \in 0 .. n |-> IF k = 0 THEN 0 ELSE (f[k - 1] + v[k - 1]) % AmountMod]
        = [k \in 0 .. n |-> IF k = 0 THEN 0
                            ELSE (f[k - 1] + t.tx_outputs[k - 1].value) % AmountMod]
    BY <1>3
  <2>2. QED
    BY <2>1, Zenon DEF IsRunningTotal
<1>5. Sum(sum)
  <2>1. \E f : Sum(f)
    <3> HIDE DEF Sum
    <3>1. QED
      BY <1>1, <1>2, <1>4, RunningTotalExists
  <2>2. QED
    BY <2>1, Zenon
<1>6. OutputTotal(t) = sum[n]
  BY Zenon DEF OutputTotal
<1> HIDE DEF sum, Sum
<1>7. QED
  BY <1>1, <1>2, <1>4, <1>5, <1>6, RunningTotalUnique

\* The fees of a validated transaction whose inputs fit into the array are what
\* its inputs leave over: the subtraction does not borrow (utils.c:98,
\* tx_validate.c:82).
LEMMA ValidatedFees ==
    ASSUME NEW t \in Transactions, t.tx_input_len <= MaxInputCount, t.tx_output_len \in 1 .. 2,
           NEW junk, InputTotal(t, junk) >= OutputTotal(t)
    PROVE  FeesAre(t, calc_fees(t, junk))
<1> DEFINE in == InputTotal(t, junk)
           out == OutputTotal(t)
<1>1. \A j : InputTotal(t, j) = in /\ InputTotal(t, j) \in Amounts
  <2> SUFFICES ASSUME NEW j PROVE InputTotal(t, j) = in /\ InputTotal(t, j) \in Amounts
    OBVIOUS
  <2> DEFINE n == t.tx_input_len
  <2>1. PICK f : IsRunningTotal(f, InputValues(t), n) /\ in = f[n]
    BY InputTotalIsTotal, Zenon
  <2>2. PICK g : IsRunningTotal(g, InputValues(t), n) /\ InputTotal(t, j) = g[n]
    BY InputTotalIsTotal, Zenon
  <2>3. n \in Nat /\ InputValues(t) \in Values(n)
    BY InputTotalIsTotal, Zenon
  <2>4. f[n] = g[n] /\ f[n] \in Amounts
    BY <2>1, <2>2, <2>3, RunningTotalUnique, Zenon
  <2>5. QED
    BY <2>1, <2>2, <2>4, Zenon
<1>2. in \in Amounts /\ out \in Amounts /\ in >= out
  BY <1>1, OutputTotalIsTotal
<1> HIDE DEF in, out
<1>3. (in - out) % AmountMod = in - out
  BY <1>2, WidthAssumption DEF Amounts
<1>4. in = out + ((in - out) % AmountMod)
  BY <1>2, <1>3 DEF Amounts
<1>5. QED
  BY <1>1, <1>4 DEF FeesAre, calc_fees, in, out
-----------------------------------------------------------------------------
(* Which steps start a review, and which ones touch an approval *)

\* A review of a transaction starts with the last chunk of inputs, and what it
\* shows of the fees passed the comparison of the totals (sign_tx.c:135).
LEMMA TransactionReviewStep ==
    ASSUME SafetyInv, Next, screen'.kind = "transaction"
    PROVE  /\ Idle /\ Revoke
           /\ tx' \in Transactions /\ LengthsOK(tx')
           /\ \E junk \in JunkInputs :
                  /\ InputTotal(tx', junk) >= OutputTotal(tx')
                  /\ screen'.fees = calc_fees(tx', junk)
<1>1. screen' # Menu
  BY DEF Menu
<1>2. Receive
  BY <1>1 DEF Next, Answer, Approve, Reject, ApproveTransaction, ApproveMessage,
     ApproveAddress, RejectTransaction, RejectMessage, RejectAddress, Answered, Restart
<1>3. Idle /\ screen' # screen
  BY <1>1, <1>2 DEF Receive, Idle
<1>4. PICK c \in InputChunks, more \in BOOLEAN : SignTxInput(c, more)
  <2>1. ~(Refused \/ GetInfo \/ NextSignature)
    BY <1>3 DEF Refused, GetInfo, NextSignature, Respond
  <2>2. ~\E h \in HeaderChunks : SignTxHeader(h)
    BY <1>3 DEF SignTxHeader, Respond
  <2>3. ~\E c \in OutputChunks : SignTxOutput(c)
    BY <1>3 DEF SignTxOutput, Refuse, Respond
  <2>4. ~\E m \in MessageChunks : handler_sign_msg(m)
    BY <1>3 DEF handler_sign_msg, DisplayMessage, Respond, Show, MessageReview
  <2>5. ~\E c \in PathChunks, display \in BOOLEAN : handler_get_public_key(c, display)
    BY <1>3 DEF handler_get_public_key, DisplayAddress, Respond, Show, AddressReview
  <2>6. QED
    BY <1>2, <2>1, <2>2, <2>3, <2>4, <2>5, ReceiveCases
<1>5. ~NoInputSlot /\ tx' = WithInput(c) /\ ReviewTransaction(WithInput(c))
  BY <1>3, <1>4 DEF SignTxInput, Refuse, Respond
<1>6. PICK derives \in BOOLEAN, junk \in JunkInputs :
          /\ tx_validate_parsed_transaction(WithInput(c), bip32_path, derives, junk)
          /\ Revoke
          /\ DisplayTransaction(WithInput(c), junk)
  BY <1>3, <1>5 DEF ReviewTransaction, Respond
<1>7. screen'.fees = calc_fees(WithInput(c), junk)
  BY <1>3, <1>6 DEF DisplayTransaction, Show, Respond, TransactionReview
<1>8. WithInput(c) \in Transactions
  BY <1>5, WidthAssumption, WithInputType DEF NoInputSlot, SafetyInv, TypeOK, InputSlots
<1>9. QED
  BY <1>3, <1>5, <1>6, <1>7, <1>8 DEF tx_validate_parsed_transaction

\* A signature is counted, and the index moves on.
Count(s) == signed' = s \cup {signing_input_index} /\ signing_input_index' = NextIndex

\* A step leaves the approval of a transaction alone, ends it, signs one more
\* input under it, or starts it with the first signature (validate.c:41,
\* sign_tx.c:145).
LEMMA ApprovalCases ==
    ASSUME SafetyInv, Next
    PROVE  \/ UNCHANGED <<approval, signing_input_index>> /\ rapdu'.kind # "signature"
           \/ consent'.kind # "transaction" /\ rapdu'.kind # "signature"
           \/ /\ consent.kind = "transaction" /\ consent' = consent /\ Count(signed)
              /\ Idle /\ rapdu'.input_index = signing_input_index
           \/ /\ screen.kind = "transaction" /\ consent' = TransactionConsent /\ Count({})
              /\ rapdu'.input_index = signing_input_index
<1>1. ASSUME NEW c, NEW s, SignInput(c, s)
      PROVE  \/ consent'.kind # "transaction" /\ rapdu'.kind # "signature"
             \/ consent' = c /\ Count(s) /\ rapdu'.input_index = signing_input_index
  BY <1>1 DEF SignInput, Revoke, Grant, NoConsent, SW, Count, SignatureResponse
<1>2. ASSUME Revoke PROVE consent'.kind # "transaction"
  BY <1>2 DEF Revoke, Grant, NoConsent
<1>3. Quiet => rapdu'.kind # "signature"
  BY DEF Quiet
<1>4. CASE Receive
  <2>1. CASE Refused
    BY <2>1 DEF Refused, Respond, SW, context, txInfo
  <2>2. CASE GetInfo
    <3>1. PICK ins \in {"GET_VERSION", "GET_APP_NAME"} : rapdu' = [kind |-> ins]
      BY <2>2 DEF GetInfo, Respond
    <3>2. rapdu'.kind = ins
      BY <3>1
    <3>3. QED
      BY <2>2, <3>1, <3>2 DEF GetInfo, context, txInfo
  <2>3. ASSUME NEW h \in HeaderChunks, SignTxHeader(h)
        PROVE  consent'.kind # "transaction" /\ rapdu'.kind # "signature"
    BY <1>2, <1>3, <2>3, QuietRequests DEF SignTxHeader
  <2>4. ASSUME NEW c \in OutputChunks, SignTxOutput(c)
        PROVE  UNCHANGED <<approval, signing_input_index>> /\ rapdu'.kind # "signature"
    BY <1>3, <2>4, QuietRequests DEF SignTxOutput, Refuse, context, txInfo
  <2>5. ASSUME NEW c \in InputChunks, NEW more \in BOOLEAN, SignTxInput(c, more)
        PROVE  /\ rapdu'.kind # "signature"
               /\ \/ UNCHANGED <<approval, signing_input_index>>
                  \/ consent'.kind # "transaction"
    <3>1. rapdu'.kind # "signature"
      BY <1>3, <2>5, QuietRequests
    <3>2. \/ UNCHANGED <<approval, signing_input_index>> \/ Revoke
      BY <2>5 DEF SignTxInput, ReviewTransaction, Refuse, context, txInfo
    <3>3. QED
      BY <1>2, <3>1, <3>2
  <2>6. CASE NextSignature
    <3>1. CASE Revoke /\ Respond(SW("SW_BAD_STATE"))
      BY <1>2, <3>1 DEF Respond, SW
    <3>2. CASE MaySignNext /\ SignInput(consent, signed)
      <4>1. consent.kind = "transaction"
        BY <3>2 DEF SafetyInv, ConsentInv, MaySignNext, NotASession
      <4>2. QED
        BY <1>1, <1>4, <3>2, <4>1 DEF Receive
    <3>3. QED
      BY <2>6, <3>1, <3>2 DEF NextSignature
  <2>7. ASSUME NEW m \in MessageChunks, handler_sign_msg(m)
        PROVE  consent'.kind # "transaction" /\ rapdu'.kind # "signature"
    BY <1>2, <1>3, <2>7, QuietRequests DEF handler_sign_msg
  <2>8. ASSUME NEW c \in PathChunks, NEW display \in BOOLEAN,
               handler_get_public_key(c, display)
        PROVE  consent'.kind # "transaction" /\ rapdu'.kind # "signature"
    BY <1>2, <2>8 DEF handler_get_public_key, DisplayAddress, Show, NoResponse, Respond, SW,
                      PublicKeyResponse
  <2>9. QED
    BY <1>4, <2>1, <2>2, <2>3, <2>4, <2>5, <2>6, <2>7, <2>8, ReceiveCases
<1>5. CASE ApproveTransaction
  BY <1>1, <1>5 DEF ApproveTransaction
<1>6. CASE ApproveMessage
  BY <1>6 DEF ApproveMessage, Grant, MessageConsent, Answered, SW, txInfo
<1>7. CASE ApproveAddress
  BY <1>7 DEF ApproveAddress, Grant, AddressConsent, Answered, PublicKeyResponse
<1>8. CASE Reject
  BY <1>8 DEF Reject, RejectTransaction, RejectMessage, RejectAddress, Answered, SW, context,
              txInfo
<1>9. CASE Restart
  BY <1>2, <1>9 DEF Restart, NoResponse
<1>10. QED
  BY <1>4, <1>5, <1>6, <1>7, <1>8, <1>9 DEF Next, Answer, Approve

-----------------------------------------------------------------------------
(* The fees *)

\* Every step preserves what is said of the fees: a whole transaction fits into
\* the array of inputs, so that its totals are those of what was received.
LEMMA NextFeesInv == FeesInv /\ SafetyInv /\ SafetyInv' /\ [Next]_vars => FeesInv'
<1> SUFFICES ASSUME FeesInv, SafetyInv, SafetyInv', [Next]_vars PROVE FeesInv'
  OBVIOUS
<1>1. CASE Next
  <2>1. ASSUME screen'.kind = "transaction", AllReceived'
        PROVE  FeesAre(tx', screen'.fees)
    <3>1. PICK junk \in JunkInputs : /\ InputTotal(tx', junk) >= OutputTotal(tx')
                                     /\ screen'.fees = calc_fees(tx', junk)
      BY <1>1, <2>1, TransactionReviewStep
    <3>2. tx' \in Transactions /\ tx'.tx_output_len \in 1 .. 2
      BY <1>1, <2>1, TransactionReviewStep DEF LengthsOK
    <3>3. tx'.tx_input_len <= MaxInputCount
      BY <2>1 DEF AllReceived, SafetyInv, TypeOK
    <3>4. QED
      BY <3>1, <3>2, <3>3, ValidatedFees
  <2>2. ASSUME consent'.kind = "transaction", consent'.complete
        PROVE  FeesAre(consent'.tx, consent'.shown.fees)
    <3>1. CASE consent' = consent
      BY <2>2, <3>1 DEF FeesInv
    <3>2. CASE screen.kind = "transaction" /\ consent' = TransactionConsent
      BY <2>2, <3>2 DEF FeesInv, TransactionConsent
    <3>3. QED
      BY <1>1, <2>2, <3>1, <3>2, ApprovalCases DEF approval
  <2>3. QED
    BY <2>1, <2>2 DEF FeesInv
<1>2. CASE UNCHANGED vars
  BY <1>2 DEF FeesInv, FeesAre, AllReceived, vars, context, txInfo, approval
<1>3. QED
  BY <1>1, <1>2

\* The fees on the screen, and later those that were approved, are what the
\* inputs leave over the outputs (utils.c:98, tx_validate.c:82).
THEOREM FeesInvariant == Spec => []FeesInv
<1>1. Init => FeesInv
  BY DEF Init, FeesInv, Menu, NoConsent
<1>2. QED
  BY <1>1, NextFeesInv, SafetyInvariant, PTL DEF Spec

\* A signature of a whole transaction is given for the fees the user saw, and
\* these are what its inputs leave over its outputs (utils.c:98).
THEOREM FeesAreShown == Spec => []SignedFeesAreShown
<1>1. FeesInv /\ SignatureHasConsent => SignedFeesAreShown
  BY DEF FeesInv, SignatureHasConsent, SignedFeesAreShown, SignedComplete, Signed
<1>2. QED
  BY <1>1, FeesInvariant, SignatureNeedsConsent, PTL
-----------------------------------------------------------------------------
(* Counting the signatures of an approval *)

\* The index of the next input is a byte (sign_tx.c:52).
LEMMA NextIndexCases ==
    ASSUME signing_input_index \in Byte
    PROVE  NextIndex = IF signing_input_index = ByteMod - 1 THEN 0 ELSE signing_input_index + 1
  BY WidthAssumption DEF NextIndex, Byte

\* Signing one more input adds the next index to the ones that were signed,
\* and the last of them completes the byte (sign_tx.c:52, validate.c:53).
LEMMA CountOneMore ==
    ASSUME NEW first \in Byte, signing_input_index \in Byte,
           signed \in {Byte, SignedSoFar(first, signing_input_index)},
           Count(signed)
    PROVE  signed' \in {Byte, SignedSoFar(first, signing_input_index')}
<1> DEFINE i == signing_input_index
<1>1. signed' = signed \cup {i}
  BY DEF Count
<1>2. i' = IF i = ByteMod - 1 THEN 0 ELSE i + 1
  BY NextIndexCases DEF Count
<1>3. CASE signed = Byte
  BY <1>1, <1>3
<1>4. CASE first < i /\ signed = first .. i - 1
  <2>1. signed' = first .. i
    BY <1>1, <1>4 DEF Byte
  <2>2. CASE i = ByteMod - 1
    <3>1. SignedSoFar(first, 0) = first .. ByteMod - 1
      BY WidthAssumption DEF Byte, SignedSoFar
    <3>2. QED
      BY <1>2, <2>1, <2>2, <3>1
  <2>3. CASE i # ByteMod - 1
    <3>1. SignedSoFar(first, i + 1) = first .. i
      BY <1>4 DEF Byte, SignedSoFar
    <3>2. QED
      BY <1>2, <2>1, <2>3, <3>1
  <2>4. QED
    BY <2>2, <2>3
<1>5. CASE ~(first < i) /\ signed = (first .. ByteMod - 1) \cup (0 .. i - 1)
  <2>1. CASE first = i
    BY <1>1, <1>5, <2>1, WidthAssumption DEF Byte
  <2>2. CASE first > i
    <3>1. signed' = (first .. ByteMod - 1) \cup (0 .. i)
      BY <1>1, <1>5, <2>2, WidthAssumption DEF Byte
    <3>2. i' = i + 1
      BY <1>2, <2>2, WidthAssumption DEF Byte
    <3>3. QED
      BY <2>2, <3>1, <3>2, WidthAssumption DEF Byte, SignedSoFar
  <2>3. QED
    BY <1>5, <2>1, <2>2 DEF Byte
<1>6. QED
  BY <1>3, <1>4, <1>5 DEF SignedSoFar

\* The first signature of an approval is of its first index (validate.c:41).
LEMMA CountFirst ==
    ASSUME signing_input_index \in Byte, Count({})
    PROVE  signed' = SignedSoFar(signing_input_index, signing_input_index')
<1> DEFINE i == signing_input_index
<1>1. signed' = {i}
  BY DEF Count
<1>2. i' = IF i = ByteMod - 1 THEN 0 ELSE i + 1
  BY NextIndexCases DEF Count
<1>3. QED
  BY <1>1, <1>2, WidthAssumption DEF Byte, SignedSoFar

\* A review starts with the end of what was approved before it: only a handler
\* that has cleared the approval shows one (sign_tx.c:135, sign_msg.c:95,
\* get_public_key.c:81).
LEMMA ReviewRevokes ==
    ASSUME SafetyInv, Next, screen'.kind # "menu"
    PROVE  Revoke
<1>1. screen' # Menu
  BY DEF Menu
<1>2. Receive
  BY <1>1 DEF Next, Answer, Approve, Reject, ApproveTransaction, ApproveMessage,
     ApproveAddress, RejectTransaction, RejectMessage, RejectAddress, Answered, Restart
<1>3. Idle /\ screen' # screen
  BY <1>1, <1>2 DEF Receive, Idle
<1>4. ~(Refused \/ GetInfo \/ NextSignature)
  BY <1>3 DEF Refused, GetInfo, NextSignature, Respond
<1>5. ~\E c \in OutputChunks : SignTxOutput(c)
  BY <1>3 DEF SignTxOutput, Refuse, Respond
<1>6. ASSUME NEW c \in InputChunks, NEW more \in BOOLEAN, SignTxInput(c, more)
      PROVE  Revoke
  BY <1>3, <1>6 DEF SignTxInput, ReviewTransaction, Refuse, Respond
<1>7. QED
  BY <1>2, <1>4, <1>5, <1>6, ReceiveCases
  DEF SignTxHeader, handler_sign_msg, handler_get_public_key

\* Every step preserves the count.
LEMMA NextCountingInv == CountingInv /\ SafetyInv /\ [Next]_vars => CountingInv'
<1> SUFFICES ASSUME CountingInv, SafetyInv, [Next]_vars PROVE CountingInv'
  OBVIOUS
<1>1. CASE Next
  <2>1. screen'.kind # "menu" => consent'.kind = "none"
    BY <1>1, ReviewRevokes DEF Revoke, Grant, NoConsent
  <2>2. ASSUME consent'.kind = "transaction"
        PROVE  /\ consent'.first \in Byte
               /\ signed' \in {Byte, SignedSoFar(consent'.first, signing_input_index')}
    <3>1. signing_input_index \in Byte
      BY DEF SafetyInv, TypeOK
    <3>2. CASE UNCHANGED <<approval, signing_input_index>>
      BY <2>2, <3>2 DEF CountingInv, approval, SignedSoFar
    <3>3. CASE consent.kind = "transaction" /\ consent' = consent /\ Count(signed)
      BY <3>1, <3>3, CountOneMore DEF CountingInv
    <3>4. CASE consent' = TransactionConsent /\ Count({})
      BY <3>1, <3>4, CountFirst DEF TransactionConsent
    <3>5. QED
      BY <1>1, <2>2, <3>2, <3>3, <3>4, ApprovalCases
  <2>3. QED
    BY <2>1, <2>2 DEF CountingInv
<1>2. CASE UNCHANGED vars
  BY <1>2 DEF CountingInv, SignedSoFar, vars, context, txInfo, approval
<1>3. QED
  BY <1>1, <1>2

\* The inputs signed under an approval are counted through without a gap, and
\* no review is pending while an approval stands (sign_tx.c:52, validate.c:53).
THEOREM CountingInvariant == Spec => []CountingInv
<1>1. Init => CountingInv
  BY DEF Init, CountingInv, Menu, NoConsent
<1>2. QED
  BY <1>1, NextCountingInv, SafetyInvariant, PTL DEF Spec

\* A response that announces no more signatures is the last one: the ones
\* before it covered all the inputs of the approved transaction
\* (send_reponse.c:58).
THEOREM LastSignatureCompletes == Spec => []LastSignatureCompletesTheSet
<1>1. Init => LastSignatureCompletesTheSet
  BY InitResponse DEF LastSignatureCompletesTheSet, SignedComplete, Signed
<1>2. LastSignatureCompletesTheSet /\ CountingInv' /\ CountingInv /\ SafetyInv /\ SafetyInv'
          /\ [Next]_vars => LastSignatureCompletesTheSet'
  <2> SUFFICES ASSUME LastSignatureCompletesTheSet, CountingInv, CountingInv', SafetyInv,
                      SafetyInv', [Next]_vars
               PROVE  LastSignatureCompletesTheSet'
    OBVIOUS
  <2>1. ASSUME Next, SignedComplete', consent'.first = 0, rapdu'.has_more = 0
        PROVE  0 .. consent'.tx.tx_input_len - 1 \subseteq signed'
    <3> DEFINE i == signing_input_index
               len == tx.tx_input_len
    <3>1. consent'.tx = tx /\ len \in 0 .. MaxInputCount
      BY <2>1, CompleteSignatureStep
    <3>2. rapdu'.has_more = HasMore
      BY <2>1, CompleteSignatureStep DEF SignatureResponse
    <3>3. i \in Byte
      BY DEF SafetyInv, TypeOK
    <3>4. i' = NextIndex
      BY <2>1, ApprovalCases DEF Count, SignedComplete, Signed
    <3>5. len = 0 \/ i = len - 1
      <4>1. \A d \in Int : -ByteMod < d /\ d < ByteMod /\ d % ByteMod = 0 => d = 0
        BY WidthAssumption
      <4>2. (len - i - 1) % ByteMod = 0
        BY <2>1, <3>2 DEF HasMore
      <4>3. len - i - 1 \in Int /\ len - i - 1 < ByteMod /\ (len = 0 \/ -ByteMod < len - i - 1)
        BY <3>1, <3>3, WidthAssumption DEF Byte
      <4>4. len = 0 \/ len - i - 1 = 0
        BY <4>1, <4>2, <4>3
      <4>5. QED
        BY <3>1, <3>3, <4>4, WidthAssumption DEF Byte
    <3>6. signed' \in {Byte, SignedSoFar(0, i')}
      BY <2>1, SignatureStep DEF CountingInv, SignedComplete, Signed
    <3>7. CASE len = 0
      BY <3>1, <3>7
    <3>8. CASE i = len - 1 /\ len > 0
      <4>1. i' = IF i = ByteMod - 1 THEN 0 ELSE i + 1
        BY <3>3, <3>4, NextIndexCases
      <4>2. i' = len
        BY <3>1, <3>8, <4>1, WidthAssumption
      <4>3. SignedSoFar(0, i') = 0 .. len - 1
        BY <3>1, <3>8, <4>2 DEF SignedSoFar
      <4>4. 0 .. len - 1 \subseteq Byte
        BY <3>1, WidthAssumption DEF Byte
      <4>5. QED
        BY <3>1, <3>6, <4>3, <4>4
    <3>9. QED
      BY <3>1, <3>5, <3>7, <3>8
  <2>2. CASE UNCHANGED vars
    BY <2>2 DEF LastSignatureCompletesTheSet, SignedComplete, Signed, vars, approval
  <2>3. QED
    BY <2>1, <2>2 DEF LastSignatureCompletesTheSet
<1>3. QED
  BY <1>1, <1>2, CountingInvariant, SafetyInvariant, PTL DEF Spec

\* Under one approval no input is signed a second time before the index has
\* taken all the values of a byte (sign_tx.c:52, validate.c:53).
THEOREM InputsAreSignedOnce == Spec => NoInputSignedTwice
<1>1. CountingInv /\ SafetyInv /\ [Next]_vars =>
          [ rapdu'.kind = "signature" /\ consent.kind = "transaction" =>
                \/ rapdu'.input_index \notin signed
                \/ signed = Byte ]_vars
  <2> SUFFICES ASSUME CountingInv, SafetyInv, Next, rapdu'.kind = "signature",
                      consent.kind = "transaction"
               PROVE  rapdu'.input_index \notin signed \/ signed = Byte
    OBVIOUS
  <2>1. screen.kind # "transaction"
    BY DEF CountingInv
  <2>2. rapdu'.input_index = signing_input_index
    BY <2>1, ApprovalCases
  <2>3. signing_input_index \in Byte /\ consent.first \in Byte
    BY DEF SafetyInv, TypeOK, CountingInv
  <2>4. signed \in {Byte, SignedSoFar(consent.first, signing_input_index)}
    BY DEF CountingInv
  <2>5. \/ SignedSoFar(consent.first, signing_input_index) = Byte
        \/ signing_input_index \notin SignedSoFar(consent.first, signing_input_index)
    <3>1. CASE consent.first < signing_input_index
      BY <2>3, <3>1, WidthAssumption DEF SignedSoFar, Byte
    <3>2. CASE consent.first = signing_input_index
      <4>1. SignedSoFar(consent.first, signing_input_index) =
                (signing_input_index .. ByteMod - 1) \cup (0 .. signing_input_index - 1)
        BY <2>3, <3>2 DEF SignedSoFar, Byte
      <4>2. QED
        BY <2>3, <4>1, WidthAssumption DEF Byte
    <3>3. CASE consent.first > signing_input_index
      BY <2>3, <3>3, WidthAssumption DEF SignedSoFar, Byte
    <3>4. QED
      BY <2>3, <3>1, <3>2, <3>3 DEF Byte
  <2>6. QED
    BY <2>2, <2>4, <2>5
<1>2. QED
  BY <1>1, CountingInvariant, SafetyInvariant, PTL DEF Spec, NoInputSignedTwice

-----------------------------------------------------------------------------
(* The application implements SigningConsent: every step of it is, through *)
(* the refinement mapping, a step of the abstract device or changes        *)
(* nothing it knows of.  A step is told apart by what it does to the       *)
(* screen, to the approval and to the response.                            *)

\* What the mapping makes of the screen, the approval and the response.
LEMMA MappedNow ==
    /\ screen.kind \in {"menu", "address"} => Pending = None
    /\ screen.kind = "transaction" =>
           Pending = [kind |-> "transaction", shown |-> screen, tx |-> tx,
                      complete |-> AllReceived]
    /\ screen.kind = "message" =>
           Pending = [kind |-> "message", shown |-> screen, message |-> message]
    /\ consent.kind # "transaction" => Approved = None
    /\ rapdu.kind \notin {"signature", "message_signature"} => Sent = None
  BY DEF Pending, Approved, Sent

\* The same of the state a step leads to.
LEMMA MappedNext ==
    /\ screen'.kind \in {"menu", "address"} => Pending' = None
    /\ screen'.kind = "transaction" =>
           Pending' = [kind |-> "transaction", shown |-> screen', tx |-> tx',
                       complete |-> AllReceived']
    /\ screen'.kind = "message" =>
           Pending' = [kind |-> "message", shown |-> screen', message |-> message']
    /\ consent'.kind # "transaction" => Approved' = None
    /\ rapdu'.kind \notin {"signature", "message_signature"} => Sent' = None
  BY DEF Pending, Approved, Sent

\* A step that ends with the menu on the screen, no approval of a transaction
\* and no signature: a new request, a failure, an answer to an address, a
\* rejection, a restart.
LEMMA EndStep ==
    ASSUME screen'.kind \in {"menu", "address"}, consent'.kind # "transaction", Quiet
           \/ rapdu'.kind = "public_key"
    PROVE  Consent!End
  BY MappedNext DEF Consent!End, Consent!None, None, Quiet

\* A command that leaves the approval alone and is answered with no signature:
\* a refusal, GET_VERSION and GET_APP_NAME, a chunk that starts no review.
LEMMA AnswerStep ==
    ASSUME Idle, screen' = screen, UNCHANGED <<consent, signing_input_index>>, Quiet
    PROVE  Consent!Answer
<1>1. screen.kind = "menu" /\ screen'.kind = "menu"
  BY IdleMenu
<1>2. Pending = None /\ Pending' = None /\ Sent' = None
  BY <1>1, MappedNow, MappedNext DEF Quiet
<1>3. Approved' = Approved
  BY DEF Approved
<1>4. QED
  BY <1>2, <1>3 DEF Consent!Answer, Consent!None, None

\* A review comes up on the menu and shows its content (ui_display_transaction,
\* ui_display_message).
LEMMA AskStep ==
    ASSUME Idle, SafetyInv', screen'.kind \in {"transaction", "message"}, Revoke, Quiet
    PROVE  Consent!Ask
<1>1. Pending = None
  BY IdleMenu, MappedNow
<1>2. Approved' = None /\ Sent' = None
  BY MappedNext DEF Revoke, Grant, NoConsent, Quiet
<1>3. IsReviewOf(Pending')
  <2>1. CASE screen'.kind = "transaction"
    <3>1. Pending'.kind = "transaction" /\ Pending'.shown = screen' /\ Pending'.tx = tx'
      BY <2>1, MappedNext
    <3>2. ShowsTransaction(screen', tx')
      BY <2>1 DEF SafetyInv, ScreenInv
    <3>3. QED
      BY <3>1, <3>2 DEF IsReviewOf
  <2>2. CASE screen'.kind = "message"
    <3>1. Pending'.kind = "message" /\ Pending'.shown = screen' /\ Pending'.message = message'
      BY <2>2, MappedNext
    <3>2. screen'.text = format_message_to_sign(TextLen, message')
      BY <2>2 DEF SafetyInv, ScreenInv
    <3>3. QED
      BY <3>1, <3>2 DEF IsReviewOf
  <2>3. QED
    BY <2>1, <2>2
<1>4. QED
  BY <1>1, <1>2, <1>3 DEF Consent!Ask, Consent!None, None

\* A signature is of the input the index points at, in the transaction of the
\* context (crypto.c:58, send_reponse.c:49).
LEMMA ResponseSigns ==
    ASSUME NEW junk \in JunkInputs, rapdu' = SignatureResponse(InputToSign(junk), junk)
    PROVE  /\ rapdu'.kind = "signature" /\ rapdu'.input_index = signing_input_index
           /\ IsInputSignature(tx, signing_input_index, rapdu')
  BY DEF SignatureResponse, InputToSign, IsInputSignature, HasMore

\* What signing an input comes to: a failure ends the approval, a success sends
\* the signature and moves the index on (validate.c:41, sign_tx.c:145).
LEMMA SignInputCases ==
    ASSUME NEW c, NEW s, SignInput(c, s)
    PROVE  \/ Revoke /\ Quiet
           \/ /\ consent' = c /\ signing_input_index' = NextIndex
              /\ rapdu'.kind = "signature" /\ rapdu'.input_index = signing_input_index
              /\ IsInputSignature(tx, signing_input_index, rapdu')
<1>1. CASE Revoke /\ rapdu' = SW("CRYPTO_ERROR")
  BY <1>1 DEF Quiet, SW
<1>2. CASE /\ consent' = c /\ signing_input_index' = NextIndex
           /\ \E junk \in JunkInputs : rapdu' = SignatureResponse(InputToSign(junk), junk)
  BY <1>2, ResponseSigns
<1>3. QED
  BY <1>1, <1>2 DEF SignInput
\* validate_transaction: the user's answer to the review of a transaction.
LEMMA ApproveTransactionStep ==
    ASSUME SafetyInv, ApproveTransaction
    PROVE  Consent!Approve \/ Consent!End
<1>1. screen.kind = "transaction" /\ screen'.kind = "menu"
      /\ SignInput(TransactionConsent, {})
  BY DEF ApproveTransaction, Menu
<1>2. CASE Revoke /\ Quiet
  BY <1>1, <1>2, EndStep DEF Revoke, Grant, NoConsent
<1>3. CASE /\ consent' = TransactionConsent /\ signing_input_index' = NextIndex
           /\ rapdu'.kind = "signature" /\ rapdu'.input_index = signing_input_index
           /\ IsInputSignature(tx, signing_input_index, rapdu')
  <2> DEFINE review == [kind |-> "transaction", shown |-> screen, tx |-> tx,
                        complete |-> AllReceived]
  <2>1. Pending = review /\ Pending' = None /\ Sent' = rapdu'
    BY <1>1, <1>3, MappedNow, MappedNext DEF Sent
  <2>2. Approved' = [kind |-> "approved", review |-> review, next |-> NextIndex]
    <3>1. /\ consent'.kind = "transaction" /\ consent'.shown = screen /\ consent'.tx = tx
          /\ consent'.complete = AllReceived
      BY <1>3 DEF TransactionConsent
    <3>2. QED
      BY <1>3, <3>1 DEF Approved
  <2>3. review.kind = "transaction" /\ review.tx = tx /\ review # None
    BY DEF None
  <2> HIDE DEF review
  <2>4. IsSignatureOf(review, signing_input_index, rapdu')
    BY <1>3, <2>3 DEF IsSignatureOf
  <2>5. signing_input_index \in 0 .. ByteMod - 1
    BY DEF SafetyInv, TypeOK, Byte
  <2>6. QED
    BY <2>1, <2>2, <2>3, <2>4, <2>5
    DEF Consent!Approve, Consent!None, Consent!Indexes, None, NextIndex
<1>4. QED
  BY <1>1, <1>2, <1>3, SignInputCases

\* P1_NEXT_SIGNATURE: one more signature of what was approved, or the end of it.
LEMMA NextSignatureStep ==
    ASSUME SafetyInv, Idle, NextSignature
    PROVE  Consent!SignNext \/ Consent!End
<1>1. screen.kind = "menu" /\ screen' = screen
  BY IdleMenu DEF NextSignature, Respond
<1>2. CASE Revoke /\ Quiet
  BY <1>1, <1>2, EndStep DEF Revoke, Grant, NoConsent
<1>3. ASSUME MaySignNext,
             consent' = consent, signing_input_index' = NextIndex,
             rapdu'.kind = "signature", rapdu'.input_index = signing_input_index,
             IsInputSignature(tx, signing_input_index, rapdu')
      PROVE  Consent!SignNext
  <2> DEFINE review == [kind |-> "transaction", shown |-> consent.shown, tx |-> consent.tx,
                        complete |-> consent.complete]
  <2>1. consent.kind = "transaction" /\ (consent.complete => consent.tx = tx)
    BY <1>3 DEF SafetyInv, ConsentInv, MaySignNext, NotASession
  <2>2. Pending = None /\ Pending' = None /\ Sent' = rapdu'
    BY <1>1, <1>3, MappedNow, MappedNext DEF Sent
  <2>3. /\ Approved = [kind |-> "approved", review |-> review, next |-> signing_input_index]
        /\ Approved' = [kind |-> "approved", review |-> review, next |-> NextIndex]
    BY <1>3, <2>1 DEF Approved
  <2>4. /\ review.kind = "transaction" /\ review.tx = consent.tx
        /\ review.complete = consent.complete
    OBVIOUS
  <2> HIDE DEF review
  <2>5. IsSignatureOf(review, signing_input_index, rapdu')
    BY <1>3, <2>1, <2>4 DEF IsSignatureOf
  <2>6. Approved # None /\ Approved.review = review /\ Approved.next = signing_input_index
    BY <2>3 DEF None
  <2>7. Approved' = [Approved EXCEPT !.next = (signing_input_index + 1) % ByteMod]
    BY <2>3 DEF NextIndex
  <2>8. QED
    BY <2>2, <2>5, <2>6, <2>7 DEF Consent!SignNext, Consent!None, None
<1>4. CASE Revoke /\ Respond(SW("SW_BAD_STATE"))
  BY <1>2, <1>4 DEF Respond, SW, Quiet
<1>5. QED
  BY <1>2, <1>3, <1>4, SignInputCases DEF NextSignature

\* validate_message: the only signature of a message leaves with the approval.
LEMMA ApproveMessageStep ==
    ASSUME SafetyInv, CountingInv, ApproveMessage
    PROVE  Consent!Approve \/ Consent!End
<1>1. screen.kind = "message" /\ screen'.kind = "menu"
  BY DEF ApproveMessage, Answered, Menu
<1>2. CASE Answered(SW("CRYPTO_ERROR")) /\ UNCHANGED approval
  BY <1>1, <1>2, EndStep DEF Answered, SW, Quiet, approval, CountingInv
<1>3. CASE /\ Answered([kind |-> "message_signature", path |-> bip32_path,
                        hash |-> MessageHash(message)])
           /\ Grant(MessageConsent)
  <2> DEFINE review == [kind |-> "message", shown |-> screen, message |-> message]
  <2>1. /\ rapdu'.kind = "message_signature" /\ rapdu'.path = bip32_path
        /\ rapdu'.hash = MessageHash(message)
        /\ consent'.kind = "message"
    BY <1>3 DEF Answered, Grant, MessageConsent
  <2>2. Pending = review /\ Pending' = None /\ Sent' = rapdu' /\ Approved' = None
    BY <1>1, <2>1, MappedNow, MappedNext DEF Sent
  <2>3. screen.path = bip32_path
    BY <1>1 DEF SafetyInv, ScreenInv
  <2>4. /\ review.kind = "message" /\ review.shown = screen /\ review.message = message
        /\ review # None
    BY DEF None
  <2> HIDE DEF review
  <2>5. IsSignatureOf(review, 0, rapdu')
    BY <2>1, <2>3, <2>4 DEF IsSignatureOf
  <2>6. 0 \in 0 .. ByteMod - 1
    BY WidthAssumption
  <2>7. QED
    BY <2>2, <2>4, <2>5, <2>6 DEF Consent!Approve, Consent!None, Consent!Indexes, None
<1>4. QED
  BY <1>2, <1>3 DEF ApproveMessage

\* The answers that end without a signature.
LEMMA OtherAnswerStep ==
    ASSUME CountingInv, Reject \/ ApproveAddress
    PROVE  Consent!End
<1>1. screen.kind # "menu" /\ screen'.kind = "menu"
  BY DEF Reject, RejectTransaction, RejectMessage, RejectAddress, ApproveAddress, Answered,
         Menu
<1>2. consent.kind = "none"
  BY <1>1 DEF CountingInv
<1>3. CASE Reject
  BY <1>1, <1>2, <1>3, EndStep
  DEF Reject, RejectTransaction, RejectMessage, RejectAddress, Answered, SW, Quiet, approval
<1>4. CASE ApproveAddress
  BY <1>1, <1>4, EndStep DEF ApproveAddress, Answered, Grant, AddressConsent, PublicKeyResponse
<1>5. QED
  BY <1>3, <1>4

\* A chunk is answered, or puts the transaction up for review (sign_tx.c:55).
LEMMA ChunkStep ==
    ASSUME SafetyInv', Idle,
           \/ \E c \in OutputChunks : SignTxOutput(c)
           \/ \E c \in InputChunks, more \in BOOLEAN : SignTxInput(c, more)
    PROVE  Consent!Ask \/ Consent!Answer \/ Consent!End
<1>1. Quiet
  BY QuietRequests
<1>2. \/ screen' = screen /\ UNCHANGED <<consent, signing_input_index>>
      \/ Revoke /\ screen' = screen
      \/ Revoke /\ screen'.kind = "transaction"
  <2>1. ASSUME NEW c \in OutputChunks, SignTxOutput(c)
        PROVE  screen' = screen /\ UNCHANGED <<consent, signing_input_index>>
    BY <2>1 DEF SignTxOutput, Refuse, Respond, context, txInfo, approval
  <2>2. ASSUME NEW c \in InputChunks, NEW more \in BOOLEAN, SignTxInput(c, more)
        PROVE  \/ screen' = screen /\ UNCHANGED <<consent, signing_input_index>>
               \/ Revoke /\ (screen' = screen \/ screen'.kind = "transaction")
    BY <2>2 DEF SignTxInput, ReviewTransaction, DisplayTransaction, Show, TransactionReview,
                Refuse, Respond, context, txInfo, approval
  <2>3. QED
    BY <2>1, <2>2
<1>3. CASE screen' = screen /\ UNCHANGED <<consent, signing_input_index>>
  BY <1>1, <1>3, AnswerStep
<1>4. CASE Revoke /\ screen' = screen
  BY <1>1, <1>4, IdleMenu, EndStep DEF Revoke, Grant, NoConsent
<1>5. CASE Revoke /\ screen'.kind = "transaction"
  BY <1>1, <1>5, AskStep
<1>6. QED
  BY <1>2, <1>3, <1>4, <1>5

\* A header, a message request and a request for a key end what was approved
\* before; only the message may come up for review (sign_tx.c:60, sign_msg.c:47,
\* get_public_key.c:37).
LEMMA NewRequestStep ==
    ASSUME SafetyInv', Idle,
           \/ \E h \in HeaderChunks : SignTxHeader(h)
           \/ \E m \in MessageChunks : handler_sign_msg(m)
           \/ \E c \in PathChunks, display \in BOOLEAN : handler_get_public_key(c, display)
    PROVE  Consent!Ask \/ Consent!End
<1>1. Revoke
  BY DEF SignTxHeader, handler_sign_msg, handler_get_public_key
<1>2. consent'.kind # "transaction"
  BY <1>1 DEF Revoke, Grant, NoConsent
<1>3. ASSUME NEW h \in HeaderChunks, SignTxHeader(h)
      PROVE  Consent!End
  BY <1>2, <1>3, IdleMenu, QuietRequests, EndStep DEF SignTxHeader, Respond
<1>4. ASSUME NEW m \in MessageChunks, handler_sign_msg(m)
      PROVE  Consent!Ask \/ Consent!End
  <2>1. screen' = screen \/ screen'.kind = "message"
    BY <1>4 DEF handler_sign_msg, DisplayMessage, Show, MessageReview, Respond
  <2>2. QED
    BY <1>1, <1>2, <1>4, <2>1, IdleMenu, QuietRequests, EndStep, AskStep
<1>5. ASSUME NEW c \in PathChunks, NEW display \in BOOLEAN, handler_get_public_key(c, display)
      PROVE  Consent!End
  <2>1. screen' = screen \/ screen'.kind = "address"
    BY <1>5 DEF handler_get_public_key, DisplayAddress, Show, AddressReview, Respond
  <2>2. rapdu'.kind \in {"none", "sw", "public_key"}
    BY <1>5 DEF handler_get_public_key, DisplayAddress, Show, NoResponse, SW, Respond,
                PublicKeyResponse
  <2>3. QED
    BY <1>2, <2>1, <2>2, IdleMenu, EndStep DEF Quiet
<1>6. QED
  BY <1>3, <1>4, <1>5

\* Every step of the application is one of the abstract device.
LEMMA NextIsConsentNext ==
    ASSUME SafetyInv, SafetyInv', CountingInv, Next
    PROVE  Consent!Next
<1>1. CASE Receive
  <2>1. Idle
    BY <1>1 DEF Receive
  <2>2. CASE Refused
    BY <2>1, <2>2, AnswerStep
    DEF Refused, Respond, SW, Quiet, context, txInfo, approval, Consent!Next
  <2>3. CASE GetInfo
    <3>1. PICK ins \in {"GET_VERSION", "GET_APP_NAME"} : rapdu' = [kind |-> ins]
      BY <2>3 DEF GetInfo, Respond
    <3>2. rapdu'.kind = ins
      BY <3>1
    <3>3. Quiet
      BY <3>1, <3>2 DEF Quiet
    <3>4. QED
      BY <2>1, <2>3, <3>3, AnswerStep
      DEF GetInfo, Respond, context, txInfo, approval, Consent!Next
  <2>4. QED
    BY <1>1, <2>1, <2>2, <2>3, ReceiveCases, ChunkStep, NewRequestStep, NextSignatureStep
    DEF Consent!Next
<1>2. CASE Answer
  BY <1>2, ApproveTransactionStep, ApproveMessageStep, OtherAnswerStep
  DEF Answer, Approve, Consent!Next
<1>3. CASE Restart
  <2>1. screen'.kind = "menu" /\ consent'.kind # "transaction" /\ Quiet
    BY <1>3 DEF Restart, Revoke, Grant, NoConsent, Menu, NoResponse, Quiet
  <2>2. QED
    BY <2>1, EndStep DEF Consent!Next
<1>4. QED
  BY <1>1, <1>2, <1>3 DEF Next

\* The device signs what its user approved, in the order of the inputs, and an
\* approval that has ended does not come back: the application implements
\* SigningConsent (sign_tx.c:145, validate.c:41, crypto.c:58).
THEOREM Refinement == Spec => ImplementsConsent
<1>1. Init => Consent!Init
  BY MappedNow DEF Init, Menu, NoConsent, NoResponse, Consent!Init, Consent!None, None
<1>2. SafetyInv /\ SafetyInv' /\ CountingInv /\ [Next]_vars =>
          [Consent!Next]_(Consent!abstractVars)
  <2>1. ASSUME UNCHANGED vars PROVE UNCHANGED Consent!abstractVars
    BY <2>1 DEF vars, context, txInfo, approval, Consent!abstractVars, Pending, Approved,
                Sent, AllReceived
  <2>2. QED
    BY <2>1, NextIsConsentNext
<1>3. QED
  BY <1>1, <1>2, SafetyInvariant, CountingInvariant, PTL
  DEF Spec, ImplementsConsent, Consent!Spec
=============================================================================
