--------------------------- MODULE MessageContext ---------------------------
(***************************************************************************)
(* G_context.msg_info of a message as memory.  On most devices a message   *)
(* may have 200 bytes and message[] has 128: what is too much lies in      *)
(* message_hash and signature, the fields that follow, until the answer    *)
(* of the user writes them.  SignMessage keeps the message in one piece;   *)
(* here is why that is right.                                              *)
(***************************************************************************)
EXTENDS Integers, Sequences

CONSTANTS
    Room, HashLen, SigLen,  \* sizes of message[], message_hash[], signature[]: 128, 32, 64
    MaxMessageLen,          \* MAX_MESSAGE_LEN: 120 on Nano S, 200 elsewhere
    MaxDataLen,             \* bound: the longest message a command can carry
    Accounts                \* the accounts that are asked for

Cells == Room + HashLen + SigLen

ASSUME LayoutAssumption ==
    /\ {Room, HashLen, SigLen, MaxMessageLen, MaxDataLen} \subseteq Nat \ {0}
    /\ MaxMessageLen <= Cells /\ Accounts # {}

VARIABLES
    memory,         \* the cells from message[0] on: message, message_hash, signature, account
    message_len,
    bip32_path,     \* the account the signing path is made of
    g_message,      \* the message on display
    request,        \* history: what the command asked for
    status,         \* "idle", "review" or "signed"
    rapdu           \* the response with a signature

msgvars == <<memory, message_len, bip32_path, g_message, request, status, rapdu>>

-----------------------------------------------------------------------------
Message   == 1
Hash      == Message + Room         \* where each field begins
Signature == Hash + HashLen
Account   == Signature + SigLen     \* one cell
LastCell  == Account

Zero == <<"zero">>
Zeroes == [k \in 1 .. LastCell |-> Zero]

\* Stores run on over the fields that follow.
Store(mem, at, bytes) ==
    [k \in DOMAIN mem |-> IF k - at + 1 \in DOMAIN bytes THEN bytes[k - at + 1] ELSE mem[k]]
Load(mem, at, len) == SubSeq(mem, at, at + len - 1)

\* Byte k of a message; message bytes are told apart by their place.
Bytes(len) == [k \in 1 .. len |-> <<"byte", k>>]
Digest(bytes) == [k \in 1 .. HashLen |-> <<"hash", bytes, k>>]
Signed(digest, account) == [k \in 1 .. SigLen |-> <<"sig", digest, account, k>>]

NoRequest  == [len |-> 0, account |-> Zero]
NoResponse == [signature |-> <<>>, message_hash |-> <<>>]

-----------------------------------------------------------------------------
MsgInit ==
    /\ memory = Zeroes /\ message_len = 0 /\ bip32_path = Zero
    /\ g_message = <<>> /\ request = NoRequest /\ status = "idle" /\ rapdu = NoResponse

LengthOK_NoMaximum(len) == len > 0
LengthOK(len) == len > 0 /\ len <= MaxMessageLen

\* The account is stored first, then the message, and the path is made of what
\* is in the account field after that.  The text on display is made last.
handler_sign_msg(len, account) ==
    /\ status # "review"
    /\ LET stored == Store(Store(Zeroes, Account, <<account>>), Message, Bytes(len)) IN
       IF LengthOK(len)
       THEN /\ memory' = stored
            /\ message_len' = len
            /\ bip32_path' = stored[Account]
            /\ g_message' = Load(stored, Message, len)
            /\ status' = "review"
       ELSE /\ memory' = Store(Zeroes, Account, <<account>>)
            /\ message_len' = 0 /\ bip32_path' = Zero
            /\ status' = "idle"
            /\ UNCHANGED g_message
    /\ request' = [len |-> len, account |-> account]
    /\ rapdu' = NoResponse

\* hash_personal_message reads all of the message before it writes the hash.
hash_personal_message_ClearFirst(mem) ==
    LET cleared == Store(mem, Hash, [k \in 1 .. HashLen |-> Zero])
    IN  Store(cleared, Hash, Digest(Load(cleared, Message, message_len)))
hash_personal_message(mem) == Store(mem, Hash, Digest(Load(mem, Message, message_len)))

\* crypto_sign_personal_message: the hash in memory is signed, and the signature
\* goes where the rest of a long message may be.
crypto_sign_personal_message(mem) ==
    LET hashed == hash_personal_message(mem)
    IN  Store(hashed, Signature, Signed(Load(hashed, Hash, HashLen), bip32_path))

Approve ==
    /\ status = "review"
    /\ memory' = crypto_sign_personal_message(memory)
    /\ rapdu' = [signature    |-> Load(memory', Signature, SigLen),
                 message_hash |-> Load(memory', Hash, HashLen)]
    /\ status' = "signed"
    /\ UNCHANGED <<message_len, bip32_path, g_message, request>>

Reject ==
    /\ status = "review"
    /\ status' = "idle"
    /\ UNCHANGED <<memory, message_len, bip32_path, g_message, request, rapdu>>

MsgNext ==
    \/ \E len \in 0 .. MaxDataLen, account \in Accounts : handler_sign_msg(len, account)
    \/ Approve
    \/ Reject

MsgSpec == MsgInit /\ [][MsgNext]_msgvars

-----------------------------------------------------------------------------
\* The signature is over the message that was on display, whole and unchanged,
\* under the account that was asked for, and the hash beside it is the one that
\* was signed - also where the message lies over the hash and the signature
\* (sign_msg.c:93, crypto.c:125-157, send_reponse.c:72-89).
SignatureIsOfTheMessage ==
    status = "signed" =>
        LET digest == Digest(Bytes(request.len)) IN
        /\ g_message = Bytes(request.len)
        /\ rapdu.message_hash = digest
        /\ rapdu.signature = Signed(digest, request.account)

\* What lies over other fields ends before the account: the path is that of the
\* account in the command (sign_msg.c:93-99).
PathIsOfTheRequest ==
    status \in {"review", "signed"} =>
        bip32_path = request.account /\ memory[Account] = request.account
=============================================================================
