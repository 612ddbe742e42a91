---------------------------- MODULE GetPublicKey ----------------------------
(***************************************************************************)
(* GET_PUBLIC_KEY: handler/get_public_key.c, the review of an address      *)
(* (ui/nbgl_display_address.c, ui/bagl_display.c) and the user's answer    *)
(* (ui/action/validate.c).                                                 *)
(***************************************************************************)
EXTENDS AppState

\* One byte of path length, then the components; a payload may announce more
\* of them than it carries.
PathChunks == [path_len : Byte, components : Seq(Nat)]

(* buffer_read_bip32_path is the SDK's: it refuses 0 and more than          *)
(* MaxReadLen components, and stores them one by one until one is missing. *)
MaxReadLen == 10
StoredLen(c) ==
    IF c.path_len \notin 1 .. MaxReadLen THEN 0
    ELSE IF Len(c.components) < c.path_len THEN Len(c.components)
    ELSE c.path_len
PathRead(c) == c.path_len > 0 /\ StoredLen(c) = c.path_len

\* The path buffer after the components were stored into it.
StoredPath(c) ==
    [i \in 1 .. MaxPathLen |-> IF i <= StoredLen(c) THEN c.components[i] ELSE 0]

\* bip32_path_len once the path is stored: the handler checks the length after
\* the path was read, and a sixth component lands on the length byte.
LengthAfterRead(c) == IF StoredLen(c) <= MaxPathLen THEN {c.path_len} ELSE Byte

PathError_AnyCoin(p, len) ==
    CASE len < 2 \/ len > MaxPathLen -> "SW_WRONG_BIP32_PATH_LEN"
      [] p[1] # Purpose              -> "SW_WRONG_BIP32_PURPOSE"
      [] OTHER                       -> "SW_OK"

PathError(p, len) ==
    CASE len < 2 \/ len > MaxPathLen -> "SW_WRONG_BIP32_PATH_LEN"
      [] p[1] # Purpose              -> "SW_WRONG_BIP32_PURPOSE"
      [] p[2] # CoinType             -> "SW_WRONG_BIP32_COIN_TYPE"
      [] OTHER                       -> "SW_OK"

KeyAt(p, len) == PublicKey(SubSeq(p, 1, len))

PublicKeyResponse(key) == [kind |-> "public_key", key |-> key]

DisplayAddress_BeforeKey(p, len, display) ==
    IF display THEN Show(AddressReview(SubSeq(p, 1, len), raw_public_key))
               ELSE Respond(PublicKeyResponse(raw_public_key))

\* ui_display_address, or the response at once
DisplayAddress(p, len, display) ==
    \/ display /\ Show(AddressReview(SubSeq(p, 1, len), KeyAt(p, len)))
    \/ display /\ Respond(SW("SW_DISPLAY_BIP32_PATH_FAIL"))
    \/ ~display /\ Respond(PublicKeyResponse(KeyAt(p, len)))

handler_get_public_key(c, display) ==
    /\ state' = "STATE_NONE"
    /\ req_type' = "CONFIRM_ADDRESS"
    /\ ClearTxInfo /\ ClearMessage
    /\ Revoke
    /\ \E len \in LengthAfterRead(c) :
        /\ bip32_path' = StoredPath(c)
        /\ bip32_path_len' = len
        /\ \/ /\ ~PathRead(c)
              /\ ClearKey /\ Respond(SW("SW_WRONG_DATA_LENGTH"))
           \/ /\ PathRead(c) /\ PathError(StoredPath(c), len) # "SW_OK"
              /\ ClearKey /\ Respond(SW(PathError(StoredPath(c), len)))
           \/ /\ PathRead(c) /\ PathError(StoredPath(c), len) = "SW_OK"
              /\ \/ ClearKey /\ Respond(SW("CRYPTO_ERROR"))
                 \/ /\ raw_public_key' = KeyAt(StoredPath(c), len)
                    /\ DisplayAddress(StoredPath(c), len, display)

-----------------------------------------------------------------------------
AddressConsent == [kind |-> "address", shown |-> screen]

\* validate_pubkey: the context is left as it is.
ApproveAddress ==
    /\ screen.kind = "address"
    /\ Answered(PublicKeyResponse(raw_public_key))
    /\ Grant(AddressConsent)
    /\ UNCHANGED context

RejectAddress ==
    /\ screen.kind = "address"
    /\ Answered(SW("SW_DENY"))
    /\ UNCHANGED <<context, approval>>
=============================================================================
