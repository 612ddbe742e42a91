----------------------------- MODULE KaspaTypes -----------------------------
(***************************************************************************)
(* Data types, limits and constants of the Kaspa application: types.h,     *)
(* transaction/types.h, constants.h, apdu/dispatcher.h.                     *)
(*                                                                         *)
(* Machine widths are parameters, so that small widths can be checked and  *)
(* every width is covered by the proofs:                                   *)
(*   ByteMod    2^8   values of a uint8_t, the width of the three indexes  *)
(*   AmountMod  2^64  values of a uint64_t amount in sompi                 *)
(*   Hardened   2^31  0x80000000, the first hardened BIP32 index           *)
(***************************************************************************)
EXTENDS Integers, Sequences

CONSTANTS
    ByteMod,        \* 256
    AmountMod,      \* 2^64
    Hardened,       \* 0x80000000
    MaxInputCount,  \* MAX_INPUT_COUNT: 15 on Nano S, 128 elsewhere (Makefile)
    MaxMessageLen,  \* MAX_MESSAGE_LEN: 120 on Nano S, 200 elsewhere (Makefile)
    TextLen         \* sizeof(g_message): MAX_MESSAGE_LEN, and 6 more with BAGL

ASSUME WidthAssumption ==
    /\ ByteMod \in Nat /\ ByteMod > 5
    /\ AmountMod \in Nat \ {0}
    /\ Hardened \in Nat \ {0}
    /\ MaxInputCount \in Nat /\ 0 < MaxInputCount /\ MaxInputCount < ByteMod
    /\ MaxMessageLen \in Nat /\ 0 < MaxMessageLen /\ MaxMessageLen < ByteMod
    /\ TextLen \in Nat /\ MaxMessageLen <= TextLen

Byte    == 0 .. ByteMod - 1
Amounts == 0 .. AmountMod - 1

MaxOutputCount == 2         \* MAX_OUTPUT_COUNT
MaxPathLen     == 5         \* KASPA_MAX_BIP32_PATH_LEN

-----------------------------------------------------------------------------
(* P1 and P2 of SIGN_TX *)
P1_START          == 0
P1_OUTPUTS        == 1
P1_INPUTS         == 2
P1_NEXT_SIGNATURE == 3
P2_LAST           == 0
P2_MORE           == 128

States       == {"STATE_NONE", "STATE_PARSED", "STATE_APPROVED"}
RequestTypes == {"CONFIRM_ADDRESS", "CONFIRM_TRANSACTION", "CONFIRM_MESSAGE"}

-----------------------------------------------------------------------------
(* BIP32 paths.  path[1..5] here is bip32_path[0..4] in the code. *)
Purpose  == Hardened + 44           \* 0x8000002C
CoinType == Hardened + 111111       \* 0x8001b207
Paths    == [1 .. MaxPathLen -> Nat]
ZeroPath == [i \in 1 .. MaxPathLen |-> 0]

KaspaPath(account, type, index) == <<Purpose, CoinType, account, type, index>>

(* Keys.  BIP32 derivation is injective: the key derived from a path is    *)
(* represented by the path; any other key belongs to someone else.         *)
Keys == [owner : {"device", "other", "zero"}, path : Seq(Nat)]
ZeroKey == [owner |-> "zero", path |-> <<>>]    \* 32 bytes of zero
PublicKey(path) == [owner |-> "device", path |-> path]

-----------------------------------------------------------------------------
(* A script_public_key is known by its first byte and the key or hash it   *)
(* pays to.  "none" is the all-zero buffer of a slot nothing was parsed    *)
(* into.                                                                   *)
ScriptKinds == {"schnorr", "ecdsa", "p2sh"}     \* 0x20, 0x21, 0xaa
Scripts == [kind : ScriptKinds \cup {"none"}, key : Keys]
ZeroScript == [kind |-> "none", key |-> ZeroKey]

Outputs == [value : Amounts, script : Scripts]
ZeroOutput == [value |-> 0, script |-> ZeroScript]

(* transaction_input_t without "sequence", which bzero sets to 0 and no    *)
(* line of the application assigns.                                        *)
Inputs == [value : Amounts, tx_id : Nat, address_type : Nat,
           address_index : Nat, index : Nat]
ZeroInput == [value |-> 0, tx_id |-> 0, address_type |-> 0,
              address_index |-> 0, index |-> 0]

OutputSlots == 0 .. MaxOutputCount - 1
InputSlots  == 0 .. MaxInputCount - 1

Transactions == [version : Nat, account : Nat,
                 tx_input_len : Byte, tx_output_len : Byte,
                 tx_outputs : [OutputSlots -> Outputs],
                 tx_inputs : [InputSlots -> Inputs]]
ZeroTx == [version |-> 0, account |-> 0, tx_input_len |-> 0, tx_output_len |-> 0,
           tx_outputs |-> [o \in OutputSlots |-> ZeroOutput],
           tx_inputs |-> [i \in InputSlots |-> ZeroInput]]
=============================================================================
