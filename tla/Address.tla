------------------------------- MODULE Address -------------------------------
(***************************************************************************)
(* address.c and transaction/utils.c: the address of a key and of a        *)
(* script, byte by byte, and the text the reviews show.  The two callers   *)
(* are the displays of a public key and of the first output.               *)
(***************************************************************************)
EXTENDS CashAddr

CONSTANTS
    Xs,         \* X coordinates, and script hashes: 32 bytes each
    Ys,         \* last bytes of a Y coordinate
    Parities,   \* second bytes of the ECDSA scripts that get parsed
    Slips       \* the symbols a copied letter may turn into

ASSUME AddressAssumption ==
    /\ \A x \in Xs : x \in [1 .. 32 -> 0 .. 255]
    /\ Ys \subseteq 0 .. 255 /\ Parities \subseteq 0 .. 255 /\ Slips \subseteq Symbols

VARIABLES
    subject,    \* what the address on display was made from
    g_address,  \* the text on display
    copy        \* the text somebody copied from the display

addressvars == <<subject, g_address, copy>>

-----------------------------------------------------------------------------
SCHNORR_ADDRESS_LEN == 67
ECDSA_ADDRESS_LEN   == 69

SCRIPT_PUBLIC_KEY_BUFFER_LEN == 40
OP_BLAKE2B == 170
OP_EQUAL == 135
OP_CHECKSIG == 172
OP_CHECKSIGECDSA == 171

\* A public key is its X coordinate and the last byte of its Y coordinate: of
\* Y no other byte is read.
compress_public_key_Swapped(public_key, type) ==
    IF type = "ECDSA"
    THEN <<IF public_key.y % 2 = 0 THEN 3 ELSE 2>> \o public_key.x
    ELSE public_key.x

compress_public_key(public_key, type) ==
    IF type = "ECDSA"
    THEN <<IF public_key.y % 2 = 0 THEN 2 ELSE 3>> \o public_key.x
    ELSE public_key.x

AddressLen(type) == IF type = "ECDSA" THEN ECDSA_ADDRESS_LEN ELSE SCHNORR_ADDRESS_LEN
Version(type) ==
    CASE type = "SCHNORR" -> 0
      [] type = "ECDSA"   -> 1
      [] type = "P2SH"    -> 8

\* What of a zeroed buffer of n bytes is text, once "text" is written to it.
Fit(text, n) == SubSeq(text, 1, IF Len(text) < n THEN Len(text) ELSE n)

\* The result of cashaddr_encode is not looked at: where it gives up, the
\* address is the bare prefix.
address_from_pubkey(public_key, type, out_len) ==
    IF out_len < AddressLen(type) THEN <<>>
    ELSE Fit(<<"k", "a", "s", "p", "a", ":">> \o cashaddr_encode(compress_public_key(public_key, type),
                                         Version(type), AddressLen(type)),
             AddressLen(type))

ScriptType(script) ==
    CASE script[1] = OP_BLAKE2B -> "P2SH"
      [] script[1] = 33 -> "ECDSA"
      [] OTHER -> "SCHNORR"

\* The first byte of the key in a script.
KeyAt(type) == IF type = "SCHNORR" THEN 2 ELSE 3
MinScriptLen(type) == IF type = "SCHNORR" THEN 34 ELSE 35

\* The Y coordinate is a made up one: all its bytes are the parity byte.
ScriptKey(script) ==
    LET type == ScriptType(script) IN
    [x |-> SubSeq(script, KeyAt(type), KeyAt(type) + 31),
     y |-> IF type = "ECDSA" THEN script[2] ELSE 0]

script_public_key_to_address(script, out_len) ==
    LET type == ScriptType(script) IN
    IF Len(script) < MinScriptLen(type) \/ out_len < AddressLen(type) THEN <<>>
    ELSE address_from_pubkey(ScriptKey(script), type, AddressLen(type))

-----------------------------------------------------------------------------
\* The script of a key, or of a script hash.
ScriptOf(x, y, type) ==
    CASE type = "SCHNORR" -> <<32>> \o x \o <<OP_CHECKSIG>>
      [] type = "ECDSA"   -> <<33, y>> \o x \o <<OP_CHECKSIGECDSA>>
      [] type = "P2SH"    -> <<OP_BLAKE2B, 32>> \o x \o <<OP_EQUAL>>

\* The scripts transaction_output_deserialize lets into an output: it looks
\* at the first byte, at the last opcode, and for P2SH at the second byte.
ParsedScripts ==
    {ScriptOf(x, 0, type) : x \in Xs, type \in {"SCHNORR", "P2SH"}}
    \cup {ScriptOf(x, p, "ECDSA") : x \in Xs, p \in Parities}

\* In the slot of an output, which may still hold the end of a longer script.
Slot(script, stale) ==
    script \o [k \in 1 .. SCRIPT_PUBLIC_KEY_BUFFER_LEN - Len(script) |-> stale]

AddressInit ==
    /\ subject = [kind |-> "nothing"]
    /\ g_address = <<>>
    /\ copy = <<>>

\* One display for each behaviour: the displays clear their buffers first, and
\* nothing else lasts from one to the next.
\* ui_display_address: NBGL hands over SCHNORR_ADDRESS_LEN bytes, BAGL
\* ECDSA_ADDRESS_LEN.
DisplayKey(public_key, out_len) ==
    /\ subject.kind = "nothing"
    /\ subject' = [kind |-> "key", public_key |-> public_key]
    /\ g_address' = address_from_pubkey(public_key, "SCHNORR", out_len)
    /\ UNCHANGED copy

\* ui_display_transaction
DisplayScript(script, stale) ==
    /\ subject.kind = "nothing"
    /\ subject' = [kind |-> "script", script |-> script]
    /\ g_address' = script_public_key_to_address(Slot(script, stale), ECDSA_ADDRESS_LEN)
    /\ UNCHANGED copy

\* A copy with the letter at k replaced, or with the letters at k and k + 1
\* exchanged.
Replaced(text, k, letter) == [text EXCEPT ![k] = letter]
Exchanged(text, k) == [text EXCEPT ![k] = text[k + 1], ![k + 1] = text[k]]

Miscopy ==
    /\ copy = <<>> /\ g_address # <<>>
    /\ \E k \in 7 .. Len(g_address) :
        \/ \E s \in Slips : copy' = Replaced(g_address, k, Letter(s))
        \/ /\ k < Len(g_address)
           /\ copy' = Exchanged(g_address, k)
    /\ UNCHANGED <<subject, g_address>>

AddressNext ==
    \/ \E x \in Xs, y \in Ys, n \in {SCHNORR_ADDRESS_LEN, ECDSA_ADDRESS_LEN} :
            DisplayKey([x |-> x, y |-> y], n)
    \/ \E script \in ParsedScripts, stale \in {0, OP_EQUAL} : DisplayScript(script, stale)
    \/ Miscopy

AddressSpec == AddressInit /\ [][AddressNext]_addressvars

-----------------------------------------------------------------------------
(* How a wallet reads an address. *)

SymbolOf == [letter \in {Letter(k) : k \in Symbols} |-> CHOOSE k \in Symbols : Letter(k) = letter]
Read(text) == [k \in 1 .. Len(text) - 6 |-> SymbolOf[text[k + 6]]]

ChecksumHolds(symbols) == Register(Prefix \o Separator \o symbols) = AddLow(NoTerm, 1)

\* Bit i, from 0, of a row of numbers of "width" bits.
BitOf(numbers, width, i) ==
    (numbers[i \div width + 1] \div 2 ^ (width - 1 - (i % width))) % 2

\* Byte k of a row of symbols.
ByteAt(symbols, k) ==
    LET bit(j) == BitOf(symbols, 5, 8 * (k - 1) + j) IN
    128 * bit(0) + 64 * bit(1) + 32 * bit(2) + 16 * bit(3)
    + 8 * bit(4) + 4 * bit(5) + 2 * bit(6) + bit(7)

Payload(symbols) == SubSeq(symbols, 1, Len(symbols) - 8)
Program(symbols) ==
    LET payload == Payload(symbols) IN
    [k \in 1 .. (5 * Len(payload)) \div 8 |-> ByteAt(payload, k)]

\* The script a wallet pays to for an address with this program.
PaysTo(program) ==
    LET data == Tail(program) IN
    CASE program[1] = 0 -> <<32>> \o data \o <<OP_CHECKSIG>>
      [] program[1] = 1 -> <<33>> \o data \o <<OP_CHECKSIGECDSA>>
      [] program[1] = 8 -> <<OP_BLAKE2B, 32>> \o data \o <<OP_EQUAL>>
      [] OTHER -> <<>>

SubjectScript ==
    IF subject.kind = "key" THEN <<32>> \o subject.public_key.x \o <<OP_CHECKSIG>>
                            ELSE subject.script

\* What the user compares is what is paid: there is an address for every key
\* and every output, and read back by a wallet it has a right checksum and
\* leads to the very script of the output, or of the key (address.c:102 ignores
\* what cashaddr_encode returns, nbgl_display_transaction.c:105 what
\* script_public_key_to_address returns).
AddressLeadsBack ==
    subject.kind # "nothing" =>
        /\ g_address # <<>>
        /\ LET symbols == Read(g_address) IN
           /\ ChecksumHolds(symbols)
           /\ PaysTo(Program(symbols)) = SubjectScript

\* The same of an ECDSA output alone: "This is either one of 0x02 or 0x03"
\* (transaction/utils.c:75), which the display takes to be so.
EcdsaAddressLeadsBack ==
    subject.kind = "script" /\ subject.script[1] = 33 =>
        PaysTo(Program(Read(g_address))) = subject.script

\* An address with one wrong letter, or two neighbours exchanged, is none:
\* the checksum of create_checksum tells (cashaddr.c:41-55, 85-93).
MiscopiedAddressIsRefused ==
    copy \notin {<<>>, g_address} => ~ChecksumHolds(Read(copy))
=============================================================================
