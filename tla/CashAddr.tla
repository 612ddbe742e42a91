------------------------------ MODULE CashAddr ------------------------------
(***************************************************************************)
(* import/cashaddr.c: the text of an address.  The bytes of the payload    *)
(* are regrouped into symbols of five bits, a checksum of eight symbols is *)
(* computed over prefix and payload, and every symbol is a letter.         *)
(*                                                                         *)
(* The 40-bit register of the checksum is a tuple of its eight symbols,    *)
(* the highest first.                                                      *)
(***************************************************************************)
EXTENDS Naturals, Sequences

Symbols == 0 .. 31

\* A text is the sequence of its letters.
charset ==
    <<"q", "p", "z", "r", "y", "9", "x", "8", "g", "f", "2", "t", "v", "d", "w", "0",
      "s", "3", "j", "n", "5", "4", "k", "h", "c", "e", "6", "m", "u", "a", "7", "l">>
Letter(symbol) == charset[symbol + 1]

-----------------------------------------------------------------------------
\* convert_bits from 8 to 5 bits, with padding.  Symbol s is handed out once 5s
\* bits have been read; of val, which takes all the bytes in, the last two reach
\* into a symbol.
convert_bits(in) ==
    LET val(k)  == (IF k = 1 THEN 0 ELSE in[k - 1] * 256) + in[k]
        read(s) == (5 * s + 7) \div 8
        whole   == [s \in 1 .. (8 * Len(in)) \div 5 |->
                       (val(read(s)) \div 2 ^ (8 * read(s) - 5 * s)) % 32]
        bits    == (8 * Len(in)) % 5
    IN  IF bits = 0 THEN whole
        ELSE Append(whole, (val(Len(in)) * 2 ^ (5 - bits)) % 32)

-----------------------------------------------------------------------------
(* The checksum *)

\* The exclusive or of two symbols, bit by bit.
XorTable ==
    [a \in Symbols |-> [b \in Symbols |->
        LET bit(k) == (a \div k + b \div k) % 2
        IN  16 * bit(16) + 8 * bit(8) + 4 * bit(4) + 2 * bit(2) + bit(1)]]
Xor(a, b) == XorTable[a][b]

Registers == [1 .. 8 -> Symbols]
Plus(c, d) == [k \in 1 .. 8 |-> Xor(c[k], d[k])]
AddLow(c, symbol) == [c EXCEPT ![8] = Xor(@, symbol)]

NoTerm == [k \in 1 .. 8 |-> 0]

\* 0x98f2bc8e61, 0x79b76d99e2, 0xf33e5fb3c4, 0xae2eabe2a8, 0x1e4f43e470
Generators ==
    <<<<19, 3, 25, 11, 25, 3, 19, 1>>, <<15, 6, 27, 22, 27, 6, 15, 2>>,
      <<30, 12, 31, 5, 31, 12, 30, 4>>, <<21, 24, 23, 10, 23, 24, 21, 8>>,
      <<3, 25, 7, 20, 7, 25, 3, 16>>>>

Reduction_FirstGenerator == [b \in Symbols |-> IF b % 2 = 1 THEN Generators[1] ELSE NoTerm]

\* The multiple of the generator polynomial the symbol b that is shifted out
\* calls for: one generator for each of its bits.
Reduction ==
    [b \in Symbols |->
        LET term(k, weight) == IF (b \div weight) % 2 = 1 THEN Generators[k] ELSE NoTerm
        IN  Plus(Plus(Plus(Plus(term(1, 1), term(2, 2)), term(3, 4)), term(4, 8)), term(5, 16))]

Shifted(c) == [k \in 1 .. 8 |-> IF k = 8 THEN 0 ELSE c[k + 1]]

cashaddr_polymod_step == [c \in Registers |-> Plus(Shifted(c), Reduction[c[1]])]

\* "kaspa", each letter & 0x1f
Prefix == <<11, 1, 19, 16, 1>>

\* The register after each of the symbols; it starts at 1.
After(symbols) ==
    LET after[k \in 0 .. Len(symbols)] ==
            IF k = 0 THEN AddLow(NoTerm, 1)
            ELSE AddLow(cashaddr_polymod_step[after[k - 1]], symbols[k])
    IN  after

Register(symbols) == After(symbols)[Len(symbols)]

Separator == <<0>>
NoChecksum == NoTerm

PolyMod_NoSeparator(payload) == AddLow(Register(Prefix \o payload \o NoChecksum), 1)
PolyMod(payload) == AddLow(Register(Prefix \o Separator \o payload \o NoChecksum), 1)

create_checksum(payload) == PolyMod(payload)

\* cashaddr_encode; the empty text where it returns 0.
Versions == {0, 1, 8}

cashaddr_encode(hash, version, max_addr_len) ==
    LET payload == convert_bits(<<version>> \o hash)
        symbols == payload \o create_checksum(payload)
    IN  IF version \in Versions /\ Len(symbols) <= max_addr_len
        THEN [k \in DOMAIN symbols |-> Letter(symbols[k])]
        ELSE <<>>
=============================================================================
