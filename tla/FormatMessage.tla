--------------------------- MODULE FormatMessage ----------------------------
(***************************************************************************)
(* common/format_local.c: how the bytes of a message become the text shown *)
(* for review.  A text buffer is a sequence of bytes, dest_idx counts from *)
(* 0 as in the code; a byte of 0 ends the text.                            *)
(***************************************************************************)
EXTENDS Integers, Sequences

IsSpace(b) == b = 32 \/ b \in 9 .. 13
IsPrint(b) == b \in 32 .. 126
Blank == 32
Nul   == 0

HexDigit(d) == IF d < 10 THEN 48 + d ELSE 87 + d

\* "\x%02x"
Escape(b) == <<92, 120, HexDigit(b \div 16), HexDigit(b % 16)>>

\* The part of s that fits into dest from idx on; a store past the end of the
\* buffer (the terminator of the last character) is not part of the text.
Store(dest, idx, s) ==
    [k \in DOMAIN dest |-> IF k - idx \in 1 .. Len(s) THEN s[k - idx] ELSE dest[k]]

\* snprintf with room for n bytes: at most n - 1 characters and a terminator.
Bounded(s, n) == Append(SubSeq(s, 1, IF n - 1 < Len(s) THEN n - 1 ELSE Len(s)), Nul)

\* One turn of the loop, for the byte b.
FormatByte(acc, b) ==
    LET remaining == Len(acc.dest) - acc.idx - 1
        c == IF IsSpace(b) THEN Blank ELSE b
    IN  IF IsPrint(c)
        THEN [dest |-> Store(acc.dest, acc.idx, <<c, Nul>>), idx |-> acc.idx + 1]
        ELSE IF remaining >= 4
        THEN [dest |-> Store(acc.dest, acc.idx, Bounded(Escape(c), remaining)),
              idx  |-> acc.idx + 4]
        ELSE [dest |-> Store(acc.dest, acc.idx, [k \in 1 .. remaining |-> Blank]),
              idx  |-> acc.idx + remaining]

\* The buffer of len bytes after the message src was formatted into it.
format_message_to_sign(len, src) ==
    LET fmt[i \in 0 .. Len(src)] ==
            IF i = 0 THEN [dest |-> [k \in 1 .. len |-> Nul], idx |-> 0]
            ELSE IF fmt[i - 1].idx < len THEN FormatByte(fmt[i - 1], src[i])
            ELSE fmt[i - 1]
    IN  fmt[Len(src)].dest
=============================================================================
