------------------------- MODULE TxSerializeProofs --------------------------
(***************************************************************************)
(* What is parsed is written as it came, for keys and bytes of any size    *)
(* and all payloads.                                                       *)
(*                                                                         *)
(* A field that is read and written again is a piece of the payload, and   *)
(* the pieces meet.  The inductive invariant says that what is in the slot *)
(* of an accepted payload is written as that payload.                      *)
(***************************************************************************)
EXTENDS TxSerialize, SequenceTheorems, WellFoundedInduction, TLAPS

Bytes == 0 .. ByteMod - 1

-----------------------------------------------------------------------------
(* Numbers *)

\* Induction over the natural numbers, with a set in place of a predicate.
LEMMA CountUp ==
    ASSUME NEW T, 0 \in T, \A n \in Nat : n \in T => n + 1 \in T
    PROVE  Nat \subseteq T
<1> DEFINE R == OpToRel(<, Nat)
           Missing == Nat \ T
<1> SUFFICES ASSUME Missing # {} PROVE FALSE
  OBVIOUS
<1>1. IsWellFoundedOn(R, Nat) /\ Missing \subseteq Nat
  BY NatLessThanWellFounded, Zenon
<1>2. \A x, y \in Nat : x < y => <<x, y>> \in R
  BY DEF OpToRel
<1> HIDE DEF R
<1>3. PICK x \in Missing : \A y \in Missing : ~(<<y, x>> \in R)
  BY <1>1, WFMin
<1>4. x \in Nat /\ x # 0 /\ x - 1 \in Nat /\ x - 1 < x
  OBVIOUS
<1>5. x - 1 \in T
  BY <1>2, <1>3, <1>4
<1>6. QED
  BY <1>4, <1>5

\* A byte has values, and a number of them (uint8_t).
LEMMA ByteModIs == ByteMod \in Nat /\ ByteMod > 0 /\ KeyLen \in Nat
  BY SerializeAssumption DEF OP_CHECKSIGECDSA

\* f[k] is n without its lowest k bytes.
IsShift(f, n, w) == f = [k \in 0 .. w |-> IF k = 0 THEN n ELSE f[k - 1] \div ByteMod]

\* A number can be shifted any number of times (write_u64_be).
LEMMA ShiftExists ==
    ASSUME NEW n
    PROVE  \A w \in Nat : \E f : IsShift(f, n, w)
<1> DEFINE T == {w \in Nat : \E f : IsShift(f, n, w)}
           next(x) == x \div ByteMod
<1>1. 0 \in T
  <2>1. PICK f : f = [k \in 0 .. 0 |-> n]
    OBVIOUS
  <2>2. IsShift(f, n, 0)
    BY <2>1 DEF IsShift
  <2>3. QED
    BY <2>2
<1>2. ASSUME NEW w \in Nat, w \in T PROVE w + 1 \in T
  <2>1. PICK f : f = [k \in 0 .. w |-> IF k = 0 THEN n ELSE next(f[k - 1])]
    BY <1>2 DEF IsShift
  <2> HIDE DEF next
  <2>2. PICK g : g = [k \in 0 .. w + 1 |-> IF k <= w THEN f[k] ELSE next(f[k - 1])]
    OBVIOUS
  <2>3. \A k \in 0 .. w + 1 : k # 0 => g[k - 1] = f[k - 1]
    BY <2>2
  <2>4. \A k \in 0 .. w + 1 : g[k] = IF k = 0 THEN n ELSE next(f[k - 1])
    BY <2>1, <2>2
  <2>5. g = [k \in 0 .. w + 1 |-> IF k = 0 THEN n ELSE next(g[k - 1])]
    BY <2>2, <2>3, <2>4
  <2>6. QED
    BY <2>5 DEF IsShift, next
<1>3. Nat \subseteq T
  BY <1>1, <1>2, CountUp
<1>4. QED
  BY <1>3

\* f[k] is the number the first k bytes make.
IsRead(f, bytes, n) == f = [k \in 0 .. n |-> IF k = 0 THEN 0 ELSE f[k - 1] * ByteMod + bytes[k]]

\* Bytes can be read however many they are (buffer_read_u64).
LEMMA ReadExists ==
    ASSUME NEW bytes
    PROVE  \A n \in Nat : \E f : IsRead(f, bytes, n)
<1> DEFINE T == {n \in Nat : \E f : IsRead(f, bytes, n)}
           next(k, x) == x * ByteMod + bytes[k]
<1>1. 0 \in T
  <2>1. PICK f : f = [k \in 0 .. 0 |-> 0]
    OBVIOUS
  <2>2. IsRead(f, bytes, 0)
    BY <2>1 DEF IsRead
  <2>3. QED
    BY <2>2
<1>2. ASSUME NEW n \in Nat, n \in T PROVE n + 1 \in T
  <2>1. PICK f : f = [k \in 0 .. n |-> IF k = 0 THEN 0 ELSE next(k, f[k - 1])]
    BY <1>2 DEF IsRead
  <2> HIDE DEF next
  <2>2. PICK g : g = [k \in 0 .. n + 1 |-> IF k <= n THEN f[k] ELSE next(k, f[k - 1])]
    OBVIOUS
  <2>3. \A k \in 0 .. n + 1 : k # 0 => g[k - 1] = f[k - 1]
    BY <2>2
  <2>4. \A k \in 0 .. n + 1 : g[k] = IF k = 0 THEN 0 ELSE next(k, f[k - 1])
    BY <2>1, <2>2
  <2>5. g = [k \in 0 .. n + 1 |-> IF k = 0 THEN 0 ELSE next(k, g[k - 1])]
    BY <2>2, <2>3, <2>4
  <2>6. QED
    BY <2>5 DEF IsRead, next
<1>3. Nat \subseteq T
  BY <1>1, <1>2, CountUp
<1>4. QED
  BY <1>3

\* A number made of bytes and one more, taken apart again.
LEMMA LastByte ==
    ASSUME NEW x \in Nat, NEW b \in Bytes
    PROVE  /\ x * ByteMod + b \in Nat
           /\ (x * ByteMod + b) \div ByteMod = x
           /\ (x * ByteMod + b) % ByteMod = b
<1>1. PICK m \in Nat : m = ByteMod /\ m > 0
  BY ByteModIs
<1>2. b \in Nat /\ b < m
  BY <1>1 DEF Bytes
<1>3. PICK y \in Nat : y = x * m
  BY <1>1
<1>4. PICK q \in Nat : q = (y + b) \div m
  BY ONLY <1>1, <1>2, <1>3, m \in Nat, y \in Nat
<1>5. PICK r \in 0 .. m - 1 : r = (y + b) % m /\ y + b = (m * q) + r
  BY ONLY <1>1, <1>2, <1>3, <1>4, m \in Nat, y \in Nat, q \in Nat
<1>6. ~(q < x)
  <2> SUFFICES ASSUME q < x PROVE FALSE
    OBVIOUS
  <2>1. PICK d \in Nat : x = q + 1 + d
    <3>1. x - q - 1 \in Nat /\ x = q + 1 + (x - q - 1)
      OBVIOUS
    <3>2. QED
      BY <3>1
  <2>2. PICK e \in Nat : e = d * m
    OBVIOUS
  <2>3. x * m = (m * q) + m + e
    BY ONLY <2>1, <2>2, m \in Nat, q \in Nat, d \in Nat
  <2>4. PICK z \in Nat : z = m * q
    OBVIOUS
  <2>5. QED
    BY <1>2, <1>3, <1>5, <2>3, <2>4
<1>7. ~(x < q)
  <2> SUFFICES ASSUME x < q PROVE FALSE
    OBVIOUS
  <2>1. PICK d \in Nat : q = x + 1 + d
    <3>1. q - x - 1 \in Nat /\ q = x + 1 + (q - x - 1)
      OBVIOUS
    <3>2. QED
      BY <3>1
  <2>2. PICK e \in Nat : e = d * m
    OBVIOUS
  <2>3. m * q = y + m + e
    BY ONLY <1>3, <2>1, <2>2, m \in Nat, x \in Nat, d \in Nat
  <2>4. QED
    BY <1>2, <1>3, <1>5, <2>3
<1>8. q = x /\ m * q = y
  BY <1>3, <1>6, <1>7
<1>9. r = b
  <2>1. PICK z \in Nat : z = m * q
    OBVIOUS
  <2>2. QED
    BY <1>2, <1>3, <1>5, <1>8, <2>1
<1>10. QED
  BY <1>1, <1>2, <1>3, <1>4, <1>5, <1>8, <1>9

\* Shifting once more divides once more, and nothing is below zero.
LEMMA ShiftIs ==
    ASSUME NEW n \in Nat
    PROVE  /\ Shifted(n, 0) = n
           /\ \A k \in Nat : Shifted(n, k) \in Nat /\ Shifted(n, k + 1) = Shifted(n, k) \div ByteMod
<1>1. ASSUME NEW w \in Nat PROVE \E f : IsShift(f, n, w) /\ Shifted(n, w) = f[w]
  <2> DEFINE rest == CHOOSE f : IsShift(f, n, w)
  <2>1. IsShift(rest, n, w)
    BY ShiftExists, Zenon
  <2>2. Shifted(n, w) = rest[w]
    BY Zenon DEF Shifted, IsShift
  <2>3. QED
    BY <2>1, <2>2, Zenon
<1>2. Shifted(n, 0) = n
  <2>1. PICK f : IsShift(f, n, 0) /\ Shifted(n, 0) = f[0]
    BY <1>1
  <2>2. QED
    BY <2>1 DEF IsShift
<1>3. ASSUME NEW k \in Nat
      PROVE  Shifted(n, k) \in Nat /\ Shifted(n, k + 1) = Shifted(n, k) \div ByteMod
  <2>1. PICK f : IsShift(f, n, k) /\ Shifted(n, k) = f[k]
    BY <1>1
  <2>2. PICK g : IsShift(g, n, k + 1) /\ Shifted(n, k + 1) = g[k + 1]
    BY <1>1
  <2> DEFINE T == {j \in Nat : j <= k => f[j] = g[j] /\ f[j] \in Nat}
  <2>3. \A j \in 0 .. k : f[j] = IF j = 0 THEN n ELSE f[j - 1] \div ByteMod
    BY <2>1 DEF IsShift
  <2>4. \A j \in 0 .. k + 1 : g[j] = IF j = 0 THEN n ELSE g[j - 1] \div ByteMod
    BY <2>2 DEF IsShift
  <2>5. 0 \in T
    BY <2>3, <2>4
  <2>6. ASSUME NEW j \in Nat, j \in T PROVE j + 1 \in T
    <3> SUFFICES ASSUME j + 1 <= k PROVE f[j + 1] = g[j + 1] /\ f[j + 1] \in Nat
      OBVIOUS
    <3>1. f[j] = g[j] /\ f[j] \in Nat
      BY <2>6
    <3>2. f[j + 1] = f[j] \div ByteMod /\ g[j + 1] = g[j] \div ByteMod
      BY <2>3, <2>4
    <3>3. f[j] \div ByteMod \in Nat
      BY <3>1, ByteModIs
    <3>4. QED
      BY <3>1, <3>2, <3>3
  <2>7. Nat \subseteq T
    BY <2>5, <2>6, CountUp
  <2>8. f[k] = g[k] /\ f[k] \in Nat
    BY <2>7
  <2>9. g[k + 1] = g[k] \div ByteMod
    BY <2>4
  <2>10. QED
    BY <2>1, <2>2, <2>8, <2>9
<1>4. QED
  BY <1>2, <1>3


\* What the bytes read so far make, byte by byte.
LEMMA FromBEIs ==
    ASSUME NEW s \in Seq(Bytes)
    PROVE  \E f : /\ f[0] = 0 /\ f[Len(s)] = FromBE(s)
                  /\ \A k \in 0 .. Len(s) : f[k] \in Nat
                  /\ \A k \in 0 .. Len(s) - 1 : f[k + 1] = f[k] * ByteMod + s[k + 1]
<1>1. PICK w \in Nat : w = Len(s)
  BY LenProperties
<1>2. \A k \in 1 .. w : s[k] \in Bytes
  BY <1>1, ElementOfSeq
<1> DEFINE n == CHOOSE f : IsRead(f, s, Len(s))
<1>3. IsRead(n, s, Len(s))
  BY <1>1, ReadExists, Zenon
<1>4. FromBE(s) = n[Len(s)]
  BY Zenon DEF FromBE, IsRead
<1>5. PICK f : IsRead(f, s, w) /\ f[w] = FromBE(s)
  BY <1>1, <1>3, <1>4, Zenon
<1> HIDE DEF n
<1>6. \A k \in 0 .. w : f[k] = IF k = 0 THEN 0 ELSE f[k - 1] * ByteMod + s[k]
  BY <1>5, Zenon DEF IsRead
<1>7. f[0] = 0
  BY <1>6
<1>8. ASSUME NEW k \in 0 .. w - 1 PROVE f[k + 1] = f[k] * ByteMod + s[k + 1]
  <2>1. k + 1 \in 0 .. w /\ k + 1 # 0 /\ (k + 1) - 1 = k
    OBVIOUS
  <2>2. f[k + 1] = f[(k + 1) - 1] * ByteMod + s[k + 1]
    BY <1>6, <2>1, Zenon
  <2>3. QED
    BY <2>1, <2>2, Zenon
<1> DEFINE T == {k \in Nat : k <= w => f[k] \in Nat}
<1>9. 0 \in T
  BY <1>7
<1>10. ASSUME NEW k \in Nat, k \in T PROVE k + 1 \in T
  <2> SUFFICES ASSUME k + 1 <= w PROVE f[k + 1] \in Nat
    OBVIOUS
  <2>1. PICK x \in Nat : x = f[k]
    BY <1>10
  <2>2. PICK b \in Bytes : b = s[k + 1]
    BY <1>2
  <2>3. x * ByteMod + b \in Nat
    BY LastByte
  <2>4. k \in 0 .. w - 1
    OBVIOUS
  <2>5. QED
    BY <1>8, <2>1, <2>2, <2>3, <2>4, Zenon
<1>11. Nat \subseteq T
  BY <1>9, <1>10, CountUp
<1>12. \A k \in 0 .. w : f[k] \in Nat
  BY <1>11
<1>13. QED
  BY <1>1, <1>5, <1>7, <1>8, <1>12, Zenon

WrittenBack(s, n, w) == BE(n, w) = s

\* A number that is written has the bytes it was read from (buffer_read_u16,
\* buffer_read_u32, buffer_read_u64 and write_u16_be, write_u32_be,
\* write_u64_be).
LEMMA BytesBack ==
    ASSUME NEW s \in Seq(Bytes)
    PROVE  FromBE(s) \in Nat /\ WrittenBack(s, FromBE(s), Len(s))
<1>1. PICK w \in Nat : w = Len(s)
  BY LenProperties
<1>2. PICK f : /\ f[0] = 0 /\ f[w] = FromBE(s)
               /\ \A k \in 0 .. w : f[k] \in Nat
               /\ \A k \in 0 .. w - 1 : f[k + 1] = f[k] * ByteMod + s[k + 1]
  BY <1>1, FromBEIs, Zenon
<1>3. PICK n \in Nat : n = FromBE(s) /\ n = f[w]
  BY <1>2
<1>4. ASSUME NEW k \in 1 .. w
      PROVE  f[k] \div ByteMod = f[k - 1] /\ f[k] % ByteMod = s[k]
  <2>1. k - 1 \in 0 .. w - 1 /\ k - 1 \in 0 .. w /\ (k - 1) + 1 = k
    OBVIOUS
  <2>2. PICK x \in Nat : x = f[k - 1]
    BY <1>2, <2>1
  <2>3. PICK b \in Bytes : b = s[k]
    BY <1>1, ElementOfSeq
  <2>4. f[(k - 1) + 1] = f[k - 1] * ByteMod + s[(k - 1) + 1]
    BY <1>2, <2>1, Zenon
  <2>5. f[k] = x * ByteMod + b
    BY <2>1, <2>2, <2>3, <2>4, Zenon
  <2>6. (x * ByteMod + b) \div ByteMod = x /\ (x * ByteMod + b) % ByteMod = b
    BY LastByte
  <2>7. QED
    BY <2>2, <2>3, <2>5, <2>6, Zenon
<1> DEFINE T == {j \in Nat : j <= w => Shifted(n, j) = f[w - j]}
<1>5. 0 \in T
  <2>1. Shifted(n, 0) = n /\ w - 0 = w
    BY ShiftIs
  <2>2. QED
    BY <1>3, <2>1
<1>6. ASSUME NEW j \in Nat, j \in T PROVE j + 1 \in T
  <2> SUFFICES ASSUME j + 1 <= w PROVE Shifted(n, j + 1) = f[w - (j + 1)]
    OBVIOUS
  <2>1. PICK k \in 1 .. w : k = w - j /\ k - 1 = w - (j + 1)
    OBVIOUS
  <2>2. Shifted(n, j) = f[k]
    BY <1>6, <2>1
  <2>3. Shifted(n, j + 1) = Shifted(n, j) \div ByteMod
    BY ShiftIs
  <2>4. QED
    BY <1>4, <2>1, <2>2, <2>3, Zenon
<1>7. Nat \subseteq T
  BY <1>5, <1>6, CountUp
<1>8. ASSUME NEW k \in 1 .. w PROVE Shifted(n, w - k) % ByteMod = s[k]
  <2>1. w - k \in Nat /\ w - k <= w /\ w - (w - k) = k
    OBVIOUS
  <2>2. Shifted(n, w - k) = f[w - (w - k)]
    BY <1>7, <2>1
  <2>3. QED
    BY <1>4, <2>1, <2>2, Zenon
<1>9. BE(n, w) = [k \in 1 .. w |-> s[k]]
  BY <1>8, Zenon DEF BE
<1>10. s = [k \in 1 .. w |-> s[k]]
  BY <1>1, LenProperties
<1>11. QED
  BY <1>1, <1>3, <1>9, <1>10, Zenon DEF WrittenBack

-----------------------------------------------------------------------------
(* Pieces of a payload *)

Piece(p, a, b) == SubSeq(p, a + 1, b)

IsPiece(s, p, a, b) ==
    /\ s \in Seq(Bytes) /\ Len(s) = b - a
    /\ \A k \in 1 .. b - a : s[k] = p[a + k]

\* The entries of a piece.
LEMMA PieceIs ==
    ASSUME NEW p \in Seq(Bytes), NEW a \in Nat, NEW b \in Nat, a <= b, b <= Len(p)
    PROVE  IsPiece(Piece(p, a, b), p, a, b)
<1>1. \A k \in a + 1 .. b : p[k] \in Bytes
  BY ElementOfSeq, LenProperties
<1>2. PICK s : s = SubSeq(p, a + 1, b)
  OBVIOUS
<1>3. PICK m \in Int : m = a + 1
  OBVIOUS
<1>4. /\ s \in Seq(Bytes) /\ Len(s) = IF m <= b THEN b - m + 1 ELSE 0
      /\ \A i \in 1 .. b - m + 1 : s[i] = p[m + i - 1]
  BY <1>1, <1>2, <1>3, SubSeqProperties
<1>5. Len(s) = b - a /\ \A k \in 1 .. b - a : s[k] = p[a + k]
  BY <1>3, <1>4
<1>6. QED
  BY <1>2, <1>4, <1>5, Zenon DEF Piece, IsPiece

Joined(p, a, b, c) == Piece(p, a, b) \o Piece(p, b, c) = Piece(p, a, c)

\* Two pieces that meet are one.
LEMMA PiecesJoin ==
    ASSUME NEW p \in Seq(Bytes), NEW a \in Nat, NEW b \in Nat, NEW c \in Nat,
           a <= b, b <= c, c <= Len(p)
    PROVE  Joined(p, a, b, c)
<1>1. PICK x : x = Piece(p, a, b) /\ IsPiece(x, p, a, b)
  <2>1. b <= Len(p)
    BY LenProperties
  <2>2. QED
    BY <2>1, PieceIs, Zenon
<1>2. PICK y : y = Piece(p, b, c) /\ IsPiece(y, p, b, c)
  BY PieceIs, Zenon
<1>3. PICK z : z = Piece(p, a, c) /\ IsPiece(z, p, a, c)
  <2>1. a <= c
    OBVIOUS
  <2>2. QED
    BY <2>1, PieceIs, Zenon
<1>4. PICK u : u = x \o y
  OBVIOUS
<1>5. /\ u \in Seq(Bytes) /\ Len(u) = Len(x) + Len(y)
      /\ \A k \in 1 .. Len(x) + Len(y) : u[k] = IF k <= Len(x) THEN x[k] ELSE y[k - Len(x)]
  <2>1. x \in Seq(Bytes) /\ y \in Seq(Bytes)
    BY <1>1, <1>2 DEF IsPiece
  <2>2. QED
    BY <1>4, <2>1, ConcatProperties
<1>6. Len(u) = c - a
  BY <1>1, <1>2, <1>5 DEF IsPiece
<1>7. \A k \in 1 .. c - a : u[k] = z[k]
  BY <1>1, <1>2, <1>3, <1>5 DEF IsPiece
<1>8. u = z
  BY <1>3, <1>5, <1>6, <1>7, SeqEqual DEF IsPiece
<1>9. QED
  BY <1>1, <1>2, <1>3, <1>4, <1>8, Zenon DEF Joined

Alone(p, a, x) == <<x>> = Piece(p, a, a + 1)

\* A piece of one byte.
LEMMA PieceOfOne ==
    ASSUME NEW p \in Seq(Bytes), NEW a \in Nat, a < Len(p)
    PROVE  Alone(p, a, p[a + 1]) /\ p[a + 1] \in Bytes
<1>1. PICK x \in Bytes : x = p[a + 1]
  BY ElementOfSeq, LenProperties
<1>2. PICK n \in Nat : n = a + 1
  OBVIOUS
<1>3. PICK y : y = Piece(p, a, n) /\ y \in Seq(Bytes) /\ Len(y) = 1 /\ y[1] = x
  <2>1. a <= n /\ n <= Len(p)
    BY <1>2, LenProperties
  <2>2. PICK y : y = Piece(p, a, n) /\ IsPiece(y, p, a, n)
    BY <2>1, PieceIs, Zenon
  <2>3. QED
    BY <1>1, <1>2, <2>2 DEF IsPiece
<1>4. PICK z : z = <<x>> /\ z \in Seq(Bytes) /\ Len(z) = 1 /\ z[1] = x
  <2>1. <<x>> \in Seq(Bytes) /\ Len(<<x>>) = 1 /\ <<x>>[1] = x
    OBVIOUS
  <2>2. QED
    BY <2>1, Zenon
<1>5. y = z
  BY <1>3, <1>4, SeqEqual
<1>6. QED
  BY <1>1, <1>2, <1>3, <1>4, <1>5, Zenon DEF Alone

WritesPiece(p, a, w, n) == BE(n, w) = Piece(p, a, a + w)

\* A field that is read is written as it came.
LEMMA FieldBack ==
    ASSUME NEW p \in Seq(Bytes), NEW a \in Nat, NEW w \in Nat, a + w <= Len(p)
    PROVE  WritesPiece(p, a, w, Field(p, a, w))
<1>1. PICK b \in Nat : b = a + w
  OBVIOUS
<1>2. PICK s : s = Piece(p, a, b) /\ s \in Seq(Bytes) /\ Len(s) = w
  <2>1. a <= b /\ b <= Len(p)
    BY <1>1
  <2>2. PICK s : s = Piece(p, a, b) /\ IsPiece(s, p, a, b)
    BY <2>1, PieceIs, Zenon
  <2>3. QED
    BY <1>1, <2>2 DEF IsPiece
<1>3. WrittenBack(s, FromBE(s), w)
  BY <1>2, BytesBack
<1>4. Field(p, a, w) = FromBE(s)
  BY <1>1, <1>2, Zenon DEF Field, Piece
<1>5. QED
  BY <1>1, <1>2, <1>3, <1>4, Zenon DEF WrittenBack, WritesPiece

\* A field of one byte is that byte (buffer_read_u8).
LEMMA FieldOfOne ==
    ASSUME NEW p \in Seq(Bytes), NEW a \in Nat, a < Len(p)
    PROVE  Field(p, a, 1) = p[a + 1]
<1>1. PICK b \in Nat : b = a + 1
  OBVIOUS
<1>2. PICK s : s = Piece(p, a, b) /\ IsPiece(s, p, a, b)
  <2>1. a <= b /\ b <= Len(p)
    BY <1>1, LenProperties
  <2>2. QED
    BY <2>1, PieceIs, Zenon
<1>3. PICK w \in Nat : w = Len(s) /\ w = 1
  BY <1>1, <1>2 DEF IsPiece
<1>4. s \in Seq(Bytes) /\ s[1] = p[a + 1]
  BY <1>1, <1>2 DEF IsPiece
<1>5. PICK x \in Bytes : x = s[1]
  BY <1>3, <1>4, ElementOfSeq
<1>6. PICK f : f[0] = 0 /\ f[w] = FromBE(s) /\ \A k \in 0 .. w - 1 : f[k + 1] = f[k] * ByteMod + s[k + 1]
  BY <1>3, <1>4, FromBEIs, Zenon
<1>7. f[1] = f[0] * ByteMod + s[1]
  <2>1. 0 \in 0 .. w - 1 /\ 0 + 1 = 1
    BY <1>3
  <2>2. f[0 + 1] = f[0] * ByteMod + s[0 + 1]
    BY <1>6, <2>1, Zenon
  <2>3. QED
    BY <2>1, <2>2, Zenon
<1>8. 0 * ByteMod + x = x
  BY ByteModIs DEF Bytes
<1>9. FromBE(s) = s[1]
  BY <1>3, <1>5, <1>6, <1>7, <1>8, Zenon
<1>10. Field(p, a, 1) = FromBE(s)
  BY <1>1, <1>2, Zenon DEF Field, Piece
<1>11. QED
  BY <1>4, <1>9, <1>10, Zenon

Whole(p) == Piece(p, 0, Len(p)) = p

\* A payload is a piece of itself.
LEMMA PieceOfAll ==
    ASSUME NEW p \in Seq(Bytes)
    PROVE  Whole(p)
<1>1. 0 + 1 = 1
  OBVIOUS
<1>2. SubSeq(p, 1, Len(p)) = p
  BY SubSeqFull
<1>3. QED
  BY <1>1, <1>2, Zenon DEF Piece, Whole

IsThree(p, a, x, y, z) == <<x, y, z>> = Piece(p, a, a + 3)

\* A piece of three bytes.
LEMMA PieceOfThree ==
    ASSUME NEW p \in Seq(Bytes), NEW a \in Nat, a + 3 <= Len(p)
    PROVE  IsThree(p, a, p[a + 1], p[a + 2], p[a + 3])
<1>1. PICK n \in Nat : n = a + 3
  OBVIOUS
<1>2. PICK x : x = p[a + 1]
  OBVIOUS
<1>3. PICK y : y = p[a + 2]
  OBVIOUS
<1>4. PICK z : z = p[a + 3]
  OBVIOUS
<1>5. x \in Bytes /\ y \in Bytes /\ z \in Bytes
  BY <1>2, <1>3, <1>4, ElementOfSeq, LenProperties
<1>6. PICK s : s = Piece(p, a, n) /\ IsPiece(s, p, a, n)
  <2>1. a <= n /\ n <= Len(p)
    BY <1>1
  <2>2. QED
    BY <2>1, PieceIs, Zenon
<1>7. s \in Seq(Bytes) /\ Len(s) = 3 /\ s[1] = x /\ s[2] = y /\ s[3] = z
  BY <1>1, <1>2, <1>3, <1>4, <1>6 DEF IsPiece
<1>8. PICK t : t = <<x, y, z>>
  OBVIOUS
<1>9. t \in Seq(Bytes) /\ Len(t) = 3 /\ t[1] = x /\ t[2] = y /\ t[3] = z
  BY <1>5, <1>8
<1>10. s = t
  BY <1>7, <1>9, SeqEqual
<1>11. QED
  BY <1>1, <1>2, <1>3, <1>4, <1>6, <1>8, <1>10, Zenon DEF IsThree

-----------------------------------------------------------------------------
(* Headers, outputs and inputs *)

\* The header (deserialize.c, serialize.c: transaction_serialize).
LEMMA HeaderBack ==
    ASSUME NEW p \in Seq(Bytes), NEW old, transaction_deserialize(p, old).ok
    PROVE  /\ transaction_serialize(transaction_deserialize(p, old).slot) = p
           /\ Len(p) = HeaderLen
<1>1. Len(p) = 13 /\ p[5] \in {0, 1}
  BY DEF transaction_deserialize, HeaderLen
<1>1a. PICK n \in Nat : n >= 13 /\ Len(p) = n
  BY <1>1
<1>2. PICK tx : tx = transaction_deserialize(p, old).slot
  OBVIOUS
<1>3. /\ tx.version = Field(p, 0, 2) /\ tx.tx_output_len = p[3] /\ tx.tx_input_len = p[4]
      /\ tx.path[1] = Field(p, 9, 4) /\ tx.path[2] = p[5] /\ tx.path[3] = Field(p, 5, 4)
  <2>1. tx = [version |-> Field(p, 0, 2), tx_output_len |-> p[3], tx_input_len |-> p[4],
              path |-> <<Field(p, 9, 4), p[5], Field(p, 5, 4)>>]
    BY <1>2 DEF transaction_deserialize
  <2>2. QED
    BY <2>1
<1>4. p[5] % ByteMod = p[5]
  <2>1. p[5] \in Bytes
    BY <1>1a, ElementOfSeq
  <2>2. PICK m \in Nat : m = ByteMod /\ m > 0
    BY ByteModIs
  <2>3. PICK x \in Nat : x = p[5] /\ x < m
    BY <2>1, <2>2 DEF Bytes
  <2>4. x % m = x
    BY ONLY <2>2, <2>3, x \in Nat, m \in Nat
  <2>5. QED
    BY <2>2, <2>3, <2>4, Zenon
<1>5. BE(tx.version, 2) = Piece(p, 0, 2)
  <2>1. WritesPiece(p, 0, 2, Field(p, 0, 2))
    BY <1>1a, FieldBack
  <2>2. 0 + 2 = 2
    OBVIOUS
  <2>3. QED
    BY <1>3, <2>1, <2>2, Zenon DEF WritesPiece
<1>6. <<tx.tx_output_len, tx.tx_input_len, tx.path[2] % ByteMod>> = Piece(p, 2, 5)
  <2>1. IsThree(p, 2, p[2 + 1], p[2 + 2], p[2 + 3])
    BY <1>1a, PieceOfThree
  <2>2. 2 + 1 = 3 /\ 2 + 2 = 4 /\ 2 + 3 = 5
    OBVIOUS
  <2>3. QED
    BY <1>3, <1>4, <2>1, <2>2, Zenon DEF IsThree
<1>7. BE(tx.path[3], 4) = Piece(p, 5, 9)
  <2>1. WritesPiece(p, 5, 4, Field(p, 5, 4))
    BY <1>1a, FieldBack
  <2>2. 5 + 4 = 9
    OBVIOUS
  <2>3. QED
    BY <1>3, <2>1, <2>2, Zenon DEF WritesPiece
<1>8. BE(tx.path[1], 4) = Piece(p, 9, 13)
  <2>1. WritesPiece(p, 9, 4, Field(p, 9, 4))
    BY <1>1a, FieldBack
  <2>2. 9 + 4 = 13
    OBVIOUS
  <2>3. QED
    BY <1>3, <2>1, <2>2, Zenon DEF WritesPiece
<1>9. Joined(p, 0, 2, 5) /\ Joined(p, 0, 5, 9) /\ Joined(p, 0, 9, 13)
  BY <1>1a, PiecesJoin
<1>10. Piece(p, 0, 13) = p
  BY <1>1, PieceOfAll, Zenon DEF Whole
<1>11. transaction_serialize(tx)
         = ((Piece(p, 0, 2) \o Piece(p, 2, 5)) \o Piece(p, 5, 9)) \o Piece(p, 9, 13)
  BY <1>5, <1>6, <1>7, <1>8, Zenon DEF transaction_serialize
<1>12. transaction_serialize(tx) = p
  BY <1>9, <1>10, <1>11, Zenon DEF Joined
<1>13. QED
  BY <1>1, <1>2, <1>12, Zenon DEF HeaderLen

\* An input (serialize.c: transaction_input_serialize).
LEMMA InputBack ==
    ASSUME NEW p \in Seq(Bytes), NEW old, transaction_input_deserialize(p, old).ok
    PROVE  /\ transaction_input_serialize(transaction_input_deserialize(p, old).slot) = p
           /\ Len(p) = InputLen
<1>1. PICK k \in Nat : k = KeyLen
  BY ByteModIs
<1>2. Len(p) = 14 + k
  <2>1. Len(p) = InputLen
    BY DEF transaction_input_deserialize
  <2>2. QED
    BY <1>1, <2>1 DEF InputLen
<1>3. PICK txin : txin = transaction_input_deserialize(p, old).slot
  OBVIOUS
<1>4. /\ txin.value = ReadField(p, 0, 8, old.value)
      /\ txin.tx_id = IF Has(p, 8 + KeyLen) THEN SubSeq(p, 9, 8 + KeyLen) ELSE old.tx_id
      /\ txin.address_type = ReadField(p, 8 + KeyLen, 1, old.address_type)
      /\ txin.address_index = ReadField(p, 9 + KeyLen, 4, old.address_index)
      /\ txin.index = ReadField(p, 13 + KeyLen, 1, old.index)
  BY <1>3 DEF transaction_input_deserialize
<1>5. PICK a \in Nat : a = 8 + k
  OBVIOUS
<1>6. PICK b \in Nat : b = 9 + k
  OBVIOUS
<1>7. PICK c \in Nat : c = 13 + k
  OBVIOUS
<1>8. PICK d \in Nat : d = 14 + k
  OBVIOUS
<1>9. /\ a + 1 = b /\ b + 4 = c /\ c + 1 = d /\ Len(p) = d /\ 8 <= a
      /\ 8 + KeyLen = a /\ 9 + KeyLen = b /\ 13 + KeyLen = c
  BY <1>1, <1>2, <1>5, <1>6, <1>7, <1>8
<1>10. Has(p, 0 + 8) /\ Has(p, 8 + KeyLen) /\ Has(p, a + 1) /\ Has(p, b + 4) /\ Has(p, c + 1)
  BY <1>9 DEF Has
<1>11. /\ txin.value = Field(p, 0, 8) /\ txin.tx_id = SubSeq(p, 9, a)
       /\ txin.address_type = Field(p, a, 1) /\ txin.address_index = Field(p, b, 4)
       /\ txin.index = Field(p, c, 1)
  BY <1>4, <1>9, <1>10, Zenon DEF ReadField
<1>12. BE(txin.value, 8) = Piece(p, 0, 8)
  <2>1. WritesPiece(p, 0, 8, Field(p, 0, 8))
    BY <1>9, FieldBack
  <2>2. 0 + 8 = 8
    OBVIOUS
  <2>3. QED
    BY <1>11, <2>1, <2>2, Zenon DEF WritesPiece
<1>13. txin.tx_id = Piece(p, 8, a)
  <2>1. 8 + 1 = 9
    OBVIOUS
  <2>2. QED
    BY <1>11, <2>1, Zenon DEF Piece
<1>14. <<txin.address_type>> = Piece(p, a, b)
  <2>1. a < Len(p)
    BY <1>9
  <2>2. Alone(p, a, p[a + 1])
    BY <2>1, PieceOfOne
  <2>3. Field(p, a, 1) = p[a + 1]
    BY <2>1, FieldOfOne
  <2>4. QED
    BY <1>9, <1>11, <2>2, <2>3, Zenon DEF Alone
<1>15. BE(txin.address_index, 4) = Piece(p, b, c)
  <2>1. WritesPiece(p, b, 4, Field(p, b, 4))
    BY <1>9, FieldBack
  <2>2. QED
    BY <1>9, <1>11, <2>1, Zenon DEF WritesPiece
<1>16. <<txin.index>> = Piece(p, c, d)
  <2>1. c < Len(p)
    BY <1>9
  <2>2. Alone(p, c, p[c + 1])
    BY <2>1, PieceOfOne
  <2>3. Field(p, c, 1) = p[c + 1]
    BY <2>1, FieldOfOne
  <2>4. QED
    BY <1>9, <1>11, <2>2, <2>3, Zenon DEF Alone
<1>17. Joined(p, 0, 8, a) /\ Joined(p, 0, a, b) /\ Joined(p, 0, b, c) /\ Joined(p, 0, c, d)
  BY <1>9, PiecesJoin
<1>18. Piece(p, 0, d) = p
  BY <1>9, PieceOfAll, Zenon DEF Whole
<1>19. transaction_input_serialize(txin)
         = (((Piece(p, 0, 8) \o Piece(p, 8, a)) \o Piece(p, a, b)) \o Piece(p, b, c)) \o Piece(p, c, d)
  BY <1>12, <1>13, <1>14, <1>15, <1>16, Zenon DEF transaction_input_serialize
<1>20. transaction_input_serialize(txin) = p
  BY <1>17, <1>18, <1>19, Zenon DEF Joined
<1>21. Len(p) = InputLen
  BY DEF transaction_input_deserialize
<1>22. QED
  BY <1>3, <1>20, <1>21, Zenon

Begins(memory, bytes) == SubSeq(memory, 1, Len(bytes)) = bytes

\* The bytes that were stored are found at the front of the memory, whatever
\* was there before (memmove).
LEMMA OverwriteBegins ==
    ASSUME NEW memory, NEW r \in Nat, DOMAIN memory = 1 .. r,
           NEW s \in Seq(Bytes), Len(s) <= r
    PROVE  /\ DOMAIN Overwrite(memory, s) = 1 .. r
           /\ Begins(Overwrite(memory, s), s)
           /\ \A k \in 1 .. Len(s) : Overwrite(memory, s)[k] = s[k]
<1>1. PICK m : m = Overwrite(memory, s)
  OBVIOUS
<1>2. PICK w \in Nat : w = Len(s) /\ DOMAIN s = 1 .. w /\ \A k \in 1 .. w : s[k] \in Bytes
  BY LenProperties, ElementOfSeq
<1>3. DOMAIN m = 1 .. r /\ \A k \in 1 .. w : m[k] = s[k]
  BY <1>1, <1>2 DEF Overwrite
<1>4. PICK t : t = SubSeq(m, 1, w)
  OBVIOUS
<1>5. \A k \in 1 .. w : m[k] \in Bytes
  BY <1>2, <1>3
<1>6. t \in Seq(Bytes) /\ Len(t) = w /\ \A k \in 1 .. w : t[k] = m[k]
  <2>1. /\ t \in Seq(Bytes) /\ Len(t) = IF 1 <= w THEN w - 1 + 1 ELSE 0
        /\ \A i \in 1 .. w - 1 + 1 : t[i] = m[1 + i - 1]
    BY <1>4, <1>5, SubSeqProperties
  <2>2. Len(t) = w
    BY <2>1
  <2>3. ASSUME NEW k \in 1 .. w PROVE t[k] = m[k]
    <3>1. k \in 1 .. w - 1 + 1 /\ 1 + k - 1 = k
      OBVIOUS
    <3>2. t[k] = m[1 + k - 1]
      BY <2>1, <3>1, Zenon
    <3>3. QED
      BY <3>1, <3>2, Zenon
  <2>4. QED
    BY <2>1, <2>2, <2>3, Zenon
<1>7. t = s
  BY <1>2, <1>3, <1>6, SeqEqual
<1>8. QED
  BY <1>1, <1>2, <1>3, <1>4, <1>7, Zenon DEF Begins

\* Where an accepted script ends, and how it begins (deserialize.c:
\* transaction_output_deserialize).
LEMMA ScriptIs ==
    ASSUME NEW p \in Seq(Bytes), ScriptIn(p) # <<>>
    PROVE  \E len \in {KeyLen + 2, KeyLen + 3} :
               /\ 8 + len <= Len(p) /\ ScriptIn(p) = SubSeq(p, 9, 8 + len)
               /\ \/ p[9] = OP_BLAKE2B /\ p[10] = KeyLen /\ len = KeyLen + 3
                  \/ p[9] = KeyLen /\ len = KeyLen + 2
                  \/ p[9] = KeyLen + 1 /\ len = KeyLen + 3
<1> DEFINE whole(len, opcode) ==
               IF Has(p, 8 + len) /\ p[8 + len] = opcode THEN SubSeq(p, 9, 8 + len) ELSE <<>>
           s == ScriptIn(p)
<1>1. ScriptIn(p) =
        CASE ~Has(p, 9) -> <<>>
          [] Has(p, 9) /\ p[9] = OP_BLAKE2B ->
                IF Has(p, 10) /\ p[10] = KeyLen THEN whole(KeyLen + 3, OP_EQUAL) ELSE <<>>
          [] Has(p, 9) /\ p[9] = KeyLen -> whole(KeyLen + 2, OP_CHECKSIG)
          [] Has(p, 9) /\ p[9] = KeyLen + 1 -> whole(KeyLen + 3, OP_CHECKSIGECDSA)
          [] OTHER -> <<>>
  BY Zenon DEF ScriptIn
<1>2. \A len \in Nat : \A opcode : whole(len, opcode) # <<>> =>
          8 + len <= Len(p) /\ whole(len, opcode) = SubSeq(p, 9, 8 + len)
  BY LenProperties DEF Has
<1>3. KeyLen \in Nat /\ KeyLen + 2 \in Nat /\ KeyLen + 3 \in Nat
  BY ByteModIs
<1> HIDE DEF whole
<1>4. /\ OP_BLAKE2B # KeyLen /\ OP_BLAKE2B # KeyLen + 1 /\ KeyLen # KeyLen + 1
  BY <1>3 DEF OP_BLAKE2B
<1>5. CASE Has(p, 9) /\ p[9] = OP_BLAKE2B
  <2>1. p[10] = KeyLen /\ s = whole(KeyLen + 3, OP_EQUAL)
    BY <1>1, <1>4, <1>5
  <2>2. QED
    BY <1>2, <1>3, <1>5, <2>1, Zenon
<1>6. CASE Has(p, 9) /\ p[9] = KeyLen
  <2>1. s = whole(KeyLen + 2, OP_CHECKSIG)
    BY <1>1, <1>4, <1>6
  <2>2. QED
    BY <1>2, <1>3, <1>6, <2>1, Zenon
<1>7. CASE Has(p, 9) /\ p[9] = KeyLen + 1
  <2>1. s = whole(KeyLen + 3, OP_CHECKSIGECDSA)
    BY <1>1, <1>4, <1>7
  <2>2. QED
    BY <1>2, <1>3, <1>7, <2>1, Zenon
<1>8. QED
  BY <1>1, <1>5, <1>6, <1>7

\* An output: the serialiser finds the end of the script that was parsed, in a
\* slot where more bytes may follow it (serialize.c:
\* transaction_output_serialize).
LEMMA OutputBack ==
    ASSUME NEW p \in Seq(Bytes), NEW old, DOMAIN old.script_public_key = 1 .. ScriptRoom,
           transaction_output_deserialize(p, old).ok
    PROVE  /\ transaction_output_serialize(transaction_output_deserialize(p, old).slot) = p
           /\ Len(p) <= KeyLen + 11
<1>1. PICK k \in Nat : k = KeyLen /\ k + 3 <= ScriptRoom /\ ScriptRoom \in Nat
  BY SerializeAssumption
<1>2. PICK s : s = ScriptIn(p)
  OBVIOUS
<1>3. s # <<>> /\ Len(p) = 8 + Len(s)
  BY <1>2 DEF transaction_output_deserialize
<1>4. PICK len \in Nat :
          /\ len \in {k + 2, k + 3} /\ 8 + len <= Len(p) /\ s = SubSeq(p, 9, 8 + len)
          /\ \/ p[9] = k + 2 /\ p[10] = k /\ len = k + 3
             \/ p[9] = k /\ len = k + 2
             \/ p[9] = k + 1 /\ len = k + 3
  <2>1. PICK len \in {KeyLen + 2, KeyLen + 3} :
               /\ 8 + len <= Len(p) /\ ScriptIn(p) = SubSeq(p, 9, 8 + len)
               /\ \/ p[9] = OP_BLAKE2B /\ p[10] = KeyLen /\ len = KeyLen + 3
                  \/ p[9] = KeyLen /\ len = KeyLen + 2
                  \/ p[9] = KeyLen + 1 /\ len = KeyLen + 3
    BY <1>2, <1>3, ScriptIs, Zenon
  <2>2. len \in Nat /\ len \in {k + 2, k + 3}
    BY <1>1, <2>1
  <2>3. OP_BLAKE2B = k + 2
    BY <1>1 DEF OP_BLAKE2B
  <2>4. QED
    BY <1>1, <1>2, <2>1, <2>2, <2>3, Zenon
<1>5. PICK n \in Nat : n = 8 + len
  OBVIOUS
<1>6. s = Piece(p, 8, n) /\ IsPiece(s, p, 8, n)
  <2>1. 8 + 1 = 9 /\ 8 \in Nat /\ 8 <= n /\ n <= Len(p)
    BY <1>4, <1>5
  <2>2. s = Piece(p, 8, n)
    BY <1>4, <1>5, <2>1, Zenon DEF Piece
  <2>3. QED
    BY <2>1, <2>2, PieceIs, Zenon
<1>7. s \in Seq(Bytes) /\ Len(s) = len /\ s[1] = p[9] /\ s[2] = p[10]
  BY <1>4, <1>5, <1>6 DEF IsPiece
<1>8. Len(p) = n
  BY <1>3, <1>5, <1>7
<1>9. PICK txout : txout = transaction_output_deserialize(p, old).slot
  OBVIOUS
<1>10. PICK script : /\ script = txout.script_public_key
                     /\ script = Overwrite(old.script_public_key, s)
  BY <1>2, <1>9 DEF transaction_output_deserialize
<1>11. len <= ScriptRoom
  BY <1>1, <1>4
<1>12. Begins(script, s) /\ \A j \in 1 .. len : script[j] = s[j]
  BY <1>1, <1>7, <1>10, <1>11, OverwriteBegins
<1>13. script[1] = p[9] /\ script[2] = p[10]
  BY <1>4, <1>7, <1>12
<1>14. (IF script[1] = OP_BLAKE2B THEN script[2] + 3 ELSE script[1] + 2) = len
  BY <1>1, <1>4, <1>13 DEF OP_BLAKE2B
<1>15. SubSeq(script, 1, len) = s
  BY <1>7, <1>12, Zenon DEF Begins
<1>16. BE(txout.value, 8) = Piece(p, 0, 8)
  <2>1. Has(p, 0 + 8) /\ 0 + 8 = 8
    BY <1>5, <1>8 DEF Has
  <2>2. txout.value = ReadField(p, 0, 8, old.value)
    BY <1>9 DEF transaction_output_deserialize
  <2>3. txout.value = Field(p, 0, 8)
    BY <2>1, <2>2, Zenon DEF ReadField
  <2>4. WritesPiece(p, 0, 8, Field(p, 0, 8))
    BY <1>5, <1>8, FieldBack
  <2>5. QED
    BY <2>1, <2>3, <2>4, Zenon DEF WritesPiece
<1>17. Joined(p, 0, 8, n)
  BY <1>5, <1>8, PiecesJoin
<1>18. Piece(p, 0, n) = p
  BY <1>8, PieceOfAll, Zenon DEF Whole
<1>19. transaction_output_serialize(txout) = Piece(p, 0, 8) \o Piece(p, 8, n)
  BY <1>6, <1>10, <1>14, <1>15, <1>16, Zenon DEF transaction_output_serialize
<1>20. transaction_output_serialize(txout) = p
  BY <1>17, <1>18, <1>19, Zenon DEF Joined
<1>21. Len(p) <= KeyLen + 11
  BY <1>1, <1>4, <1>5, <1>8
<1>22. QED
  BY <1>9, <1>20, <1>21, Zenon

-----------------------------------------------------------------------------
(* The inductive invariant: what was accepted is what the serialiser of    *)
(* that kind will write, and it has room.                                  *)
SerialInv ==
    /\ payload.kind \in Kinds /\ payload.bytes \in Seq(Bytes)
    /\ payload.kind = "output" => DOMAIN slot.script_public_key = 1 .. ScriptRoom
    /\ DOMAIN out = 1 .. MemoryLen
    /\ ok => Serialized(payload.kind) = payload.bytes /\ Len(payload.bytes) <= MemoryLen
    /\ RoundTrip

\* Nothing was parsed yet.
LEMMA SerialInitInv == SerialInit => SerialInv
<1> SUFFICES ASSUME SerialInit PROVE SerialInv
  OBVIOUS
<1>1. PICK kind \in Kinds : payload = [kind |-> kind, bytes |-> <<>>] /\ slot = ZeroSlot(kind)
  BY DEF SerialInit
<1>2. ok = FALSE /\ out = Clean /\ result = Pending
  BY DEF SerialInit
<1>3. payload.kind \in Kinds /\ payload.bytes \in Seq(Bytes)
  BY <1>1
<1>4. payload.kind = "output" => DOMAIN slot.script_public_key = 1 .. ScriptRoom
  BY <1>1 DEF ZeroSlot
<1>5. DOMAIN out = 1 .. MemoryLen
  BY <1>2 DEF Clean
<1>6. RoundTrip
  BY <1>2 DEF RoundTrip, Succeeded
<1>7. QED
  BY <1>2, <1>3, <1>4, <1>5, <1>6, Zenon DEF SerialInv

\* A payload is parsed into the slot (deserialize.c).
LEMMA ParseInv ==
    ASSUME SerialInv, NEW p \in Payloads, Parse(p)
    PROVE  SerialInv'
<1>1. PICK parsed : parsed = Deserialize(p, slot)
  OBVIOUS
<1>2. /\ p.kind = payload.kind /\ payload' = p /\ ok' = parsed.ok /\ slot' = parsed.slot
      /\ out' = Clean /\ result' = Pending
  BY <1>1, Zenon DEF Parse
<1>3. p.kind \in Kinds /\ p.bytes \in Seq(Bytes)
  BY SerializeAssumption DEF Bytes
<1>4. DOMAIN out' = 1 .. MemoryLen
  BY <1>2 DEF Clean
<1>5. RoundTrip'
  BY <1>2 DEF RoundTrip, Succeeded
<1>6. KeyLen \in Nat
  BY ByteModIs
<1>7. CASE p.kind = "header"
  <2>1. parsed = transaction_deserialize(p.bytes, slot)
    BY <1>1, <1>7 DEF Deserialize
  <2>2. ASSUME parsed.ok PROVE transaction_serialize(parsed.slot) = p.bytes /\ Len(p.bytes) = HeaderLen
    BY <1>3, <2>1, <2>2, HeaderBack
  <2>3. Serialized(p.kind)' = transaction_serialize(slot')
    BY <1>7 DEF Serialized
  <2>4. HeaderLen <= MemoryLen
    BY <1>6 DEF HeaderLen, MemoryLen
  <2>5. QED
    BY <1>2, <1>3, <1>4, <1>5, <1>7, <2>2, <2>3, <2>4 DEF SerialInv
<1>8. CASE p.kind = "output"
  <2>1. parsed = transaction_output_deserialize(p.bytes, slot)
    BY <1>1, <1>8 DEF Deserialize
  <2>2. DOMAIN slot.script_public_key = 1 .. ScriptRoom
    BY <1>2, <1>8 DEF SerialInv
  <2>3. ASSUME parsed.ok
        PROVE  transaction_output_serialize(parsed.slot) = p.bytes /\ Len(p.bytes) <= KeyLen + 11
    BY <1>3, <2>1, <2>2, <2>3, OutputBack
  <2>4. Serialized(p.kind)' = transaction_output_serialize(slot')
    BY <1>8 DEF Serialized
  <2>5. KeyLen + 11 <= MemoryLen
    BY <1>6 DEF MemoryLen
  <2>6. DOMAIN parsed.slot.script_public_key = 1 .. ScriptRoom
    BY <2>1, <2>2 DEF transaction_output_deserialize, Overwrite
  <2>7. ASSUME parsed.ok PROVE Len(p.bytes) <= MemoryLen
    <3>1. PICK l \in Nat : l = Len(p.bytes)
      BY <1>3, LenProperties
    <3>2. l <= KeyLen + 11
      BY <2>3, <2>7, <3>1
    <3>3. MemoryLen \in Nat
      BY <1>6 DEF MemoryLen
    <3>4. QED
      BY <1>6, <2>5, <3>1, <3>2, <3>3
  <2>8. QED
    BY <1>2, <1>3, <1>4, <1>5, <1>8, <2>3, <2>4, <2>6, <2>7, Zenon DEF SerialInv
<1>9. CASE p.kind = "input"
  <2>1. parsed = transaction_input_deserialize(p.bytes, slot)
    BY <1>1, <1>9 DEF Deserialize
  <2>2. ASSUME parsed.ok
        PROVE  transaction_input_serialize(parsed.slot) = p.bytes /\ Len(p.bytes) = InputLen
    BY <1>3, <2>1, <2>2, InputBack
  <2>3. Serialized(p.kind)' = transaction_input_serialize(slot')
    BY <1>9 DEF Serialized
  <2>4. InputLen <= MemoryLen
    BY <1>6 DEF InputLen, MemoryLen
  <2>5. QED
    BY <1>2, <1>3, <1>4, <1>5, <1>9, <2>2, <2>3, <2>4 DEF SerialInv
<1>10. QED
  BY <1>3, <1>7, <1>8, <1>9 DEF Kinds

\* What was parsed is written (serialize.c).
LEMMA SerializeInv ==
    ASSUME SerialInv, NEW n, Serialize(n)
    PROVE  SerialInv'
<1>1. /\ ok /\ payload' = payload /\ ok' = ok /\ slot' = slot
  BY DEF Serialize
<1>2. Serialized(payload.kind) = payload.bytes /\ Len(payload.bytes) <= MemoryLen
  BY <1>1 DEF SerialInv
<1>3. /\ payload.kind \in Kinds /\ payload.bytes \in Seq(Bytes)
      /\ payload.kind = "output" => DOMAIN slot.script_public_key = 1 .. ScriptRoom
      /\ DOMAIN out = 1 .. MemoryLen
  BY DEF SerialInv
<1>4. Serialized(payload.kind)' = Serialized(payload.kind)
  BY <1>1 DEF Serialized
<1>5. MemoryLen \in Nat
  BY ByteModIs DEF MemoryLen
<1>6. CASE n < RoomAskedFor(payload.kind)
  <2>1. result' = Failed /\ out' = out
    BY <1>6 DEF Serialize
  <2>2. RoundTrip'
    BY <2>1 DEF RoundTrip, Succeeded
  <2>3. QED
    BY <1>1, <1>2, <1>3, <1>4, <2>1, <2>2, Zenon DEF SerialInv
<1>7. CASE ~(n < RoomAskedFor(payload.kind))
  <2>1. result' = Len(payload.bytes) /\ out' = Overwrite(out, payload.bytes)
    BY <1>2, <1>7, Zenon DEF Serialize
  <2>2. DOMAIN out' = 1 .. MemoryLen /\ Begins(out', payload.bytes)
    <3>1. PICK s : s = payload.bytes
      OBVIOUS
    <3>2. PICK r \in Nat : r = MemoryLen
      BY <1>5
    <3>3. s \in Seq(Bytes) /\ Len(s) <= r /\ DOMAIN out = 1 .. r
      BY <1>2, <1>3, <3>1, <3>2, Zenon
    <3>4. DOMAIN Overwrite(out, s) = 1 .. r /\ Begins(Overwrite(out, s), s)
      BY <3>3, OverwriteBegins
    <3>5. QED
      BY <2>1, <3>1, <3>2, <3>4, Zenon
  <2>3. RoundTrip'
    BY <1>1, <2>1, <2>2, Zenon DEF RoundTrip, Begins
  <2>4. QED
    BY <1>1, <1>2, <1>3, <1>4, <2>2, <2>3, Zenon DEF SerialInv
<1>8. QED
  BY <1>6, <1>7

\* Serialising what was parsed gives the payload back, for every payload the
\* parsers accept and whatever earlier ones left in the slot (deserialize.c,
\* serialize.c).
THEOREM ParsedIsWrittenBack == SerialSpec => []RoundTrip
<1>1. SerialInv /\ [SerialNext]_serialvars => SerialInv'
  <2> SUFFICES ASSUME SerialInv, [SerialNext]_serialvars PROVE SerialInv'
    OBVIOUS
  <2>1. ASSUME NEW p \in Payloads, Parse(p) PROVE SerialInv'
    BY <2>1, ParseInv
  <2>2. ASSUME NEW n \in BufferLens, Serialize(n) PROVE SerialInv'
    BY <2>2, SerializeInv
  <2>3. CASE UNCHANGED serialvars
    <3>1. payload' = payload /\ ok' = ok /\ slot' = slot /\ out' = out /\ result' = result
      BY <2>3 DEF serialvars
    <3>2. QED
      BY <3>1, Zenon DEF SerialInv, RoundTrip, Succeeded, Serialized
  <2>4. QED
    BY <2>1, <2>2, <2>3, Zenon DEF SerialNext
<1>2. SerialInv => RoundTrip
  BY DEF SerialInv
<1>3. QED
  BY <1>1, <1>2, SerialInitInv, PTL DEF SerialSpec
=============================================================================
