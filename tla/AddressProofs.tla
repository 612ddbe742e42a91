---------------------------- MODULE AddressProofs ----------------------------
(***************************************************************************)
(* The addresses, for all keys, scripts and slips.  Three arguments meet:  *)
(*                                                                         *)
(* The checksum is linear: eight symbols more, computed over eight zeros   *)
(* in their place, bring the register back to where it starts.  A turn of  *)
(* the register loses nothing, so two rows that once differ stay           *)
(* different to the end.                                                   *)
(*                                                                         *)
(* convert_bits can be undone: five cases, for the five places a byte can  *)
(* begin in, each a sum of bits.                                           *)
(*                                                                         *)
(* The text holds both letter for letter, and a script or a key holds what *)
(* goes into the text.                                                     *)
(***************************************************************************)
EXTENDS Address, SequenceTheorems, WellFoundedInduction, TLAPS

-----------------------------------------------------------------------------
(* The exclusive or *)

Bit(a, k) == (a \div k) % 2

\* A symbol is its five bits.
LEMMA BitsOfSymbol ==
    ASSUME NEW a \in Symbols
    PROVE  /\ a = 16 * Bit(a, 16) + 8 * Bit(a, 8) + 4 * Bit(a, 4) + 2 * Bit(a, 2) + Bit(a, 1)
           /\ Bit(a, 16) \in 0 .. 1 /\ Bit(a, 8) \in 0 .. 1 /\ Bit(a, 4) \in 0 .. 1
           /\ Bit(a, 2) \in 0 .. 1 /\ Bit(a, 1) \in 0 .. 1
  BY DEF Symbols, Bit

\* Five bits make a symbol, and are its bits.
LEMMA SymbolOfBits ==
    ASSUME NEW e \in 0 .. 1, NEW d \in 0 .. 1, NEW c \in 0 .. 1, NEW b \in 0 .. 1, NEW a \in 0 .. 1
    PROVE  LET s == 16 * e + 8 * d + 4 * c + 2 * b + a IN
           /\ s \in Symbols
           /\ Bit(s, 16) = e /\ Bit(s, 8) = d /\ Bit(s, 4) = c /\ Bit(s, 2) = b /\ Bit(s, 1) = a
  BY DEF Symbols, Bit

\* The exclusive or is a symbol, and works on each bit by itself.
LEMMA XorBits ==
    ASSUME NEW a \in Symbols, NEW b \in Symbols
    PROVE  /\ Xor(a, b) \in Symbols
           /\ Bit(Xor(a, b), 16) = (Bit(a, 16) + Bit(b, 16)) % 2
           /\ Bit(Xor(a, b), 8) = (Bit(a, 8) + Bit(b, 8)) % 2
           /\ Bit(Xor(a, b), 4) = (Bit(a, 4) + Bit(b, 4)) % 2
           /\ Bit(Xor(a, b), 2) = (Bit(a, 2) + Bit(b, 2)) % 2
           /\ Bit(Xor(a, b), 1) = (Bit(a, 1) + Bit(b, 1)) % 2
<1> DEFINE bit(k) == (a \div k + b \div k) % 2
<1>1. Xor(a, b) = 16 * bit(16) + 8 * bit(8) + 4 * bit(4) + 2 * bit(2) + bit(1)
  BY DEF Xor, XorTable
<1>2. /\ bit(16) = (Bit(a, 16) + Bit(b, 16)) % 2 /\ bit(8) = (Bit(a, 8) + Bit(b, 8)) % 2
      /\ bit(4) = (Bit(a, 4) + Bit(b, 4)) % 2 /\ bit(2) = (Bit(a, 2) + Bit(b, 2)) % 2
      /\ bit(1) = (Bit(a, 1) + Bit(b, 1)) % 2
  BY DEF Symbols, Bit
<1>3. /\ bit(16) \in 0 .. 1 /\ bit(8) \in 0 .. 1 /\ bit(4) \in 0 .. 1
      /\ bit(2) \in 0 .. 1 /\ bit(1) \in 0 .. 1
  BY DEF Symbols
<1> HIDE DEF bit
<1>4. QED
  BY <1>1, <1>2, <1>3, SymbolOfBits

\* Symbols with the same bits are the same.
LEMMA SameBits ==
    ASSUME NEW a \in Symbols, NEW b \in Symbols,
           Bit(a, 16) = Bit(b, 16), Bit(a, 8) = Bit(b, 8), Bit(a, 4) = Bit(b, 4),
           Bit(a, 2) = Bit(b, 2), Bit(a, 1) = Bit(b, 1)
    PROVE  a = b
  BY BitsOfSymbol

\* Zero changes nothing, and a symbol cancels itself.
LEMMA XorZero ==
    ASSUME NEW a \in Symbols
    PROVE  Xor(a, 0) = a /\ Xor(0, a) = a /\ Xor(a, a) = 0
<1>1. 0 \in Symbols /\ Bit(0, 16) = 0 /\ Bit(0, 8) = 0 /\ Bit(0, 4) = 0 /\ Bit(0, 2) = 0 /\ Bit(0, 1) = 0
  BY DEF Symbols, Bit
<1>2. Xor(a, 0) = a
  BY <1>1, XorBits, BitsOfSymbol, SameBits
<1>3. Xor(0, a) = a
  BY <1>1, XorBits, BitsOfSymbol, SameBits
<1>4. Xor(a, a) = 0
  BY <1>1, XorBits, BitsOfSymbol, SameBits
<1>5. QED
  BY <1>2, <1>3, <1>4

\* The exclusive or of three symbols is one.
LEMMA XorAssociates ==
    ASSUME NEW a \in Symbols, NEW b \in Symbols, NEW c \in Symbols
    PROVE  Xor(Xor(a, b), c) = Xor(a, Xor(b, c))
<1>1. PICK ab \in Symbols, bc \in Symbols : ab = Xor(a, b) /\ bc = Xor(b, c)
  BY XorBits
<1>2. \A x, y, z \in 0 .. 1 : (((x + y) % 2) + z) % 2 = (x + ((y + z) % 2)) % 2
  OBVIOUS
<1>3. Xor(ab, c) \in Symbols /\ Xor(a, bc) \in Symbols
  BY XorBits
<1>4. /\ Bit(Xor(ab, c), 16) = Bit(Xor(a, bc), 16)
      /\ Bit(Xor(ab, c), 8) = Bit(Xor(a, bc), 8)
      /\ Bit(Xor(ab, c), 4) = Bit(Xor(a, bc), 4)
      /\ Bit(Xor(ab, c), 2) = Bit(Xor(a, bc), 2)
      /\ Bit(Xor(ab, c), 1) = Bit(Xor(a, bc), 1)
  BY <1>1, <1>2, XorBits, BitsOfSymbol
<1>5. QED
  BY <1>1, <1>3, <1>4, SameBits

\* Nor does the order matter.
LEMMA XorCommutes ==
    ASSUME NEW a \in Symbols, NEW b \in Symbols
    PROVE  Xor(a, b) = Xor(b, a)
  BY XorBits, BitsOfSymbol, SameBits

\* What is added to both can be taken away.
LEMMA XorCancels ==
    ASSUME NEW a \in Symbols, NEW b \in Symbols, NEW c \in Symbols,
           Xor(a, b) = Xor(a, c) \/ Xor(b, a) = Xor(c, a)
    PROVE  b = c
<1>1. Xor(a, b) = Xor(a, c)
  BY XorCommutes
<1>2. Xor(Xor(a, a), b) = Xor(Xor(a, a), c)
  BY <1>1, XorAssociates
<1>3. QED
  BY <1>2, XorZero

-----------------------------------------------------------------------------
(* One turn of the checksum *)

\* A bit above those of a symbol is just added.
LEMMA OneMoreBit ==
    ASSUME NEW w \in {2, 4, 8, 16}, NEW x \in 0 .. w - 1, NEW y \in 0 .. 1
    PROVE  Xor(x, w * y) = x + w * y
<1>1. x \in Symbols /\ w \in Symbols /\ w * y \in {0, w} /\ x + w \in Symbols
  BY DEF Symbols
<1>2. Bit(x + w, 16) = (Bit(x, 16) + Bit(w, 16)) % 2
  BY DEF Bit
<1>3. Bit(x + w, 8) = (Bit(x, 8) + Bit(w, 8)) % 2
  BY DEF Bit
<1>4. Bit(x + w, 4) = (Bit(x, 4) + Bit(w, 4)) % 2
  BY DEF Bit
<1>5. Bit(x + w, 2) = (Bit(x, 2) + Bit(w, 2)) % 2
  BY DEF Bit
<1>6. Bit(x + w, 1) = (Bit(x, 1) + Bit(w, 1)) % 2
  BY DEF Bit
<1>7. Xor(x, w) = x + w
  <2>1. PICK z \in Symbols : z = x + w
    BY <1>1
  <2>2. PICK y1 \in Symbols : y1 = Xor(x, w)
    BY <1>1, XorBits
  <2>3. /\ Bit(z, 16) = Bit(y1, 16) /\ Bit(z, 8) = Bit(y1, 8) /\ Bit(z, 4) = Bit(y1, 4)
        /\ Bit(z, 2) = Bit(y1, 2) /\ Bit(z, 1) = Bit(y1, 1)
    BY <1>1, <1>2, <1>3, <1>4, <1>5, <1>6, <2>1, <2>2, XorBits
  <2>4. z = y1
    BY <2>3, SameBits
  <2>5. QED
    BY <2>1, <2>2, <2>4
<1>8. QED
  BY <1>1, <1>7, XorZero

\* The operations on registers give registers.
LEMMA RegisterFacts ==
    /\ NoTerm \in Registers
    /\ \A c, d \in Registers : Plus(c, d) \in Registers
    /\ \A c \in Registers, s \in Symbols : AddLow(c, s) \in Registers
    /\ \A c \in Registers : Shifted(c) \in Registers
<1>1. NoTerm \in Registers
  BY DEF Registers, NoTerm, Symbols
<1>2. ASSUME NEW c \in Registers, NEW d \in Registers PROVE Plus(c, d) \in Registers
  BY XorBits DEF Registers, Plus
<1>3. ASSUME NEW c \in Registers, NEW s \in Symbols PROVE AddLow(c, s) \in Registers
  BY XorBits DEF Registers, AddLow
<1>4. ASSUME NEW c \in Registers PROVE Shifted(c) \in Registers
  BY DEF Registers, Shifted, Symbols
<1>5. QED
  BY <1>1, <1>2, <1>3, <1>4

\* The five generators are registers that end in the five bits.
LEMMA GeneratorFacts ==
    ASSUME NEW k \in 1 .. 5
    PROVE  /\ Generators[k] \in Registers
           /\ Generators[k][8] = IF k = 1 THEN 1 ELSE IF k = 2 THEN 2 ELSE IF k = 3 THEN 4
                                                                    ELSE IF k = 4 THEN 8 ELSE 16
  BY DEF Generators, Registers, Symbols

\* The lowest symbol of the reduction is the symbol that was shifted out.
LEMMA ReductionFacts ==
    ASSUME NEW b \in Symbols
    PROVE  Reduction[b] \in Registers /\ Reduction[b][8] = b
<1> DEFINE term(k, weight) == IF (b \div weight) % 2 = 1 THEN Generators[k] ELSE NoTerm
           low(weight) == IF (b \div weight) % 2 = 1 THEN weight ELSE 0
<1>1. Reduction[b] = Plus(Plus(Plus(Plus(term(1, 1), term(2, 2)), term(3, 4)), term(4, 8)), term(5, 16))
  BY DEF Reduction
<1>2. /\ term(1, 1) \in Registers /\ term(1, 1)[8] = low(1)
      /\ term(2, 2) \in Registers /\ term(2, 2)[8] = low(2)
      /\ term(3, 4) \in Registers /\ term(3, 4)[8] = low(4)
      /\ term(4, 8) \in Registers /\ term(4, 8)[8] = low(8)
      /\ term(5, 16) \in Registers /\ term(5, 16)[8] = low(16)
  BY GeneratorFacts, RegisterFacts DEF NoTerm
<1>3. /\ low(1) = Bit(b, 1) /\ low(2) = 2 * Bit(b, 2) /\ low(4) = 4 * Bit(b, 4)
      /\ low(8) = 8 * Bit(b, 8) /\ low(16) = 16 * Bit(b, 16)
  BY BitsOfSymbol DEF Bit, Symbols
<1> HIDE DEF term, low
<1>4. \A c, d \in Registers : Plus(c, d) \in Registers /\ Plus(c, d)[8] = Xor(c[8], d[8])
  BY RegisterFacts DEF Plus
<1>5. /\ Reduction[b] \in Registers
      /\ Reduction[b][8] = Xor(Xor(Xor(Xor(low(1), low(2)), low(4)), low(8)), low(16))
  BY <1>1, <1>2, <1>4
<1>6. Xor(Xor(Xor(Xor(low(1), low(2)), low(4)), low(8)), low(16)) = b
  <2>1. \A x, y, z, u, v \in 0 .. 1 : x \in Symbols /\ 2 * x \in Symbols
           /\ 4 * x \in Symbols /\ 8 * x \in Symbols /\ 16 * x \in Symbols
    BY DEF Symbols
  <2>2. ASSUME NEW x \in 0 .. 1, NEW y \in 0 .. 1 PROVE Xor(x, 2 * y) = x + 2 * y
    BY OneMoreBit DEF Symbols
  <2>3. ASSUME NEW x \in 0 .. 3, NEW y \in 0 .. 1 PROVE Xor(x, 4 * y) = x + 4 * y
    BY OneMoreBit DEF Symbols
  <2>4. ASSUME NEW x \in 0 .. 7, NEW y \in 0 .. 1 PROVE Xor(x, 8 * y) = x + 8 * y
    BY OneMoreBit DEF Symbols
  <2>5. ASSUME NEW x \in 0 .. 15, NEW y \in 0 .. 1 PROVE Xor(x, 16 * y) = x + 16 * y
    BY OneMoreBit DEF Symbols
  <2>6. QED
    BY <1>3, <2>2, <2>3, <2>4, <2>5, BitsOfSymbol
<1>7. QED
  BY <1>5, <1>6

\* One turn of the loops of PolyMod (cashaddr.c:45-52).
Turn(c, s) == AddLow(cashaddr_polymod_step[c], s)

\* What a turn of the register puts in each place (cashaddr.c:34-39).
LEMMA TurnFacts ==
    ASSUME NEW c \in Registers, NEW s \in Symbols
    PROVE  /\ Turn(c, s) \in Registers
           /\ \A k \in 1 .. 7 : Turn(c, s)[k] = Xor(c[k + 1], Reduction[c[1]][k])
           /\ Turn(c, s)[8] = Xor(c[1], s)
<1>1. c[1] \in Symbols
  BY DEF Registers
<1>2. PICK r \in Registers : r = Reduction[c[1]] /\ r[8] = c[1]
  BY <1>1, ReductionFacts
<1>3. cashaddr_polymod_step[c] = Plus(Shifted(c), r)
  BY <1>2 DEF cashaddr_polymod_step
<1>4. PICK p \in Registers : p = Plus(Shifted(c), r)
  BY RegisterFacts
<1>5. /\ \A k \in 1 .. 7 : p[k] = Xor(c[k + 1], r[k])
      /\ p[8] = Xor(0, r[8])
  BY <1>4 DEF Plus, Shifted
<1>6. p[8] = c[1]
  BY <1>1, <1>2, <1>5, XorZero
<1>7. Turn(c, s) = [p EXCEPT ![8] = Xor(p[8], s)]
  BY <1>3, <1>4 DEF Turn, AddLow
<1>8. \A k \in 1 .. 8 : k \in DOMAIN p
  BY <1>4 DEF Registers
<1>9. /\ \A k \in 1 .. 7 : Turn(c, s)[k] = p[k]
      /\ Turn(c, s)[8] = Xor(p[8], s)
  BY <1>7, <1>8
<1>10. Turn(c, s) \in Registers
  BY <1>3, <1>4, RegisterFacts DEF Turn
<1>11. QED
  BY <1>2, <1>5, <1>6, <1>9, <1>10

\* Registers with the same symbols are the same.
LEMMA SameRegister ==
    ASSUME NEW c \in Registers, NEW d \in Registers, \A k \in 1 .. 8 : c[k] = d[k]
    PROVE  c = d
  BY DEF Registers

\* No two registers become one.
LEMMA TurnIsInjective ==
    ASSUME NEW c \in Registers, NEW d \in Registers, NEW s \in Symbols, Turn(c, s) = Turn(d, s)
    PROVE  c = d
<1>1. \A k \in 1 .. 8 : c[k] \in Symbols /\ d[k] \in Symbols
  BY DEF Registers
<1>2. c[1] = d[1]
  <2>1. Xor(c[1], s) = Xor(d[1], s)
    BY TurnFacts
  <2>2. QED
    BY <1>1, <2>1, XorCancels
<1>3. PICK r \in Registers : r = Reduction[c[1]]
  BY <1>1, ReductionFacts
<1>4. \A k \in 1 .. 7 : Xor(c[k + 1], r[k]) = Xor(d[k + 1], r[k])
  BY <1>2, <1>3, TurnFacts
<1>5. ASSUME NEW k \in 1 .. 7 PROVE c[k + 1] = d[k + 1]
  <2>1. r[k] \in Symbols /\ c[k + 1] \in Symbols /\ d[k + 1] \in Symbols
    BY <1>1 DEF Registers
  <2>2. QED
    BY <1>4, <2>1, XorCancels
<1>6. ASSUME NEW k \in 1 .. 8 PROVE c[k] = d[k]
  <2>1. CASE k = 1
    BY <1>2, <2>1
  <2>2. CASE k # 1
    <3>1. k - 1 \in 1 .. 7 /\ (k - 1) + 1 = k
      BY <2>2
    <3>2. QED
      BY <1>5, <3>1
  <2>3. QED
    BY <2>1, <2>2
<1>7. QED
  BY <1>6, SameRegister

\* Two symbols one after the other, and the same two the other way round.
LEMMA OrderMatters ==
    ASSUME NEW e \in Registers, NEW a \in Symbols, NEW b \in Symbols,
           Turn(Turn(e, a), b) = Turn(Turn(e, b), a)
    PROVE  a = b
<1>1. PICK c \in Registers : c = Turn(e, a)
  BY TurnFacts
<1>2. PICK d \in Registers : d = Turn(e, b)
  BY TurnFacts
<1>3. \A k \in 1 .. 8 : c[k] \in Symbols /\ d[k] \in Symbols /\ e[k] \in Symbols
  BY DEF Registers
<1>4. c[1] = d[1]
  BY <1>1, <1>2, TurnFacts
<1>5. PICK r \in Registers : r = Reduction[c[1]]
  BY <1>3, ReductionFacts
<1>6. Xor(c[8], r[7]) = Xor(d[8], r[7])
  <2>1. 7 \in 1 .. 7 /\ 7 + 1 = 8
    OBVIOUS
  <2>2. Turn(c, b)[7] = Xor(c[8], r[7])
    BY <1>5, <2>1, TurnFacts
  <2>3. Turn(d, a)[7] = Xor(d[8], r[7])
    BY <1>4, <1>5, <2>1, TurnFacts
  <2>4. QED
    BY <1>1, <1>2, <2>2, <2>3
<1>7. c[8] = d[8]
  <2>1. r[7] \in Symbols
    BY DEF Registers
  <2>2. QED
    BY <1>3, <1>6, <2>1, XorCancels
<1>8. Xor(e[1], a) = Xor(e[1], b)
  BY <1>1, <1>2, <1>7, TurnFacts
<1>9. QED
  BY <1>3, <1>8, XorCancels

\* A difference that has not reached the highest symbol goes up unchanged.
LEMMA DifferenceGoesUp ==
    ASSUME NEW c \in Registers, NEW d \in Registers, d[1] = 0, NEW s \in Symbols
    PROVE  Turn(Plus(c, d), s) = Plus(Turn(c, 0), [k \in 1 .. 8 |-> IF k = 8 THEN s ELSE d[k + 1]])
<1> DEFINE up == [k \in 1 .. 8 |-> IF k = 8 THEN s ELSE d[k + 1]]
<1>1. \A k \in 1 .. 8 : c[k] \in Symbols /\ d[k] \in Symbols
  BY DEF Registers
<1>2. up \in Registers /\ 0 \in Symbols
  BY <1>1 DEF Registers, Symbols
<1>3. /\ \A k \in 1 .. 7 : up[k] = d[k + 1]
      /\ up[8] = s
  OBVIOUS
<1> HIDE DEF up
<1>4. PICK e \in Registers : e = Plus(c, d)
  BY RegisterFacts
<1>5. \A k \in 1 .. 8 : e[k] = Xor(c[k], d[k])
  BY <1>4 DEF Plus
<1>6. e[1] = c[1]
  BY <1>1, <1>5, XorZero
<1>7. PICK r \in Registers : r = Reduction[c[1]]
  BY <1>1, ReductionFacts
<1>8. PICK f \in Registers : f = Turn(c, 0)
  BY <1>2, TurnFacts
<1>9. PICK g \in Registers : g = Turn(e, s)
  BY TurnFacts
<1>10. PICK h \in Registers : h = Plus(f, up)
  BY <1>2, RegisterFacts
<1>11. \A k \in 1 .. 8 : h[k] = Xor(f[k], up[k])
  BY <1>10 DEF Plus
<1>12. g[8] = h[8]
  <2>1. f[8] = c[1]
    <3>1. f[8] = Xor(c[1], 0)
      BY <1>2, <1>8, TurnFacts
    <3>2. QED
      BY <1>1, <3>1, XorZero
  <2>2. QED
    BY <1>3, <1>6, <1>9, <1>11, <2>1, TurnFacts
<1>13. ASSUME NEW k \in 1 .. 7 PROVE g[k] = h[k]
  <2>1. c[k + 1] \in Symbols /\ d[k + 1] \in Symbols /\ r[k] \in Symbols /\ k + 1 \in 1 .. 8
    BY <1>1 DEF Registers
  <2>2. g[k] = Xor(e[k + 1], r[k])
    BY <1>6, <1>7, <1>9, TurnFacts
  <2>3. f[k] = Xor(c[k + 1], r[k])
    BY <1>2, <1>7, <1>8, TurnFacts
  <2>4. g[k] = Xor(Xor(c[k + 1], d[k + 1]), r[k])
    BY <1>5, <2>1, <2>2
  <2>5. h[k] = Xor(Xor(c[k + 1], r[k]), d[k + 1])
    BY <1>3, <1>11, <2>3
  <2>6. g[k] = Xor(c[k + 1], Xor(d[k + 1], r[k]))
    BY <2>1, <2>4, XorAssociates
  <2>7. h[k] = Xor(c[k + 1], Xor(r[k], d[k + 1]))
    BY <2>1, <2>5, XorAssociates
  <2>8. QED
    BY <2>1, <2>6, <2>7, XorCommutes
<1>14. g = h
  <2>1. \A k \in 1 .. 8 : g[k] = h[k]
    BY <1>12, <1>13
  <2>2. QED
    BY <2>1, SameRegister
<1>15. QED
  BY <1>4, <1>8, <1>9, <1>10, <1>14 DEF up

-----------------------------------------------------------------------------
(* The checksum of a row of symbols *)

\* Induction over the natural numbers, with a set in place of a predicate.
LEMMA Climb ==
    ASSUME NEW T, 0 \in T, \A n \in Nat : n \in T => n + 1 \in T
    PROVE  Nat \subseteq T
<1> DEFINE R == OpToRel(<, Nat)
           Missing == Nat \ T
<1> SUFFICES ASSUME Missing # {} PROVE FALSE
  OBVIOUS
<1>1. IsWellFoundedOn(R, Nat) /\ Missing \subseteq Nat
  BY NatLessThanWellFounded, Zenon
<1>2. \A x, y \in Nat : x < y => <<x, y>> \in R
  BY DEF OpToRel
<1> HIDE DEF R
<1>3. PICK x \in Missing : \A y \in Missing : ~(<<y, x>> \in R)
  BY <1>1, WFMin
<1>4. x \in Nat /\ x # 0 /\ x - 1 \in Nat /\ x - 1 < x
  OBVIOUS
<1>5. x - 1 \in T
  BY <1>2, <1>3, <1>4
<1>6. QED
  BY <1>4, <1>5

Start == AddLow(NoTerm, 1)

\* f[k] is the register after k symbols.
IsRow(f, symbols, n) ==
    f = [k \in 0 .. n |-> IF k = 0 THEN Start ELSE Turn(f[k - 1], symbols[k])]

\* However many symbols there are, they can be taken in.
LEMMA RowExists ==
    ASSUME NEW s
    PROVE  \A n \in Nat : \E f : IsRow(f, s, n)
<1> DEFINE T == {n \in Nat : \E f : IsRow(f, s, n)}
<1>1. 0 \in T
  <2>1. PICK f : f = [k \in 0 .. 0 |-> Start]
    OBVIOUS
  <2>2. f = [k \in 0 .. 0 |-> IF k = 0 THEN Start ELSE Turn(f[k - 1], s[k])]
    BY <2>1
  <2>3. QED
    BY <2>2 DEF IsRow
<1>2. ASSUME NEW n \in Nat, n \in T PROVE n + 1 \in T
  <2>1. PICK f : f = [k \in 0 .. n |-> IF k = 0 THEN Start ELSE Turn(f[k - 1], s[k])]
    BY <1>2 DEF IsRow
  <2>2. PICK g : g = [k \in 0 .. n + 1 |-> IF k <= n THEN f[k] ELSE Turn(f[k - 1], s[k])]
    OBVIOUS
  <2>3. \A k \in 0 .. n + 1 : k # 0 => g[k - 1] = f[k - 1]
    BY <2>2
  <2>4. \A k \in 0 .. n + 1 : g[k] = IF k = 0 THEN Start ELSE Turn(f[k - 1], s[k])
    BY <2>1, <2>2
  <2>5. \A k \in 0 .. n + 1 : g[k] = IF k = 0 THEN Start ELSE Turn(g[k - 1], s[k])
    BY <2>3, <2>4
  <2>6. g = [k \in 0 .. n + 1 |-> IF k = 0 THEN Start ELSE Turn(g[k - 1], s[k])]
    BY <2>2, <2>5
  <2>7. QED
    BY <2>6 DEF IsRow
<1>3. Nat \subseteq T
  BY <1>1, <1>2, Climb
<1>4. QED
  BY <1>3

\* A row of n symbols.
IsWord(s, n) == n \in Nat /\ Len(s) = n /\ \A k \in 1 .. n : s[k] \in Symbols

\* The register starts as a register.
LEMMA StartIsRegister == Start \in Registers
  BY RegisterFacts DEF Start, Symbols

\* The register after each symbol is a turn of the one before.
LEMMA AfterFacts ==
    ASSUME NEW s, NEW n, IsWord(s, n)
    PROVE  /\ After(s)[0] = Start
           /\ \A k \in 1 .. n : After(s)[k] = Turn(After(s)[k - 1], s[k])
           /\ \A k \in 0 .. n : After(s)[k] \in Registers
<1>1. n \in Nat /\ Len(s) = n
  BY DEF IsWord
<1>2. PICK f : IsRow(f, s, n) /\ After(s) = f
  <2> DEFINE row == CHOOSE f : IsRow(f, s, n)
  <2>1. IsRow(row, s, n)
    BY <1>1, RowExists, Zenon
  <2>2. After(s) = row
    BY <1>1 DEF After, IsRow, Start, Turn
  <2>3. QED
    BY <2>1, <2>2, Zenon
<1>3. \A k \in 0 .. n : f[k] = IF k = 0 THEN Start ELSE Turn(f[k - 1], s[k])
  BY <1>2 DEF IsRow
<1>4. f[0] = Start /\ \A k \in 1 .. n : f[k] = Turn(f[k - 1], s[k])
  BY <1>1, <1>3
<1> DEFINE T == {k \in Nat : k <= n => f[k] \in Registers}
<1>5. 0 \in T
  BY <1>4, StartIsRegister
<1>6. ASSUME NEW k \in Nat, k \in T PROVE k + 1 \in T
  <2>1. CASE k + 1 <= n
    <3>1. k + 1 \in 1 .. n /\ f[k] \in Registers /\ (k + 1) - 1 = k
      BY <1>1, <1>6, <2>1
    <3>2. f[k + 1] = Turn(f[k], s[k + 1]) /\ s[k + 1] \in Symbols
      BY <1>4, <3>1 DEF IsWord
    <3>3. f[k + 1] \in Registers
      BY <3>1, <3>2, TurnFacts
    <3>4. QED
      BY <3>3
  <2>2. QED
    BY <1>1, <2>1
<1>7. Nat \subseteq T
  BY <1>5, <1>6, Climb
<1>8. QED
  BY <1>1, <1>2, <1>4, <1>7

\* The register depends on the symbols taken in.
LEMMA AfterSame ==
    ASSUME NEW s, NEW n, IsWord(s, n), NEW t, NEW p, IsWord(t, p),
           NEW m \in Nat, m <= n, m <= p, \A k \in 1 .. m : s[k] = t[k]
    PROVE  After(s)[m] = After(t)[m]
<1>1. n \in Nat /\ p \in Nat
  BY DEF IsWord
<1> DEFINE T == {k \in Nat : k <= m => After(s)[k] = After(t)[k]}
<1>2. 0 \in T
  BY AfterFacts
<1>3. ASSUME NEW k \in Nat, k \in T PROVE k + 1 \in T
  <2>1. CASE k + 1 <= m
    <3>1. k + 1 \in 1 .. n /\ k + 1 \in 1 .. p /\ k + 1 \in 1 .. m /\ (k + 1) - 1 = k
      BY <1>1, <2>1
    <3>2. After(s)[k + 1] = Turn(After(s)[k], s[k + 1]) /\ After(t)[k + 1] = Turn(After(t)[k], t[k + 1])
      BY <3>1, AfterFacts
    <3>3. QED
      BY <1>3, <2>1, <3>1, <3>2
  <2>2. QED
    BY <2>1
<1>4. Nat \subseteq T
  BY <1>2, <1>3, Climb
<1>5. QED
  BY <1>4

\* Once two registers differ, the same symbols do not make them agree.
LEMMA DifferenceStays ==
    ASSUME NEW n, NEW s, IsWord(s, n), NEW t, IsWord(t, n),
           NEW m \in 0 .. n, After(s)[m] # After(t)[m], \A k \in m + 1 .. n : s[k] = t[k]
    PROVE  After(s)[n] # After(t)[n]
<1>1. n \in Nat
  BY DEF IsWord
<1> DEFINE T == {k \in Nat : m + k <= n => After(s)[m + k] # After(t)[m + k]}
<1>2. 0 \in T
  BY <1>1
<1>3. ASSUME NEW k \in Nat, k \in T PROVE k + 1 \in T
  <2>1. CASE m + (k + 1) <= n
    <3>1. PICK i \in Nat : i = m + k
      BY <1>1
    <3>2. i + 1 \in m + 1 .. n /\ i + 1 \in 1 .. n /\ i \in 0 .. n /\ (i + 1) - 1 = i /\ i + 1 = m + (k + 1)
      BY <1>1, <2>1, <3>1
    <3>3. After(s)[i + 1] = Turn(After(s)[i], s[i + 1]) /\ After(t)[i + 1] = Turn(After(t)[i], t[i + 1])
      BY <3>2, AfterFacts
    <3>4. s[i + 1] = t[i + 1] /\ s[i + 1] \in Symbols
      BY <3>2 DEF IsWord
    <3>5. After(s)[i] \in Registers /\ After(t)[i] \in Registers /\ After(s)[i] # After(t)[i]
      BY <1>1, <1>3, <3>1, <3>2, AfterFacts
    <3>6. After(s)[i + 1] # After(t)[i + 1]
      BY <3>3, <3>4, <3>5, TurnIsInjective
    <3>7. QED
      BY <3>2, <3>6
  <2>2. QED
    BY <2>1
<1>4. Nat \subseteq T
  BY <1>2, <1>3, Climb
<1>5. n - m \in T /\ m + (n - m) = n
  BY <1>1, <1>4
<1>6. QED
  BY <1>1, <1>5

\* A row with one other symbol has another checksum.
LEMMA OneOtherSymbol ==
    ASSUME NEW n, NEW s, IsWord(s, n), NEW t, IsWord(t, n), NEW j \in 1 .. n, s[j] # t[j],
           \A k \in 1 .. n : k # j => s[k] = t[k]
    PROVE  Register(s) # Register(t)
<1>1. n \in Nat /\ Len(s) = n /\ Len(t) = n /\ s[j] \in Symbols /\ t[j] \in Symbols
  BY DEF IsWord
<1>2. j - 1 \in Nat /\ j - 1 <= n /\ j \in 0 .. n /\ j - 1 \in 0 .. n
  BY <1>1
<1>3. After(s)[j - 1] = After(t)[j - 1]
  BY <1>1, <1>2, AfterSame
<1>4. PICK c \in Registers : c = After(s)[j - 1]
  BY <1>2, AfterFacts
<1>5. After(s)[j] = Turn(c, s[j]) /\ After(t)[j] = Turn(c, t[j])
  BY <1>3, <1>4, AfterFacts
<1>6. After(s)[j] # After(t)[j]
  <2>1. c[1] \in Symbols
    BY DEF Registers
  <2>2. Turn(c, s[j])[8] = Xor(c[1], s[j]) /\ Turn(c, t[j])[8] = Xor(c[1], t[j])
    BY <1>1, TurnFacts
  <2>3. Xor(c[1], s[j]) # Xor(c[1], t[j])
    BY <1>1, <2>1, XorCancels
  <2>4. QED
    BY <1>5, <2>2, <2>3
<1>7. After(s)[n] # After(t)[n]
  BY <1>1, <1>2, <1>6, DifferenceStays
<1>8. QED
  BY <1>1, <1>7 DEF Register

\* A row with two neighbours exchanged has another checksum.
LEMMA NeighboursExchanged ==
    ASSUME NEW n, NEW s, IsWord(s, n), NEW t, IsWord(t, n), NEW j \in 1 .. n - 1, s[j] # s[j + 1],
           t[j] = s[j + 1], t[j + 1] = s[j],
           \A k \in 1 .. n : k # j /\ k # j + 1 => s[k] = t[k]
    PROVE  Register(s) # Register(t)
<1>1. /\ n \in Nat /\ Len(s) = n /\ Len(t) = n
  BY DEF IsWord
<1>2. /\ j - 1 \in Nat /\ j - 1 <= n /\ j \in 1 .. n /\ j + 1 \in 0 .. n /\ j + 1 \in 1 .. n
      /\ j - 1 \in 0 .. n /\ (j + 1) - 1 = j
  BY <1>1
<1>3. s[j] \in Symbols /\ s[j + 1] \in Symbols
  BY <1>2 DEF IsWord
<1>4. After(s)[j - 1] = After(t)[j - 1]
  BY <1>1, <1>2, AfterSame
<1>5. PICK c \in Registers : c = After(s)[j - 1]
  BY <1>2, AfterFacts
<1>6. After(s)[j] = Turn(c, s[j]) /\ After(t)[j] = Turn(c, s[j + 1])
  BY <1>2, <1>4, <1>5, AfterFacts
<1>7. After(s)[j + 1] = Turn(After(s)[j], s[j + 1]) /\ After(t)[j + 1] = Turn(After(t)[j], s[j])
  BY <1>2, AfterFacts
<1>8. After(s)[j + 1] # After(t)[j + 1]
  BY <1>3, <1>6, <1>7, OrderMatters
<1>9. After(s)[n] # After(t)[n]
  BY <1>1, <1>2, <1>8, DifferenceStays
<1>10. QED
  BY <1>1, <1>9 DEF Register

\* With the checksum computed over eight zeros in their place, a row ends in 1.
LEMMA ChecksumComesOut ==
    ASSUME NEW m \in Nat, NEW p, IsWord(p, m + 8), NEW q, IsWord(q, m + 8),
           \A k \in 1 .. m : p[k] = q[k],
           \A k \in 1 .. 8 : p[m + k] = 0 /\ q[m + k] = AddLow(Register(p), 1)[k]
    PROVE  Register(q) = Start
<1> DEFINE D(i) == [k \in 1 .. 8 |-> IF k + i > 8 THEN q[m + (k + i - 8)] ELSE 0]
           T == {i \in Nat : i <= 8 => After(q)[m + i] = Plus(After(p)[m + i], D(i))}
<1>1. \A k \in 1 .. 8 : q[m + k] \in Symbols
  BY DEF IsWord
<1>2. 0 \in Symbols /\ 1 \in Symbols
  BY DEF Symbols
<1>3. ASSUME NEW i \in Nat, i <= 8 PROVE D(i) \in Registers
  <2>1. \A k \in 1 .. 8 : (IF k + i > 8 THEN q[m + (k + i - 8)] ELSE 0) \in Symbols
    BY <1>1, <1>2, <1>3
  <2>2. QED
    BY <2>1 DEF Registers
<1>4. \A i \in Nat : i <= 8 => m + i \in 0 .. m + 8
  OBVIOUS
<1>5. 0 \in T
  <2>1. PICK c \in Registers : c = After(p)[m]
    BY AfterFacts
  <2>2. After(q)[m] = c
    BY <2>1, AfterSame
  <2>3. \A k \in 1 .. 8 : D(0)[k] = 0
    OBVIOUS
  <2>4. \A k \in 1 .. 8 : Plus(c, D(0))[k] = c[k]
    <3>1. \A k \in 1 .. 8 : Plus(c, D(0))[k] = Xor(c[k], 0)
      BY <2>3 DEF Plus
    <3>2. \A k \in 1 .. 8 : c[k] \in Symbols
      BY DEF Registers
    <3>3. QED
      BY <3>1, <3>2, XorZero
  <2>5. Plus(c, D(0)) \in Registers
    <3>1. D(0) \in Registers
      BY <1>2, <2>3 DEF Registers
    <3> HIDE DEF D
    <3>2. QED
      BY <3>1, RegisterFacts
  <2>6. Plus(c, D(0)) = c
    BY <2>4, <2>5, SameRegister
  <2>7. QED
    BY <2>1, <2>2, <2>6
<1>6. ASSUME NEW i \in Nat, i \in T PROVE i + 1 \in T
  <2>1. SUFFICES ASSUME i + 1 <= 8 PROVE After(q)[m + (i + 1)] = Plus(After(p)[m + (i + 1)], D(i + 1))
    OBVIOUS
  <2>2. PICK j \in 1 .. m + 8 : j = m + (i + 1)
    BY <2>1
  <2>3. j - 1 = m + i /\ j - 1 \in 0 .. m + 8 /\ i + 1 \in 1 .. 8
    BY <2>1, <2>2
  <2>4. PICK c \in Registers : c = After(p)[j - 1]
    BY <2>3, AfterFacts
  <2>5. After(q)[j - 1] = Plus(c, D(i))
    BY <1>6, <2>1, <2>3, <2>4
  <2>6. After(p)[j] = Turn(c, 0)
    BY <2>2, <2>3, <2>4, AfterFacts
  <2>7. PICK s \in Symbols : s = q[j]
    BY <1>1, <2>2, <2>3
  <2>8. After(q)[j] = Turn(Plus(c, D(i)), s)
    BY <2>5, <2>7, AfterFacts
  <2>9. D(i) \in Registers /\ D(i)[1] = 0
    BY <1>3, <2>1
  <2>10. [k \in 1 .. 8 |-> IF k = 8 THEN s ELSE D(i)[k + 1]] = D(i + 1)
    <3>1. \A k \in 1 .. 8 : (IF k = 8 THEN s ELSE D(i)[k + 1]) = D(i + 1)[k]
      <4>1. ASSUME NEW k \in 1 .. 8, k # 8 PROVE D(i)[k + 1] = D(i + 1)[k]
        BY <4>1
      <4>2. D(i + 1)[8] = q[m + (i + 1)]
        OBVIOUS
      <4>3. QED
        BY <2>2, <2>7, <4>1, <4>2
    <3>2. QED
      BY <3>1
  <2>11. Turn(Plus(c, D(i)), s) = Plus(Turn(c, 0), D(i + 1))
    <3> HIDE DEF D
    <3>1. QED
      BY <2>9, <2>10, DifferenceGoesUp
  <2>12. QED
    BY <2>2, <2>6, <2>8, <2>11
<1>7. Nat \subseteq T
  BY <1>5, <1>6, Climb
<1>8. After(q)[m + 8] = Plus(After(p)[m + 8], D(8))
  BY <1>7
<1>9. PICK c \in Registers : c = After(p)[m + 8]
  BY AfterFacts
<1>10. Register(p) = c /\ Register(q) = After(q)[m + 8]
  BY <1>9 DEF Register, IsWord
<1>11. \A k \in 1 .. 8 : D(8)[k] = AddLow(c, 1)[k]
  BY <1>10
<1>12. PICK d \in Registers : d = AddLow(c, 1)
  BY <1>2, RegisterFacts
<1>13. D(8) = d
  <2>1. D(8) = [k \in 1 .. 8 |-> D(8)[k]]
    OBVIOUS
  <2>2. d = [k \in 1 .. 8 |-> d[k]]
    BY DEF Registers
  <2> HIDE DEF D
  <2>3. QED
    BY <1>11, <1>12, <2>1, <2>2
<1>14. \A k \in 1 .. 8 : c[k] \in Symbols
  BY DEF Registers
<1>15. d[8] = Xor(c[8], 1) /\ \A k \in 1 .. 7 : d[k] = c[k]
  BY <1>12 DEF AddLow, Registers
<1>16. \A k \in 1 .. 8 : Plus(c, d)[k] = Start[k]
  <2>1. ASSUME NEW k \in 1 .. 7 PROVE Plus(c, d)[k] = 0 /\ Start[k] = 0
    <3>1. Plus(c, d)[k] = Xor(c[k], c[k])
      BY <1>15 DEF Plus
    <3>2. Start[k] = 0
      BY DEF Start, AddLow, NoTerm
    <3>3. QED
      BY <1>14, <3>1, <3>2, XorZero
  <2>2. Plus(c, d)[8] = 1
    <3>1. Plus(c, d)[8] = Xor(c[8], Xor(c[8], 1))
      BY <1>15 DEF Plus
    <3>2. Xor(c[8], Xor(c[8], 1)) = Xor(Xor(c[8], c[8]), 1)
      BY <1>2, <1>14, XorAssociates
    <3>3. QED
      BY <1>2, <1>14, <3>1, <3>2, XorZero
  <2>3. Start[8] = 1
    <3>1. Start[8] = Xor(0, 1)
      BY DEF Start, AddLow, NoTerm
    <3>2. QED
      BY <1>2, <3>1, XorZero
  <2>4. QED
    BY <2>1, <2>2, <2>3
<1>17. QED
  BY <1>8, <1>9, <1>10, <1>13, <1>16, SameRegister, StartIsRegister, RegisterFacts

-----------------------------------------------------------------------------
(* From bytes to symbols and back *)

\* A row of n bytes.
IsBytes(in, n) ==
    n \in Nat \ {0} /\ Len(in) = n /\ \A k \in 1 .. n : in[k] \in 0 .. 255

Val(in, k) == (IF k = 1 THEN 0 ELSE in[k - 1] * 256) + in[k]

\* A symbol that is handed out while bytes are read (cashaddr.c:72).
WholeIs(in, s) ==
   (Val(in, (5 * s + 7) \div 8) \div 2 ^ (8 * ((5 * s + 7) \div 8) - 5 * s)) % 32

\* How many symbols there are, and what each is (cashaddr.c:57-83).
LEMMA ConvertedFacts ==
    ASSUME NEW in, NEW n, IsBytes(in, n)
    PROVE  /\ Len(convert_bits(in)) = (8 * n + 4) \div 5
           /\ \A s \in 1 .. (8 * n) \div 5 : convert_bits(in)[s] = WholeIs(in, s)
           /\ (8 * n) % 5 # 0 => convert_bits(in)[(8 * n) \div 5 + 1] =
                     (Val(in, n) * 2 ^ (5 - ((8 * n) % 5))) % 32
<1>1. n \in Nat /\ n > 0 /\ Len(in) = n
  BY DEF IsBytes
<1> DEFINE m == (8 * n) \div 5
<1>2. PICK w : w = [s \in 1 .. m |-> WholeIs(in, s)]
  OBVIOUS
<1>3. PICK x : x = (Val(in, n) * 2 ^ (5 - ((8 * n) % 5))) % 32
  OBVIOUS
<1>4. convert_bits(in) = IF (8 * n) % 5 = 0 THEN w ELSE Append(w, x)
  BY <1>1, <1>2, <1>3 DEF convert_bits, WholeIs, Val
<1>5. m \in Nat
  BY <1>1
<1>6. (8 * n + 4) \div 5 = IF (8 * n) % 5 = 0 THEN m ELSE m + 1
  BY <1>1
<1> HIDE DEF m
<1> DEFINE S == {WholeIs(in, s) : s \in 1 .. m}
<1>7. w \in Seq(S) /\ Len(w) = m
  <2>1. w \in [1 .. m -> S]
    BY <1>2
  <2> HIDE DEF S
  <2>2. QED
    BY <1>5, <2>1
<1>8. /\ Len(Append(w, x)) = m + 1
      /\ \A s \in 1 .. m : Append(w, x)[s] = w[s]
      /\ Append(w, x)[m + 1] = x
  BY <1>5, <1>7
<1>9. QED
  BY <1>2, <1>3, <1>4, <1>6, <1>7, <1>8 DEF m

\* The powers of two of a byte.
LEMMA Powers ==
    ASSUME NEW e
    PROVE  /\ e = 0 => 2 ^ e = 1
           /\ e = 1 => 2 ^ e = 2
           /\ e = 2 => 2 ^ e = 4
           /\ e = 3 => 2 ^ e = 8
           /\ e = 4 => 2 ^ e = 16
           /\ e = 5 => 2 ^ e = 32
           /\ e = 6 => 2 ^ e = 64
           /\ e = 7 => 2 ^ e = 128
<1>1. 2 ^ 0 = 1
  BY SMT
<1>2. 2 ^ 1 = 2
  BY SMT
<1>3. 2 ^ 2 = 4
  BY SMT
<1>4. 2 ^ 3 = 8
  BY SMT
<1>5. 2 ^ 4 = 16
  BY SMT
<1>6. 2 ^ 5 = 32
  BY SMT
<1>7. 2 ^ 6 = 64
  BY SMT
<1>8. 2 ^ 7 = 128
  BY SMT
<1>9. QED
  BY <1>1, <1>2, <1>3, <1>4, <1>5, <1>6, <1>7, <1>8, Zenon

\* Where a bit of a row of symbols is found.
LEMMA BitOfSymbol ==
    ASSUME NEW p, NEW i \in Nat, NEW j \in Nat, i \div 5 + 1 = j
    PROVE  /\ i % 5 = 0 => BitOf(p, 5, i) = Bit(p[j], 16)
           /\ i % 5 = 1 => BitOf(p, 5, i) = Bit(p[j], 8)
           /\ i % 5 = 2 => BitOf(p, 5, i) = Bit(p[j], 4)
           /\ i % 5 = 3 => BitOf(p, 5, i) = Bit(p[j], 2)
           /\ i % 5 = 4 => BitOf(p, 5, i) = Bit(p[j], 1)
<1>1. PICK e : e = 5 - 1 - (i % 5)
  OBVIOUS
<1>2. BitOf(p, 5, i) = Bit(p[j], 2 ^ e)
  BY <1>1 DEF BitOf, Bit
<1>3. /\ i % 5 = 0 => e = 4
      /\ i % 5 = 1 => e = 3
      /\ i % 5 = 2 => e = 2
      /\ i % 5 = 3 => e = 1
      /\ i % 5 = 4 => e = 0
  BY <1>1
<1>4. QED
  BY <1>2, <1>3, Powers

\* The eight symbols of every five bytes.
LEMMA WholeSymbol ==
    ASSUME NEW in, NEW n, IsBytes(in, n), NEW q \in Nat, NEW i \in 1 .. 8,
           NEW s, s = 8 * q + i, 5 * s <= 8 * n
    PROVE  /\ i = 1 => convert_bits(in)[s] = (Val(in, 5 * q + 1) \div 8) % 32
           /\ i = 2 => convert_bits(in)[s] = (Val(in, 5 * q + 2) \div 64) % 32
           /\ i = 3 => convert_bits(in)[s] = (Val(in, 5 * q + 2) \div 2) % 32
           /\ i = 4 => convert_bits(in)[s] = (Val(in, 5 * q + 3) \div 16) % 32
           /\ i = 5 => convert_bits(in)[s] = (Val(in, 5 * q + 4) \div 128) % 32
           /\ i = 6 => convert_bits(in)[s] = (Val(in, 5 * q + 4) \div 4) % 32
           /\ i = 7 => convert_bits(in)[s] = (Val(in, 5 * q + 5) \div 32) % 32
           /\ i = 8 => convert_bits(in)[s] = (Val(in, 5 * q + 5) \div 1) % 32
<1>1. n \in Nat /\ s \in 1 .. (8 * n) \div 5
  BY DEF IsBytes
<1>2. PICK k : k = (5 * s + 7) \div 8
  OBVIOUS
<1>3. PICK e : e = 8 * k - 5 * s
  OBVIOUS
<1>4. convert_bits(in)[s] = (Val(in, k) \div 2 ^ e) % 32
  BY <1>1, <1>2, <1>3, ConvertedFacts DEF WholeIs
<1>5. i = 1 => k = 5 * q + 1 /\ e = 3
  BY <1>2, <1>3
<1>6. i = 2 => k = 5 * q + 2 /\ e = 6
  BY <1>2, <1>3
<1>7. i = 3 => k = 5 * q + 2 /\ e = 1
  BY <1>2, <1>3
<1>8. i = 4 => k = 5 * q + 3 /\ e = 4
  BY <1>2, <1>3
<1>9. i = 5 => k = 5 * q + 4 /\ e = 7
  BY <1>2, <1>3
<1>10. i = 6 => k = 5 * q + 4 /\ e = 2
  BY <1>2, <1>3
<1>11. i = 7 => k = 5 * q + 5 /\ e = 5
  BY <1>2, <1>3
<1>12. i = 8 => k = 5 * q + 5 /\ e = 0
  BY <1>2, <1>3
<1>13. QED
  BY <1>4, <1>5, <1>6, <1>7, <1>8, <1>9, <1>10, <1>11, <1>12, Powers

\* The symbol that is handed out at the end, with padding.
LEMMA PaddedSymbol ==
    ASSUME NEW in, NEW n, IsBytes(in, n), NEW q \in Nat
    PROVE  /\ n = 5 * q + 1 => convert_bits(in)[8 * q + 2] = (Val(in, n) * 4) % 32
           /\ n = 5 * q + 2 => convert_bits(in)[8 * q + 4] = (Val(in, n) * 16) % 32
           /\ n = 5 * q + 3 => convert_bits(in)[8 * q + 5] = (Val(in, n) * 2) % 32
           /\ n = 5 * q + 4 => convert_bits(in)[8 * q + 7] = (Val(in, n) * 8) % 32
<1>1. PICK e : e = 5 - ((8 * n) % 5)
  OBVIOUS
<1>2. PICK s : s = (8 * n) \div 5 + 1
  OBVIOUS
<1>3. (8 * n) % 5 # 0 => convert_bits(in)[s] = (Val(in, n) * 2 ^ e) % 32
  BY <1>1, <1>2, ConvertedFacts
<1>4. n = 5 * q + 1 => s = 8 * q + 2 /\ e = 2 /\ (8 * n) % 5 # 0
  BY <1>1, <1>2
<1>5. n = 5 * q + 2 => s = 8 * q + 4 /\ e = 4 /\ (8 * n) % 5 # 0
  BY <1>1, <1>2
<1>6. n = 5 * q + 3 => s = 8 * q + 5 /\ e = 1 /\ (8 * n) % 5 # 0
  BY <1>1, <1>2
<1>7. n = 5 * q + 4 => s = 8 * q + 7 /\ e = 3 /\ (8 * n) % 5 # 0
  BY <1>1, <1>2
<1>8. QED
  BY <1>3, <1>4, <1>5, <1>6, <1>7, Powers

\* Two bytes of a row, one above the other.
ValIs(in, k) ==
    /\ Val(in, k) \in Nat
    /\ \E b \in 0 .. 255 : Val(in, k) = b * 256 + in[k] /\ (k > 1 => b = in[k - 1])

\* What "val" has of the byte before, and of this one (cashaddr.c:66-70).
LEMMA ValFacts ==
    ASSUME NEW in, NEW n, IsBytes(in, n), NEW k \in 1 .. n
    PROVE  ValIs(in, k)
<1>1. n \in Nat /\ \A j \in 1 .. n : in[j] \in 0 .. 255
  BY DEF IsBytes
<1>2. CASE k = 1
  BY <1>1, <1>2 DEF Val, ValIs
<1>3. CASE k # 1
  <2>1. k - 1 \in 1 .. n
    BY <1>1, <1>3
  <2>2. in[k - 1] \in 0 .. 255
    BY <1>1, <2>1
  <2>3. Val(in, k) = in[k - 1] * 256 + in[k]
    BY <1>3 DEF Val
  <2>4. PICK b \in 0 .. 255, a \in 0 .. 255 : b = in[k - 1] /\ a = in[k]
    BY <1>1, <2>2
  <2>5. Val(in, k) = b * 256 + in[k] /\ Val(in, k) \in Nat
    <3>1. b * 256 + a \in Nat
      OBVIOUS
    <3>2. Val(in, k) = b * 256 + in[k] /\ Val(in, k) = b * 256 + a
      BY <2>3, <2>4, Zenon
    <3>3. QED
      BY <3>1, <3>2, Zenon
  <2>6. QED
    BY <2>4, <2>5, Zenon DEF ValIs
<1>4. QED
  BY <1>2, <1>3

\* What of the last two bytes reaches into a symbol.
LowParts(v, a) ==
    /\ (v \div 8) % 32 = a \div 8
    /\ ((v \div 64) % 32) % 4 = a \div 64
    /\ (v \div 2) % 32 = (a \div 2) % 32
    /\ ((v \div 16) % 32) % 16 = a \div 16
    /\ ((v \div 128) % 32) % 2 = a \div 128
    /\ (v \div 4) % 32 = (a \div 4) % 32
    /\ ((v \div 32) % 32) % 8 = a \div 32
    /\ v % 32 = a % 32

\* Those parts, taken one by one.
LEMMA LowPart ==
    ASSUME NEW a \in 0 .. 255, NEW b \in 0 .. 255, NEW v, v = b * 256 + a
    PROVE  LowParts(v, a)
<1>1. (v \div 8) % 32 = a \div 8
  <2>1. v \div 8 = 32 * b + a \div 8 /\ a \div 8 \in 0 .. 31
    OBVIOUS
  <2>2. PICK x \in 0 .. 31 : x = a \div 8
    BY <2>1
  <2>3. QED
    BY <2>1, <2>2
<1>2. ((v \div 64) % 32) % 4 = a \div 64
  <2>1. v \div 64 = 4 * b + a \div 64 /\ a \div 64 \in 0 .. 3
    OBVIOUS
  <2>2. PICK x \in 0 .. 3 : x = a \div 64
    BY <2>1
  <2>3. QED
    BY <2>1, <2>2
<1>3. (v \div 2) % 32 = (a \div 2) % 32
  <2>1. v \div 2 = 128 * b + a \div 2 /\ a \div 2 \in 0 .. 127
    OBVIOUS
  <2>2. PICK x \in 0 .. 127 : x = a \div 2
    BY <2>1
  <2>3. QED
    BY <2>1, <2>2
<1>4. ((v \div 16) % 32) % 16 = a \div 16
  <2>1. v \div 16 = 16 * b + a \div 16 /\ a \div 16 \in 0 .. 15
    OBVIOUS
  <2>2. PICK x \in 0 .. 15 : x = a \div 16
    BY <2>1
  <2>3. QED
    BY <2>1, <2>2
<1>5. ((v \div 128) % 32) % 2 = a \div 128
  <2>1. v \div 128 = 2 * b + a \div 128 /\ a \div 128 \in 0 .. 1
    OBVIOUS
  <2>2. PICK x \in 0 .. 1 : x = a \div 128
    BY <2>1
  <2>3. QED
    BY <2>1, <2>2
<1>6. (v \div 4) % 32 = (a \div 4) % 32
  <2>1. v \div 4 = 64 * b + a \div 4 /\ a \div 4 \in 0 .. 63
    OBVIOUS
  <2>2. PICK x \in 0 .. 63 : x = a \div 4
    BY <2>1
  <2>3. QED
    BY <2>1, <2>2
<1>7. ((v \div 32) % 32) % 8 = a \div 32
  <2>1. v \div 32 = 8 * b + a \div 32 /\ a \div 32 \in 0 .. 7
    OBVIOUS
  <2>2. PICK x \in 0 .. 7 : x = a \div 32
    BY <2>1
  <2>3. QED
    BY <2>1, <2>2
<1>8. v % 32 = a % 32
  OBVIOUS
<1>9. QED
  BY <1>1, <1>2, <1>3, <1>4, <1>5, <1>6, <1>7, <1>8 DEF LowParts

\* What of a byte goes into the symbol handed out with the next one.
HighParts(v, b) ==
    /\ ((v \div 64) % 32) \div 4 = b % 8
    /\ ((v \div 16) % 32) \div 16 = b % 2
    /\ ((v \div 128) % 32) \div 2 = b % 16
    /\ ((v \div 32) % 32) \div 8 = b % 4

LEMMA HighPart ==
    ASSUME NEW a \in 0 .. 255, NEW b \in 0 .. 255, NEW v, v = b * 256 + a
    PROVE  HighParts(v, b)
<1>1. ((v \div 64) % 32) \div 4 = b % 8
  <2>1. v \div 64 = 4 * b + a \div 64 /\ a \div 64 \in 0 .. 3
    OBVIOUS
  <2>2. PICK x \in 0 .. 3 : x = a \div 64
    BY <2>1
  <2>3. QED
    BY <2>1, <2>2
<1>2. ((v \div 16) % 32) \div 16 = b % 2
  <2>1. v \div 16 = 16 * b + a \div 16 /\ a \div 16 \in 0 .. 15
    OBVIOUS
  <2>2. PICK x \in 0 .. 15 : x = a \div 16
    BY <2>1
  <2>3. QED
    BY <2>1, <2>2
<1>3. ((v \div 128) % 32) \div 2 = b % 16
  <2>1. v \div 128 = 2 * b + a \div 128 /\ a \div 128 \in 0 .. 1
    OBVIOUS
  <2>2. PICK x \in 0 .. 1 : x = a \div 128
    BY <2>1
  <2>3. QED
    BY <2>1, <2>2
<1>4. ((v \div 32) % 32) \div 8 = b % 4
  <2>1. v \div 32 = 8 * b + a \div 32 /\ a \div 32 \in 0 .. 7
    OBVIOUS
  <2>2. PICK x \in 0 .. 7 : x = a \div 32
    BY <2>1
  <2>3. QED
    BY <2>1, <2>2
<1>5. QED
  BY <1>1, <1>2, <1>3, <1>4 DEF HighParts

\* What of the last byte goes into the padded symbol.
PadParts(v, a) ==
    /\ ((v * 4) % 32) \div 4 = a % 8
    /\ ((v * 16) % 32) \div 16 = a % 2
    /\ ((v * 2) % 32) \div 2 = a % 16
    /\ ((v * 8) % 32) \div 8 = a % 4

LEMMA PadPart ==
    ASSUME NEW a \in 0 .. 255, NEW b \in 0 .. 255, NEW v, v = b * 256 + a
    PROVE  PadParts(v, a)
<1>1. ((v * 4) % 32) \div 4 = a % 8
  OBVIOUS
<1>2. ((v * 16) % 32) \div 16 = a % 2
  OBVIOUS
<1>3. ((v * 2) % 32) \div 2 = a % 16
  OBVIOUS
<1>4. ((v * 8) % 32) \div 8 = a % 4
  OBVIOUS
<1>5. QED
  BY <1>1, <1>2, <1>3, <1>4 DEF PadParts

\* The symbols are symbols.
LEMMA ConvertedSymbols ==
    ASSUME NEW in, NEW n, IsBytes(in, n), NEW s \in 1 .. (8 * n + 4) \div 5
    PROVE  convert_bits(in)[s] \in Symbols
<1>1. n \in Nat /\ n >= 1 /\ \A k \in 1 .. n : Val(in, k) \in Nat
  <2>1. ASSUME NEW k \in 1 .. n PROVE Val(in, k) \in Nat
    <3>1. ValIs(in, k)
      BY ValFacts
    <3>2. QED
      BY <3>1 DEF ValIs
  <2>2. QED
    BY <2>1 DEF IsBytes
<1>2. \A x \in Nat : x % 32 \in Symbols
  BY DEF Symbols
<1>3. CASE s <= (8 * n) \div 5
  <2>1. PICK k \in 1 .. n : k = (5 * s + 7) \div 8
    BY <1>1, <1>3
  <2>2. PICK e \in 0 .. 7 : e = 8 * k - 5 * s
    BY <1>1, <2>1
  <2>3. PICK y \in {1, 2, 4, 8, 16, 32, 64, 128} : y = 2 ^ e
    BY Powers
  <2>4. convert_bits(in)[s] = (Val(in, k) \div y) % 32
    <3>1. s \in 1 .. (8 * n) \div 5
      BY <1>1, <1>3
    <3>2. convert_bits(in)[s] = WholeIs(in, s)
      BY <3>1, ConvertedFacts
    <3>3. QED
      BY <2>1, <2>2, <2>3, <3>2 DEF WholeIs
  <2>5. Val(in, k) \div y \in Nat
    BY <1>1
  <2>6. QED
    BY <1>2, <2>4, <2>5
<1>4. CASE s > (8 * n) \div 5
  <2>1. s = (8 * n) \div 5 + 1 /\ (8 * n) % 5 # 0
    BY <1>1, <1>4
  <2>2. PICK e \in 1 .. 4 : e = 5 - ((8 * n) % 5)
    BY <1>1, <2>1
  <2>3. PICK y \in {2, 4, 8, 16} : y = 2 ^ e
    BY Powers
  <2>4. convert_bits(in)[s] = (Val(in, n) * y) % 32
    BY <2>1, <2>2, <2>3, ConvertedFacts
  <2>5. Val(in, n) * y \in Nat
    BY <1>1
  <2>6. QED
    BY <1>2, <2>4, <2>5
<1>5. QED
  BY <1>1, <1>3, <1>4

\* The symbols the first of every five bytes goes into.
LEMMA Parts1 ==
    ASSUME NEW in, NEW n, IsBytes(in, n), NEW q \in Nat, NEW k \in 1 .. n, k = 5 * q + 1
    PROVE  /\ convert_bits(in)[8 * q + 1] = in[k] \div 8
           /\ convert_bits(in)[8 * q + 2] \div 4 = in[k] % 8
<1>1. n \in Nat /\ \A j \in 1 .. n : in[j] \in 0 .. 255
  BY DEF IsBytes
<1>2. PICK a \in 0 .. 255 : a = in[k]
  BY <1>1
<1> ValIs(in, k)
  BY ValFacts
<1>3. PICK v \in Nat : v = Val(in, k)
  BY DEF ValIs
<1> PICK b \in 0 .. 255 : v = b * 256 + a
  BY <1>2, <1>3 DEF ValIs
<1>4. LowParts(v, a)
  BY LowPart
<1>5. convert_bits(in)[8 * q + 1] = in[k] \div 8
  <2>1. 5 * (8 * q + 1) <= 8 * n
    BY <1>1
  <2>2. convert_bits(in)[8 * q + 1] = (v \div 8) % 32
    BY <1>3, <2>1, WholeSymbol
  <2>3. (v \div 8) % 32 = a \div 8
    BY <1>4 DEF LowParts
  <2>4. QED
    BY <1>2, <2>2, <2>3
<1>6. convert_bits(in)[8 * q + 2] \div 4 = in[k] % 8
  <2>1. CASE k = n
    <3>1. convert_bits(in)[8 * q + 2] = (v * 4) % 32
      BY <1>3, <2>1, PaddedSymbol
    <3>2. ((v * 4) % 32) \div 4 = a % 8
      <4>1. PadParts(v, a)
        BY PadPart
      <4>2. QED
        BY <4>1, Zenon DEF PadParts
    <3>3. QED
      BY <1>2, <3>1, <3>2
  <2>2. CASE k # n
    <3>1. PICK j \in 1 .. n : j = k + 1 /\ j = 5 * q + 2
      BY <1>1, <2>2
    <3>2. PICK d \in 0 .. 255 : d = in[j]
      BY <1>1
    <3>3. PICK w \in Nat : w = Val(in, j) /\ w = a * 256 + d
      <4>1. PICK c \in 0 .. 255 : Val(in, j) = c * 256 + in[j] /\ (j > 1 => c = in[j - 1])
        <5>1. ValIs(in, j)
          BY ValFacts
        <5>2. QED
          BY <5>1 DEF ValIs
      <4>2. j > 1 /\ j - 1 = k
        BY <3>1
      <4>3. c = a /\ Val(in, j) = c * 256 + d
        BY <1>2, <3>2, <4>1, <4>2
      <4>4. QED
        <5>1. c * 256 + d \in Nat
          OBVIOUS
        <5>2. QED
          BY <4>3, <5>1, Zenon
    <3>4. 5 * (8 * q + 2) <= 8 * n
      BY <1>1, <3>1
    <3>5. convert_bits(in)[8 * q + 2] = (w \div 64) % 32
      BY <3>1, <3>3, <3>4, WholeSymbol
    <3>6. ((w \div 64) % 32) \div 4 = a % 8
      <4>1. HighParts(w, a)
        BY <3>3, HighPart
      <4>2. QED
        BY <4>1, Zenon DEF HighParts
    <3>7. QED
      BY <1>2, <3>5, <3>6
  <2>3. QED
    BY <2>1, <2>2
<1>7. QED
  BY <1>5, <1>6

\* The symbols the second of every five bytes goes into.
LEMMA Parts2 ==
    ASSUME NEW in, NEW n, IsBytes(in, n), NEW q \in Nat, NEW k \in 1 .. n, k = 5 * q + 2
    PROVE  /\ convert_bits(in)[8 * q + 2] % 4 = in[k] \div 64
           /\ convert_bits(in)[8 * q + 3] = (in[k] \div 2) % 32
           /\ convert_bits(in)[8 * q + 4] \div 16 = in[k] % 2
<1>1. n \in Nat /\ \A j \in 1 .. n : in[j] \in 0 .. 255
  BY DEF IsBytes
<1>2. PICK a \in 0 .. 255 : a = in[k]
  BY <1>1
<1> ValIs(in, k)
  BY ValFacts
<1>3. PICK v \in Nat : v = Val(in, k)
  BY DEF ValIs
<1> PICK b \in 0 .. 255 : v = b * 256 + a
  BY <1>2, <1>3 DEF ValIs
<1>4. LowParts(v, a)
  BY LowPart
<1>5. convert_bits(in)[8 * q + 2] % 4 = in[k] \div 64
  <2>1. 5 * (8 * q + 2) <= 8 * n
    BY <1>1
  <2>2. convert_bits(in)[8 * q + 2] = (v \div 64) % 32
    BY <1>3, <2>1, WholeSymbol
  <2>3. ((v \div 64) % 32) % 4 = a \div 64
    BY <1>4 DEF LowParts
  <2>4. QED
    BY <1>2, <2>2, <2>3
<1>6. convert_bits(in)[8 * q + 3] = (in[k] \div 2) % 32
  <2>1. 5 * (8 * q + 3) <= 8 * n
    BY <1>1
  <2>2. convert_bits(in)[8 * q + 3] = (v \div 2) % 32
    BY <1>3, <2>1, WholeSymbol
  <2>3. (v \div 2) % 32 = (a \div 2) % 32
    BY <1>4 DEF LowParts
  <2>4. QED
    BY <1>2, <2>2, <2>3
<1>7. convert_bits(in)[8 * q + 4] \div 16 = in[k] % 2
  <2>1. CASE k = n
    <3>1. convert_bits(in)[8 * q + 4] = (v * 16) % 32
      BY <1>3, <2>1, PaddedSymbol
    <3>2. ((v * 16) % 32) \div 16 = a % 2
      <4>1. PadParts(v, a)
        BY PadPart
      <4>2. QED
        BY <4>1, Zenon DEF PadParts
    <3>3. QED
      BY <1>2, <3>1, <3>2
  <2>2. CASE k # n
    <3>1. PICK j \in 1 .. n : j = k + 1 /\ j = 5 * q + 3
      BY <1>1, <2>2
    <3>2. PICK d \in 0 .. 255 : d = in[j]
      BY <1>1
    <3>3. PICK w \in Nat : w = Val(in, j) /\ w = a * 256 + d
      <4>1. PICK c \in 0 .. 255 : Val(in, j) = c * 256 + in[j] /\ (j > 1 => c = in[j - 1])
        <5>1. ValIs(in, j)
          BY ValFacts
        <5>2. QED
          BY <5>1 DEF ValIs
      <4>2. j > 1 /\ j - 1 = k
        BY <3>1
      <4>3. c = a /\ Val(in, j) = c * 256 + d
        BY <1>2, <3>2, <4>1, <4>2
      <4>4. QED
        <5>1. c * 256 + d \in Nat
          OBVIOUS
        <5>2. QED
          BY <4>3, <5>1, Zenon
    <3>4. 5 * (8 * q + 4) <= 8 * n
      BY <1>1, <3>1
    <3>5. convert_bits(in)[8 * q + 4] = (w \div 16) % 32
      BY <3>1, <3>3, <3>4, WholeSymbol
    <3>6. ((w \div 16) % 32) \div 16 = a % 2
      <4>1. HighParts(w, a)
        BY <3>3, HighPart
      <4>2. QED
        BY <4>1, Zenon DEF HighParts
    <3>7. QED
      BY <1>2, <3>5, <3>6
  <2>3. QED
    BY <2>1, <2>2
<1>8. QED
  BY <1>5, <1>6, <1>7

\* The symbols the third of every five bytes goes into.
LEMMA Parts3 ==
    ASSUME NEW in, NEW n, IsBytes(in, n), NEW q \in Nat, NEW k \in 1 .. n, k = 5 * q + 3
    PROVE  /\ convert_bits(in)[8 * q + 4] % 16 = in[k] \div 16
           /\ convert_bits(in)[8 * q + 5] \div 2 = in[k] % 16
<1>1. n \in Nat /\ \A j \in 1 .. n : in[j] \in 0 .. 255
  BY DEF IsBytes
<1>2. PICK a \in 0 .. 255 : a = in[k]
  BY <1>1
<1> ValIs(in, k)
  BY ValFacts
<1>3. PICK v \in Nat : v = Val(in, k)
  BY DEF ValIs
<1> PICK b \in 0 .. 255 : v = b * 256 + a
  BY <1>2, <1>3 DEF ValIs
<1>4. LowParts(v, a)
  BY LowPart
<1>5. convert_bits(in)[8 * q + 4] % 16 = in[k] \div 16
  <2>1. 5 * (8 * q + 4) <= 8 * n
    BY <1>1
  <2>2. convert_bits(in)[8 * q + 4] = (v \div 16) % 32
    BY <1>3, <2>1, WholeSymbol
  <2>3. ((v \div 16) % 32) % 16 = a \div 16
    BY <1>4 DEF LowParts
  <2>4. QED
    BY <1>2, <2>2, <2>3
<1>6. convert_bits(in)[8 * q + 5] \div 2 = in[k] % 16
  <2>1. CASE k = n
    <3>1. convert_bits(in)[8 * q + 5] = (v * 2) % 32
      BY <1>3, <2>1, PaddedSymbol
    <3>2. ((v * 2) % 32) \div 2 = a % 16
      <4>1. PadParts(v, a)
        BY PadPart
      <4>2. QED
        BY <4>1, Zenon DEF PadParts
    <3>3. QED
      BY <1>2, <3>1, <3>2
  <2>2. CASE k # n
    <3>1. PICK j \in 1 .. n : j = k + 1 /\ j = 5 * q + 4
      BY <1>1, <2>2
    <3>2. PICK d \in 0 .. 255 : d = in[j]
      BY <1>1
    <3>3. PICK w \in Nat : w = Val(in, j) /\ w = a * 256 + d
      <4>1. PICK c \in 0 .. 255 : Val(in, j) = c * 256 + in[j] /\ (j > 1 => c = in[j - 1])
        <5>1. ValIs(in, j)
          BY ValFacts
        <5>2. QED
          BY <5>1 DEF ValIs
      <4>2. j > 1 /\ j - 1 = k
        BY <3>1
      <4>3. c = a /\ Val(in, j) = c * 256 + d
        BY <1>2, <3>2, <4>1, <4>2
      <4>4. QED
        <5>1. c * 256 + d \in Nat
          OBVIOUS
        <5>2. QED
          BY <4>3, <5>1, Zenon
    <3>4. 5 * (8 * q + 5) <= 8 * n
      BY <1>1, <3>1
    <3>5. convert_bits(in)[8 * q + 5] = (w \div 128) % 32
      BY <3>1, <3>3, <3>4, WholeSymbol
    <3>6. ((w \div 128) % 32) \div 2 = a % 16
      <4>1. HighParts(w, a)
        BY <3>3, HighPart
      <4>2. QED
        BY <4>1, Zenon DEF HighParts
    <3>7. QED
      BY <1>2, <3>5, <3>6
  <2>3. QED
    BY <2>1, <2>2
<1>7. QED
  BY <1>5, <1>6

\* The symbols the fourth of every five bytes goes into.
LEMMA Parts4 ==
    ASSUME NEW in, NEW n, IsBytes(in, n), NEW q \in Nat, NEW k \in 1 .. n, k = 5 * q + 4
    PROVE  /\ convert_bits(in)[8 * q + 5] % 2 = in[k] \div 128
           /\ convert_bits(in)[8 * q + 6] = (in[k] \div 4) % 32
           /\ convert_bits(in)[8 * q + 7] \div 8 = in[k] % 4
<1>1. n \in Nat /\ \A j \in 1 .. n : in[j] \in 0 .. 255
  BY DEF IsBytes
<1>2. PICK a \in 0 .. 255 : a = in[k]
  BY <1>1
<1> ValIs(in, k)
  BY ValFacts
<1>3. PICK v \in Nat : v = Val(in, k)
  BY DEF ValIs
<1> PICK b \in 0 .. 255 : v = b * 256 + a
  BY <1>2, <1>3 DEF ValIs
<1>4. LowParts(v, a)
  BY LowPart
<1>5. convert_bits(in)[8 * q + 5] % 2 = in[k] \div 128
  <2>1. 5 * (8 * q + 5) <= 8 * n
    BY <1>1
  <2>2. convert_bits(in)[8 * q + 5] = (v \div 128) % 32
    BY <1>3, <2>1, WholeSymbol
  <2>3. ((v \div 128) % 32) % 2 = a \div 128
    BY <1>4 DEF LowParts
  <2>4. QED
    BY <1>2, <2>2, <2>3
<1>6. convert_bits(in)[8 * q + 6] = (in[k] \div 4) % 32
  <2>1. 5 * (8 * q + 6) <= 8 * n
    BY <1>1
  <2>2. convert_bits(in)[8 * q + 6] = (v \div 4) % 32
    BY <1>3, <2>1, WholeSymbol
  <2>3. (v \div 4) % 32 = (a \div 4) % 32
    BY <1>4 DEF LowParts
  <2>4. QED
    BY <1>2, <2>2, <2>3
<1>7. convert_bits(in)[8 * q + 7] \div 8 = in[k] % 4
  <2>1. CASE k = n
    <3>1. convert_bits(in)[8 * q + 7] = (v * 8) % 32
      BY <1>3, <2>1, PaddedSymbol
    <3>2. ((v * 8) % 32) \div 8 = a % 4
      <4>1. PadParts(v, a)
        BY PadPart
      <4>2. QED
        BY <4>1, Zenon DEF PadParts
    <3>3. QED
      BY <1>2, <3>1, <3>2
  <2>2. CASE k # n
    <3>1. PICK j \in 1 .. n : j = k + 1 /\ j = 5 * q + 5
      BY <1>1, <2>2
    <3>2. PICK d \in 0 .. 255 : d = in[j]
      BY <1>1
    <3>3. PICK w \in Nat : w = Val(in, j) /\ w = a * 256 + d
      <4>1. PICK c \in 0 .. 255 : Val(in, j) = c * 256 + in[j] /\ (j > 1 => c = in[j - 1])
        <5>1. ValIs(in, j)
          BY ValFacts
        <5>2. QED
          BY <5>1 DEF ValIs
      <4>2. j > 1 /\ j - 1 = k
        BY <3>1
      <4>3. c = a /\ Val(in, j) = c * 256 + d
        BY <1>2, <3>2, <4>1, <4>2
      <4>4. QED
        <5>1. c * 256 + d \in Nat
          OBVIOUS
        <5>2. QED
          BY <4>3, <5>1, Zenon
    <3>4. 5 * (8 * q + 7) <= 8 * n
      BY <1>1, <3>1
    <3>5. convert_bits(in)[8 * q + 7] = (w \div 32) % 32
      BY <3>1, <3>3, <3>4, WholeSymbol
    <3>6. ((w \div 32) % 32) \div 8 = a % 4
      <4>1. HighParts(w, a)
        BY <3>3, HighPart
      <4>2. QED
        BY <4>1, Zenon DEF HighParts
    <3>7. QED
      BY <1>2, <3>5, <3>6
  <2>3. QED
    BY <2>1, <2>2
<1>8. QED
  BY <1>5, <1>6, <1>7

\* The symbols the fifth of every five bytes goes into.
LEMMA Parts5 ==
    ASSUME NEW in, NEW n, IsBytes(in, n), NEW q \in Nat, NEW k \in 1 .. n, k = 5 * q + 5
    PROVE  /\ convert_bits(in)[8 * q + 7] % 8 = in[k] \div 32
           /\ convert_bits(in)[8 * q + 8] = in[k] % 32
<1>1. n \in Nat /\ \A j \in 1 .. n : in[j] \in 0 .. 255
  BY DEF IsBytes
<1>2. PICK a \in 0 .. 255 : a = in[k]
  BY <1>1
<1> ValIs(in, k)
  BY ValFacts
<1>3. PICK v \in Nat : v = Val(in, k)
  BY DEF ValIs
<1> PICK b \in 0 .. 255 : v = b * 256 + a
  BY <1>2, <1>3 DEF ValIs
<1>4. LowParts(v, a)
  BY LowPart
<1>5. convert_bits(in)[8 * q + 7] % 8 = in[k] \div 32
  <2>1. 5 * (8 * q + 7) <= 8 * n
    BY <1>1
  <2>2. convert_bits(in)[8 * q + 7] = (v \div 32) % 32
    BY <1>3, <2>1, WholeSymbol
  <2>3. ((v \div 32) % 32) % 8 = a \div 32
    BY <1>4 DEF LowParts
  <2>4. QED
    BY <1>2, <2>2, <2>3
<1>6. convert_bits(in)[8 * q + 8] = in[k] % 32
  <2>1. 5 * (8 * q + 8) <= 8 * n
    BY <1>1
  <2>2. convert_bits(in)[8 * q + 8] = (v \div 1) % 32
    BY <1>3, <2>1, WholeSymbol
  <2>3. v % 32 = a % 32
    BY <1>4 DEF LowParts
  <2>4. v \div 1 = v
    OBVIOUS
  <2>5. convert_bits(in)[8 * q + 8] = v % 32
    BY <2>2, <2>4
  <2>6. QED
    BY <1>2, <2>3, <2>5
<1>7. QED
  BY <1>5, <1>6

\* The byte is put together again from those parts.
PutTogether(a, x, y, z) ==
    /\ x = a \div 8 /\ y \div 4 = a % 8 =>
       128 * Bit(x, 16) + 64 * Bit(x, 8) + 32 * Bit(x, 4) + 16 * Bit(x, 2) + 8 * Bit(x, 1)
       + 4 * Bit(y, 16) + 2 * Bit(y, 8) + Bit(y, 4) = a
    /\ x % 4 = a \div 64 /\ y = (a \div 2) % 32 /\ z \div 16 = a % 2 =>
       128 * Bit(x, 2) + 64 * Bit(x, 1) + 32 * Bit(y, 16) + 16 * Bit(y, 8) + 8 * Bit(y, 4)
       + 4 * Bit(y, 2) + 2 * Bit(y, 1) + Bit(z, 16) = a
    /\ x % 16 = a \div 16 /\ y \div 2 = a % 16 =>
       128 * Bit(x, 8) + 64 * Bit(x, 4) + 32 * Bit(x, 2) + 16 * Bit(x, 1) + 8 * Bit(y, 16)
       + 4 * Bit(y, 8) + 2 * Bit(y, 4) + Bit(y, 2) = a
    /\ x % 2 = a \div 128 /\ y = (a \div 4) % 32 /\ z \div 8 = a % 4 =>
       128 * Bit(x, 1) + 64 * Bit(y, 16) + 32 * Bit(y, 8) + 16 * Bit(y, 4) + 8 * Bit(y, 2)
       + 4 * Bit(y, 1) + 2 * Bit(z, 16) + Bit(z, 8) = a
    /\ x % 8 = a \div 32 /\ y = a % 32 =>
       128 * Bit(x, 4) + 64 * Bit(x, 2) + 32 * Bit(x, 1) + 16 * Bit(y, 16) + 8 * Bit(y, 8)
       + 4 * Bit(y, 4) + 2 * Bit(y, 2) + Bit(y, 1) = a

\* Whichever symbols the parts come from.
LEMMA ByteOfParts ==
    ASSUME NEW a \in 0 .. 255, NEW x \in Symbols, NEW y \in Symbols, NEW z \in Symbols
    PROVE  PutTogether(a, x, y, z)
<1>1. ASSUME NEW s \in Symbols
      PROVE  /\ s = 16 * Bit(s, 16) + 8 * Bit(s, 8) + 4 * Bit(s, 4) + 2 * Bit(s, 2) + Bit(s, 1)
             /\ s \div 16 = Bit(s, 16)
             /\ s \div 8 = 2 * Bit(s, 16) + Bit(s, 8)
             /\ s \div 4 = 4 * Bit(s, 16) + 2 * Bit(s, 8) + Bit(s, 4)
             /\ s \div 2 = 8 * Bit(s, 16) + 4 * Bit(s, 8) + 2 * Bit(s, 4) + Bit(s, 2)
             /\ s % 2 = Bit(s, 1)
             /\ s % 4 = 2 * Bit(s, 2) + Bit(s, 1)
             /\ s % 8 = 4 * Bit(s, 4) + 2 * Bit(s, 2) + Bit(s, 1)
             /\ s % 16 = 8 * Bit(s, 8) + 4 * Bit(s, 4) + 2 * Bit(s, 2) + Bit(s, 1)
             /\ Bit(s, 16) \in 0 .. 1 /\ Bit(s, 8) \in 0 .. 1 /\ Bit(s, 4) \in 0 .. 1
             /\ Bit(s, 2) \in 0 .. 1 /\ Bit(s, 1) \in 0 .. 1
  <2>1. /\ s = 16 * Bit(s, 16) + 8 * Bit(s, 8) + 4 * Bit(s, 4) + 2 * Bit(s, 2) + Bit(s, 1)
        /\ Bit(s, 16) \in 0 .. 1 /\ Bit(s, 8) \in 0 .. 1 /\ Bit(s, 4) \in 0 .. 1
        /\ Bit(s, 2) \in 0 .. 1 /\ Bit(s, 1) \in 0 .. 1
    BY BitsOfSymbol
  <2>2. PICK e, d, c, b, f \in 0 .. 1 :
           e = Bit(s, 16) /\ d = Bit(s, 8) /\ c = Bit(s, 4) /\ b = Bit(s, 2) /\ f = Bit(s, 1)
    BY <2>1
  <2>3. s = 16 * e + 8 * d + 4 * c + 2 * b + f
    BY <2>1, <2>2
  <2>4. s \div 16 = e /\ s \div 8 = 2 * e + d /\ s \div 4 = 4 * e + 2 * d + c
    BY <2>3
  <2>5. s \div 2 = 8 * e + 4 * d + 2 * c + b /\ s % 2 = f /\ s % 4 = 2 * b + f
    BY <2>3
  <2>6. s % 8 = 4 * c + 2 * b + f /\ s % 16 = 8 * d + 4 * c + 2 * b + f
    BY <2>3
  <2>7. QED
    BY <2>2, <2>3, <2>4, <2>5, <2>6
<1>2. /\ Bit(x, 16) \in 0 .. 1 /\ Bit(x, 8) \in 0 .. 1 /\ Bit(x, 4) \in 0 .. 1
         /\ Bit(x, 2) \in 0 .. 1 /\ Bit(x, 1) \in 0 .. 1
      /\ Bit(y, 16) \in 0 .. 1 /\ Bit(y, 8) \in 0 .. 1 /\ Bit(y, 4) \in 0 .. 1
         /\ Bit(y, 2) \in 0 .. 1 /\ Bit(y, 1) \in 0 .. 1
      /\ Bit(z, 16) \in 0 .. 1 /\ Bit(z, 8) \in 0 .. 1 /\ Bit(z, 4) \in 0 .. 1
         /\ Bit(z, 2) \in 0 .. 1 /\ Bit(z, 1) \in 0 .. 1
  BY <1>1
<1>3. ASSUME x = a \div 8, y \div 4 = a % 8
      PROVE  128 * Bit(x, 16) + 64 * Bit(x, 8) + 32 * Bit(x, 4) + 16 * Bit(x, 2) + 8 * Bit(x, 1)
             + 4 * Bit(y, 16) + 2 * Bit(y, 8) + Bit(y, 4) = a
  <2>1. PICK h, l \in Nat : h = a \div 8 /\ l = a % 8
    OBVIOUS
  <2>2. a = 8 * h + l
    BY <2>1
  <2>3. h = 16 * Bit(x, 16) + 8 * Bit(x, 8) + 4 * Bit(x, 4) + 2 * Bit(x, 2) + Bit(x, 1)
    BY <1>1, <1>3, <2>1
  <2>4. l = 4 * Bit(y, 16) + 2 * Bit(y, 8) + Bit(y, 4)
    BY <1>1, <1>3, <2>1
  <2>5. QED
    BY <1>2, <2>2, <2>3, <2>4
<1>4. ASSUME x % 4 = a \div 64, y = (a \div 2) % 32, z \div 16 = a % 2
      PROVE  128 * Bit(x, 2) + 64 * Bit(x, 1) + 32 * Bit(y, 16) + 16 * Bit(y, 8) + 8 * Bit(y, 4)
             + 4 * Bit(y, 2) + 2 * Bit(y, 1) + Bit(z, 16) = a
  <2>1. PICK h, m, l \in Nat : h = a \div 64 /\ m = (a \div 2) % 32 /\ l = a % 2
    OBVIOUS
  <2>2. a = 64 * h + 2 * m + l
    BY <2>1
  <2>3. h = 2 * Bit(x, 2) + Bit(x, 1)
    BY <1>1, <1>4, <2>1
  <2>4. m = 16 * Bit(y, 16) + 8 * Bit(y, 8) + 4 * Bit(y, 4) + 2 * Bit(y, 2) + Bit(y, 1)
    BY <1>1, <1>4, <2>1
  <2>5. l = Bit(z, 16)
    BY <1>1, <1>4, <2>1
  <2>6. PICK x2, x1, y16, y8, y4, y2, y1, z16 \in 0 .. 1 :
           x2 = Bit(x, 2) /\ x1 = Bit(x, 1) /\ y16 = Bit(y, 16) /\ y8 = Bit(y, 8)
           /\ y4 = Bit(y, 4) /\ y2 = Bit(y, 2) /\ y1 = Bit(y, 1) /\ z16 = Bit(z, 16)
    BY <1>2
  <2>7. h = 2 * x2 + x1 /\ m = 16 * y16 + 8 * y8 + 4 * y4 + 2 * y2 + y1 /\ l = z16
    BY <2>3, <2>4, <2>5, <2>6
  <2>8. 128 * x2 + 64 * x1 + 32 * y16 + 16 * y8 + 8 * y4 + 4 * y2 + 2 * y1 + z16 = a
    BY <2>2, <2>7
  <2>9. QED
    BY <2>6, <2>8
<1>5. ASSUME x % 16 = a \div 16, y \div 2 = a % 16
      PROVE  128 * Bit(x, 8) + 64 * Bit(x, 4) + 32 * Bit(x, 2) + 16 * Bit(x, 1) + 8 * Bit(y, 16)
             + 4 * Bit(y, 8) + 2 * Bit(y, 4) + Bit(y, 2) = a
  <2>1. PICK h, l \in Nat : h = a \div 16 /\ l = a % 16
    OBVIOUS
  <2>2. a = 16 * h + l
    BY <2>1
  <2>3. h = 8 * Bit(x, 8) + 4 * Bit(x, 4) + 2 * Bit(x, 2) + Bit(x, 1)
    BY <1>1, <1>5, <2>1
  <2>4. l = 8 * Bit(y, 16) + 4 * Bit(y, 8) + 2 * Bit(y, 4) + Bit(y, 2)
    BY <1>1, <1>5, <2>1
  <2>5. QED
    BY <1>2, <2>2, <2>3, <2>4
<1>6. ASSUME x % 2 = a \div 128, y = (a \div 4) % 32, z \div 8 = a % 4
      PROVE  128 * Bit(x, 1) + 64 * Bit(y, 16) + 32 * Bit(y, 8) + 16 * Bit(y, 4) + 8 * Bit(y, 2)
             + 4 * Bit(y, 1) + 2 * Bit(z, 16) + Bit(z, 8) = a
  <2>1. PICK h, m, l \in Nat : h = a \div 128 /\ m = (a \div 4) % 32 /\ l = a % 4
    OBVIOUS
  <2>2. a = 128 * h + 4 * m + l
    BY <2>1
  <2>3. h = Bit(x, 1)
    BY <1>1, <1>6, <2>1
  <2>4. m = 16 * Bit(y, 16) + 8 * Bit(y, 8) + 4 * Bit(y, 4) + 2 * Bit(y, 2) + Bit(y, 1)
    BY <1>1, <1>6, <2>1
  <2>5. l = 2 * Bit(z, 16) + Bit(z, 8)
    BY <1>1, <1>6, <2>1
  <2>6. QED
    BY <1>2, <2>2, <2>3, <2>4, <2>5
<1>7. ASSUME x % 8 = a \div 32, y = a % 32
      PROVE  128 * Bit(x, 4) + 64 * Bit(x, 2) + 32 * Bit(x, 1) + 16 * Bit(y, 16) + 8 * Bit(y, 8)
             + 4 * Bit(y, 4) + 2 * Bit(y, 2) + Bit(y, 1) = a
  <2>1. PICK h, l \in Nat : h = a \div 32 /\ l = a % 32
    OBVIOUS
  <2>2. a = 32 * h + l
    BY <2>1
  <2>3. h = 4 * Bit(x, 4) + 2 * Bit(x, 2) + Bit(x, 1)
    BY <1>1, <1>7, <2>1
  <2>4. l = 16 * Bit(y, 16) + 8 * Bit(y, 8) + 4 * Bit(y, 4) + 2 * Bit(y, 2) + Bit(y, 1)
    BY <1>1, <1>7, <2>1
  <2>5. PICK x4, x2, x1, y16, y8, y4, y2, y1 \in 0 .. 1 :
           x4 = Bit(x, 4) /\ x2 = Bit(x, 2) /\ x1 = Bit(x, 1) /\ y16 = Bit(y, 16)
           /\ y8 = Bit(y, 8) /\ y4 = Bit(y, 4) /\ y2 = Bit(y, 2) /\ y1 = Bit(y, 1)
    BY <1>2
  <2>6. h = 4 * x4 + 2 * x2 + x1 /\ l = 16 * y16 + 8 * y8 + 4 * y4 + 2 * y2 + y1
    BY <2>3, <2>4, <2>5
  <2>7. 128 * x4 + 64 * x2 + 32 * x1 + 16 * y16 + 8 * y8 + 4 * y4 + 2 * y2 + y1 = a
    BY <2>2, <2>6
  <2>8. QED
    BY <2>5, <2>7
<1>8. QED
  BY <1>3, <1>4, <1>5, <1>6, <1>7 DEF PutTogether

\* What a wallet reads is what was written.
LEMMA ByteComesBack ==
    ASSUME NEW in, NEW n, IsBytes(in, n), NEW k \in 1 .. n, NEW p,
           \A s \in 1 .. (8 * n + 4) \div 5 : p[s] = convert_bits(in)[s]
    PROVE  ByteAt(p, k) = in[k]
<1>1. n \in Nat /\ in[k] \in 0 .. 255
  BY DEF IsBytes
<1>2. PICK q \in Nat, r \in 1 .. 5 : k = 5 * q + r
  <2>1. k = 5 * ((k - 1) \div 5) + (((k - 1) % 5) + 1)
    BY <1>1
  <2>2. (k - 1) \div 5 \in Nat /\ ((k - 1) % 5) + 1 \in 1 .. 5
    BY <1>1
  <2>3. QED
    BY <2>1, <2>2
<1> DEFINE bit(j) == BitOf(p, 5, 8 * (k - 1) + j)
<1>3. ByteAt(p, k) = 128 * bit(0) + 64 * bit(1) + 32 * bit(2) + 16 * bit(3)
                     + 8 * bit(4) + 4 * bit(5) + 2 * bit(6) + bit(7)
  BY DEF ByteAt
<1>4. ASSUME NEW i \in 1 .. 8, 5 * (8 * q + i) <= 8 * n + 4
      PROVE  p[8 * q + i] = convert_bits(in)[8 * q + i] /\ p[8 * q + i] \in Symbols
  <2>1. 8 * q + i \in 1 .. (8 * n + 4) \div 5
    BY <1>1, <1>4
  <2>2. QED
    BY <2>1, ConvertedSymbols
<1> HIDE DEF bit
<1>5. CASE r = 1
  <2>1. PICK a \in 0 .. 255 : a = in[k]
    BY <1>1
  <2>2. PICK x \in Symbols : x = p[8 * q + 1] /\ x = convert_bits(in)[8 * q + 1]
    <3>1. 5 * (8 * q + 1) <= 8 * n + 4 /\ 1 \in 1 .. 8
      BY <1>1, <1>2, <1>5
    <3>2. QED
      BY <1>4, <3>1
  <2>3. PICK y \in Symbols : y = p[8 * q + 2] /\ y = convert_bits(in)[8 * q + 2]
    <3>1. 5 * (8 * q + 2) <= 8 * n + 4 /\ 2 \in 1 .. 8
      BY <1>1, <1>2, <1>5
    <3>2. QED
      BY <1>4, <3>1
  <2>4. bit(0) = Bit(x, 16)
    <3>1. PICK i \in Nat : i = 8 * (k - 1) + 0
      OBVIOUS
    <3>2. i \div 5 + 1 = 8 * q + 1 /\ i % 5 = 0
      BY <1>2, <1>5, <3>1
    <3>3. BitOf(p, 5, i) = Bit(p[8 * q + 1], 16)
      BY <3>2, BitOfSymbol
    <3>4. QED
      BY <2>2, <3>1, <3>3 DEF bit
  <2>5. bit(1) = Bit(x, 8)
    <3>1. PICK i \in Nat : i = 8 * (k - 1) + 1
      OBVIOUS
    <3>2. i \div 5 + 1 = 8 * q + 1 /\ i % 5 = 1
      BY <1>2, <1>5, <3>1
    <3>3. BitOf(p, 5, i) = Bit(p[8 * q + 1], 8)
      BY <3>2, BitOfSymbol
    <3>4. QED
      BY <2>2, <3>1, <3>3 DEF bit
  <2>6. bit(2) = Bit(x, 4)
    <3>1. PICK i \in Nat : i = 8 * (k - 1) + 2
      OBVIOUS
    <3>2. i \div 5 + 1 = 8 * q + 1 /\ i % 5 = 2
      BY <1>2, <1>5, <3>1
    <3>3. BitOf(p, 5, i) = Bit(p[8 * q + 1], 4)
      BY <3>2, BitOfSymbol
    <3>4. QED
      BY <2>2, <3>1, <3>3 DEF bit
  <2>7. bit(3) = Bit(x, 2)
    <3>1. PICK i \in Nat : i = 8 * (k - 1) + 3
      OBVIOUS
    <3>2. i \div 5 + 1 = 8 * q + 1 /\ i % 5 = 3
      BY <1>2, <1>5, <3>1
    <3>3. BitOf(p, 5, i) = Bit(p[8 * q + 1], 2)
      BY <3>2, BitOfSymbol
    <3>4. QED
      BY <2>2, <3>1, <3>3 DEF bit
  <2>8. bit(4) = Bit(x, 1)
    <3>1. PICK i \in Nat : i = 8 * (k - 1) + 4
      OBVIOUS
    <3>2. i \div 5 + 1 = 8 * q + 1 /\ i % 5 = 4
      BY <1>2, <1>5, <3>1
    <3>3. BitOf(p, 5, i) = Bit(p[8 * q + 1], 1)
      BY <3>2, BitOfSymbol
    <3>4. QED
      BY <2>2, <3>1, <3>3 DEF bit
  <2>9. bit(5) = Bit(y, 16)
    <3>1. PICK i \in Nat : i = 8 * (k - 1) + 5
      OBVIOUS
    <3>2. i \div 5 + 1 = 8 * q + 2 /\ i % 5 = 0
      BY <1>2, <1>5, <3>1
    <3>3. BitOf(p, 5, i) = Bit(p[8 * q + 2], 16)
      BY <3>2, BitOfSymbol
    <3>4. QED
      BY <2>3, <3>1, <3>3 DEF bit
  <2>10. bit(6) = Bit(y, 8)
    <3>1. PICK i \in Nat : i = 8 * (k - 1) + 6
      OBVIOUS
    <3>2. i \div 5 + 1 = 8 * q + 2 /\ i % 5 = 1
      BY <1>2, <1>5, <3>1
    <3>3. BitOf(p, 5, i) = Bit(p[8 * q + 2], 8)
      BY <3>2, BitOfSymbol
    <3>4. QED
      BY <2>3, <3>1, <3>3 DEF bit
  <2>11. bit(7) = Bit(y, 4)
    <3>1. PICK i \in Nat : i = 8 * (k - 1) + 7
      OBVIOUS
    <3>2. i \div 5 + 1 = 8 * q + 2 /\ i % 5 = 2
      BY <1>2, <1>5, <3>1
    <3>3. BitOf(p, 5, i) = Bit(p[8 * q + 2], 4)
      BY <3>2, BitOfSymbol
    <3>4. QED
      BY <2>3, <3>1, <3>3 DEF bit
  <2>12. x = a \div 8 /\ y \div 4 = a % 8
    BY <1>2, <1>5, <2>1, <2>2, <2>3, Parts1
  <2>13. 128 * Bit(x, 16) + 64 * Bit(x, 8) + 32 * Bit(x, 4) + 16 * Bit(x, 2)
        + 8 * Bit(x, 1) + 4 * Bit(y, 16) + 2 * Bit(y, 8) + Bit(y, 4) = a
    <3>1. PutTogether(a, x, y, y)
      BY ByteOfParts
    <3>2. QED
      BY <2>12, <3>1, Zenon DEF PutTogether
  <2>14. QED
    BY <1>3, <2>1, <2>4, <2>5, <2>6, <2>7, <2>8, <2>9, <2>10, <2>11, <2>13
<1>6. CASE r = 2
  <2>1. PICK a \in 0 .. 255 : a = in[k]
    BY <1>1
  <2>2. PICK x \in Symbols : x = p[8 * q + 2] /\ x = convert_bits(in)[8 * q + 2]
    <3>1. 5 * (8 * q + 2) <= 8 * n + 4 /\ 2 \in 1 .. 8
      BY <1>1, <1>2, <1>6
    <3>2. QED
      BY <1>4, <3>1
  <2>3. PICK y \in Symbols : y = p[8 * q + 3] /\ y = convert_bits(in)[8 * q + 3]
    <3>1. 5 * (8 * q + 3) <= 8 * n + 4 /\ 3 \in 1 .. 8
      BY <1>1, <1>2, <1>6
    <3>2. QED
      BY <1>4, <3>1
  <2>4. PICK z \in Symbols : z = p[8 * q + 4] /\ z = convert_bits(in)[8 * q + 4]
    <3>1. 5 * (8 * q + 4) <= 8 * n + 4 /\ 4 \in 1 .. 8
      BY <1>1, <1>2, <1>6
    <3>2. QED
      BY <1>4, <3>1
  <2>5. bit(0) = Bit(x, 2)
    <3>1. PICK i \in Nat : i = 8 * (k - 1) + 0
      OBVIOUS
    <3>2. i \div 5 + 1 = 8 * q + 2 /\ i % 5 = 3
      BY <1>2, <1>6, <3>1
    <3>3. BitOf(p, 5, i) = Bit(p[8 * q + 2], 2)
      BY <3>2, BitOfSymbol
    <3>4. QED
      BY <2>2, <3>1, <3>3 DEF bit
  <2>6. bit(1) = Bit(x, 1)
    <3>1. PICK i \in Nat : i = 8 * (k - 1) + 1
      OBVIOUS
    <3>2. i \div 5 + 1 = 8 * q + 2 /\ i % 5 = 4
      BY <1>2, <1>6, <3>1
    <3>3. BitOf(p, 5, i) = Bit(p[8 * q + 2], 1)
      BY <3>2, BitOfSymbol
    <3>4. QED
      BY <2>2, <3>1, <3>3 DEF bit
  <2>7. bit(2) = Bit(y, 16)
    <3>1. PICK i \in Nat : i = 8 * (k - 1) + 2
      OBVIOUS
    <3>2. i \div 5 + 1 = 8 * q + 3 /\ i % 5 = 0
      BY <1>2, <1>6, <3>1
    <3>3. BitOf(p, 5, i) = Bit(p[8 * q + 3], 16)
      BY <3>2, BitOfSymbol
    <3>4. QED
      BY <2>3, <3>1, <3>3 DEF bit
  <2>8. bit(3) = Bit(y, 8)
    <3>1. PICK i \in Nat : i = 8 * (k - 1) + 3
      OBVIOUS
    <3>2. i \div 5 + 1 = 8 * q + 3 /\ i % 5 = 1
      BY <1>2, <1>6, <3>1
    <3>3. BitOf(p, 5, i) = Bit(p[8 * q + 3], 8)
      BY <3>2, BitOfSymbol
    <3>4. QED
      BY <2>3, <3>1, <3>3 DEF bit
  <2>9. bit(4) = Bit(y, 4)
    <3>1. PICK i \in Nat : i = 8 * (k - 1) + 4
      OBVIOUS
    <3>2. i \div 5 + 1 = 8 * q + 3 /\ i % 5 = 2
      BY <1>2, <1>6, <3>1
    <3>3. BitOf(p, 5, i) = Bit(p[8 * q + 3], 4)
      BY <3>2, BitOfSymbol
    <3>4. QED
      BY <2>3, <3>1, <3>3 DEF bit
  <2>10. bit(5) = Bit(y, 2)
    <3>1. PICK i \in Nat : i = 8 * (k - 1) + 5
      OBVIOUS
    <3>2. i \div 5 + 1 = 8 * q + 3 /\ i % 5 = 3
      BY <1>2, <1>6, <3>1
    <3>3. BitOf(p, 5, i) = Bit(p[8 * q + 3], 2)
      BY <3>2, BitOfSymbol
    <3>4. QED
      BY <2>3, <3>1, <3>3 DEF bit
  <2>11. bit(6) = Bit(y, 1)
    <3>1. PICK i \in Nat : i = 8 * (k - 1) + 6
      OBVIOUS
    <3>2. i \div 5 + 1 = 8 * q + 3 /\ i % 5 = 4
      BY <1>2, <1>6, <3>1
    <3>3. BitOf(p, 5, i) = Bit(p[8 * q + 3], 1)
      BY <3>2, BitOfSymbol
    <3>4. QED
      BY <2>3, <3>1, <3>3 DEF bit
  <2>12. bit(7) = Bit(z, 16)
    <3>1. PICK i \in Nat : i = 8 * (k - 1) + 7
      OBVIOUS
    <3>2. i \div 5 + 1 = 8 * q + 4 /\ i % 5 = 0
      BY <1>2, <1>6, <3>1
    <3>3. BitOf(p, 5, i) = Bit(p[8 * q + 4], 16)
      BY <3>2, BitOfSymbol
    <3>4. QED
      BY <2>4, <3>1, <3>3 DEF bit
  <2>13. x % 4 = a \div 64 /\ y = (a \div 2) % 32 /\ z \div 16 = a % 2
    BY <1>2, <1>6, <2>1, <2>2, <2>3, <2>4, Parts2
  <2>14. 128 * Bit(x, 2) + 64 * Bit(x, 1) + 32 * Bit(y, 16) + 16 * Bit(y, 8)
        + 8 * Bit(y, 4) + 4 * Bit(y, 2) + 2 * Bit(y, 1) + Bit(z, 16) = a
    <3>1. PutTogether(a, x, y, z)
      BY ByteOfParts
    <3>2. QED
      BY <2>13, <3>1, Zenon DEF PutTogether
  <2>15. QED
    BY <1>3, <2>1, <2>5, <2>6, <2>7, <2>8, <2>9, <2>10, <2>11, <2>12, <2>14
<1>7. CASE r = 3
  <2>1. PICK a \in 0 .. 255 : a = in[k]
    BY <1>1
  <2>2. PICK x \in Symbols : x = p[8 * q + 4] /\ x = convert_bits(in)[8 * q + 4]
    <3>1. 5 * (8 * q + 4) <= 8 * n + 4 /\ 4 \in 1 .. 8
      BY <1>1, <1>2, <1>7
    <3>2. QED
      BY <1>4, <3>1
  <2>3. PICK y \in Symbols : y = p[8 * q + 5] /\ y = convert_bits(in)[8 * q + 5]
    <3>1. 5 * (8 * q + 5) <= 8 * n + 4 /\ 5 \in 1 .. 8
      BY <1>1, <1>2, <1>7
    <3>2. QED
      BY <1>4, <3>1
  <2>4. bit(0) = Bit(x, 8)
    <3>1. PICK i \in Nat : i = 8 * (k - 1) + 0
      OBVIOUS
    <3>2. i \div 5 + 1 = 8 * q + 4 /\ i % 5 = 1
      BY <1>2, <1>7, <3>1
    <3>3. BitOf(p, 5, i) = Bit(p[8 * q + 4], 8)
      BY <3>2, BitOfSymbol
    <3>4. QED
      BY <2>2, <3>1, <3>3 DEF bit
  <2>5. bit(1) = Bit(x, 4)
    <3>1. PICK i \in Nat : i = 8 * (k - 1) + 1
      OBVIOUS
    <3>2. i \div 5 + 1 = 8 * q + 4 /\ i % 5 = 2
      BY <1>2, <1>7, <3>1
    <3>3. BitOf(p, 5, i) = Bit(p[8 * q + 4], 4)
      BY <3>2, BitOfSymbol
    <3>4. QED
      BY <2>2, <3>1, <3>3 DEF bit
  <2>6. bit(2) = Bit(x, 2)
    <3>1. PICK i \in Nat : i = 8 * (k - 1) + 2
      OBVIOUS
    <3>2. i \div 5 + 1 = 8 * q + 4 /\ i % 5 = 3
      BY <1>2, <1>7, <3>1
    <3>3. BitOf(p, 5, i) = Bit(p[8 * q + 4], 2)
      BY <3>2, BitOfSymbol
    <3>4. QED
      BY <2>2, <3>1, <3>3 DEF bit
  <2>7. bit(3) = Bit(x, 1)
    <3>1. PICK i \in Nat : i = 8 * (k - 1) + 3
      OBVIOUS
    <3>2. i \div 5 + 1 = 8 * q + 4 /\ i % 5 = 4
      BY <1>2, <1>7, <3>1
    <3>3. BitOf(p, 5, i) = Bit(p[8 * q + 4], 1)
      BY <3>2, BitOfSymbol
    <3>4. QED
      BY <2>2, <3>1, <3>3 DEF bit
  <2>8. bit(4) = Bit(y, 16)
    <3>1. PICK i \in Nat : i = 8 * (k - 1) + 4
      OBVIOUS
    <3>2. i \div 5 + 1 = 8 * q + 5 /\ i % 5 = 0
      BY <1>2, <1>7, <3>1
    <3>3. BitOf(p, 5, i) = Bit(p[8 * q + 5], 16)
      BY <3>2, BitOfSymbol
    <3>4. QED
      BY <2>3, <3>1, <3>3 DEF bit
  <2>9. bit(5) = Bit(y, 8)
    <3>1. PICK i \in Nat : i = 8 * (k - 1) + 5
      OBVIOUS
    <3>2. i \div 5 + 1 = 8 * q + 5 /\ i % 5 = 1
      BY <1>2, <1>7, <3>1
    <3>3. BitOf(p, 5, i) = Bit(p[8 * q + 5], 8)
      BY <3>2, BitOfSymbol
    <3>4. QED
      BY <2>3, <3>1, <3>3 DEF bit
  <2>10. bit(6) = Bit(y, 4)
    <3>1. PICK i \in Nat : i = 8 * (k - 1) + 6
      OBVIOUS
    <3>2. i \div 5 + 1 = 8 * q + 5 /\ i % 5 = 2
      BY <1>2, <1>7, <3>1
    <3>3. BitOf(p, 5, i) = Bit(p[8 * q + 5], 4)
      BY <3>2, BitOfSymbol
    <3>4. QED
      BY <2>3, <3>1, <3>3 DEF bit
  <2>11. bit(7) = Bit(y, 2)
    <3>1. PICK i \in Nat : i = 8 * (k - 1) + 7
      OBVIOUS
    <3>2. i \div 5 + 1 = 8 * q + 5 /\ i % 5 = 3
      BY <1>2, <1>7, <3>1
    <3>3. BitOf(p, 5, i) = Bit(p[8 * q + 5], 2)
      BY <3>2, BitOfSymbol
    <3>4. QED
      BY <2>3, <3>1, <3>3 DEF bit
  <2>12. x % 16 = a \div 16 /\ y \div 2 = a % 16
    BY <1>2, <1>7, <2>1, <2>2, <2>3, Parts3
  <2>13. 128 * Bit(x, 8) + 64 * Bit(x, 4) + 32 * Bit(x, 2) + 16 * Bit(x, 1)
        + 8 * Bit(y, 16) + 4 * Bit(y, 8) + 2 * Bit(y, 4) + Bit(y, 2) = a
    <3>1. PutTogether(a, x, y, y)
      BY ByteOfParts
    <3>2. QED
      BY <2>12, <3>1, Zenon DEF PutTogether
  <2>14. QED
    BY <1>3, <2>1, <2>4, <2>5, <2>6, <2>7, <2>8, <2>9, <2>10, <2>11, <2>13
<1>8. CASE r = 4
  <2>1. PICK a \in 0 .. 255 : a = in[k]
    BY <1>1
  <2>2. PICK x \in Symbols : x = p[8 * q + 5] /\ x = convert_bits(in)[8 * q + 5]
    <3>1. 5 * (8 * q + 5) <= 8 * n + 4 /\ 5 \in 1 .. 8
      BY <1>1, <1>2, <1>8
    <3>2. QED
      BY <1>4, <3>1
  <2>3. PICK y \in Symbols : y = p[8 * q + 6] /\ y = convert_bits(in)[8 * q + 6]
    <3>1. 5 * (8 * q + 6) <= 8 * n + 4 /\ 6 \in 1 .. 8
      BY <1>1, <1>2, <1>8
    <3>2. QED
      BY <1>4, <3>1
  <2>4. PICK z \in Symbols : z = p[8 * q + 7] /\ z = convert_bits(in)[8 * q + 7]
    <3>1. 5 * (8 * q + 7) <= 8 * n + 4 /\ 7 \in 1 .. 8
      BY <1>1, <1>2, <1>8
    <3>2. QED
      BY <1>4, <3>1
  <2>5. bit(0) = Bit(x, 1)
    <3>1. PICK i \in Nat : i = 8 * (k - 1) + 0
      OBVIOUS
    <3>2. i \div 5 + 1 = 8 * q + 5 /\ i % 5 = 4
      BY <1>2, <1>8, <3>1
    <3>3. BitOf(p, 5, i) = Bit(p[8 * q + 5], 1)
      BY <3>2, BitOfSymbol
    <3>4. QED
      BY <2>2, <3>1, <3>3 DEF bit
  <2>6. bit(1) = Bit(y, 16)
    <3>1. PICK i \in Nat : i = 8 * (k - 1) + 1
      OBVIOUS
    <3>2. i \div 5 + 1 = 8 * q + 6 /\ i % 5 = 0
      BY <1>2, <1>8, <3>1
    <3>3. BitOf(p, 5, i) = Bit(p[8 * q + 6], 16)
      BY <3>2, BitOfSymbol
    <3>4. QED
      BY <2>3, <3>1, <3>3 DEF bit
  <2>7. bit(2) = Bit(y, 8)
    <3>1. PICK i \in Nat : i = 8 * (k - 1) + 2
      OBVIOUS
    <3>2. i \div 5 + 1 = 8 * q + 6 /\ i % 5 = 1
      BY <1>2, <1>8, <3>1
    <3>3. BitOf(p, 5, i) = Bit(p[8 * q + 6], 8)
      BY <3>2, BitOfSymbol
    <3>4. QED
      BY <2>3, <3>1, <3>3 DEF bit
  <2>8. bit(3) = Bit(y, 4)
    <3>1. PICK i \in Nat : i = 8 * (k - 1) + 3
      OBVIOUS
    <3>2. i \div 5 + 1 = 8 * q + 6 /\ i % 5 = 2
      BY <1>2, <1>8, <3>1
    <3>3. BitOf(p, 5, i) = Bit(p[8 * q + 6], 4)
      BY <3>2, BitOfSymbol
    <3>4. QED
      BY <2>3, <3>1, <3>3 DEF bit
  <2>9. bit(4) = Bit(y, 2)
    <3>1. PICK i \in Nat : i = 8 * (k - 1) + 4
      OBVIOUS
    <3>2. i \div 5 + 1 = 8 * q + 6 /\ i % 5 = 3
      BY <1>2, <1>8, <3>1
    <3>3. BitOf(p, 5, i) = Bit(p[8 * q + 6], 2)
      BY <3>2, BitOfSymbol
    <3>4. QED
      BY <2>3, <3>1, <3>3 DEF bit
  <2>10. bit(5) = Bit(y, 1)
    <3>1. PICK i \in Nat : i = 8 * (k - 1) + 5
      OBVIOUS
    <3>2. i \div 5 + 1 = 8 * q + 6 /\ i % 5 = 4
      BY <1>2, <1>8, <3>1
    <3>3. BitOf(p, 5, i) = Bit(p[8 * q + 6], 1)
      BY <3>2, BitOfSymbol
    <3>4. QED
      BY <2>3, <3>1, <3>3 DEF bit
  <2>11. bit(6) = Bit(z, 16)
    <3>1. PICK i \in Nat : i = 8 * (k - 1) + 6
      OBVIOUS
    <3>2. i \div 5 + 1 = 8 * q + 7 /\ i % 5 = 0
      BY <1>2, <1>8, <3>1
    <3>3. BitOf(p, 5, i) = Bit(p[8 * q + 7], 16)
      BY <3>2, BitOfSymbol
    <3>4. QED
      BY <2>4, <3>1, <3>3 DEF bit
  <2>12. bit(7) = Bit(z, 8)
    <3>1. PICK i \in Nat : i = 8 * (k - 1) + 7
      OBVIOUS
    <3>2. i \div 5 + 1 = 8 * q + 7 /\ i % 5 = 1
      BY <1>2, <1>8, <3>1
    <3>3. BitOf(p, 5, i) = Bit(p[8 * q + 7], 8)
      BY <3>2, BitOfSymbol
    <3>4. QED
      BY <2>4, <3>1, <3>3 DEF bit
  <2>13. x % 2 = a \div 128 /\ y = (a \div 4) % 32 /\ z \div 8 = a % 4
    BY <1>2, <1>8, <2>1, <2>2, <2>3, <2>4, Parts4
  <2>14. 128 * Bit(x, 1) + 64 * Bit(y, 16) + 32 * Bit(y, 8) + 16 * Bit(y, 4)
        + 8 * Bit(y, 2) + 4 * Bit(y, 1) + 2 * Bit(z, 16) + Bit(z, 8) = a
    <3>1. PutTogether(a, x, y, z)
      BY ByteOfParts
    <3>2. QED
      BY <2>13, <3>1, Zenon DEF PutTogether
  <2>15. QED
    BY <1>3, <2>1, <2>5, <2>6, <2>7, <2>8, <2>9, <2>10, <2>11, <2>12, <2>14
<1>9. CASE r = 5
  <2>1. PICK a \in 0 .. 255 : a = in[k]
    BY <1>1
  <2>2. PICK x \in Symbols : x = p[8 * q + 7] /\ x = convert_bits(in)[8 * q + 7]
    <3>1. 5 * (8 * q + 7) <= 8 * n + 4 /\ 7 \in 1 .. 8
      BY <1>1, <1>2, <1>9
    <3>2. QED
      BY <1>4, <3>1
  <2>3. PICK y \in Symbols : y = p[8 * q + 8] /\ y = convert_bits(in)[8 * q + 8]
    <3>1. 5 * (8 * q + 8) <= 8 * n + 4 /\ 8 \in 1 .. 8
      BY <1>1, <1>2, <1>9
    <3>2. QED
      BY <1>4, <3>1
  <2>4. bit(0) = Bit(x, 4)
    <3>1. PICK i \in Nat : i = 8 * (k - 1) + 0
      OBVIOUS
    <3>2. i \div 5 + 1 = 8 * q + 7 /\ i % 5 = 2
      BY <1>2, <1>9, <3>1
    <3>3. BitOf(p, 5, i) = Bit(p[8 * q + 7], 4)
      BY <3>2, BitOfSymbol
    <3>4. QED
      BY <2>2, <3>1, <3>3 DEF bit
  <2>5. bit(1) = Bit(x, 2)
    <3>1. PICK i \in Nat : i = 8 * (k - 1) + 1
      OBVIOUS
    <3>2. i \div 5 + 1 = 8 * q + 7 /\ i % 5 = 3
      BY <1>2, <1>9, <3>1
    <3>3. BitOf(p, 5, i) = Bit(p[8 * q + 7], 2)
      BY <3>2, BitOfSymbol
    <3>4. QED
      BY <2>2, <3>1, <3>3 DEF bit
  <2>6. bit(2) = Bit(x, 1)
    <3>1. PICK i \in Nat : i = 8 * (k - 1) + 2
      OBVIOUS
    <3>2. i \div 5 + 1 = 8 * q + 7 /\ i % 5 = 4
      BY <1>2, <1>9, <3>1
    <3>3. BitOf(p, 5, i) = Bit(p[8 * q + 7], 1)
      BY <3>2, BitOfSymbol
    <3>4. QED
      BY <2>2, <3>1, <3>3 DEF bit
  <2>7. bit(3) = Bit(y, 16)
    <3>1. PICK i \in Nat : i = 8 * (k - 1) + 3
      OBVIOUS
    <3>2. i \div 5 + 1 = 8 * q + 8 /\ i % 5 = 0
      BY <1>2, <1>9, <3>1
    <3>3. BitOf(p, 5, i) = Bit(p[8 * q + 8], 16)
      BY <3>2, BitOfSymbol
    <3>4. QED
      BY <2>3, <3>1, <3>3 DEF bit
  <2>8. bit(4) = Bit(y, 8)
    <3>1. PICK i \in Nat : i = 8 * (k - 1) + 4
      OBVIOUS
    <3>2. i \div 5 + 1 = 8 * q + 8 /\ i % 5 = 1
      BY <1>2, <1>9, <3>1
    <3>3. BitOf(p, 5, i) = Bit(p[8 * q + 8], 8)
      BY <3>2, BitOfSymbol
    <3>4. QED
      BY <2>3, <3>1, <3>3 DEF bit
  <2>9. bit(5) = Bit(y, 4)
    <3>1. PICK i \in Nat : i = 8 * (k - 1) + 5
      OBVIOUS
    <3>2. i \div 5 + 1 = 8 * q + 8 /\ i % 5 = 2
      BY <1>2, <1>9, <3>1
    <3>3. BitOf(p, 5, i) = Bit(p[8 * q + 8], 4)
      BY <3>2, BitOfSymbol
    <3>4. QED
      BY <2>3, <3>1, <3>3 DEF bit
  <2>10. bit(6) = Bit(y, 2)
    <3>1. PICK i \in Nat : i = 8 * (k - 1) + 6
      OBVIOUS
    <3>2. i \div 5 + 1 = 8 * q + 8 /\ i % 5 = 3
      BY <1>2, <1>9, <3>1
    <3>3. BitOf(p, 5, i) = Bit(p[8 * q + 8], 2)
      BY <3>2, BitOfSymbol
    <3>4. QED
      BY <2>3, <3>1, <3>3 DEF bit
  <2>11. bit(7) = Bit(y, 1)
    <3>1. PICK i \in Nat : i = 8 * (k - 1) + 7
      OBVIOUS
    <3>2. i \div 5 + 1 = 8 * q + 8 /\ i % 5 = 4
      BY <1>2, <1>9, <3>1
    <3>3. BitOf(p, 5, i) = Bit(p[8 * q + 8], 1)
      BY <3>2, BitOfSymbol
    <3>4. QED
      BY <2>3, <3>1, <3>3 DEF bit
  <2>12. x % 8 = a \div 32 /\ y = a % 32
    BY <1>2, <1>9, <2>1, <2>2, <2>3, Parts5
  <2>13. 128 * Bit(x, 4) + 64 * Bit(x, 2) + 32 * Bit(x, 1) + 16 * Bit(y, 16)
        + 8 * Bit(y, 8) + 4 * Bit(y, 4) + 2 * Bit(y, 2) + Bit(y, 1) = a
    <3>1. PutTogether(a, x, y, y)
      BY ByteOfParts
    <3>2. QED
      BY <2>12, <3>1, Zenon DEF PutTogether
  <2>14. QED
    BY <1>3, <2>1, <2>4, <2>5, <2>6, <2>7, <2>8, <2>9, <2>10, <2>11, <2>13
<1>10. QED
  BY <1>2, <1>5, <1>6, <1>7, <1>8, <1>9

-----------------------------------------------------------------------------
(* Letters *)

\* No letter stands twice in the character set (cashaddr.c:32).
LEMMA LettersDiffer ==
    ASSUME NEW i \in 1 .. 32, NEW j \in 1 .. 32, charset[i] = charset[j]
    PROVE  i = j
  BY DEF charset

\* So each is read as the symbol it was written for.
LEMMA LetterOfSymbol ==
    ASSUME NEW s \in Symbols
    PROVE  SymbolOf[Letter(s)] = s
<1>1. \A t \in Symbols : Letter(t) = Letter(s) => t = s
  BY LettersDiffer DEF Symbols, Letter
<1>2. (CHOOSE k \in Symbols : Letter(k) = Letter(s)) = s
  BY <1>1
<1>3. QED
  BY <1>2 DEF SymbolOf

-----------------------------------------------------------------------------
(* Rows one after the other *)

IsRowOf(s, n, S) == s \in Seq(S) /\ n \in Nat /\ Len(s) = n

\* A row is a function.
LEMMA RowFacts ==
    ASSUME NEW S, NEW s, NEW n, IsRowOf(s, n, S)
    PROVE  s \in [1 .. n -> S] /\ \A k \in 1 .. n : s[k] \in S
  BY DEF IsRowOf

\* And such a function is a row.
LEMMA FunctionIsRow ==
    ASSUME NEW S, NEW n \in Nat, NEW s \in [1 .. n -> S]
    PROVE  IsRowOf(s, n, S)
  BY DEF IsRowOf

\* The first m of c are those of a, the n after them those of b.
Joins(c, a, m, b, n) ==
    /\ \A k \in 1 .. m : c[k] = a[k]
    /\ \A k \in 1 .. n : c[m + k] = b[k]

\* Rows joined are a row.
LEMMA JoinedRows ==
    ASSUME NEW S, NEW a, NEW m, IsRowOf(a, m, S), NEW b, NEW n, IsRowOf(b, n, S)
    PROVE  IsRowOf(a \o b, m + n, S) /\ Joins(a \o b, a, m, b, n)
  BY DEF IsRowOf, Joins

\* c is n of a, after the first i.
Cuts(c, a, i, n) == \A k \in 1 .. n : c[k] = a[i + k]

\* A part of a row is a row.
LEMMA CutRow ==
    ASSUME NEW S, NEW a, NEW m, IsRowOf(a, m, S), NEW i \in Nat, NEW n \in Nat, i + n <= m
    PROVE  IsRowOf(SubSeq(a, i + 1, i + n), n, S) /\ Cuts(SubSeq(a, i + 1, i + n), a, i, n)
  BY DEF IsRowOf, Cuts

\* Rows with the same elements are the same.
LEMMA SameRow ==
    ASSUME NEW S, NEW a, NEW b, NEW n, IsRowOf(a, n, S), IsRowOf(b, n, S),
           \A k \in 1 .. n : a[k] = b[k]
    PROVE  a = b
  BY SeqEqual DEF IsRowOf

\* A row of symbols is a word for the checksum.
LEMMA RowIsWord ==
    ASSUME NEW s, NEW n, IsRowOf(s, n, Symbols)
    PROVE  IsWord(s, n)
  BY RowFacts DEF IsRowOf, IsWord

\* The symbols of a row of bytes.
LEMMA ConvertedRow ==
    ASSUME NEW in, NEW n, IsBytes(in, n)
    PROVE  IsRowOf(convert_bits(in), (8 * n + 4) \div 5, Symbols)
<1>1. n \in Nat /\ n > 0 /\ Len(in) = n
  BY DEF IsBytes
<1> DEFINE m == (8 * n) \div 5
           S == {WholeIs(in, s) : s \in 1 .. m}
<1>2. PICK w : w = [s \in 1 .. m |-> WholeIs(in, s)]
  OBVIOUS
<1>3. PICK x : x = (Val(in, n) * 2 ^ (5 - ((8 * n) % 5))) % 32
  OBVIOUS
<1>4. convert_bits(in) = IF (8 * n) % 5 = 0 THEN w ELSE Append(w, x)
  BY <1>1, <1>2, <1>3 DEF convert_bits, WholeIs, Val
<1>5. m \in Nat
  BY <1>1
<1>6. w \in [1 .. m -> S \cup {x}]
  BY <1>2
<1> HIDE DEF m, S
<1>7. w \in Seq(S \cup {x})
  BY <1>5, <1>6
<1>8. Append(w, x) \in Seq(S \cup {x})
  BY <1>7
<1>9. convert_bits(in) \in Seq(S \cup {x})
  BY <1>4, <1>7, <1>8
<1>10. PICK k \in Nat, c \in Seq(S \cup {x}) : k = (8 * n + 4) \div 5 /\ c = convert_bits(in) /\ Len(c) = k
  BY <1>1, <1>9, ConvertedFacts
<1>11. \A s \in 1 .. k : c[s] \in Symbols
  BY <1>10, ConvertedSymbols
<1>12. c \in [1 .. k -> Symbols]
  BY <1>10, <1>11
<1>13. QED
  BY <1>10, <1>12, FunctionIsRow

\* "kaspa" and the separator
LEMMA PrefixRow ==
    \E n \in Nat : n = 6 /\ IsRowOf(Prefix \o Separator, n, Symbols)
<1>1. \E n \in Nat : n = 5 /\ IsRowOf(Prefix, n, Symbols)
  BY DEF Prefix, Symbols, IsRowOf
<1>2. \E n \in Nat : n = 1 /\ IsRowOf(Separator, n, Symbols)
  BY DEF Separator, Symbols, IsRowOf
<1>3. QED
  BY <1>1, <1>2, JoinedRows

\* A register is a row of eight symbols.
LEMMA RegisterRow ==
    ASSUME NEW c \in Registers
    PROVE  \E n \in Nat : n = 8 /\ IsRowOf(c, n, Symbols)
  BY FunctionIsRow DEF Registers

\* The register after a row is a register.
LEMMA RegisterIsRegister ==
    ASSUME NEW s, NEW n, IsRowOf(s, n, Symbols)
    PROVE  Register(s) \in Registers
<1>1. IsWord(s, n) /\ n \in 0 .. n /\ Len(s) = n
  BY RowIsWord DEF IsRowOf
<1>2. QED
  BY <1>1, AfterFacts DEF Register

\* A payload with its checksum.
LEMMA ChecksumIsRight ==
    ASSUME NEW payload, NEW m, IsRowOf(payload, m, Symbols)
    PROVE  /\ \E n \in Nat : n = 8 /\ IsRowOf(create_checksum(payload), n, Symbols)
           /\ ChecksumHolds(payload \o create_checksum(payload))
<1> PICK six \in Nat : six = 6 /\ IsRowOf(Prefix \o Separator, six, Symbols)
  BY PrefixRow
<1>1. PICK first : six = 6 /\ first = Prefix \o Separator /\ IsRowOf(first, six, Symbols)
  OBVIOUS
<1>2. PICK eight \in Nat : eight = 8 /\ IsRowOf(NoChecksum, eight, Symbols)
  BY RegisterFacts, RegisterRow DEF NoChecksum
<1>3. PICK begun : begun = first \o payload /\ IsRowOf(begun, six + m, Symbols)
                    /\ Joins(begun, first, six, payload, m)
  BY <1>1, JoinedRows
<1>4. PICK p : p = begun \o NoChecksum /\ IsRowOf(p, (six + m) + eight, Symbols)
                /\ Joins(p, begun, six + m, NoChecksum, eight)
  BY <1>2, <1>3, JoinedRows
<1>5. PICK cs : cs = create_checksum(payload) /\ cs = AddLow(Register(p), 1)
  BY <1>1, <1>3, <1>4 DEF create_checksum, PolyMod
<1>6. cs \in Registers
  BY <1>4, <1>5, RegisterIsRegister, RegisterFacts DEF Symbols
<1>7. IsRowOf(cs, eight, Symbols)
  BY <1>2, <1>6, RegisterRow
<1>8. PICK whole : whole = payload \o cs /\ IsRowOf(whole, m + eight, Symbols)
                    /\ Joins(whole, payload, m, cs, eight)
  BY <1>7, JoinedRows
<1>9. PICK q : q = first \o whole /\ IsRowOf(q, six + (m + eight), Symbols)
                /\ Joins(q, first, six, whole, m + eight)
  BY <1>1, <1>8, JoinedRows
<1>10. m \in Nat
  BY DEF IsRowOf
<1>11. PICK i \in Nat : i = six + m
  BY <1>10
<1>12. IsWord(p, i + 8) /\ IsWord(q, i + 8)
  <2>1. (six + m) + eight = i + 8 /\ six + (m + eight) = i + 8
    BY <1>2, <1>10, <1>11
  <2>2. QED
    BY <1>4, <1>9, <2>1, RowIsWord
<1>13. ASSUME NEW k \in 1 .. i PROVE p[k] = q[k]
  <2>1. p[k] = begun[k]
    BY <1>4, <1>11 DEF Joins
  <2>2. CASE k <= six
    <3>1. k \in 1 .. six
      BY <2>2
    <3>2. begun[k] = first[k]
      BY <1>3, <3>1 DEF Joins
    <3>3. q[k] = first[k]
      BY <1>9, <3>1 DEF Joins
    <3>4. QED
      BY <2>1, <3>2, <3>3
  <2>3. CASE k > six
    <3>1. PICK j \in 1 .. m : k = six + j
      BY <1>10, <1>11, <2>3
    <3>2. begun[six + j] = payload[j]
      BY <1>3 DEF Joins
    <3>3. j \in 1 .. m + eight
      BY <1>10
    <3>4. q[six + j] = whole[j]
      BY <1>9, <3>3 DEF Joins
    <3>5. whole[j] = payload[j]
      BY <1>8 DEF Joins
    <3>6. QED
      BY <2>1, <3>1, <3>2, <3>4, <3>5
  <2>4. QED
    BY <2>2, <2>3
<1>14. ASSUME NEW k \in 1 .. 8 PROVE p[i + k] = 0 /\ q[i + k] = cs[k]
  <2>1. k \in 1 .. eight /\ m + k \in 1 .. m + eight /\ six + (m + k) = i + k
    BY <1>2, <1>10, <1>11
  <2>2. p[i + k] = NoChecksum[k]
    BY <1>4, <1>11, <2>1 DEF Joins
  <2>3. NoChecksum[k] = 0
    BY DEF NoChecksum, NoTerm
  <2>4. q[six + (m + k)] = whole[m + k]
    BY <1>9, <2>1 DEF Joins
  <2>5. whole[m + k] = cs[k]
    BY <1>8, <2>1 DEF Joins
  <2>6. QED
    BY <2>1, <2>2, <2>3, <2>4, <2>5
<1>15. Register(q) = Start
  BY <1>5, <1>12, <1>13, <1>14, ChecksumComesOut
<1>16. QED
  BY <1>1, <1>2, <1>5, <1>7, <1>8, <1>9, <1>15 DEF ChecksumHolds, Start

Bytes == 0 .. 255

\* A row of bytes can be converted.
LEMMA RowIsBytes ==
    ASSUME NEW in, NEW n, IsRowOf(in, n, Bytes), n > 0
    PROVE  IsBytes(in, n)
<1>1. n \in Nat /\ Len(in) = n
  BY DEF IsRowOf
<1>2. \A k \in 1 .. n : in[k] \in 0 .. 255
  BY RowFacts DEF Bytes
<1>3. QED
  BY <1>1, <1>2 DEF IsBytes

\* The program of a payload with its checksum is what was converted.
LEMMA ProgramReadsBack ==
    ASSUME NEW in, NEW n, IsRowOf(in, n, Bytes), n > 0
    PROVE  LET payload == convert_bits(in) IN
           Program(payload \o create_checksum(payload)) = in
<1>1. IsBytes(in, n) /\ n \in Nat
  BY RowIsBytes DEF IsRowOf
<1>2. PICK m \in Nat : m = (8 * n + 4) \div 5
  BY <1>1
<1>3. PICK payload : payload = convert_bits(in) /\ IsRowOf(payload, m, Symbols)
  BY <1>1, <1>2, ConvertedRow
<1> PICK eight \in Nat : eight = 8 /\ IsRowOf(create_checksum(payload), eight, Symbols)
  BY <1>3, ChecksumIsRight
<1>4. PICK cs : eight = 8 /\ cs = create_checksum(payload) /\ IsRowOf(cs, eight, Symbols)
  OBVIOUS
<1>5. PICK whole : /\ whole = payload \o cs /\ IsRowOf(whole, m + eight, Symbols)
                   /\ Joins(whole, payload, m, cs, eight)
  BY <1>3, <1>4, JoinedRows
<1>6. PICK zero \in Nat : zero = 0
  OBVIOUS
<1>7. PICK cut : /\ cut = SubSeq(whole, zero + 1, zero + m) /\ IsRowOf(cut, m, Symbols)
                 /\ Cuts(cut, whole, zero, m)
  <2>1. zero + m <= m + eight
    BY <1>2, <1>4, <1>6
  <2>2. QED
    BY <1>2, <1>5, <2>1, CutRow
<1>8. Len(whole) - 8 = m /\ Len(cut) = m
  BY <1>4, <1>5, <1>7 DEF IsRowOf
<1>9. Payload(whole) = cut
  <2>1. zero + 1 = 1 /\ zero + m = m
    BY <1>2, <1>6
  <2>2. QED
    BY <1>7, <1>8, <2>1 DEF Payload
<1>10. Program(whole) = [k \in 1 .. n |-> ByteAt(cut, k)]
  <2>1. (5 * m) \div 8 = n
    BY <1>1, <1>2
  <2>2. QED
    BY <1>8, <1>9, <2>1 DEF Program
<1>11. ASSUME NEW k \in 1 .. m PROVE cut[k] = payload[k]
  <2>1. cut[k] = whole[zero + k] /\ zero + k = k
    BY <1>6, <1>7 DEF Cuts
  <2>2. whole[k] = payload[k]
    BY <1>5 DEF Joins
  <2>3. QED
    BY <2>1, <2>2
<1>12. ASSUME NEW k \in 1 .. n PROVE ByteAt(cut, k) = in[k]
  BY <1>1, <1>2, <1>3, <1>11, ByteComesBack
<1>13. in = [k \in 1 .. n |-> in[k]]
  BY RowFacts
<1>14. Program(whole) = in
  BY <1>10, <1>12, <1>13
<1>15. QED
  BY <1>3, <1>4, <1>5, <1>14

-----------------------------------------------------------------------------
(* The text *)

Letters == {Letter(s) : s \in Symbols} \cup {"k", "a", "s", "p", ":"}
PrefixText == <<"k", "a", "s", "p", "a", ":">>

\* The text of a row of n symbols: six letters, and then theirs.
IsTextOf(text, symbols, n) ==
    /\ IsRowOf(symbols, n, Symbols)
    /\ IsRowOf(text, n + 6, Letters)
    /\ \A k \in 1 .. n : text[k + 6] = Letter(symbols[k])

\* A wallet reads the symbols from the letters.
LEMMA TextIsRead ==
    ASSUME NEW text, NEW symbols, NEW n, IsTextOf(text, symbols, n)
    PROVE  Read(text) = symbols
<1>1. n \in Nat /\ Len(text) - 6 = n
  BY DEF IsTextOf, IsRowOf
<1>2. Read(text) = [k \in 1 .. n |-> SymbolOf[text[k + 6]]]
  BY <1>1 DEF Read
<1>3. \A k \in 1 .. n : SymbolOf[text[k + 6]] = symbols[k]
  BY RowFacts, LetterOfSymbol DEF IsTextOf
<1>4. symbols = [k \in 1 .. n |-> symbols[k]]
  BY RowFacts DEF IsTextOf
<1>5. QED
  BY <1>2, <1>3, <1>4

\* The prefix is six letters.
LEMMA PrefixTextRow ==
    \E n \in Nat : n = 6 /\ IsRowOf(PrefixText, n, Letters)
  BY DEF PrefixText, Letters, IsRowOf

\* Nothing is cut off a text that fits.
LEMMA FitsWhole ==
    ASSUME NEW S, NEW text, NEW n, IsRowOf(text, n, S)
    PROVE  Fit(text, n) = text
<1>1. n \in Nat /\ Len(text) = n /\ text \in Seq(S)
  BY DEF IsRowOf
<1>2. Fit(text, n) = SubSeq(text, 1, n)
  BY <1>1 DEF Fit
<1>3. SubSeq(text, 1, n) = text
  BY <1>1
<1>4. QED
  BY <1>2, <1>3

\* What address_from_pubkey leaves in the buffer (address.c:61-109).
LEMMA EncodedText ==
    ASSUME NEW hash, NEW n, NEW version \in Versions,
           IsRowOf(<<version>> \o hash, n, Bytes), n > 0,
           NEW room, room = (8 * n + 4) \div 5 + 14
    PROVE  \E symbols, m :
              /\ IsTextOf(Fit(PrefixText \o cashaddr_encode(hash, version, room), room), symbols, m)
              /\ m \in Nat \ {0}
              /\ ChecksumHolds(symbols)
              /\ Program(symbols) = <<version>> \o hash
<1>1. PICK in : in = <<version>> \o hash
  OBVIOUS
<1>2. n \in Nat /\ IsBytes(in, n) /\ IsRowOf(in, n, Bytes)
  BY <1>1, RowIsBytes DEF IsRowOf
<1>3. PICK i \in Nat : i = (8 * n + 4) \div 5
  BY <1>2
<1>4. PICK payload : payload = convert_bits(in) /\ IsRowOf(payload, i, Symbols)
  BY <1>2, <1>3, ConvertedRow
<1> PICK eight \in Nat : eight = 8 /\ IsRowOf(create_checksum(payload), eight, Symbols)
  BY <1>4, ChecksumIsRight
<1>5. PICK cs : eight = 8 /\ cs = create_checksum(payload) /\ IsRowOf(cs, eight, Symbols)
  OBVIOUS
<1>6. PICK whole : whole = payload \o cs /\ IsRowOf(whole, i + eight, Symbols)
  BY <1>4, <1>5, JoinedRows
<1>7. PICK m \in Nat \ {0} : m = i + eight
  BY <1>5
<1>8. ChecksumHolds(whole) /\ Program(whole) = in
  BY <1>2, <1>4, <1>5, <1>6, ChecksumIsRight, ProgramReadsBack
<1>9. IsRowOf(whole, m, Symbols) /\ Len(whole) = m /\ DOMAIN whole = 1 .. m
  BY <1>6, <1>7 DEF IsRowOf
<1>10. PICK code : code = [k \in 1 .. m |-> Letter(whole[k])]
  OBVIOUS
<1>11. cashaddr_encode(hash, version, room) = code
  <2>1. Len(whole) <= room
    BY <1>3, <1>5, <1>7, <1>9
  <2>2. whole = convert_bits(<<version>> \o hash) \o create_checksum(convert_bits(<<version>> \o hash))
    BY <1>1, <1>4, <1>5, <1>6, Zenon
  <2>3. cashaddr_encode(hash, version, room) = [k \in DOMAIN whole |-> Letter(whole[k])]
    BY <2>1, <2>2, Zenon DEF cashaddr_encode
  <2>4. QED
    BY <1>9, <1>10, <2>3
<1>12. IsRowOf(code, m, Letters)
  <2>1. \A k \in 1 .. m : whole[k] \in Symbols
    BY <1>9, RowFacts
  <2>2. code \in [1 .. m -> Letters]
    BY <1>10, <2>1 DEF Letters
  <2>3. QED
    BY <2>2, FunctionIsRow
<1>13. PICK six \in Nat : six = 6 /\ IsRowOf(PrefixText, six, Letters)
  BY PrefixTextRow
<1>14. PICK text : /\ text = PrefixText \o code /\ IsRowOf(text, six + m, Letters)
                   /\ Joins(text, PrefixText, six, code, m)
  BY <1>12, <1>13, JoinedRows
<1>15. six + m = room /\ m + 6 = room
  BY <1>3, <1>5, <1>7, <1>13
<1>16. Fit(text, room) = text
  BY <1>14, <1>15, FitsWhole
<1>17. IsTextOf(text, whole, m)
  <2>1. ASSUME NEW k \in 1 .. m PROVE text[k + 6] = Letter(whole[k])
    <3>1. text[six + k] = code[k]
      BY <1>14 DEF Joins
    <3>2. six + k = k + 6
      BY <1>7, <1>13
    <3>3. QED
      BY <1>10, <3>1, <3>2
  <2>2. QED
    BY <1>9, <1>14, <1>15, <2>1 DEF IsTextOf
<1>18. QED
  <2>1. text = PrefixText \o cashaddr_encode(hash, version, room)
    BY <1>11, <1>14
  <2>2. Program(whole) = <<version>> \o hash
    BY <1>1, <1>8
  <2>3. IsTextOf(Fit(PrefixText \o cashaddr_encode(hash, version, room), room), whole, m)
    BY <1>16, <1>17, <2>1
  <2>4. QED
    BY <1>7, <1>8, <2>2, <2>3, Zenon

-----------------------------------------------------------------------------
(* The address of a key *)

Types == {"SCHNORR", "ECDSA", "P2SH"}

\* One byte is a row.
LEMMA OneByteRow ==
    ASSUME NEW b \in Bytes
    PROVE  \E n \in Nat : n = 1 /\ IsRowOf(<<b>>, n, Bytes)
  BY DEF IsRowOf

\* The coordinate of a key, or a script hash.
IsKey(x) == x \in [1 .. 32 -> 0 .. 255]

\* It is a row of 32 bytes.
LEMMA KeyRow ==
    ASSUME NEW x, IsKey(x)
    PROVE  \E n \in Nat : n = 32 /\ IsRowOf(x, n, Bytes)
<1>1. PICK n \in Nat : n = 32
  OBVIOUS
<1>2. x \in [1 .. n -> Bytes]
  BY <1>1 DEF IsKey, Bytes
<1>3. QED
  BY <1>1, <1>2, FunctionIsRow

\* compress_public_key (address.c:34-59)
LEMMA CompressedRow ==
    ASSUME NEW x, IsKey(x), NEW y \in 0 .. 255, NEW type \in Types
    PROVE  \E n \in Nat : /\ n = IF type = "ECDSA" THEN 33 ELSE 32
                          /\ IsRowOf(compress_public_key([x |-> x, y |-> y], type), n, Bytes)
<1>1. PICK n \in Nat : n = 32 /\ IsRowOf(x, n, Bytes)
  BY KeyRow
<1>2. CASE type # "ECDSA"
  BY <1>1, <1>2 DEF compress_public_key
<1>3. CASE type = "ECDSA"
  <2>1. PICK b \in Bytes : compress_public_key([x |-> x, y |-> y], type) = <<b>> \o x
    <3>1. PICK b \in Bytes : b = IF y % 2 = 0 THEN 2 ELSE 3
      BY DEF Bytes
    <3>2. QED
      BY <1>3, <3>1 DEF compress_public_key
  <2>2. PICK one \in Nat : one = 1 /\ IsRowOf(<<b>>, one, Bytes)
    BY OneByteRow
  <2>3. IsRowOf(<<b>> \o x, one + n, Bytes)
    BY <1>1, <2>2, JoinedRows
  <2>4. one + n = 33 /\ one + n \in Nat
    BY <1>1, <2>2
  <2>5. QED
    BY <1>3, <2>1, <2>3, <2>4
<1>4. QED
  BY <1>2, <1>3

\* A text that a wallet reads as this program.
Encodes(text, program) ==
    \E symbols, m : /\ IsTextOf(text, symbols, m)
                    /\ m \in Nat \ {0}
                    /\ ChecksumHolds(symbols)
                    /\ Program(symbols) = program

\* address_from_pubkey, where there is room enough (address.c:61-109).
LEMMA KeyText ==
    ASSUME NEW x, IsKey(x), NEW y \in 0 .. 255, NEW type \in Types,
           NEW room \in Nat, room >= AddressLen(type)
    PROVE  Encodes(address_from_pubkey([x |-> x, y |-> y], type, room),
                   <<Version(type)>> \o compress_public_key([x |-> x, y |-> y], type))
<1>1. PICK key : key = compress_public_key([x |-> x, y |-> y], type)
  OBVIOUS
<1> PICK n \in Nat : n = (IF type = "ECDSA" THEN 33 ELSE 32) /\ IsRowOf(key, n, Bytes)
  BY <1>1, CompressedRow, Zenon
<1>2. PICK v \in Versions : v = Version(type)
  BY DEF Types, Version, Versions
<1> v \in Bytes
  BY DEF Versions, Bytes
<1>3. PICK one \in Nat : one = 1 /\ IsRowOf(<<v>>, one, Bytes)
  BY OneByteRow
<1>4. IsRowOf(<<v>> \o key, one + n, Bytes) /\ one + n > 0
  BY <1>1, <1>3, JoinedRows
<1>5. AddressLen(type) = (8 * (one + n) + 4) \div 5 + 14
  <2>1. CASE type = "ECDSA"
    BY <1>1, <1>3, <2>1 DEF AddressLen, ECDSA_ADDRESS_LEN
  <2>2. CASE type # "ECDSA"
    BY <1>1, <1>3, <2>2 DEF AddressLen, SCHNORR_ADDRESS_LEN
  <2>3. QED
    BY <2>1, <2>2
<1>6. Encodes(Fit(PrefixText \o cashaddr_encode(key, v, AddressLen(type)), AddressLen(type)),
              <<v>> \o key)
  BY <1>4, <1>5, EncodedText DEF Encodes
<1>7. ~(room < AddressLen(type))
  BY DEF AddressLen, ECDSA_ADDRESS_LEN, SCHNORR_ADDRESS_LEN
<1>8. address_from_pubkey([x |-> x, y |-> y], type, room) =
        Fit(PrefixText \o cashaddr_encode(key, v, AddressLen(type)), AddressLen(type))
  BY <1>1, <1>2, <1>7, Zenon DEF address_from_pubkey, PrefixText
<1>9. QED
  BY <1>1, <1>2, <1>6, <1>8, Zenon

-----------------------------------------------------------------------------
(* The script a program stands for *)

\* The version and the key of a program.
LEMMA ProgramParts ==
    ASSUME NEW v \in Bytes, NEW key, NEW n, IsRowOf(key, n, Bytes)
    PROVE  (<<v>> \o key)[1] = v /\ Tail(<<v>> \o key) = key
<1>1. PICK one \in Nat : one = 1 /\ IsRowOf(<<v>>, one, Bytes)
  BY OneByteRow
<1>2. PICK program : /\ program = <<v>> \o key /\ IsRowOf(program, one + n, Bytes)
                     /\ Joins(program, <<v>>, one, key, n)
  BY <1>1, JoinedRows
<1>3. program[1] = v
  BY <1>1, <1>2 DEF Joins
<1>4. /\ program \in Seq(Bytes) /\ program # <<>> /\ n \in Nat
      /\ Len(program) = one + n
  BY <1>1, <1>2 DEF IsRowOf
<1>5. PICK tail : tail = Tail(program)
  OBVIOUS
<1>6. /\ tail \in Seq(Bytes) /\ Len(tail) = n
      /\ \A k \in 1 .. n : tail[k] = program[k + 1]
  BY <1>1, <1>4, <1>5, HeadTailProperties
<1>7. \A k \in 1 .. n : program[one + k] = key[k]
  BY <1>2 DEF Joins
<1>8. ASSUME NEW k \in 1 .. n PROVE tail[k] = key[k]
  <2>1. one + k = k + 1
    BY <1>1
  <2>2. QED
    BY <1>6, <1>7, <2>1
<1>9. tail = key
  <2>1. IsRowOf(tail, n, Bytes)
    BY <1>4, <1>6 DEF IsRowOf
  <2>2. QED
    BY <1>8, <2>1, SameRow
<1>10. QED
  BY <1>2, <1>3, <1>5, <1>9

\* In which order rows are joined does not matter.
LEMMA RowsAssociate ==
    ASSUME NEW S, NEW a, NEW m, IsRowOf(a, m, S), NEW b, NEW n, IsRowOf(b, n, S),
           NEW c, NEW p, IsRowOf(c, p, S)
    PROVE  (a \o b) \o c = a \o (b \o c)
<1>1. m \in Nat /\ n \in Nat /\ p \in Nat
  BY DEF IsRowOf
<1>2. PICK ab : ab = a \o b /\ IsRowOf(ab, m + n, S) /\ Joins(ab, a, m, b, n)
  BY JoinedRows
<1>3. PICK bc : bc = b \o c /\ IsRowOf(bc, n + p, S) /\ Joins(bc, b, n, c, p)
  BY JoinedRows
<1>4. PICK l : l = ab \o c /\ IsRowOf(l, (m + n) + p, S) /\ Joins(l, ab, m + n, c, p)
  BY <1>2, JoinedRows
<1>5. PICK r : r = a \o bc /\ IsRowOf(r, m + (n + p), S) /\ Joins(r, a, m, bc, n + p)
  BY <1>3, JoinedRows
<1>6. ASSUME NEW k \in 1 .. (m + n) + p PROVE l[k] = r[k]
  <2>1. CASE k <= m
    <3>1. k \in 1 .. m /\ k \in 1 .. m + n
      BY <1>1, <2>1
    <3>2. QED
      BY <1>2, <1>4, <1>5, <3>1 DEF Joins
  <2>2. CASE k > m /\ k <= m + n
    <3>1. PICK j \in 1 .. n : k = m + j /\ k \in 1 .. m + n /\ j \in 1 .. n + p
      BY <1>1, <2>2
    <3>2. l[k] = ab[m + j] /\ r[m + j] = bc[j]
      BY <1>4, <1>5, <3>1 DEF Joins
    <3>3. ab[m + j] = b[j] /\ bc[j] = b[j]
      BY <1>2, <1>3, <3>1 DEF Joins
    <3>4. QED
      BY <3>1, <3>2, <3>3
  <2>3. CASE k > m + n
    <3>1. PICK j \in 1 .. p : k = (m + n) + j /\ k = m + (n + j) /\ n + j \in 1 .. n + p
      BY <1>1, <2>3
    <3>2. l[(m + n) + j] = c[j] /\ r[m + (n + j)] = bc[n + j]
      BY <1>4, <1>5, <3>1 DEF Joins
    <3>3. bc[n + j] = c[j]
      BY <1>3, <3>1 DEF Joins
    <3>4. QED
      BY <3>1, <3>2, <3>3
  <2>4. QED
    BY <1>1, <2>1, <2>2, <2>3
<1>7. (m + n) + p = m + (n + p)
  BY <1>1
<1>8. l = r
  BY <1>4, <1>5, <1>6, <1>7, SameRow
<1>9. QED
  BY <1>2, <1>3, <1>4, <1>5, <1>8, Zenon

\* Two bytes, one after the other.
LEMMA TwoBytes ==
    ASSUME NEW a \in Nat, NEW b \in Nat
    PROVE  <<a>> \o <<b>> = <<a, b>>
<1>1. PICK one \in Nat : one = 1 /\ IsRowOf(<<a>>, one, Nat) /\ IsRowOf(<<b>>, one, Nat)
  BY DEF IsRowOf
<1>2. PICK two \in Nat : two = 2 /\ two = one + one /\ IsRowOf(<<a, b>>, two, Nat)
  BY <1>1 DEF IsRowOf
<1>3. PICK c : c = <<a>> \o <<b>> /\ IsRowOf(c, two, Nat) /\ Joins(c, <<a>>, one, <<b>>, one)
  BY <1>1, <1>2, JoinedRows
<1>4. c[1] = a /\ c[2] = b
  <2>1. c[one] = <<a>>[1] /\ c[one + one] = <<b>>[1]
    BY <1>1, <1>3 DEF Joins
  <2>2. QED
    BY <1>1, <1>2, <2>1
<1>5. <<a, b>>[1] = a /\ <<a, b>>[2] = b
  OBVIOUS
<1>6. PICK d : d = <<a, b>> /\ d[1] = a /\ d[2] = b
  BY <1>5, Zenon
<1>7. \A k \in 1 .. two : c[k] = d[k]
  BY <1>2, <1>4, <1>6
<1>8. QED
  BY <1>2, <1>3, <1>6, <1>7, SameRow

\* One byte after the other, or two at once.
GoInFront(a, b, c) == <<a>> \o (<<b>> \o c) = <<a, b>> \o c

\* Both ways of writing it agree.
LEMMA TwoInFront ==
    ASSUME NEW a \in Bytes, NEW b \in Bytes, NEW c, \E n \in Nat : IsRowOf(c, n, Bytes)
    PROVE  GoInFront(a, b, c)
<1>1. PICK p : p = <<a>> /\ \E n \in Nat : IsRowOf(p, n, Bytes)
  BY OneByteRow
<1>2. PICK q : q = <<b>> /\ \E n \in Nat : IsRowOf(q, n, Bytes)
  BY OneByteRow
<1>3. (p \o q) \o c = p \o (q \o c)
  BY <1>1, <1>2, RowsAssociate
<1>4. <<a>> \o <<b>> = <<a, b>>
  BY TwoBytes DEF Bytes
<1>5. QED
  BY <1>1, <1>2, <1>3, <1>4, Zenon DEF GoInFront

\* A wallet pays the key of a program to its script.
LEMMA PaysToScript ==
    ASSUME NEW x, IsKey(x), NEW y \in 0 .. 255, NEW type \in Types,
           type = "ECDSA" => y \in {2, 3}
    PROVE  PaysTo(<<Version(type)>> \o compress_public_key([x |-> x, y |-> y], type)) =
              ScriptOf(x, y, type)
<1>1. PICK key : key = compress_public_key([x |-> x, y |-> y], type)
  OBVIOUS
<1> PICK n \in Nat : IsRowOf(key, n, Bytes)
  BY <1>1, CompressedRow, Zenon
<1>2. PICK v \in Versions : v = Version(type)
  BY DEF Types, Version, Versions
<1> v \in Bytes
  BY DEF Versions, Bytes
<1>3. PICK program : program = <<v>> \o key /\ program[1] = v /\ Tail(program) = key
  BY ProgramParts, Zenon
<1> program[1] = v
  BY <1>3, Zenon
<1>4. CASE type = "SCHNORR"
  <2>1. v = 0 /\ key = x
    BY <1>1, <1>2, <1>4 DEF Version, compress_public_key
  <2>2. PaysTo(program) = <<32>> \o x \o <<OP_CHECKSIG>>
    <3>1. program[1] = 0 /\ program[1] # 1 /\ program[1] # 8
      BY <1>2, <1>4 DEF Version
    <3>2. QED
      BY <1>3, <2>1, <3>1, Zenon DEF PaysTo
  <2>3. QED
    BY <1>1, <1>2, <1>3, <1>4, <2>2 DEF ScriptOf
<1>5. CASE type = "P2SH"
  <2>1. v = 8 /\ key = x
    BY <1>1, <1>2, <1>5 DEF Version, compress_public_key
  <2>2. PaysTo(program) = <<OP_BLAKE2B, 32>> \o x \o <<OP_EQUAL>>
    <3>1. program[1] # 0 /\ program[1] # 1 /\ program[1] = 8
      BY <1>2, <1>5 DEF Version
    <3>2. QED
      BY <1>3, <2>1, <3>1, Zenon DEF PaysTo
  <2>3. QED
    BY <1>1, <1>2, <1>3, <1>5, <2>2 DEF ScriptOf
<1>6. CASE type = "ECDSA"
  <2>1. v = 1 /\ key = <<y>> \o x
    <3>1. y = IF y % 2 = 0 THEN 2 ELSE 3
      BY <1>6
    <3>2. key = <<IF y % 2 = 0 THEN 2 ELSE 3>> \o x
      BY <1>1, <1>6 DEF compress_public_key
    <3>3. v = 1
      BY <1>2, <1>6 DEF Version
    <3>4. QED
      BY <3>1, <3>2, <3>3
  <2>2. PaysTo(program) = <<33>> \o key \o <<OP_CHECKSIGECDSA>>
    <3>1. program[1] # 0 /\ program[1] = 1 /\ program[1] # 8
      BY <1>2, <1>6 DEF Version
    <3>2. QED
      BY <1>3, <2>1, <3>1, Zenon DEF PaysTo
  <2>3. <<33>> \o (<<y>> \o x) = <<33, y>> \o x
    <3>1. 33 \in Bytes /\ y \in Bytes /\ \E len \in Nat : IsRowOf(x, len, Bytes)
      BY KeyRow DEF Bytes
    <3>2. GoInFront(33, y, x)
      BY <3>1, TwoInFront
    <3>3. QED
      BY <3>2 DEF GoInFront
  <2>4. PaysTo(program) = <<33, y>> \o x \o <<OP_CHECKSIGECDSA>>
    BY <2>1, <2>2, <2>3
  <2>5. QED
    BY <1>1, <1>2, <1>3, <1>6, <2>4 DEF ScriptOf
<1>7. QED
  BY <1>4, <1>5, <1>6 DEF Types

-----------------------------------------------------------------------------
(* The address of a script *)

\* A script in the slot of an output, whatever comes after it.
InSlot(slot, front, f, x) ==
    /\ Len(slot) \in Nat /\ Len(slot) >= 35
    /\ \A k \in 1 .. f : slot[k] = front[k]
    /\ SubSeq(slot, f + 1, f + 32) = x

\* The front and the key are where they are looked for.
LEMMA SlotParts ==
    ASSUME NEW front, NEW f \in 1 .. 2, IsRowOf(front, f, Bytes),
           NEW x, IsKey(x), NEW last \in Bytes,
           NEW stale \in {0, OP_EQUAL}
    PROVE  InSlot(Slot(front \o x \o <<last>>, stale), front, f, x)
<1> PICK script : script = front \o x \o <<last>>
  OBVIOUS
<1>1. PICK n \in Nat : n = 32 /\ IsRowOf(x, n, Bytes)
  BY KeyRow
<1>2. PICK one \in Nat : one = 1 /\ IsRowOf(<<last>>, one, Bytes)
  BY OneByteRow
<1>3. PICK begun : begun = front \o x /\ IsRowOf(begun, f + n, Bytes) /\ Joins(begun, front, f, x, n)
  BY <1>1, JoinedRows
<1>4. PICK whole : /\ whole = begun \o <<last>> /\ IsRowOf(whole, (f + n) + one, Bytes)
                   /\ Joins(whole, begun, f + n, <<last>>, one)
  BY <1>2, <1>3, JoinedRows
<1>5. script = whole
  BY <1>3, <1>4
<1>6. PICK i \in Nat : i = (f + n) + one /\ i = f + 33 /\ Len(whole) = i
  BY <1>1, <1>2, <1>4 DEF IsRowOf
<1>7. PICK r \in Nat : r = 40 - i
  BY <1>6
<1>8. PICK rest : rest = [k \in 1 .. r |-> stale] /\ IsRowOf(rest, r, Bytes)
  <2>1. PICK rest : rest = [k \in 1 .. r |-> stale]
    OBVIOUS
  <2>2. rest \in [1 .. r -> Bytes]
    BY <2>1 DEF Bytes, OP_EQUAL
  <2>3. QED
    BY <2>1, <2>2, FunctionIsRow
<1>9. PICK slot : slot = whole \o rest /\ IsRowOf(slot, i + r, Bytes) /\ Joins(slot, whole, i, rest, r)
  BY <1>4, <1>6, <1>8, JoinedRows
<1>10. Slot(script, stale) = slot
  BY <1>5, <1>6, <1>7, <1>8, <1>9 DEF Slot, SCRIPT_PUBLIC_KEY_BUFFER_LEN
<1>11. i + r = 40 /\ Len(slot) = i + r /\ Len(slot) \in Nat /\ Len(slot) >= 35
  BY <1>6, <1>7, <1>9 DEF IsRowOf
<1>12. ASSUME NEW k \in 1 .. f + n PROVE slot[k] = begun[k]
  <2>1. k \in 1 .. i
    BY <1>1, <1>6
  <2>2. slot[k] = whole[k]
    BY <1>9, <2>1 DEF Joins
  <2>3. whole[k] = begun[k]
    BY <1>4 DEF Joins
  <2>4. QED
    BY <2>2, <2>3
<1>13. ASSUME NEW k \in 1 .. f PROVE slot[k] = front[k]
  <2>1. k \in 1 .. f + n
    BY <1>1
  <2>2. begun[k] = front[k]
    BY <1>3 DEF Joins
  <2>3. QED
    BY <1>12, <2>1, <2>2
<1>14. PICK cut : cut = SubSeq(slot, f + 1, f + n) /\ IsRowOf(cut, n, Bytes) /\ Cuts(cut, slot, f, n)
  <2>1. f + n <= i + r /\ f \in Nat
    BY <1>1, <1>6, <1>7
  <2>2. QED
    BY <1>1, <1>9, <2>1, CutRow
<1>15. ASSUME NEW k \in 1 .. n PROVE cut[k] = x[k]
  <2>1. f + k \in 1 .. f + n
    BY <1>1
  <2>2. slot[f + k] = begun[f + k]
    BY <1>12, <2>1
  <2>3. begun[f + k] = x[k]
    BY <1>3 DEF Joins
  <2>4. cut[k] = slot[f + k]
    BY <1>14 DEF Cuts
  <2>5. QED
    BY <2>2, <2>3, <2>4
<1>16. cut = x
  BY <1>1, <1>14, <1>15, SameRow
<1>17. InSlot(slot, front, f, x)
  BY <1>1, <1>11, <1>13, <1>14, <1>16 DEF InSlot
<1>18. QED
  BY <1>10, <1>17, Zenon

\* What the parser lets in is the script of a key or of a hash
\* (deserialize.c:42-94).
IsScriptOf(script, x, y, type) ==
    /\ script = ScriptOf(x, y, type)
    /\ type = "ECDSA" => y \in Parities

\* Every such script has a key or a hash of its own.
LEMMA ParsedScriptIsOf ==
    ASSUME NEW script \in ParsedScripts
    PROVE  \E x \in Xs, y \in 0 .. 255, type \in Types : IsScriptOf(script, x, y, type)
<1>1. \E x \in Xs, y \in 0 .. 255, type \in Types :
         script = ScriptOf(x, y, type) /\ (type = "ECDSA" => y \in Parities)
  BY AddressAssumption DEF ParsedScripts, Types
<1>2. QED
  BY <1>1, Zenon DEF IsScriptOf

\* Two bytes are a row.
LEMMA TwoByteRow ==
    ASSUME NEW a \in Bytes, NEW b \in Bytes
    PROVE  IsRowOf(<<a, b>>, 2, Bytes) /\ <<a, b>>[1] = a /\ <<a, b>>[2] = b
  BY DEF IsRowOf, Bytes

\* script_public_key_to_address takes the key out of the script, and the type
\* from its first byte (transaction/utils.c:53-96).
IsReadAs(script, x, z, type) ==
    script_public_key_to_address(script, ECDSA_ADDRESS_LEN) =
        address_from_pubkey([x |-> x, y |-> z], type, AddressLen(type))

CanBeRead(x, y, type, stale) ==
    \E z \in 0 .. 255 : /\ IsReadAs(Slot(ScriptOf(x, y, type), stale), x, z, type)
                        /\ type = "ECDSA" => z = y

\* The address is that of the type and key found in the slot.
LEMMA KeyIsRead ==
    ASSUME NEW slot, NEW x, NEW z, NEW type \in Types,
           Len(slot) \in Nat, Len(slot) >= 35,
           ScriptType(slot) = type, ScriptKey(slot) = [x |-> x, y |-> z]
    PROVE  IsReadAs(slot, x, z, type)
<1>1. ~(Len(slot) < MinScriptLen(type) \/ ECDSA_ADDRESS_LEN < AddressLen(type))
  BY DEF MinScriptLen, AddressLen, ECDSA_ADDRESS_LEN, SCHNORR_ADDRESS_LEN
<1>2. QED
  BY <1>1, Zenon DEF script_public_key_to_address, IsReadAs

\* The type is told by the first byte (transaction/utils.c:63-83).
LEMMA FirstByteTells ==
    ASSUME NEW slot
    PROVE  /\ slot[1] = 32 => ScriptType(slot) = "SCHNORR"
           /\ slot[1] = 33 => ScriptType(slot) = "ECDSA"
           /\ slot[1] = OP_BLAKE2B => ScriptType(slot) = "P2SH"
  BY DEF ScriptType, OP_BLAKE2B

\* A script in a slot is read as the key it was made of, of either kind.
LEMMA ScriptIsRead ==
    ASSUME NEW x, IsKey(x), NEW y \in 0 .. 255, NEW type \in Types,
           NEW stale \in {0, OP_EQUAL}
    PROVE  CanBeRead(x, y, type, stale)
<1>0. 0 \in 0 .. 255 /\ 1 \in 1 .. 2 /\ 2 \in 1 .. 2
  OBVIOUS
<1> PICK slot : slot = Slot(ScriptOf(x, y, type), stale)
  OBVIOUS
<1>1. CASE type = "SCHNORR"
  <2>1. 32 \in Bytes /\ OP_CHECKSIG \in Bytes
    BY DEF Bytes, OP_CHECKSIG
  <2>2. IsRowOf(<<32>>, 1, Bytes) /\ <<32>>[1] = 32
    BY <2>1, OneByteRow
  <2>3. ScriptOf(x, y, type) = <<32>> \o x \o <<OP_CHECKSIG>>
    BY <1>1 DEF ScriptOf
  <2>4. InSlot(slot, <<32>>, 1, x)
    BY <1>0, <2>1, <2>2, <2>3, SlotParts, Zenon
  <2>5. Len(slot) \in Nat /\ Len(slot) >= 35 /\ slot[1] = 32 /\ SubSeq(slot, 2, 33) = x
    BY <2>2, <2>4 DEF InSlot
  <2>6. ScriptType(slot) = type
    BY <1>1, <2>5, FirstByteTells
  <2>7. ScriptKey(slot) = [x |-> x, y |-> 0]
    <3>1. KeyAt(type) = 2 /\ KeyAt(type) + 31 = 33 /\ type # "ECDSA"
      BY <1>1 DEF KeyAt
    <3>2. QED
      BY <2>5, <2>6, <3>1, Zenon DEF ScriptKey
  <2>8. IsReadAs(slot, x, 0, type)
    BY <2>5, <2>6, <2>7, KeyIsRead, Zenon
  <2>9. type # "ECDSA"
    BY <1>1
  <2>10. QED
    BY <1>0, <2>8, <2>9, Zenon DEF CanBeRead
<1>2. CASE type = "ECDSA"
  <2>1. 33 \in Bytes /\ y \in Bytes /\ OP_CHECKSIGECDSA \in Bytes
    BY DEF Bytes, OP_CHECKSIGECDSA
  <2>2. IsRowOf(<<33, y>>, 2, Bytes) /\ <<33, y>>[1] = 33 /\ <<33, y>>[2] = y
    BY <2>1, TwoByteRow, Zenon
  <2>3. ScriptOf(x, y, type) = <<33, y>> \o x \o <<OP_CHECKSIGECDSA>>
    BY <1>2 DEF ScriptOf
  <2>4. InSlot(slot, <<33, y>>, 2, x)
    BY <1>0, <2>1, <2>2, <2>3, SlotParts, Zenon
  <2>5. Len(slot) \in Nat /\ Len(slot) >= 35 /\ slot[1] = 33 /\ slot[2] = y /\ SubSeq(slot, 3, 34) = x
    BY <2>2, <2>4 DEF InSlot
  <2>6. ScriptType(slot) = type
    BY <1>2, <2>5, FirstByteTells
  <2>7. ScriptKey(slot) = [x |-> x, y |-> y]
    <3>1. KeyAt(type) = 3 /\ KeyAt(type) + 31 = 34
      BY <1>2 DEF KeyAt
    <3>2. QED
      BY <1>2, <2>5, <2>6, <3>1, Zenon DEF ScriptKey
  <2>8. IsReadAs(slot, x, y, type)
    BY <2>5, <2>6, <2>7, KeyIsRead, Zenon
  <2>9. QED
    BY <2>8, Zenon DEF CanBeRead
<1>3. CASE type = "P2SH"
  <2>1. OP_BLAKE2B \in Bytes /\ 32 \in Bytes /\ OP_EQUAL \in Bytes
    BY DEF Bytes, OP_BLAKE2B, OP_EQUAL
  <2>2. IsRowOf(<<OP_BLAKE2B, 32>>, 2, Bytes) /\ <<OP_BLAKE2B, 32>>[1] = OP_BLAKE2B
    BY <2>1, TwoByteRow, Zenon
  <2>3. ScriptOf(x, y, type) = <<OP_BLAKE2B, 32>> \o x \o <<OP_EQUAL>>
    BY <1>3 DEF ScriptOf
  <2>4. InSlot(slot, <<OP_BLAKE2B, 32>>, 2, x)
    BY <1>0, <2>1, <2>2, <2>3, SlotParts, Zenon
  <2>5. Len(slot) \in Nat /\ Len(slot) >= 35 /\ slot[1] = OP_BLAKE2B /\ SubSeq(slot, 3, 34) = x
    BY <2>2, <2>4 DEF InSlot
  <2>6. ScriptType(slot) = type
    BY <1>3, <2>5, FirstByteTells
  <2>7. ScriptKey(slot) = [x |-> x, y |-> 0]
    <3>1. KeyAt(type) = 3 /\ KeyAt(type) + 31 = 34 /\ type # "ECDSA"
      BY <1>3 DEF KeyAt
    <3>2. QED
      BY <2>5, <2>6, <3>1, Zenon DEF ScriptKey
  <2>8. IsReadAs(slot, x, 0, type)
    BY <2>5, <2>6, <2>7, KeyIsRead, Zenon
  <2>9. type # "ECDSA"
    BY <1>3
  <2>10. QED
    BY <1>0, <2>8, <2>9, Zenon DEF CanBeRead
<1>4. QED
  BY <1>1, <1>2, <1>3 DEF Types

-----------------------------------------------------------------------------
(* What is on display *)

\* The text leads back to the script of a key or of a hash.
Shows(text, script, x, y, type) ==
    /\ Encodes(text, <<Version(type)>> \o compress_public_key([x |-> x, y |-> y], type))
    /\ script = ScriptOf(x, y, type)
    /\ type = "ECDSA" => y \in Parities

\* ui_display_address shows the address of the key.
LEMMA KeyDisplayed ==
    ASSUME NEW x \in Xs, NEW y \in Ys, NEW n \in {SCHNORR_ADDRESS_LEN, ECDSA_ADDRESS_LEN},
           DisplayKey([x |-> x, y |-> y], n)
    PROVE  /\ Shows(g_address', SubjectScript', x, y, "SCHNORR")
           /\ subject'.kind # "nothing" /\ UNCHANGED copy
<1>1. IsKey(x) /\ y \in 0 .. 255
  BY AddressAssumption DEF IsKey
<1>2. n \in Nat /\ n >= AddressLen("SCHNORR") /\ "SCHNORR" \in Types
  BY DEF AddressLen, SCHNORR_ADDRESS_LEN, ECDSA_ADDRESS_LEN, Types
<1>3. g_address' = address_from_pubkey([x |-> x, y |-> y], "SCHNORR", n)
  BY DEF DisplayKey
<1>4. Encodes(address_from_pubkey([x |-> x, y |-> y], "SCHNORR", n),
              <<Version("SCHNORR")>> \o compress_public_key([x |-> x, y |-> y], "SCHNORR"))
  BY <1>1, <1>2, KeyText
<1>5. subject' = [kind |-> "key", public_key |-> [x |-> x, y |-> y]] /\ UNCHANGED copy
  BY DEF DisplayKey
<1>6. subject'.kind = "key" /\ subject'.public_key.x = x
  BY <1>5
<1>7. SubjectScript' = <<32>> \o x \o <<OP_CHECKSIG>>
  BY <1>6, Zenon DEF SubjectScript
<1>8. ScriptOf(x, y, "SCHNORR") = <<32>> \o x \o <<OP_CHECKSIG>>
  BY DEF ScriptOf
<1>9. "SCHNORR" # "ECDSA" /\ "key" # "nothing"
  OBVIOUS
<1>10. QED
  BY <1>3, <1>4, <1>5, <1>6, <1>7, <1>8, <1>9, Zenon DEF Shows

\* ui_display_transaction shows the address of the script.
LEMMA ScriptDisplayed ==
    ASSUME NEW script \in ParsedScripts, NEW stale \in {0, OP_EQUAL}, DisplayScript(script, stale)
    PROVE  /\ \E x \in Xs, y \in 0 .. 255, type \in Types :
                 Shows(g_address', SubjectScript', x, y, type)
           /\ subject'.kind # "nothing" /\ UNCHANGED copy
<1>1. PICK x \in Xs : \E y \in 0 .. 255, type \in Types : IsScriptOf(script, x, y, type)
  BY ParsedScriptIsOf, Zenon
<1>2. PICK y \in 0 .. 255 : \E type \in Types : IsScriptOf(script, x, y, type)
  BY <1>1, Zenon
<1>3. PICK type \in Types : IsScriptOf(script, x, y, type)
  BY <1>2, Zenon
<1>4. IsKey(x)
  BY AddressAssumption DEF IsKey
<1>a. CanBeRead(x, y, type, stale)
  BY <1>4, ScriptIsRead, Zenon
<1>5. PICK z \in 0 .. 255 : /\ IsReadAs(Slot(ScriptOf(x, y, type), stale), x, z, type)
                            /\ type = "ECDSA" => z = y
  BY <1>a, Zenon DEF CanBeRead
<1>6. AddressLen(type) \in Nat /\ AddressLen(type) >= AddressLen(type)
  BY DEF AddressLen, SCHNORR_ADDRESS_LEN, ECDSA_ADDRESS_LEN
<1>7. Encodes(address_from_pubkey([x |-> x, y |-> z], type, AddressLen(type)),
              <<Version(type)>> \o compress_public_key([x |-> x, y |-> z], type))
  BY <1>4, <1>6, KeyText, Zenon
<1>8. script = ScriptOf(x, y, type) /\ (type = "ECDSA" => y \in Parities)
  BY <1>3, Zenon DEF IsScriptOf
<1>9. g_address' = address_from_pubkey([x |-> x, y |-> z], type, AddressLen(type))
  BY <1>5, <1>8, Zenon DEF DisplayScript, IsReadAs
<1>10. subject' = [kind |-> "script", script |-> script] /\ UNCHANGED copy
  BY Zenon DEF DisplayScript
<1>11. subject'.kind = "script" /\ subject'.script = script /\ "script" # "key" /\ "script" # "nothing"
  BY <1>10
<1>12. SubjectScript' = script /\ subject'.kind # "nothing"
  BY <1>11, Zenon DEF SubjectScript
<1>13. ScriptOf(x, z, type) = ScriptOf(x, y, type)
  <2>1. CASE type = "ECDSA"
    BY <1>5, <2>1
  <2>2. CASE type # "ECDSA"
    BY <2>2 DEF ScriptOf
  <2>3. QED
    BY <2>1, <2>2
<1>14. Shows(g_address', SubjectScript', x, z, type)
  BY <1>5, <1>7, <1>8, <1>9, <1>12, <1>13, Zenon DEF Shows
<1>15. QED
  BY <1>10, <1>12, <1>14, Zenon

-----------------------------------------------------------------------------
(* Slips *)

\* A row of symbols after "kaspa" and the separator, as the checksum takes it.
IsFronted(a, s, m) ==
    /\ a = Prefix \o Separator \o s
    /\ IsWord(a, 6 + m)
    /\ \A k \in 1 .. 6 : a[k] = (Prefix \o Separator)[k]
    /\ \A k \in 1 .. m : a[6 + k] = s[k]

\* Every row of symbols can be taken so.
LEMMA FrontedRow ==
    ASSUME NEW s, NEW m, IsRowOf(s, m, Symbols)
    PROVE  \E a : IsFronted(a, s, m)
<1>1. PICK six \in Nat : six = 6 /\ IsRowOf(Prefix \o Separator, six, Symbols)
  BY PrefixRow
<1>2. PICK front : front = Prefix \o Separator
  OBVIOUS
<1>3. PICK a : /\ a = front \o s /\ IsRowOf(a, six + m, Symbols)
               /\ Joins(a, front, six, s, m)
  BY <1>1, <1>2, JoinedRows
<1>4. IsWord(a, six + m)
  BY <1>3, RowIsWord
<1>5. /\ IsWord(a, 6 + m)
      /\ \A k \in 1 .. 6 : a[k] = front[k]
      /\ \A k \in 1 .. m : a[6 + k] = s[k]
  BY <1>1, <1>3, <1>4 DEF Joins
<1>6. IsFronted(a, s, m)
  BY <1>2, <1>3, <1>5, Zenon DEF IsFronted
<1>7. QED
  BY <1>6

\* The checksum tells rows apart when it ends in different registers.
LEMMA OtherChecksum ==
    ASSUME NEW s, NEW t, NEW m, NEW a, NEW b, IsFronted(a, s, m), IsFronted(b, t, m),
           Register(a) # Register(b), ChecksumHolds(s)
    PROVE  ~ChecksumHolds(t)
<1>1. a = Prefix \o Separator \o s /\ b = Prefix \o Separator \o t
  BY Zenon DEF IsFronted
<1>2. Register(a) = AddLow(NoTerm, 1)
  BY <1>1, Zenon DEF ChecksumHolds
<1>3. QED
  BY <1>1, <1>2, Zenon DEF ChecksumHolds

\* One wrong letter
LEMMA ReplacedIsRefused ==
    ASSUME NEW text, NEW s, NEW m, IsTextOf(text, s, m), ChecksumHolds(s),
           NEW k \in 7 .. m + 6, NEW e \in Symbols, Replaced(text, k, Letter(e)) # text
    PROVE  ~ChecksumHolds(Read(Replaced(text, k, Letter(e))))
<1>1. m \in Nat /\ IsRowOf(s, m, Symbols) /\ IsRowOf(text, m + 6, Letters)
  BY DEF IsTextOf, IsRowOf
<1>2. PICK j \in 1 .. m : k = j + 6
  BY <1>1
<1>3. s \in [1 .. m -> Symbols] /\ text \in [1 .. m + 6 -> Letters]
  BY <1>1, RowFacts
<1>4. PICK t : t = [s EXCEPT ![j] = e]
  OBVIOUS
<1>5. /\ t \in [1 .. m -> Symbols] /\ t[j] = e
      /\ \A i \in 1 .. m : i # j => t[i] = s[i]
  BY <1>3, <1>4
<1>6. PICK letter \in Letters : letter = Letter(e)
  BY DEF Letters
<1>7. PICK other : other = Replaced(text, k, letter)
  OBVIOUS
<1>8. /\ other \in [1 .. m + 6 -> Letters] /\ other[j + 6] = letter
      /\ \A i \in 1 .. m + 6 : i # j + 6 => other[i] = text[i]
  BY <1>1, <1>2, <1>3, <1>7 DEF Replaced
<1>9. IsTextOf(other, t, m)
  <2>1. IsRowOf(t, m, Symbols) /\ IsRowOf(other, m + 6, Letters)
    BY <1>1, <1>5, <1>8, FunctionIsRow, SMTT(30)
  <2>2. ASSUME NEW i \in 1 .. m PROVE other[i + 6] = Letter(t[i])
    <3>1. CASE i = j
      BY <1>5, <1>6, <1>8, <3>1
    <3>2. CASE i # j
      <4>1. i + 6 # j + 6 /\ i + 6 \in 1 .. m + 6
        BY <1>1, <3>2
      <4>2. text[i + 6] = Letter(s[i])
        BY DEF IsTextOf
      <4>3. QED
        BY <1>5, <1>8, <3>2, <4>1, <4>2
    <3>3. QED
      BY <3>1, <3>2
  <2>3. QED
    BY <2>1, <2>2 DEF IsTextOf
<1>10. Read(other) = t /\ IsRowOf(t, m, Symbols)
  BY <1>9, TextIsRead DEF IsTextOf
<1>11. s[j] # t[j]
  <2>1. SUFFICES ASSUME s[j] = e PROVE FALSE
    BY <1>5
  <2>2. text[j + 6] = letter
    BY <1>6, <2>1 DEF IsTextOf
  <2>3. \A i \in 1 .. m + 6 : other[i] = text[i]
    BY <1>8, <2>2
  <2>4. other = text
    <3>1. IsRowOf(other, m + 6, Letters)
      BY <1>9 DEF IsTextOf
    <3>2. QED
      BY <1>1, <2>3, <3>1, SameRow
  <2>5. QED
    BY <1>6, <1>7, <2>4
<1>12. PICK a : IsFronted(a, s, m)
  BY <1>1, FrontedRow
<1>13. PICK b : IsFronted(b, t, m)
  BY <1>10, FrontedRow
<1>14. Register(a) # Register(b)
  <2>1. PICK n : n = 6 + m /\ n \in Nat
    BY <1>1
  <2>2. IsWord(a, n) /\ IsWord(b, n) /\ 6 + j \in 1 .. n
    BY <1>1, <1>12, <1>13, <2>1 DEF IsFronted
  <2>3. a[6 + j] # b[6 + j]
    BY <1>11, <1>12, <1>13 DEF IsFronted
  <2>4. ASSUME NEW i \in 1 .. n, i # 6 + j PROVE a[i] = b[i]
    <3>1. CASE i <= 6
      <4>1. i \in 1 .. 6
        BY <3>1
      <4>2. QED
        BY <1>12, <1>13, <4>1, Zenon DEF IsFronted
    <3>2. CASE i > 6
      <4>1. PICK l \in 1 .. m : i = 6 + l /\ l # j
        BY <1>1, <2>1, <2>4, <3>2
      <4>2. a[6 + l] = s[l] /\ b[6 + l] = t[l]
        BY <1>12, <1>13 DEF IsFronted
      <4>3. s[l] = t[l]
        BY <1>5, <4>1
      <4>4. a[i] = s[l] /\ b[i] = t[l]
        BY <4>1, <4>2, SMT
      <4>5. QED
        BY <4>3, <4>4
    <3>3. QED
      BY <2>1, <3>1, <3>2
  <2>5. QED
    BY <2>2, <2>3, <2>4, OneOtherSymbol
<1>15. ~ChecksumHolds(t)
  BY <1>12, <1>13, <1>14, OtherChecksum
<1>16. QED
  BY <1>6, <1>7, <1>10, <1>15

\* Two neighbours exchanged
LEMMA ExchangedIsRefused ==
    ASSUME NEW text, NEW s, NEW m, IsTextOf(text, s, m), ChecksumHolds(s),
           NEW k \in 7 .. m + 5, Exchanged(text, k) # text
    PROVE  ~ChecksumHolds(Read(Exchanged(text, k)))
<1>1. m \in Nat /\ IsRowOf(s, m, Symbols) /\ IsRowOf(text, m + 6, Letters)
  BY DEF IsTextOf, IsRowOf
<1>2. PICK j \in 1 .. m - 1 : k = j + 6 /\ j \in 1 .. m /\ j + 1 \in 1 .. m /\ k + 1 = (j + 1) + 6
  BY <1>1
<1>3. s \in [1 .. m -> Symbols] /\ text \in [1 .. m + 6 -> Letters]
  BY <1>1, RowFacts
<1>4. PICK t : t = [i \in 1 .. m |-> IF i = j THEN s[j + 1] ELSE IF i = j + 1 THEN s[j] ELSE s[i]]
  OBVIOUS
<1>5. /\ t \in [1 .. m -> Symbols] /\ t[j] = s[j + 1] /\ t[j + 1] = s[j]
      /\ \A i \in 1 .. m : i # j /\ i # j + 1 => t[i] = s[i]
  BY <1>2, <1>3, <1>4
<1>6. PICK other : other = Exchanged(text, k)
  OBVIOUS
<1>7. /\ other \in [1 .. m + 6 -> Letters]
      /\ other[k] = text[k + 1] /\ other[k + 1] = text[k]
      /\ \A i \in 1 .. m + 6 : i # k /\ i # k + 1 => other[i] = text[i]
  <2>1. k \in 1 .. m + 6 /\ k + 1 \in 1 .. m + 6 /\ k # k + 1
    BY <1>1
  <2>2. QED
    BY <1>3, <1>6, <2>1 DEF Exchanged
<1>8. IsTextOf(other, t, m)
  <2>1. IsRowOf(t, m, Symbols) /\ IsRowOf(other, m + 6, Letters)
    BY <1>1, <1>5, <1>7, FunctionIsRow, SMTT(30)
  <2>2. ASSUME NEW i \in 1 .. m PROVE other[i + 6] = Letter(t[i])
    <3>1. CASE i = j
      <4>1. text[(j + 1) + 6] = Letter(s[j + 1])
        BY <1>2 DEF IsTextOf
      <4>2. QED
        BY <1>2, <1>5, <1>7, <3>1, <4>1
    <3>2. CASE i = j + 1
      <4>1. text[j + 6] = Letter(s[j])
        BY <1>2 DEF IsTextOf
      <4>2. QED
        BY <1>2, <1>5, <1>7, <3>2, <4>1
    <3>3. CASE i # j /\ i # j + 1
      <4>1. i + 6 # k /\ i + 6 # k + 1 /\ i + 6 \in 1 .. m + 6
        BY <1>1, <1>2, <3>3
      <4>2. text[i + 6] = Letter(s[i])
        BY DEF IsTextOf
      <4>3. QED
        BY <1>5, <1>7, <3>3, <4>1, <4>2
    <3>4. QED
      BY <3>1, <3>2, <3>3
  <2>3. QED
    BY <2>1, <2>2 DEF IsTextOf
<1>9. Read(other) = t /\ IsRowOf(t, m, Symbols)
  BY <1>8, TextIsRead DEF IsTextOf
<1>10. s[j] # s[j + 1]
  <2>1. SUFFICES ASSUME s[j] = s[j + 1] PROVE FALSE
    OBVIOUS
  <2>2. text[k] = text[k + 1]
    BY <1>2, <2>1 DEF IsTextOf
  <2>3. \A i \in 1 .. m + 6 : other[i] = text[i]
    BY <1>7, <2>2
  <2>4. other = text
    <3>1. IsRowOf(other, m + 6, Letters)
      BY <1>8 DEF IsTextOf
    <3>2. QED
      BY <1>1, <2>3, <3>1, SameRow
  <2>5. QED
    BY <1>6, <2>4
<1>11. PICK a : IsFronted(a, s, m)
  BY <1>1, FrontedRow
<1>12. PICK b : IsFronted(b, t, m)
  BY <1>9, FrontedRow
<1>13. Register(a) # Register(b)
  <2>1. PICK n : n = 6 + m /\ n \in Nat
    BY <1>1
  <2>2. IsWord(a, n) /\ IsWord(b, n) /\ 6 + j \in 1 .. n - 1 /\ (6 + j) + 1 = 6 + (j + 1)
    BY <1>1, <1>11, <1>12, <2>1 DEF IsFronted
  <2>3. /\ a[6 + j] = s[j] /\ a[(6 + j) + 1] = s[j + 1]
        /\ b[6 + j] = t[j] /\ b[(6 + j) + 1] = t[j + 1]
    BY <1>2, <1>11, <1>12, <2>2 DEF IsFronted
  <2>4. ASSUME NEW i \in 1 .. n, i # 6 + j, i # (6 + j) + 1 PROVE a[i] = b[i]
    <3>1. CASE i <= 6
      <4>1. i \in 1 .. 6
        BY <3>1
      <4>2. QED
        BY <1>11, <1>12, <4>1, Zenon DEF IsFronted
    <3>2. CASE i > 6
      <4>1. PICK l \in 1 .. m : i = 6 + l /\ l # j /\ l # j + 1
        BY <1>1, <2>1, <2>4, <3>2
      <4>2. a[6 + l] = s[l] /\ b[6 + l] = t[l]
        BY <1>11, <1>12 DEF IsFronted
      <4>3. s[l] = t[l]
        BY <1>5, <4>1
      <4>4. a[i] = s[l] /\ b[i] = t[l]
        BY <4>1, <4>2, SMT
      <4>5. QED
        BY <4>3, <4>4
    <3>3. QED
      BY <2>1, <3>1, <3>2
  <2>5. a[6 + j] # a[(6 + j) + 1] /\ b[6 + j] = a[(6 + j) + 1] /\ b[(6 + j) + 1] = a[6 + j]
    BY <1>5, <1>10, <2>3
  <2>6. QED
    BY <2>2, <2>4, <2>5, NeighboursExchanged
<1>14. ~ChecksumHolds(t)
  BY <1>11, <1>12, <1>13, OtherChecksum
<1>15. QED
  BY <1>6, <1>9, <1>14

-----------------------------------------------------------------------------
(* The invariant *)

\* A text that leads back to this script, and a copy of it with one slip.
IsShown(text, script) ==
    \E x \in Xs, y \in 0 .. 255, type \in Types : Shows(text, script, x, y, type)

IsMiscopy(text, other) ==
    \E k \in 7 .. Len(text) :
        \/ \E s \in Slips : other = Replaced(text, k, Letter(s))
        \/ k < Len(text) /\ other = Exchanged(text, k)

\* The one thing an address is made from is on display, and the copy is of it.
AddressMade ==
    /\ subject.kind = "nothing" => g_address = <<>> /\ copy = <<>>
    /\ subject.kind # "nothing" => IsShown(g_address, SubjectScript)
    /\ copy # <<>> => IsMiscopy(g_address, copy)

\* A key on display keeps the invariant.
LEMMA KeyStep ==
    ASSUME NEW public_key, NEW n, AddressMade,
           DisplayKey(public_key, n),
           \E x \in Xs, y \in Ys : public_key = [x |-> x, y |-> y],
           n \in {SCHNORR_ADDRESS_LEN, ECDSA_ADDRESS_LEN}
    PROVE  AddressMade'
<1>1. PICK x \in Xs : \E y \in Ys : public_key = [x |-> x, y |-> y]
  OBVIOUS
<1>2. PICK y \in Ys : public_key = [x |-> x, y |-> y]
  BY <1>1
<1>3. /\ Shows(g_address', SubjectScript', x, y, "SCHNORR")
      /\ subject'.kind # "nothing" /\ UNCHANGED copy
  BY <1>2, KeyDisplayed, Zenon
<1>4. y \in 0 .. 255 /\ "SCHNORR" \in Types
  BY AddressAssumption DEF Types
<1>5. copy = <<>>
  BY DEF DisplayKey, AddressMade
<1>6. QED
  BY <1>3, <1>4, <1>5, Zenon DEF AddressMade, IsShown

\* So does a script.
LEMMA ScriptStep ==
    ASSUME NEW script \in ParsedScripts, NEW stale \in {0, OP_EQUAL}, AddressMade,
           DisplayScript(script, stale)
    PROVE  AddressMade'
<1>1. /\ \E x \in Xs, y \in 0 .. 255, type \in Types : Shows(g_address', SubjectScript', x, y, type)
      /\ subject'.kind # "nothing" /\ UNCHANGED copy
  BY ScriptDisplayed, Zenon
<1>2. copy = <<>>
  BY Zenon DEF DisplayScript, AddressMade
<1>3. QED
  BY <1>1, <1>2, Zenon DEF AddressMade, IsShown

\* So does a copy with a slip.
LEMMA MiscopyStep ==
    ASSUME AddressMade, Miscopy
    PROVE  AddressMade'
<1>1. g_address # <<>> /\ UNCHANGED <<subject, g_address>>
  BY DEF Miscopy
<1>2. IsMiscopy(g_address, copy')
  BY DEF Miscopy, IsMiscopy
<1>3. SubjectScript' = SubjectScript
  BY <1>1 DEF SubjectScript
<1>4. QED
  BY <1>1, <1>2, <1>3 DEF AddressMade

\* Whatever is on display was made from its subject, and the copy from it
\* (ui/nbgl_display_transaction.c, ui/bagl_display.c).
THEOREM AddressesAreMade == AddressSpec => []AddressMade
<1>1. AddressInit => AddressMade
  BY DEF AddressInit, AddressMade
<1>2. AddressMade /\ [AddressNext]_addressvars => AddressMade'
  <2>1. ASSUME AddressMade, AddressNext PROVE AddressMade'
    <3>1. CASE \E x \in Xs, y \in Ys, n \in {SCHNORR_ADDRESS_LEN, ECDSA_ADDRESS_LEN} :
                   DisplayKey([x |-> x, y |-> y], n)
      BY <2>1, <3>1, KeyStep, Zenon
    <3>2. CASE \E script \in ParsedScripts, stale \in {0, OP_EQUAL} : DisplayScript(script, stale)
      BY <2>1, <3>2, ScriptStep, Zenon
    <3>3. CASE Miscopy
      BY <2>1, <3>3, MiscopyStep
    <3>4. QED
      BY <2>1, <3>1, <3>2, <3>3, Zenon DEF AddressNext
  <2>2. ASSUME AddressMade, UNCHANGED addressvars PROVE AddressMade'
    <3>1. UNCHANGED <<subject, g_address, copy>> /\ SubjectScript' = SubjectScript
      BY <2>2 DEF addressvars, SubjectScript
    <3>2. QED
      BY <2>2, <3>1 DEF AddressMade
  <2>3. QED
    BY <2>1, <2>2
<1>3. QED
  BY <1>1, <1>2, PTL DEF AddressSpec

\* The text on display, as a wallet takes it apart.
LEMMA ShownText ==
    ASSUME NEW text, NEW script, IsShown(text, script)
    PROVE  \E symbols, m : /\ IsTextOf(text, symbols, m) /\ m \in Nat \ {0}
                           /\ ChecksumHolds(symbols) /\ Read(text) = symbols
                           /\ Len(text) = m + 6
<1>1. PICK program : Encodes(text, program)
  BY Zenon DEF IsShown, Shows
<1>2. PICK symbols, m : IsTextOf(text, symbols, m) /\ m \in Nat \ {0} /\ ChecksumHolds(symbols)
  BY <1>1 DEF Encodes
<1>3. Read(text) = symbols /\ Len(text) = m + 6
  BY <1>2, TextIsRead DEF IsTextOf, IsRowOf
<1>4. QED
  BY <1>2, <1>3

\* A wallet that reads the address of a key or of an output pays to the very
\* script, as long as the second byte of an ECDSA script is the parity that
\* transaction/utils.c:75 takes it for (address.c:61-109, cashaddr.c:95-129,
\* transaction/utils.c:53-96).
THEOREM AddressesLeadBack ==
    ASSUME Parities \subseteq {2, 3}
    PROVE  AddressSpec => []AddressLeadsBack
<1>1. AddressMade => AddressLeadsBack
  <2>1. SUFFICES ASSUME IsShown(g_address, SubjectScript), subject.kind # "nothing"
                 PROVE  AddressLeadsBack
    BY DEF AddressMade, AddressLeadsBack
  <2>2. PICK x \in Xs : \E y \in 0 .. 255, type \in Types : Shows(g_address, SubjectScript, x, y, type)
    BY <2>1, Zenon DEF IsShown
  <2>3. PICK y \in 0 .. 255 : \E type \in Types : Shows(g_address, SubjectScript, x, y, type)
    BY <2>2, Zenon
  <2>4. PICK type \in Types : Shows(g_address, SubjectScript, x, y, type)
    BY <2>3, Zenon
  <2>5. PICK program : program = <<Version(type)>> \o compress_public_key([x |-> x, y |-> y], type)
    OBVIOUS
  <2>6. /\ Encodes(g_address, program) /\ SubjectScript = ScriptOf(x, y, type)
        /\ type = "ECDSA" => y \in Parities
    BY <2>4, <2>5, Zenon DEF Shows
  <2>7. PICK symbols, m : /\ IsTextOf(g_address, symbols, m) /\ m \in Nat \ {0}
                          /\ ChecksumHolds(symbols) /\ Program(symbols) = program
    BY <2>6 DEF Encodes
  <2>8. Read(g_address) = symbols /\ g_address # <<>>
    <3>1. Len(g_address) = m + 6 /\ m + 6 # 0
      BY <2>7 DEF IsTextOf, IsRowOf
    <3>2. g_address # <<>>
      BY <3>1
    <3>3. QED
      BY <2>7, <3>2, TextIsRead
  <2>9. PaysTo(program) = ScriptOf(x, y, type)
    <3>1. IsKey(x) /\ (type = "ECDSA" => y \in {2, 3})
      BY <2>6, AddressAssumption DEF IsKey
    <3>2. QED
      BY <2>5, <3>1, PaysToScript, Zenon
  <2>10. QED
    BY <2>6, <2>7, <2>8, <2>9, Zenon DEF AddressLeadsBack
<1>2. QED
  BY <1>1, AddressesAreMade, PTL

\* A copy with one wrong letter, or with two neighbours exchanged, is refused
\* by its checksum, whatever the key, the type, the place and the letter
\* (cashaddr.c:41-55, 85-93).
THEOREM MiscopiesAreRefused == AddressSpec => []MiscopiedAddressIsRefused
<1>1. AddressMade => MiscopiedAddressIsRefused
  <2>1. SUFFICES ASSUME AddressMade, copy # <<>>, copy # g_address
                 PROVE  ~ChecksumHolds(Read(copy))
    BY DEF MiscopiedAddressIsRefused
  <2>2. IsMiscopy(g_address, copy) /\ IsShown(g_address, SubjectScript)
    BY <2>1 DEF AddressMade
  <2>3. PICK symbols, m : /\ IsTextOf(g_address, symbols, m) /\ m \in Nat \ {0}
                          /\ ChecksumHolds(symbols) /\ Len(g_address) = m + 6
    BY <2>2, ShownText
  <2>4. PICK k \in 7 .. Len(g_address) :
          \/ \E s \in Slips : copy = Replaced(g_address, k, Letter(s))
          \/ k < Len(g_address) /\ copy = Exchanged(g_address, k)
    BY <2>2 DEF IsMiscopy
  <2>5. ASSUME NEW s \in Slips, copy = Replaced(g_address, k, Letter(s))
        PROVE  ~ChecksumHolds(Read(copy))
    <3>1. k \in 7 .. m + 6 /\ s \in Symbols
      BY <2>3, AddressAssumption
    <3>2. QED
      BY <2>1, <2>3, <2>5, <3>1, ReplacedIsRefused
  <2>6. CASE k < Len(g_address) /\ copy = Exchanged(g_address, k)
    <3>1. k \in 7 .. m + 5
      BY <2>3, <2>6
    <3>2. QED
      BY <2>1, <2>3, <2>6, <3>1, ExchangedIsRefused
  <2>7. QED
    BY <2>4, <2>5, <2>6
<1>2. QED
  BY <1>1, AddressesAreMade, PTL
==============================================================================
