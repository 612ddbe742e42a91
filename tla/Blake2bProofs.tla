--------------------------- MODULE Blake2bProofs ----------------------------
(***************************************************************************)
(* The streaming hasher computes the hash of the standard, in whatever     *)
(* pieces the message comes, for all block sizes, counter widths, keys and *)
(* lengths that satisfy the assumption.                                    *)
(***************************************************************************)
EXTENDS Blake2b, SequenceTheorems, WellFoundedInduction, TLAPS

-----------------------------------------------------------------------------
(* Arithmetic *)

\* A quotient and a remainder are known by what they are for.
LEMMA Division ==
    ASSUME NEW d \in Nat, d > 0, NEW c \in Nat,
           NEW q \in Nat, NEW r \in Nat, r < d, c = d * q + r
    PROVE  c \div d = q /\ c % d = r
  OBVIOUS

\* The low word after inc more than c bytes, and the two words of the new count.
LowWord(W, c, inc) == ((c % W) + inc) % W
Counted(W, c, inc, low) ==
    /\ low = (c + inc) % W
    /\ ((c \div W) + (IF low < inc THEN 1 ELSE 0)) % W = (c + inc) \div W

\* The two words count bytes over the end of the low one: the test "low < inc"
\* sees the carry (blake2b.c:70-71).
LEMMA Carry ==
    ASSUME NEW W \in Nat, NEW c \in Nat, NEW inc \in Nat, inc < W, c + inc < W * W,
           NEW low, low = LowWord(W, c, inc)
    PROVE  Counted(W, c, inc, low)
<1> DEFINE hi == c \div W
           lo == c % W
<1>1. hi \in Nat
  OBVIOUS
<1>2. lo \in 0 .. W - 1
  OBVIOUS
<1>3. c = W * hi + lo
  OBVIOUS
<1>4. low = (lo + inc) % W
  BY DEF LowWord
<1> HIDE DEF hi, lo
<1>5. hi < W
  BY <1>1, <1>2, <1>3
<1>6. CASE lo + inc < W
  <2>1. low = lo + inc
    BY <1>1, <1>2, <1>4, <1>6
  <2>2. (c + inc) \div W = hi /\ (c + inc) % W = low
    BY <1>1, <1>2, <1>3, <1>6, <2>1, Division
  <2>3. hi % W = hi /\ ~(low < inc)
    BY <1>1, <1>2, <1>5, <2>1
  <2>4. QED
    BY <1>1, <2>2, <2>3 DEF hi, Counted
<1>7. CASE lo + inc >= W
  <2>1. low = lo + inc - W
    BY <1>1, <1>2, <1>4, <1>7
  <2>2. c + inc = W * (hi + 1) + low /\ low \in Nat /\ low < W
    BY <1>1, <1>2, <1>3, <1>7, <2>1
  <2>3. (c + inc) \div W = hi + 1 /\ (c + inc) % W = low
    BY <1>1, <2>2, Division
  <2>4. hi + 1 < W
    BY <1>1, <2>2
  <2>5. (hi + 1) % W = hi + 1 /\ low < inc
    BY <1>1, <1>2, <2>1, <2>4
  <2>6. QED
    BY <1>1, <2>3, <2>5 DEF hi, Counted
<1>8. QED
  BY <1>2, <1>6, <1>7

\* Induction over the natural numbers, with a set in place of a predicate.
LEMMA InductionBySet ==
    ASSUME NEW T, 0 \in T, \A n \in Nat : n \in T => n + 1 \in T
    PROVE  Nat \subseteq T
<1> DEFINE R == OpToRel(<, Nat)
           Missing == Nat \ T
<1> SUFFICES ASSUME Missing # {} PROVE FALSE
  OBVIOUS
<1>1. IsWellFoundedOn(R, Nat) /\ Missing \subseteq Nat
  BY NatLessThanWellFounded, Zenon
<1>2. \A x, y \in Nat : x < y => <<x, y>> \in R
  BY DEF OpToRel
<1> HIDE DEF R
<1>3. PICK x \in Missing : \A y \in Missing : ~(<<y, x>> \in R)
  BY <1>1, WFMin
<1>4. x \in Nat /\ x # 0 /\ x - 1 \in Nat /\ x - 1 < x
  OBVIOUS
<1>5. x - 1 \in T
  BY <1>2, <1>3, <1>4
<1>6. QED
  BY <1>4, <1>5

-----------------------------------------------------------------------------
(* Sequences given byte by byte *)

IsFunction(s, n) == s = [k \in 1 .. n |-> s[k]]

\* Two memories with the same bytes are the same.
LEMMA SameBytes ==
    ASSUME NEW D, NEW f \in [D -> Int], NEW g \in [D -> Int], \A k \in D : f[k] = g[k]
    PROVE  f = g
  OBVIOUS

\* A function on 1 .. n is a sequence of that length.
LEMMA FunctionIsSeq ==
    ASSUME NEW n \in Nat, NEW s, IsFunction(s, n), NEW V, \A k \in 1 .. n : s[k] \in V
    PROVE  s \in Seq(V) /\ Len(s) = n /\ DOMAIN s = 1 .. n
<1>1. s \in [1 .. n -> V]
  BY DEF IsFunction
<1>2. s \in Seq(V)
  BY <1>1, SeqDef
<1>3. DOMAIN s = 1 .. n /\ Len(s) = n
  BY <1>1, <1>2, LenProperties
<1>4. QED
  BY <1>2, <1>3

\* Append, entry by entry.
LEMMA AppendIs ==
    ASSUME NEW n \in Nat, NEW s, IsFunction(s, n), NEW t, IsFunction(t, n + 1),
           \A k \in 1 .. n : t[k] = s[k]
    PROVE  Append(s, t[n + 1]) = t
<1> DEFINE V == {t[k] : k \in 1 .. n + 1}
           u == Append(s, t[n + 1])
<1>1. (\A k \in 1 .. n : s[k] \in V) /\ (\A k \in 1 .. n + 1 : t[k] \in V) /\ t[n + 1] \in V
  OBVIOUS
<1> HIDE DEF V
<1>2. s \in Seq(V) /\ Len(s) = n /\ t \in Seq(V) /\ Len(t) = n + 1
  BY <1>1, FunctionIsSeq
<1>3. /\ u \in Seq(V) /\ Len(u) = n + 1
      /\ \A k \in 1 .. n : u[k] = s[k]
      /\ u[n + 1] = t[n + 1]
  BY <1>1, <1>2, AppendProperties
<1> HIDE DEF u
<1>4. \A k \in 1 .. n + 1 : u[k] = t[k]
  BY <1>3
<1>5. u = t
  BY <1>2, <1>3, <1>4, SeqEqual
<1>6. QED
  BY <1>5 DEF u

\* A part of a sequence of numbers, byte by byte.
LEMMA PartOf ==
    ASSUME NEW s \in Seq(Int), NEW a \in Nat, NEW b \in Nat, a <= b, b <= Len(s)
    PROVE  /\ SubSeq(s, a + 1, b) \in Seq(Int) /\ Len(SubSeq(s, a + 1, b)) = b - a
           /\ \A k \in 1 .. b - a : SubSeq(s, a + 1, b)[k] = s[a + k]
<1>1. PICK m \in Int : m = a + 1
  OBVIOUS
<1>2. \A i \in m .. b : s[i] \in Int
  BY <1>1, ElementOfSeq
<1>3. PICK p : p = SubSeq(s, m, b)
  OBVIOUS
<1>4. /\ p \in Seq(Int) /\ Len(p) = IF m <= b THEN b - m + 1 ELSE 0
      /\ \A i \in 1 .. b - m + 1 : p[i] = s[m + i - 1]
  <2>1. /\ SubSeq(s, m, b) \in Seq(Int) /\ Len(SubSeq(s, m, b)) = IF m <= b THEN b - m + 1 ELSE 0
        /\ \A i \in 1 .. b - m + 1 : SubSeq(s, m, b)[i] = s[m + i - 1]
    BY <1>2, SubSeqProperties
  <2>2. QED
    BY <1>3, <2>1, Zenon
<1>5. Len(p) = b - a /\ b - m + 1 = b - a
  BY <1>1, <1>4
<1>6. \A k \in 1 .. b - a : p[k] = s[a + k]
  <2> SUFFICES ASSUME NEW k \in 1 .. b - a PROVE p[k] = s[a + k]
    OBVIOUS
  <2>1. p[k] = s[m + k - 1]
    BY <1>4, <1>5
  <2>2. m + k - 1 = a + k
    BY <1>1
  <2>3. QED
    BY <2>1, <2>2
<1>7. QED
  BY <1>1, <1>3, <1>4, <1>5, <1>6, Zenon

\* c is a block like "to" but for the bytes of "from" behind the first "at".
IsCopy(c, to, at, from) ==
    /\ c \in [1 .. BlockBytes -> Int]
    /\ \A k \in 1 .. at : c[k] = to[k]
    /\ \A k \in 1 .. Len(from) : c[at + k] = from[k]
    /\ \A k \in 1 .. BlockBytes : k > at + Len(from) => c[k] = to[k]

\* memcpy into a block, byte by byte.
LEMMA CopyIs ==
    ASSUME NEW to \in [1 .. BlockBytes -> Int], NEW at \in Nat,
           NEW from \in Seq(Int), at + Len(from) <= BlockBytes
    PROVE  IsCopy(Copy(to, at, from), to, at, from)
<1>1. Len(from) \in Nat /\ DOMAIN from = 1 .. Len(from) /\ \A k \in 1 .. Len(from) : from[k] \in Int
  BY LenProperties, ElementOfSeq
<1>2. DOMAIN to = 1 .. BlockBytes /\ BlockBytes \in Nat
  BY Blake2bAssumption
<1> DEFINE c == Copy(to, at, from)
<1>3. c = [k \in 1 .. BlockBytes |-> IF k - at \in 1 .. Len(from) THEN from[k - at] ELSE to[k]]
  BY <1>1, <1>2 DEF Copy
<1> HIDE DEF c
<1>4. c \in [1 .. BlockBytes -> Int]
  BY <1>1, <1>2, <1>3
<1>5. \A k \in 1 .. at : c[k] = to[k]
  BY <1>1, <1>2, <1>3
<1>6. \A k \in 1 .. Len(from) : c[at + k] = from[k]
  BY <1>1, <1>2, <1>3
<1>7. \A k \in 1 .. BlockBytes : k > at + Len(from) => c[k] = to[k]
  BY <1>1, <1>2, <1>3
<1>8. QED
  BY <1>4, <1>5, <1>6, <1>7 DEF c, IsCopy

-----------------------------------------------------------------------------
(* One block after the other *)

\* The first k counted bytes lie in the first words of the counter.
CounterRange == WordMod * WordMod

\* The lengths are numbers.
LEMMA Lengths ==
    /\ BlockBytes \in Nat /\ BlockBytes > 0
    /\ WordMod \in Nat /\ BlockBytes < WordMod
    /\ CounterRange = WordMod * WordMod /\ CounterRange \in Nat
    /\ MaxMessage \in Nat /\ MaxMessage + BlockBytes < CounterRange
<1>1. WordMod \in Nat /\ MaxMessage + BlockBytes < WordMod * WordMod
  BY Blake2bAssumption
<1>2. WordMod * WordMod \in Nat
  BY <1>1
<1>3. QED
  BY <1>1, <1>2, Blake2bAssumption DEF CounterRange

\* Counting some more bytes (blake2b.c:70-71).
LEMMA CountMore ==
    ASSUME NEW c \in Nat, NEW inc \in 0 .. BlockBytes, c + inc < CounterRange,
           NEW s, s.t = Counter(c)
    PROVE  blake2b_increment_counter(s, inc) = [s EXCEPT !.t = Counter(c + inc)]
<1> DEFINE low == ((c % WordMod) + inc) % WordMod
<1>1. inc \in Nat /\ inc < WordMod /\ WordMod \in Nat /\ c + inc < WordMod * WordMod
  BY Lengths
<1>2. /\ low = (c + inc) % WordMod
      /\ ((c \div WordMod) + (IF low < inc THEN 1 ELSE 0)) % WordMod = (c + inc) \div WordMod
  <2>1. PICK l : l = LowWord(WordMod, c, inc)
    OBVIOUS
  <2>2. Counted(WordMod, c, inc, l)
    BY <1>1, <2>1, Carry
  <2>3. l = low
    BY <2>1 DEF LowWord
  <2>4. QED
    BY <2>2, <2>3, Zenon DEF Counted
<1>3. s.t[1] = c % WordMod /\ s.t[2] = c \div WordMod
  BY DEF Counter
<1>4. low = (s.t[1] + inc) % WordMod
  BY <1>3
<1> HIDE DEF low
<1>5. QED
  BY <1>2, <1>3, <1>4, Zenon DEF blake2b_increment_counter, Counter

\* The bytes are numbers, and a whole block has BlockBytes of them.
LEMMA BlockType ==
    ASSUME NEW n \in Nat, NEW k \in Nat
    PROVE  /\ \A i \in Int : ByteAt(n, i) \in Int
           /\ WholeBlock(n, k) \in [1 .. BlockBytes -> Int]
           /\ \A i \in 1 .. BlockBytes : WholeBlock(n, k)[i] = ByteAt(n, (k - 1) * BlockBytes + i)
<1>1. \A i \in Int : ByteAt(n, i) \in Int
  BY Lengths DEF ByteAt
<1>2. \A i \in 1 .. BlockBytes : (k - 1) * BlockBytes + i \in Int
  BY Lengths
<1>3. QED
  BY <1>1, <1>2, Lengths DEF WholeBlock

\* The flag of a block that is not the last.
NotLast == FALSE

\* The chaining value after one more block.
LEMMA ChainIs ==
    ASSUME NEW n, NEW m \in Nat
    PROVE  Append(Chain(n, m), [block |-> WholeBlock(n, m + 1),
                                t |-> Counter((m + 1) * BlockBytes), f |-> NotLast])
           = Chain(n, m + 1)
<1> DEFINE s == Chain(n, m)
           t == Chain(n, m + 1)
           entry(k) == IF k = 1 THEN [digest_length |-> OutBytes, key_length |-> n]
                       ELSE [block |-> WholeBlock(n, k - 1), t |-> Counter((k - 1) * BlockBytes),
                             f |-> NotLast]
<1>1. s = [k \in 1 .. m + 1 |-> entry(k)] /\ t = [k \in 1 .. m + 1 + 1 |-> entry(k)]
  BY DEF Chain, NotLast
<1>2. m + 1 \in Nat /\ m + 1 + 1 \in 1 .. m + 1 + 1
  OBVIOUS
<1>3. entry(m + 1 + 1) = [block |-> WholeBlock(n, m + 1), t |-> Counter((m + 1) * BlockBytes),
                          f |-> NotLast]
  <2>1. PICK j : j = m + 1 + 1
    OBVIOUS
  <2>2. j # 1 /\ j - 1 = m + 1
    BY <2>1
  <2>3. entry(j) = [block |-> WholeBlock(n, m + 1), t |-> Counter((m + 1) * BlockBytes), f |-> NotLast]
    BY <2>2, Zenon
  <2> HIDE DEF entry
  <2>4. QED
    BY <2>1, <2>3
<1> HIDE DEF entry
<1>4. t[m + 1 + 1] = entry(m + 1 + 1)
  BY <1>1, <1>2
<1>5. \A k \in 1 .. m + 1 : t[k] = s[k]
  BY <1>1
<1>6. IsFunction(s, m + 1) /\ IsFunction(t, m + 1 + 1)
  BY <1>1 DEF IsFunction
<1> HIDE DEF s, t
<1>7. Append(s, t[m + 1 + 1]) = t
  BY <1>2, <1>5, <1>6, AppendIs
<1>8. QED
  BY <1>3, <1>4, <1>7 DEF s, t

\* A blake2b_state.
State(h, t, f, buf, buflen) ==
    [h |-> h, t |-> t, f |-> f, buf |-> buf, buflen |-> buflen, outlen |-> OutBytes]

\* The state of a hasher, field by field (blake2b.h).
LEMMA HasherState ==
    ASSUME NEW n, NEW m, NEW buf, NEW len
    PROVE  Hasher(n, m, buf, len) = State(Chain(n, m), Counter(m * BlockBytes), NotLast, buf, len)
  BY DEF Hasher, State, NotLast

\* A whole block, counted and compressed, leaves the buffer alone
\* (blake2b.c:237-238, :241-242).
LEMMA AbsorbIs ==
    ASSUME NEW n, NEW m \in Nat, NEW buf, NEW len, (m + 1) * BlockBytes < CounterRange
    PROVE  Absorb(Hasher(n, m, buf, len), WholeBlock(n, m + 1)) = Hasher(n, m + 1, buf, len)
<1> DEFINE s == Hasher(n, m, buf, len)
           c == m * BlockBytes
           d == (m + 1) * BlockBytes
           u == State(Chain(n, m), Counter(d), NotLast, buf, len)
<1>1. c \in Nat /\ c + BlockBytes = d /\ BlockBytes \in 0 .. BlockBytes
  BY Lengths
<1> HIDE DEF d
<1>2. s.t = Counter(c) /\ s = State(Chain(n, m), Counter(c), NotLast, buf, len)
  <2>1. s = State(Chain(n, m), Counter(c), NotLast, buf, len)
    BY HasherState, Zenon
  <2>2. s.t = Counter(c)
    BY <2>1 DEF State
  <2>3. QED
    BY <2>1, <2>2
<1> HIDE DEF s
<1>3. blake2b_increment_counter(s, BlockBytes) = u
  <2>1. blake2b_increment_counter(s, BlockBytes) = [s EXCEPT !.t = Counter(d)]
    <3>1. c + BlockBytes < CounterRange
      BY <1>1 DEF d
    <3>2. blake2b_increment_counter(s, BlockBytes) = [s EXCEPT !.t = Counter(c + BlockBytes)]
      BY <1>1, <1>2, <3>1, CountMore, Zenon
    <3>3. QED
      BY <1>1, <3>2, Zenon
  <2>2. QED
    BY <1>2, <2>1 DEF State
<1>4. u.t = Counter(d) /\ u.f = NotLast /\ u.h = Chain(n, m)
  BY DEF State
<1>5. Append(Chain(n, m), [block |-> WholeBlock(n, m + 1), t |-> Counter(d), f |-> NotLast])
      = Chain(n, m + 1)
  BY ChainIs DEF d
<1>6. [u EXCEPT !.h = Chain(n, m + 1)] = Hasher(n, m + 1, buf, len)
  <2>1. [u EXCEPT !.h = Chain(n, m + 1)] = State(Chain(n, m + 1), Counter(d), NotLast, buf, len)
    BY DEF State
  <2>2. Hasher(n, m + 1, buf, len) = State(Chain(n, m + 1), Counter(d), NotLast, buf, len)
    BY HasherState, Zenon DEF d
  <2>3. QED
    BY <2>1, <2>2
<1> HIDE DEF u
<1>7. blake2b_compress(u, WholeBlock(n, m + 1)) = [u EXCEPT !.h = Chain(n, m + 1)]
  BY <1>4, <1>5, Zenon DEF blake2b_compress
<1>8. QED
  BY <1>3, <1>6, <1>7 DEF s, Absorb

\* Bytes of the message in a sequence: those after the first "after".
Carries(in, n, after) ==
    in \in Seq(Int) /\ \A i \in 1 .. Len(in) : in[i] = ByteAt(n, after + i)

\* A block's worth of them is a block.
LEMMA BlockIn ==
    ASSUME NEW n \in Nat, NEW m \in Nat, NEW in, Carries(in, n, m * BlockBytes),
           NEW k \in Nat, k > 0, k * BlockBytes <= Len(in)
    PROVE  SubSeq(in, (k - 1) * BlockBytes + 1, k * BlockBytes) = WholeBlock(n, m + k)
<1> DEFINE a == (k - 1) * BlockBytes
           b == k * BlockBytes
           part == SubSeq(in, a + 1, b)
<1>1. a \in Nat /\ b \in Nat /\ b - a = BlockBytes /\ a <= b /\ b <= Len(in)
  BY Lengths
<1>2. in \in Seq(Int) /\ Len(in) \in Nat /\ \A i \in 1 .. Len(in) : in[i] = ByteAt(n, m * BlockBytes + i)
  BY LenProperties DEF Carries
<1> HIDE DEF a, b
<1>3. /\ part \in Seq(Int) /\ Len(part) = BlockBytes
      /\ \A i \in 1 .. BlockBytes : part[i] = in[a + i]
  BY <1>1, <1>2, PartOf
<1>4. \A i \in 1 .. BlockBytes : part[i] = ByteAt(n, (m + k - 1) * BlockBytes + i)
  <2> SUFFICES ASSUME NEW i \in 1 .. BlockBytes
               PROVE  part[i] = ByteAt(n, (m + k - 1) * BlockBytes + i)
    OBVIOUS
  <2>1. a + i \in 1 .. Len(in)
    BY <1>1, <1>2, Lengths
  <2>2. part[i] = ByteAt(n, m * BlockBytes + (a + i))
    BY <1>2, <1>3, <2>1
  <2>3. m * BlockBytes + (a + i) = (m + k - 1) * BlockBytes + i
    BY Lengths DEF a
  <2>4. QED
    BY <2>2, <2>3
<1>5. /\ WholeBlock(n, m + k) \in [1 .. BlockBytes -> Int]
      /\ \A i \in 1 .. BlockBytes : WholeBlock(n, m + k)[i] = ByteAt(n, (m + k - 1) * BlockBytes + i)
  <2>1. PICK j \in Nat : j = m + k
    OBVIOUS
  <2>2. /\ WholeBlock(n, j) \in [1 .. BlockBytes -> Int]
        /\ \A i \in 1 .. BlockBytes : WholeBlock(n, j)[i] = ByteAt(n, (j - 1) * BlockBytes + i)
    BY BlockType
  <2>3. \A i \in 1 .. BlockBytes : WholeBlock(n, m + k)[i] = ByteAt(n, (m + k - 1) * BlockBytes + i)
    BY <2>1, <2>2
  <2>4. QED
    BY <2>1, <2>2, <2>3
<1>6. part \in [1 .. BlockBytes -> Int]
  BY <1>3, LenProperties
<1> HIDE DEF part
<1>7. part = WholeBlock(n, m + k)
  <2>1. \A i \in 1 .. BlockBytes : part[i] = WholeBlock(n, m + k)[i]
    BY <1>4, <1>5, Zenon
  <2>2. PICK block : block = WholeBlock(n, m + k)
    OBVIOUS
  <2>3. block \in [1 .. BlockBytes -> Int] /\ \A i \in 1 .. BlockBytes : part[i] = block[i]
    BY <1>5, <2>1, <2>2, Zenon
  <2>4. part = block
    BY <1>6, <2>3, SameBytes, Zenon
  <2>5. QED
    BY <2>2, <2>4, Zenon
<1>8. QED
  BY <1>7 DEF part, a, b

\* The loop over the whole blocks of a piece (blake2b.c:240).
LEMMA AbsorbAllIs ==
    ASSUME NEW n \in Nat, NEW m \in Nat, NEW w \in Nat, NEW buf, NEW len,
           NEW in, Carries(in, n, m * BlockBytes), w * BlockBytes <= Len(in),
           (m + w) * BlockBytes < CounterRange
    PROVE  AbsorbAll(Hasher(n, m, buf, len), in, w) = Hasher(n, m + w, buf, len)
<1> DEFINE s == Hasher(n, m, buf, len)
           at(k) == SubSeq(in, (k - 1) * BlockBytes + 1, k * BlockBytes)
           Loop(f) == f = [k \in 0 .. w |-> IF k = 0 THEN s ELSE Absorb(f[k - 1], at(k))]
           after == CHOOSE f : Loop(f)
<1>1. AbsorbAll(s, in, w) = after[w]
  BY DEF AbsorbAll
<1>2. \A k \in 1 .. w : /\ at(k) = WholeBlock(n, m + k)
                        /\ (m + k) * BlockBytes < CounterRange
  <2> SUFFICES ASSUME NEW k \in 1 .. w
               PROVE  at(k) = WholeBlock(n, m + k) /\ (m + k) * BlockBytes < CounterRange
    OBVIOUS
  <2>1. Len(in) \in Nat
    BY LenProperties DEF Carries
  <2>2. k * BlockBytes <= w * BlockBytes /\ (m + k) * BlockBytes <= (m + w) * BlockBytes
    <3>1. (w - k) * BlockBytes \in Nat
      BY Lengths
    <3>2. /\ w * BlockBytes = k * BlockBytes + (w - k) * BlockBytes
          /\ (m + w) * BlockBytes = (m + k) * BlockBytes + (w - k) * BlockBytes
      BY Lengths
    <3>3. k * BlockBytes \in Nat /\ (m + k) * BlockBytes \in Nat
      BY Lengths
    <3>4. QED
      BY <3>1, <3>2, <3>3
  <2>3. k * BlockBytes \in Nat /\ w * BlockBytes \in Nat
        /\ (m + k) * BlockBytes \in Nat /\ (m + w) * BlockBytes \in Nat
    BY Lengths
  <2>4. k * BlockBytes <= Len(in) /\ (m + k) * BlockBytes < CounterRange
    BY <2>1, <2>2, <2>3, Lengths
  <2>5. at(k) = WholeBlock(n, m + k)
    BY <2>4, BlockIn
  <2>6. QED
    BY <2>4, <2>5
<1>3. \A k \in 1 .. w : Absorb(Hasher(n, m + k - 1, buf, len), at(k)) = Hasher(n, m + k, buf, len)
  <2> SUFFICES ASSUME NEW k \in 1 .. w
               PROVE  Absorb(Hasher(n, m + k - 1, buf, len), at(k)) = Hasher(n, m + k, buf, len)
    OBVIOUS
  <2>1. PICK j \in Nat : j = m + k - 1
    OBVIOUS
  <2>2. j + 1 = m + k
    BY <2>1
  <2>3. Absorb(Hasher(n, j, buf, len), WholeBlock(n, j + 1)) = Hasher(n, j + 1, buf, len)
    <3>1. PICK d : d = (j + 1) * BlockBytes
      OBVIOUS
    <3>2. d < CounterRange
      BY <1>2, <2>2, <3>1, Zenon
    <3>3. (j + 1) * BlockBytes < CounterRange
      BY <3>1, <3>2, Zenon
    <3>4. QED
      BY ONLY <3>3, AbsorbIs
  <2>4. QED
    BY <1>2, <2>1, <2>2, <2>3
<1> HIDE DEF at
<1>4. \E f : Loop(f)
  <2> DEFINE g == [k \in 0 .. w |-> Hasher(n, m + k, buf, len)]
  <2>1. \A k \in 0 .. w : g[k] = IF k = 0 THEN s ELSE Absorb(g[k - 1], at(k))
    <3> SUFFICES ASSUME NEW k \in 0 .. w
                 PROVE  g[k] = IF k = 0 THEN s ELSE Absorb(g[k - 1], at(k))
      OBVIOUS
    <3>1. CASE k = 0
      BY <3>1
    <3>2. CASE k # 0
      <4>1. k - 1 \in 0 .. w /\ k \in 1 .. w /\ m + (k - 1) = m + k - 1
        BY <3>2
      <4>2. QED
        BY <1>3, <3>2, <4>1
    <3>3. QED
      BY <3>1, <3>2
  <2>2. Loop(g)
    BY <2>1
  <2>3. QED
    BY <2>2
<1>5. Loop(after)
  BY <1>4
<1> HIDE DEF after
<1>6. after[0] = s /\ \A k \in 1 .. w : after[k] = Absorb(after[k - 1], at(k))
  BY <1>5
<1> DEFINE T == {k \in Nat : k <= w => after[k] = Hasher(n, m + k, buf, len)}
<1>7. 0 \in T
  BY <1>6
<1>8. \A k \in Nat : k \in T => k + 1 \in T
  <2> SUFFICES ASSUME NEW k \in T, k + 1 <= w
               PROVE  after[k + 1] = Hasher(n, m + (k + 1), buf, len)
    OBVIOUS
  <2>1. k \in Nat /\ k <= w /\ k + 1 \in 1 .. w /\ k + 1 - 1 = k /\ m + (k + 1) - 1 = m + k
    OBVIOUS
  <2>2. after[k] = Hasher(n, m + k, buf, len)
    BY <2>1
  <2>3. QED
    BY <1>3, <1>6, <2>1, <2>2
<1>9. w \in T
  <2> HIDE DEF T
  <2>1. Nat \subseteq T
    BY <1>7, <1>8, InductionBySet
  <2>2. QED
    BY <2>1
<1>10. QED
  BY <1>1, <1>9

-----------------------------------------------------------------------------
(* One update after the other *)

\* The first len bytes in the buffer are those after m blocks.
InBuffer(buf, n, m, len) ==
    buf \in [1 .. BlockBytes -> Int] /\ \A i \in 1 .. len : buf[i] = ByteAt(n, m * BlockBytes + i)

\* The rest of a piece.
LEMMA DropIs ==
    ASSUME NEW n, NEW c \in Nat, NEW in, Carries(in, n, c), NEW k \in Nat, k <= Len(in),
           NEW rest, rest = Drop(in, k), NEW d, d = c + k
    PROVE  Carries(rest, n, d) /\ Len(rest) = Len(in) - k
<1>0. rest = SubSeq(in, k + 1, Len(in))
  BY DEF Drop
<1>1. in \in Seq(Int) /\ Len(in) \in Nat /\ \A i \in 1 .. Len(in) : in[i] = ByteAt(n, c + i)
  BY LenProperties DEF Carries
<1>2. /\ rest \in Seq(Int) /\ Len(rest) = Len(in) - k
      /\ \A i \in 1 .. Len(in) - k : rest[i] = in[k + i]
  BY <1>0, <1>1, PartOf
<1>3. \A i \in 1 .. Len(in) - k : rest[i] = ByteAt(n, c + k + i)
  <2> SUFFICES ASSUME NEW i \in 1 .. Len(in) - k PROVE rest[i] = ByteAt(n, c + k + i)
    OBVIOUS
  <2>1. k + i \in 1 .. Len(in) /\ c + (k + i) = c + k + i
    BY <1>1
  <2>2. rest[i] = ByteAt(n, c + (k + i))
    BY <1>1, <1>2, <2>1, Zenon
  <2>3. QED
    BY <2>1, <2>2
<1>4. Carries(rest, n, c + k)
  BY <1>2, <1>3 DEF Carries
<1>5. QED
  BY <1>2, <1>4

\* A full buffer is a block.
LEMMA FullBlock ==
    ASSUME NEW n \in Nat, NEW m \in Nat, NEW buf, InBuffer(buf, n, m, BlockBytes)
    PROVE  buf = WholeBlock(n, m + 1)
<1>1. PICK j \in Nat : j = m + 1
  OBVIOUS
<1>2. j - 1 = m
  BY <1>1
<1>3. PICK block : block = WholeBlock(n, j)
  OBVIOUS
<1>4. /\ block \in [1 .. BlockBytes -> Int]
      /\ \A i \in 1 .. BlockBytes : block[i] = ByteAt(n, (j - 1) * BlockBytes + i)
  BY <1>3, BlockType
<1>5. /\ buf \in [1 .. BlockBytes -> Int]
      /\ \A i \in 1 .. BlockBytes : buf[i] = block[i]
  BY <1>2, <1>4, Zenon DEF InBuffer
<1>6. buf = block
  <2>1. PICK D : D = 1 .. BlockBytes
    OBVIOUS
  <2>2. buf \in [D -> Int] /\ block \in [D -> Int] /\ \A i \in D : buf[i] = block[i]
    BY <1>4, <1>5, <2>1, Zenon
  <2>3. QED
    BY <2>2, SameBytes
<1>7. QED
  BY <1>1, <1>3, <1>6, Zenon

\* Bytes copied behind those in the buffer (blake2b.c:236, :247).
LEMMA FillIs ==
    ASSUME NEW n \in Nat, NEW m \in Nat, NEW buf, NEW len \in Nat, InBuffer(buf, n, m, len),
           NEW in, Carries(in, n, m * BlockBytes + len), len + Len(in) <= BlockBytes
    PROVE  InBuffer(Copy(buf, len, in), n, m, len + Len(in))
<1> DEFINE c == m * BlockBytes
           new == Copy(buf, len, in)
<1>1. c \in Nat /\ BlockBytes \in Nat
  BY Lengths
<1> HIDE DEF c
<1>2. in \in Seq(Int) /\ Len(in) \in Nat /\ \A i \in 1 .. Len(in) : in[i] = ByteAt(n, c + len + i)
  BY LenProperties DEF Carries, c
<1>3. buf \in [1 .. BlockBytes -> Int] /\ \A i \in 1 .. len : buf[i] = ByteAt(n, c + i)
  BY DEF InBuffer, c
<1>4. /\ new \in [1 .. BlockBytes -> Int]
      /\ \A k \in 1 .. len : new[k] = buf[k]
      /\ \A k \in 1 .. Len(in) : new[len + k] = in[k]
  <2>1. IsCopy(new, buf, len, in)
    BY <1>1, <1>2, <1>3, CopyIs
  <2>2. QED
    BY <2>1 DEF IsCopy
<1> HIDE DEF new
<1>5. \A i \in 1 .. len + Len(in) : new[i] = ByteAt(n, c + i)
  <2> SUFFICES ASSUME NEW i \in 1 .. len + Len(in) PROVE new[i] = ByteAt(n, c + i)
    OBVIOUS
  <2>1. CASE i <= len
    BY <1>2, <1>3, <1>4, <2>1
  <2>2. CASE i > len
    <3>1. PICK k \in 1 .. Len(in) : i = len + k
      <4>1. i - len \in 1 .. Len(in) /\ i = len + (i - len)
        BY <1>2, <2>2
      <4>2. QED
        BY <4>1
    <3>2. new[len + k] = ByteAt(n, c + len + k)
      BY <1>2, <1>4
    <3>3. c + len + k = c + i
      BY <1>1, <3>1
    <3>4. QED
      BY <3>1, <3>2, <3>3
  <2>3. QED
    BY <1>2, <2>1, <2>2
<1>6. QED
  BY <1>4, <1>5 DEF InBuffer, new, c

\* A state with another buffer, field by field.
LEMMA WithBuffer ==
    ASSUME NEW h, NEW t, NEW f, NEW buf, NEW len, NEW s, s = State(h, t, f, buf, len),
           NEW buf2, NEW len2, NEW u, u = [s EXCEPT !.buf = buf2, !.buflen = len2]
    PROVE  u = State(h, t, f, buf2, len2)
  BY DEF State, OutBytes

\* What remains of a piece is kept (blake2b.c:247-248).
LEMMA KeepIs ==
    ASSUME NEW n, NEW m, NEW buf, NEW len, NEW in
    PROVE  Keep(Hasher(n, m, buf, len), in) = Hasher(n, m, Copy(buf, len, in), len + Len(in))
<1> DEFINE s == Hasher(n, m, buf, len)
<1>1. PICK h, t, f : h = Chain(n, m) /\ t = Counter(m * BlockBytes) /\ f = NotLast
  OBVIOUS
<1>2. PICK buf2, len2 : buf2 = Copy(buf, len, in) /\ len2 = len + Len(in)
  OBVIOUS
<1>3. s = State(h, t, f, buf, len) /\ Hasher(n, m, buf2, len2) = State(h, t, f, buf2, len2)
  BY <1>1, HasherState, Zenon
<1> HIDE DEF s
<1>4. s.buf = buf /\ s.buflen = len
  BY <1>3 DEF State
<1>5. PICK u : u = [s EXCEPT !.buf = buf2, !.buflen = len2]
  OBVIOUS
<1>6. u = State(h, t, f, buf2, len2)
  BY <1>3, <1>5 DEF State, OutBytes
<1>7. Keep(s, in) = u
  BY <1>2, <1>4, <1>5, Zenon DEF Keep
<1>8. QED
  BY <1>2, <1>3, <1>6, <1>7, Zenon DEF s

\* A block is held back: the loop leaves between 1 and BlockBytes bytes
\* (blake2b.c:240).
LEMMA WholeBlocksIs ==
    ASSUME NEW r \in Nat, r > 0
    PROVE  /\ WholeBlocks(r) \in Nat
           /\ WholeBlocks(r) * BlockBytes < r /\ r <= WholeBlocks(r) * BlockBytes + BlockBytes
<1> DEFINE q == (r - 1) \div BlockBytes
           e == (r - 1) % BlockBytes
<1>1. r - 1 \in Nat /\ BlockBytes \in Nat /\ BlockBytes > 0
  BY Lengths
<1>2. q \in Nat
  BY <1>1
<1>3. e \in 0 .. BlockBytes - 1
  BY <1>1
<1>4. r - 1 = BlockBytes * q + e
  BY <1>1
<1>5. WholeBlocks(r) = q
  BY DEF WholeBlocks
<1> HIDE DEF q, e
<1>6. BlockBytes * q = q * BlockBytes /\ q * BlockBytes \in Nat
  BY <1>1, <1>2
<1>7. QED
  BY <1>1, <1>2, <1>3, <1>4, <1>5, <1>6

\* A piece of any length goes into the hash block by block, and the end of it
\* stays in the buffer (blake2b.c:226-251).
LEMMA UpdateIs ==
    ASSUME NEW n \in Nat, NEW m \in Nat, NEW buf, NEW len \in 1 .. BlockBytes,
           InBuffer(buf, n, m, len),
           NEW in, Carries(in, n, m * BlockBytes + len),
           m * BlockBytes + len + Len(in) < CounterRange
    PROVE  \E m2 \in Nat, len2 \in 1 .. BlockBytes : \E buf2 :
               /\ m2 * BlockBytes + len2 = m * BlockBytes + len + Len(in)
               /\ InBuffer(buf2, n, m2, len2)
               /\ blake2b_update(Hasher(n, m, buf, len), in) = Hasher(n, m2, buf2, len2)
<1> DEFINE s == Hasher(n, m, buf, len)
           c == m * BlockBytes
           fill == BlockBytes - len
           full == Copy(buf, len, SubSeq(in, 1, fill))
           rest == Drop(in, fill)
           w == WholeBlocks(Len(rest))
           last == Drop(rest, w * BlockBytes)
<1>1. /\ BlockBytes \in Nat /\ BlockBytes > 0 /\ c \in Nat /\ CounterRange \in Nat
      /\ len \in Nat /\ len > 0 /\ len <= BlockBytes /\ fill \in Nat /\ len + fill = BlockBytes
  BY Lengths
<1>2. in \in Seq(Int) /\ Len(in) \in Nat
  BY LenProperties DEF Carries
<1>0. c + len + Len(in) < CounterRange
  OBVIOUS
<1>3. s.buf = buf /\ s.buflen = len
  BY HasherState DEF State
<1>4. CASE Len(in) <= fill
  <2>1. blake2b_update(s, in) = Keep(s, in)
    BY <1>3, <1>4, Zenon DEF blake2b_update
  <2>2. Keep(s, in) = Hasher(n, m, Copy(buf, len, in), len + Len(in))
    BY KeepIs
  <2>3. len + Len(in) \in 1 .. BlockBytes /\ len + Len(in) <= BlockBytes
    BY <1>1, <1>2, <1>4
  <2>4. InBuffer(Copy(buf, len, in), n, m, len + Len(in))
    BY <1>1, <2>3, FillIs
  <2>5. m * BlockBytes + (len + Len(in)) = m * BlockBytes + len + Len(in)
    BY <1>1, <1>2
  <2> HIDE DEF s
  <2>6. QED
    BY <2>1, <2>2, <2>3, <2>4, <2>5 DEF s
<1>5. CASE Len(in) > fill
  <2>1. blake2b_update(s, in) =
            Keep(AbsorbAll(Absorb([s EXCEPT !.buf = full, !.buflen = 0], full), rest, w), last)
    <3>1. ~(Len(in) <= fill)
      BY <1>1, <1>2, <1>5
    <3>2. QED
      BY <1>3, <3>1, Zenon DEF blake2b_update
  <2>2. [s EXCEPT !.buf = full, !.buflen = 0] = Hasher(n, m, full, 0)
    <3> HIDE DEF full
    <3>1. PICK h, t, f : h = Chain(n, m) /\ t = Counter(m * BlockBytes) /\ f = NotLast
      OBVIOUS
    <3>2. PICK zero : zero = 0
      OBVIOUS
    <3>3. s = State(h, t, f, buf, len) /\ Hasher(n, m, full, zero) = State(h, t, f, full, zero)
      BY <3>1, HasherState, Zenon
    <3> HIDE DEF s
    <3>4. PICK u : u = [s EXCEPT !.buf = full, !.buflen = zero]
      OBVIOUS
    <3>5. u = State(h, t, f, full, zero)
      BY <3>3, <3>4 DEF State, OutBytes
    <3>6. QED
      BY <3>2, <3>3, <3>4, <3>5, Zenon
  <2>3. full = WholeBlock(n, m + 1)
    <3> DEFINE part == SubSeq(in, 0 + 1, fill)
    <3>1. /\ part \in Seq(Int) /\ Len(part) = fill
          /\ \A i \in 1 .. fill : part[i] = in[i]
      BY <1>1, <1>2, <1>5, PartOf
    <3>2. \A i \in 1 .. fill : in[i] = ByteAt(n, c + len + i)
      BY <1>1, <1>2, <1>5 DEF Carries
    <3>3. full = Copy(buf, len, part)
      OBVIOUS
    <3> HIDE DEF part, fill
    <3>4. Carries(part, n, m * BlockBytes + len)
      BY <3>1, <3>2 DEF Carries
    <3> HIDE DEF full
    <3>5. InBuffer(full, n, m, BlockBytes)
      <4>1. len + Len(part) = BlockBytes /\ len + Len(part) <= BlockBytes
        BY <1>1, <3>1
      <4>2. InBuffer(Copy(buf, len, part), n, m, len + Len(part))
        BY <1>1, <3>4, <4>1, FillIs
      <4>3. QED
        BY <3>3, <4>1, <4>2
    <3>6. QED
      BY <3>5, FullBlock
  <2>4. (m + 1) * BlockBytes = c + BlockBytes /\ (m + 1) * BlockBytes \in Nat
    BY <1>1
  <2>5. Carries(rest, n, (m + 1) * BlockBytes) /\ Len(rest) = Len(in) - fill
    <3>1. c + len \in Nat /\ c + len + fill = (m + 1) * BlockBytes /\ fill <= Len(in)
      BY <1>1, <1>2, <1>5, <2>4
    <3>2. Carries(in, n, c + len)
      OBVIOUS
    <3> HIDE DEF fill, c
    <3>3. PICK a \in Nat : a = c + len
      BY <3>1
    <3>4. PICK f \in Nat : f = fill
      BY <1>1
    <3>5. Carries(in, n, a) /\ f <= Len(in)
      BY <3>1, <3>2, <3>3, <3>4
    <3>6. PICK d : d = (m + 1) * BlockBytes
      OBVIOUS
    <3>10. d = a + f
      BY <3>1, <3>3, <3>4, <3>6, Zenon
    <3>7. PICK r : r = Drop(in, f)
      OBVIOUS
    <3> HIDE DEF s, full, rest, w, last
    <3>8. Carries(r, n, d) /\ Len(r) = Len(in) - f
      BY ONLY <3>5, <3>7, <3>10, DropIs
    <3>9. QED
      BY <3>4, <3>6, <3>7, <3>8, Zenon DEF rest
  <2> HIDE DEF fill, rest, c, full
  <2>6. Len(rest) \in Nat /\ Len(rest) > 0 /\ c + BlockBytes + Len(rest) = c + len + Len(in)
    <3>1. PICK r : r = Len(rest) /\ r = Len(in) - fill
      BY <2>5
    <3>2. r \in Nat /\ r > 0 /\ c + BlockBytes + r = c + len + Len(in)
      BY ONLY <1>1, <1>2, <1>5, <3>1
    <3>3. QED
      BY <3>1, <3>2
  <2>7. /\ w \in Nat /\ w * BlockBytes \in Nat
        /\ w * BlockBytes < Len(rest) /\ Len(rest) <= w * BlockBytes + BlockBytes
    <3>1. PICK r \in Nat : r = Len(rest) /\ r > 0
      BY <2>6
    <3>2. /\ WholeBlocks(r) \in Nat
          /\ WholeBlocks(r) * BlockBytes < r /\ r <= WholeBlocks(r) * BlockBytes + BlockBytes
      BY <3>1, WholeBlocksIs
    <3>3. \A x \in Nat : x * BlockBytes \in Nat
      BY <1>1
    <3>4. QED
      BY <3>1, <3>2, <3>3, Zenon
  <2> HIDE DEF w
  <2>8. PICK k \in Nat : k = m + 1
    OBVIOUS
  <2>9. (k + w) * BlockBytes = c + BlockBytes + w * BlockBytes
    BY <1>1, <2>4, <2>7, <2>8 DEF c
  <2>10. Absorb(Hasher(n, m, full, 0), full) = Hasher(n, k, full, 0)
    <3>1. (m + 1) * BlockBytes < CounterRange
      BY <1>0, <1>1, <1>2, <2>4, <2>6
    <3>2. QED
      BY <2>3, <2>8, <3>1, AbsorbIs
  <2>11. AbsorbAll(Hasher(n, k, full, 0), rest, w) = Hasher(n, k + w, full, 0)
    <3>1. (k + w) * BlockBytes < CounterRange
      <4>1. c + BlockBytes + w * BlockBytes < CounterRange
        BY <1>0, <1>1, <1>2, <2>6, <2>7
      <4>2. QED
        BY <2>9, <4>1
    <3>2. w * BlockBytes <= Len(rest)
      BY <2>6, <2>7
    <3>3. Carries(rest, n, k * BlockBytes)
      BY <2>5, <2>8
    <3>4. QED
      BY <2>7, <3>1, <3>2, <3>3, AbsorbAllIs
  <2>12. Carries(last, n, (k + w) * BlockBytes + 0) /\ Len(last) = Len(rest) - w * BlockBytes
    <3>1. w * BlockBytes <= Len(rest)
      BY <2>6, <2>7
    <3>2. PICK d \in Nat : d = w * BlockBytes
      BY <2>7
    <3>3. PICK a \in Nat : a = (m + 1) * BlockBytes
      BY <2>4
    <3>4. PICK e : e = (k + w) * BlockBytes + 0
      OBVIOUS
    <3>9. e = a + d
      BY ONLY <1>1, <2>4, <2>9, <3>2, <3>3, <3>4
    <3>5. Carries(rest, n, a) /\ d <= Len(rest)
      BY <2>5, <3>1, <3>2, <3>3
    <3>6. PICK l : l = Drop(rest, d)
      OBVIOUS
    <3>7. Carries(l, n, e) /\ Len(l) = Len(rest) - d
      BY <3>5, <3>6, <3>9, DropIs
    <3>8. QED
      BY <3>2, <3>4, <3>6, <3>7, Zenon
  <2>13. Len(last) \in 1 .. BlockBytes /\ 0 + Len(last) = Len(last) /\ Len(last) <= BlockBytes
    BY <1>1, <2>6, <2>7, <2>12
  <2>14. (k + w) * BlockBytes + Len(last) = m * BlockBytes + len + Len(in)
    <3>1. c + BlockBytes + w * BlockBytes + Len(last) = c + len + Len(in)
      <4>1. PICK x \in Nat : x = w * BlockBytes
        BY <2>7
      <4>2. PICK l : l = Len(last) /\ l = Len(rest) - x
        BY <2>12, <4>1
      <4>3. c + BlockBytes + x + l = c + len + Len(in)
        BY <1>1, <1>2, <2>6, <4>1, <4>2
      <4>4. QED
        BY <4>1, <4>2, <4>3, Zenon
    <3>2. QED
      BY <2>9, <3>1 DEF c
  <2>15. InBuffer(Copy(full, 0, last), n, k + w, Len(last))
    <3>1. full \in [1 .. BlockBytes -> Int]
      <4>1. WholeBlock(n, k) \in [1 .. BlockBytes -> Int]
        BY BlockType
      <4>2. QED
        BY <2>3, <2>8, <4>1, Zenon
    <3>2. InBuffer(full, n, k + w, 0)
      BY <3>1 DEF InBuffer
    <3>3. k + w \in Nat /\ 0 \in Nat
      BY <2>7
    <3> HIDE DEF last
    <3>4. InBuffer(Copy(full, 0, last), n, k + w, 0 + Len(last))
      BY <2>12, <2>13, <3>2, <3>3, FillIs
    <3>5. QED
      BY <2>13, <3>4
  <2>16. blake2b_update(s, in) = Hasher(n, k + w, Copy(full, 0, last), Len(last))
    <3> HIDE DEF s, last
    <3>1. blake2b_update(s, in) = Keep(Hasher(n, k + w, full, 0), last)
      BY <2>1, <2>2, <2>10, <2>11
    <3>2. Keep(Hasher(n, k + w, full, 0), last)
          = Hasher(n, k + w, Copy(full, 0, last), 0 + Len(last))
      BY KeepIs
    <3>3. QED
      BY <2>13, <3>1, <3>2
  <2>17. k + w \in Nat
    BY <2>7
  <2> HIDE DEF s, last
  <2>18. QED
    BY <2>13, <2>14, <2>15, <2>16, <2>17 DEF s
<1>6. QED
  BY <1>1, <1>2, <1>4, <1>5

-----------------------------------------------------------------------------
(* The key block *)

KeyBlock(n) == Copy(Zeroes(BlockBytes), 0, KeyBytes(n))

\* A key is at most a block long.
LEMMA KeysFit ==
    ASSUME NEW n \in KeyLens
    PROVE  n \in Nat /\ n > 0 /\ n <= BlockBytes
  BY Blake2bAssumption, Lengths

\* A memory of zeroes.
LEMMA ZeroesAre ==
    ASSUME NEW k \in Nat
    PROVE  Zeroes(k) \in [1 .. k -> Int] /\ \A i \in 1 .. k : Zeroes(k)[i] = 0
  BY DEF Zeroes

\* The key, padded to a block, comes before the message (blake2b.c:145-148).
LEMMA KeyBlockIs ==
    ASSUME NEW n \in KeyLens
    PROVE  Carries(KeyBlock(n), n, 0) /\ Len(KeyBlock(n)) = BlockBytes
<1>1. n \in Nat /\ n <= BlockBytes /\ BlockBytes \in Nat
  BY KeysFit, Lengths
<1>2. PICK key : key = KeyBytes(n)
  OBVIOUS
<1>3. key \in Seq(Int) /\ Len(key) = n /\ \A i \in 1 .. n : key[i] = -i
  <2>1. key = [k \in 1 .. n |-> -k]
    BY <1>2 DEF KeyBytes
  <2>2. IsFunction(key, n) /\ \A k \in 1 .. n : key[k] \in Int /\ key[k] = -k
    BY <1>1, <2>1 DEF IsFunction
  <2>3. QED
    BY <1>1, <2>2, FunctionIsSeq
<1>4. PICK zeroes : zeroes = Zeroes(BlockBytes)
  OBVIOUS
<1>5. zeroes \in [1 .. BlockBytes -> Int] /\ \A i \in 1 .. BlockBytes : zeroes[i] = 0
  BY <1>1, <1>4, ZeroesAre
<1>6. PICK block : block = Copy(zeroes, 0, key)
  OBVIOUS
<1>7. /\ block \in [1 .. BlockBytes -> Int]
      /\ \A k \in 1 .. n : block[0 + k] = -k
      /\ \A k \in 1 .. BlockBytes : k > 0 + n => block[k] = 0
  <2>1. 0 + Len(key) <= BlockBytes /\ 0 \in Nat
    BY <1>1, <1>3
  <2>2. /\ block \in [1 .. BlockBytes -> Int]
        /\ \A k \in 1 .. Len(key) : block[0 + k] = key[k]
        /\ \A k \in 1 .. BlockBytes : k > 0 + Len(key) => block[k] = zeroes[k]
    <3>1. IsCopy(block, zeroes, 0, key)
      BY <1>3, <1>5, <1>6, <2>1, CopyIs
    <3>2. QED
      BY <3>1, Zenon DEF IsCopy
  <2>3. QED
    BY <1>3, <1>5, <2>2, Zenon
<1>8. block \in Seq(Int) /\ Len(block) = BlockBytes
  <2>1. block \in Seq(Int)
    BY <1>1, <1>7, SeqDef
  <2>2. QED
    BY <1>1, <1>7, <2>1, LenProperties
<1>9. \A i \in 1 .. BlockBytes : block[i] = ByteAt(n, 0 + i)
  <2> SUFFICES ASSUME NEW i \in 1 .. BlockBytes PROVE block[i] = ByteAt(n, 0 + i)
    OBVIOUS
  <2>1. CASE i <= n
    <3>1. i \in 1 .. n /\ 0 + i = i /\ ~(i > BlockBytes)
      BY <1>1, <2>1
    <3>2. block[i] = -i
      BY <1>7, <3>1
    <3>3. QED
      BY <2>1, <3>1, <3>2 DEF ByteAt
  <2>2. CASE i > n
    <3>1. i > 0 + n /\ 0 + i = i /\ ~(i > BlockBytes) /\ ~(i <= n)
      BY <1>1, <2>2
    <3>2. block[i] = 0
      BY <1>7, <3>1
    <3>3. QED
      BY <3>1, <3>2 DEF ByteAt
  <2>3. QED
    BY <1>1, <2>1, <2>2
<1>10. block = KeyBlock(n)
  BY <1>2, <1>4, <1>6 DEF KeyBlock
<1>11. QED
  BY <1>8, <1>9, <1>10 DEF Carries

\* After blake2b_init_key the buffer is full of the key block and nothing is
\* compressed (blake2b.c:122-152).
LEMMA InitIs ==
    ASSUME NEW n \in KeyLens
    PROVE  \E buf : InBuffer(buf, n, 0, BlockBytes) /\ hash_init(n) = Hasher(n, 0, buf, BlockBytes)
<1> DEFINE in == KeyBlock(n)
           zeroes == Zeroes(BlockBytes)
           s == blake2b_init_param(OutBytes, n)
<1>1. n \in Nat /\ BlockBytes \in Nat /\ BlockBytes > 0
  BY KeysFit, Lengths
<1>2. Carries(in, n, 0) /\ Len(in) = BlockBytes
  BY KeyBlockIs
<1>3. zeroes \in [1 .. BlockBytes -> Int]
  BY <1>1, ZeroesAre
<1>4. s = Hasher(n, 0, zeroes, 0)
  <2>1. Chain(n, 0) = <<[digest_length |-> OutBytes, key_length |-> n]>>
    BY DEF Chain
  <2>2. 0 * BlockBytes = 0
    BY <1>1
  <2>3. Counter(0) = <<0, 0>>
    <3>1. WordMod \in Nat /\ WordMod > 0 /\ 0 = WordMod * 0 + 0
      BY Lengths
    <3>2. 0 % WordMod = 0 /\ 0 \div WordMod = 0
      BY <3>1, Division
    <3>3. QED
      BY <3>2 DEF Counter
  <2>4. s = [h |-> <<[digest_length |-> OutBytes, key_length |-> n]>>, t |-> <<0, 0>>, f |-> FALSE,
             buf |-> zeroes, buflen |-> 0, outlen |-> OutBytes]
    BY DEF blake2b_init_param
  <2>5. QED
    BY <2>1, <2>2, <2>3, <2>4, Zenon DEF Hasher
<1>5. hash_init(n) = blake2b_update(s, in)
  BY DEF hash_init, KeyBlock
<1> HIDE DEF s, in, zeroes
<1>6. blake2b_update(s, in) = Keep(s, in)
  <2>1. s.buf = zeroes /\ s.buflen = 0
    BY <1>4, HasherState DEF State
  <2>2. Len(in) <= BlockBytes - s.buflen
    BY <1>1, <1>2, <2>1
  <2>3. QED
    BY <2>2, Zenon DEF blake2b_update
<1>7. Keep(s, in) = Hasher(n, 0, Copy(zeroes, 0, in), BlockBytes)
  <2>1. 0 + Len(in) = BlockBytes
    BY <1>1, <1>2
  <2>2. Keep(s, in) = Hasher(n, 0, Copy(zeroes, 0, in), 0 + Len(in))
    BY <1>4, KeepIs
  <2>3. QED
    BY <2>1, <2>2
<1>8. InBuffer(Copy(zeroes, 0, in), n, 0, BlockBytes)
  <2>1. InBuffer(zeroes, n, 0, 0)
    BY <1>3 DEF InBuffer
  <2>2. 0 * BlockBytes + 0 = 0 /\ 0 + Len(in) = BlockBytes /\ 0 + Len(in) <= BlockBytes
    BY <1>1, <1>2
  <2>3. Carries(in, n, 0 * BlockBytes + 0)
    BY <1>2, <2>2
  <2>4. InBuffer(Copy(zeroes, 0, in), n, 0, 0 + Len(in))
    BY <1>1, <2>1, <2>2, <2>3, FillIs
  <2>5. QED
    BY <2>2, <2>4
<1>9. QED
  BY <1>5, <1>6, <1>7, <1>8

-----------------------------------------------------------------------------
(* The invariant *)

\* The chaining value has one entry for each block and one for the parameters.
LEMMA ChainLength ==
    ASSUME NEW n, NEW m \in Nat
    PROVE  Len(Chain(n, m)) = m + 1 /\ \A k \in 2 .. m + 1 : ~Chain(n, m)[k].f
<1>1. PICK V : \A k \in 1 .. m + 1 : Chain(n, m)[k] \in V
  <2>1. \A k \in 1 .. m + 1 : Chain(n, m)[k] \in {Chain(n, m)[j] : j \in 1 .. m + 1}
    OBVIOUS
  <2>2. QED
    BY <2>1
<1>2. IsFunction(Chain(n, m), m + 1) /\ m + 1 \in Nat
  BY DEF IsFunction, Chain
<1>3. Len(Chain(n, m)) = m + 1
  BY <1>1, <1>2, FunctionIsSeq
<1>4. \A k \in 2 .. m + 1 : ~Chain(n, m)[k].f
  <2> SUFFICES ASSUME NEW k \in 2 .. m + 1 PROVE ~Chain(n, m)[k].f
    OBVIOUS
  <2>1. k \in 1 .. m + 1 /\ k # 1
    OBVIOUS
  <2>2. Chain(n, m)[k] = [block |-> WholeBlock(n, k - 1), t |-> Counter((k - 1) * BlockBytes), f |-> FALSE]
    BY <2>1, Zenon DEF Chain
  <2>3. PICK x, y : Chain(n, m)[k] = [block |-> x, t |-> y, f |-> FALSE]
    BY <2>2
  <2>4. QED
    BY <2>3
<1>5. QED
  BY <1>3, <1>4

\* A hasher that took c bytes of the message.
Took(s, n, c) ==
    \E m \in Nat, len \in 1 .. BlockBytes : \E buf :
        /\ m * BlockBytes + len = BlockBytes + c
        /\ InBuffer(buf, n, m, len)
        /\ s = Hasher(n, m, buf, len)

\* The invariant, before the digest is taken.
LEMMA TookIs ==
    ASSUME keylen \in KeyLens, fed \in 0 .. MaxMessage, out = NoDigest, Took(S, keylen, fed)
    PROVE  BlakeInv /\ ~S.f
<1>1. PICK m \in Nat, len \in 1 .. BlockBytes : \E buf :
          /\ m * BlockBytes + len = BlockBytes + fed
          /\ InBuffer(buf, keylen, m, len)
          /\ S = Hasher(keylen, m, buf, len)
  BY DEF Took
<1>2. PICK buf : /\ m * BlockBytes + len = BlockBytes + fed
                 /\ InBuffer(buf, keylen, m, len)
                 /\ S = Hasher(keylen, m, buf, len)
  BY <1>1
<1>3. S.buf = buf /\ S.buflen = len /\ S.h = Chain(keylen, m)
  BY <1>2, HasherState DEF State
<1>4. ~S.f
  BY <1>2, Zenon DEF Hasher
<1>5. Len(S.h) - 1 = m
  <2>1. PICK l : l = Len(S.h)
    OBVIOUS
  <2>2. l = m + 1
    BY <1>3, <2>1, ChainLength
  <2>3. l - 1 = m
    BY <2>2
  <2>4. QED
    BY <2>1, <2>3
<1>6. QED
  BY <1>2, <1>3, <1>4, <1>5, Zenon DEF BlakeInv, InBuffer

\* Until the digest is taken the hasher has all bytes given to it, and then it
\* is that of them (blake2b.c:226-277).
HashInv ==
    /\ keylen \in KeyLens /\ fed \in 0 .. MaxMessage
    /\ S.f => out = Blocks(keylen, fed)
    /\ ~S.f => out = NoDigest /\ Took(S, keylen, fed)

\* It is the invariant that the runs check.
LEMMA HashInvIs == HashInv => BlakeInv
<1> SUFFICES ASSUME HashInv PROVE BlakeInv
  OBVIOUS
<1>1. CASE S.f
  BY <1>1, Zenon DEF HashInv, BlakeInv
<1>2. CASE ~S.f
  BY <1>2, TookIs, Zenon DEF HashInv
<1>3. QED
  BY <1>1, <1>2

\* Initially (blake2b.c:122-152).
LEMMA InitInv == BlakeInit => HashInv
<1> SUFFICES ASSUME BlakeInit PROVE HashInv
  OBVIOUS
<1>1. keylen \in KeyLens /\ S = hash_init(keylen) /\ fed = 0 /\ out = NoDigest
  BY DEF BlakeInit
<1>2. PICK buf : InBuffer(buf, keylen, 0, BlockBytes) /\ S = Hasher(keylen, 0, buf, BlockBytes)
  BY <1>1, InitIs
<1>3. 0 \in Nat /\ BlockBytes \in 1 .. BlockBytes /\ 0 * BlockBytes + BlockBytes = BlockBytes + fed
  BY <1>1, Lengths
<1>4. fed \in 0 .. MaxMessage
  BY <1>1, Lengths
<1>5. Took(S, keylen, fed)
  BY <1>2, <1>3, Zenon DEF Took
<1>6. ~S.f
  BY <1>2, Zenon DEF Hasher
<1>7. QED
  BY <1>1, <1>4, <1>5, <1>6, Zenon DEF HashInv

\* The next bytes of the message, after c of them and the key.
LEMMA PieceIs ==
    ASSUME NEW n \in Nat, NEW c \in Nat, NEW k \in Nat
    PROVE  Carries(Piece(c, k), n, BlockBytes + c) /\ Len(Piece(c, k)) = k
<1>1. PICK p : p = Piece(c, k)
  OBVIOUS
<1>2. p = [i \in 1 .. k |-> c + i]
  BY <1>1 DEF Piece
<1>3. IsFunction(p, k) /\ \A i \in 1 .. k : p[i] \in Int /\ p[i] = c + i
  BY <1>2 DEF IsFunction
<1>4. p \in Seq(Int) /\ Len(p) = k
  BY <1>3, FunctionIsSeq
<1>5. \A i \in 1 .. k : p[i] = ByteAt(n, BlockBytes + c + i)
  BY <1>3, Lengths DEF ByteAt
<1>6. QED
  BY <1>1, <1>4, <1>5 DEF Carries

\* One more piece (blake2b.c:226-251).
LEMMA UpdateInv ==
    ASSUME HashInv, NEW k \in 0 .. MaxPiece, Update(k)
    PROVE  HashInv'
<1>1. /\ keylen \in KeyLens /\ fed \in 0 .. MaxMessage /\ ~S.f
      /\ out = NoDigest /\ Took(S, keylen, fed)
  BY DEF HashInv, Update
<1>2. /\ fed + k <= MaxMessage /\ S' = blake2b_update(S, Piece(fed, k))
      /\ fed' = fed + k /\ keylen' = keylen /\ out' = out
  BY DEF Update
<1>3. PICK m \in Nat, len \in 1 .. BlockBytes : \E buf :
          /\ m * BlockBytes + len = BlockBytes + fed
          /\ InBuffer(buf, keylen, m, len)
          /\ S = Hasher(keylen, m, buf, len)
  BY <1>1 DEF Took
<1>4. PICK buf : /\ m * BlockBytes + len = BlockBytes + fed
                 /\ InBuffer(buf, keylen, m, len)
                 /\ S = Hasher(keylen, m, buf, len)
  BY <1>3
<1>5. keylen \in Nat /\ fed \in Nat /\ k \in Nat /\ fed + k \in 0 .. MaxMessage
  BY <1>1, <1>2, KeysFit, Lengths
<1>6. PICK in : in = Piece(fed, k)
  OBVIOUS
<1>7. Carries(in, keylen, m * BlockBytes + len) /\ Len(in) = k
  BY <1>4, <1>5, <1>6, PieceIs
<1>8. m * BlockBytes + len + Len(in) < CounterRange
  <2>1. BlockBytes + fed + k < CounterRange
    BY <1>2, <1>5, Lengths
  <2>2. QED
    BY <1>4, <1>7, <2>1
<1>9. \E m2 \in Nat, len2 \in 1 .. BlockBytes : \E buf2 :
          /\ m2 * BlockBytes + len2 = m * BlockBytes + len + Len(in)
          /\ InBuffer(buf2, keylen, m2, len2)
          /\ blake2b_update(Hasher(keylen, m, buf, len), in) = Hasher(keylen, m2, buf2, len2)
  BY <1>4, <1>5, <1>7, <1>8, UpdateIs
<1>10. PICK m2 \in Nat, len2 \in 1 .. BlockBytes : \E buf2 :
          /\ m2 * BlockBytes + len2 = m * BlockBytes + len + Len(in)
          /\ InBuffer(buf2, keylen, m2, len2)
          /\ S' = Hasher(keylen, m2, buf2, len2)
  BY <1>2, <1>4, <1>6, <1>9, Zenon
<1>11. PICK buf2 :
          /\ m2 * BlockBytes + len2 = m * BlockBytes + len + Len(in)
          /\ InBuffer(buf2, keylen, m2, len2)
          /\ S' = Hasher(keylen, m2, buf2, len2)
  BY <1>10
<1>12. m2 * BlockBytes + len2 = BlockBytes + (fed + k)
  <2>1. BlockBytes + fed + k = BlockBytes + (fed + k)
    BY <1>5, Lengths
  <2>2. QED
    BY <1>4, <1>7, <1>11, <2>1
<1>13. Took(S', keylen, fed + k)
  BY <1>11, <1>12, Zenon DEF Took
<1>14. ~S'.f
  BY <1>11, Zenon DEF Hasher
<1>15. QED
  BY <1>1, <1>2, <1>5, <1>13, <1>14, Zenon DEF HashInv

-----------------------------------------------------------------------------
(* The digest *)

\* The key block and the message, byte by byte.
LEMMA InputIs ==
    ASSUME NEW n \in KeyLens, NEW c \in Nat
    PROVE  Carries(Input(n, c), n, 0) /\ Len(Input(n, c)) = BlockBytes + c
<1>1. PICK key, message : key = KeyBlock(n) /\ message = Piece(0, c)
  OBVIOUS
<1>2. /\ key \in Seq(Int) /\ Len(key) = BlockBytes
      /\ \A i \in 1 .. BlockBytes : key[i] = ByteAt(n, 0 + i)
  BY <1>1, KeyBlockIs DEF Carries
<1>3. /\ message \in Seq(Int) /\ Len(message) = c
      /\ \A i \in 1 .. c : message[i] = ByteAt(n, BlockBytes + 0 + i)
  <2>1. Carries(message, n, BlockBytes + 0) /\ Len(message) = c
    BY <1>1, PieceIs, KeysFit
  <2>2. QED
    BY <2>1 DEF Carries
<1>4. PICK all : all = key \o message
  OBVIOUS
<1>5. /\ all \in Seq(Int) /\ Len(all) = BlockBytes + c
      /\ \A i \in 1 .. BlockBytes + c :
             all[i] = IF i <= BlockBytes THEN key[i] ELSE message[i - BlockBytes]
  <2>1. BlockBytes \in Nat
    BY Lengths
  <2>2. QED
    <3>1. /\ all \in Seq(Int) /\ Len(all) = Len(key) + Len(message)
          /\ \A i \in 1 .. Len(key) + Len(message) :
                 all[i] = IF i <= Len(key) THEN key[i] ELSE message[i - Len(key)]
      BY <1>2, <1>3, <1>4, ConcatProperties, Zenon
    <3>2. QED
      BY <1>2, <1>3, <3>1, Zenon
<1>6. \A i \in 1 .. BlockBytes + c : all[i] = ByteAt(n, 0 + i)
  <2> SUFFICES ASSUME NEW i \in 1 .. BlockBytes + c PROVE all[i] = ByteAt(n, 0 + i)
    OBVIOUS
  <2>0. BlockBytes \in Nat
    BY Lengths
  <2>1. CASE i <= BlockBytes
    <3>1. i \in 1 .. BlockBytes
      BY <2>0, <2>1
    <3>2. QED
      BY <1>2, <1>5, <2>1, <3>1
  <2>2. CASE i > BlockBytes
    <3>1. PICK j \in 1 .. c : j = i - BlockBytes /\ BlockBytes + 0 + j = 0 + i
      BY <2>0, <2>2
    <3>2. all[i] = message[j]
      BY <1>5, <2>0, <2>2, <3>1
    <3>3. message[j] = ByteAt(n, BlockBytes + 0 + j)
      BY <1>3
    <3>4. QED
      BY <3>1, <3>2, <3>3
  <2>3. QED
    BY <2>0, <2>1, <2>2
<1>7. all = Input(n, c)
  BY <1>1, <1>4 DEF Input, KeyBlock
<1>8. QED
  BY <1>5, <1>6, <1>7 DEF Carries

\* A whole block needs no padding.
LEMMA BlockCopy ==
    ASSUME NEW n \in Nat, NEW k \in Nat
    PROVE  Copy(Zeroes(BlockBytes), 0, WholeBlock(n, k)) = WholeBlock(n, k)
<1>1. PICK b, z : b = WholeBlock(n, k) /\ z = Zeroes(BlockBytes)
  OBVIOUS
<1>2. b \in [1 .. BlockBytes -> Int] /\ z \in [1 .. BlockBytes -> Int] /\ BlockBytes \in Nat
  BY <1>1, BlockType, ZeroesAre, Lengths
<1>3. b \in Seq(Int) /\ Len(b) = BlockBytes
  <2>1. b \in Seq(Int)
    BY <1>2, SeqDef
  <2>2. QED
    BY <1>2, <2>1, LenProperties
<1>4. PICK c : c = Copy(z, 0, b)
  OBVIOUS
<1>5. c \in [1 .. BlockBytes -> Int] /\ \A i \in 1 .. BlockBytes : c[0 + i] = b[i]
  <2>1. 0 + Len(b) <= BlockBytes /\ 0 \in Nat
    BY <1>2, <1>3
  <2>2. c \in [1 .. BlockBytes -> Int] /\ \A i \in 1 .. Len(b) : c[0 + i] = b[i]
    <3>1. IsCopy(c, z, 0, b)
      BY <1>2, <1>3, <1>4, <2>1, CopyIs
    <3>2. QED
      BY <3>1, Zenon DEF IsCopy
  <2>3. QED
    BY <1>3, <2>2, Zenon
<1>6. PICK D : D = 1 .. BlockBytes
  OBVIOUS
<1>7. \A i \in 1 .. BlockBytes : c[i] = b[i]
  BY <1>5
<1>8. c \in [D -> Int] /\ b \in [D -> Int] /\ \A i \in D : c[i] = b[i]
  BY <1>2, <1>5, <1>6, <1>7, Zenon
<1>9. c = b
  BY <1>8, SameBytes
<1>10. QED
  BY <1>1, <1>4, <1>9, Zenon

\* The last bytes are padded with zeroes, whatever the buffer held behind them
\* (blake2b.c:267).
LEMMA PaddingIs ==
    ASSUME NEW n \in Nat, NEW m \in Nat, NEW len \in 1 .. BlockBytes, NEW buf,
           InBuffer(buf, n, m, len),
           NEW all, Carries(all, n, 0), Len(all) = m * BlockBytes + len
    PROVE  Copy(buf, len, Zeroes(BlockBytes - len))
           = Copy(Zeroes(BlockBytes), 0, SubSeq(all, m * BlockBytes + 1, Len(all)))
<1>1. PICK c \in Nat : c = m * BlockBytes
  BY Lengths
<1>2. /\ all \in Seq(Int) /\ Len(all) = c + len
      /\ \A i \in 1 .. c + len : all[i] = ByteAt(n, 0 + i)
  BY <1>1 DEF Carries
<1>3. buf \in [1 .. BlockBytes -> Int] /\ \A i \in 1 .. len : buf[i] = ByteAt(n, c + i)
  BY <1>1 DEF InBuffer
<1>4. /\ len \in Nat /\ BlockBytes \in Nat /\ len <= BlockBytes
      /\ BlockBytes - len \in Nat /\ len + (BlockBytes - len) = BlockBytes
  BY Lengths
<1>5. PICK pad : pad = Zeroes(BlockBytes - len)
  OBVIOUS
<1>6. /\ pad \in Seq(Int) /\ Len(pad) = BlockBytes - len
      /\ \A i \in 1 .. BlockBytes - len : pad[i] = 0
  <2>1. /\ pad \in [1 .. BlockBytes - len -> Int]
        /\ \A i \in 1 .. BlockBytes - len : pad[i] = 0
    BY <1>4, <1>5, ZeroesAre
  <2>2. pad \in Seq(Int)
    BY <1>4, <2>1, SeqDef
  <2>3. QED
    BY <1>4, <2>1, <2>2, LenProperties
<1>7. PICK z : z = Zeroes(BlockBytes)
  OBVIOUS
<1>8. z \in [1 .. BlockBytes -> Int] /\ \A i \in 1 .. BlockBytes : z[i] = 0
  BY <1>4, <1>7, ZeroesAre
<1>9. PICK part : part = SubSeq(all, c + 1, c + len)
  OBVIOUS
<1>10. part \in Seq(Int) /\ Len(part) = len /\ \A i \in 1 .. len : part[i] = ByteAt(n, c + i)
  <2>1. c + len \in Nat /\ c <= c + len /\ c + len <= Len(all) /\ c + len - c = len
    BY <1>2, <1>4
  <2>2. part \in Seq(Int) /\ Len(part) = len /\ \A i \in 1 .. len : part[i] = all[c + i]
    BY <1>2, <1>9, <2>1, PartOf
  <2>3. \A i \in 1 .. len : c + i \in 1 .. c + len /\ 0 + (c + i) = c + i
    BY <1>4
  <2>4. QED
    BY <1>2, <2>2, <2>3
<1>11. PICK x : x = Copy(buf, len, pad)
  OBVIOUS
<1>12. /\ x \in [1 .. BlockBytes -> Int]
       /\ \A i \in 1 .. len : x[i] = buf[i]
       /\ \A i \in 1 .. BlockBytes - len : x[len + i] = pad[i]
  <2>1. len + Len(pad) <= BlockBytes
    BY <1>4, <1>6
  <2>2. /\ x \in [1 .. BlockBytes -> Int]
        /\ \A i \in 1 .. len : x[i] = buf[i]
        /\ \A i \in 1 .. Len(pad) : x[len + i] = pad[i]
    <3>1. IsCopy(x, buf, len, pad)
      BY <1>3, <1>4, <1>6, <1>11, <2>1, CopyIs
    <3>2. QED
      BY <3>1, Zenon DEF IsCopy
  <2>3. QED
    BY <1>6, <2>2, Zenon
<1>13. PICK y : y = Copy(z, 0, part)
  OBVIOUS
<1>14. /\ y \in [1 .. BlockBytes -> Int]
       /\ \A i \in 1 .. len : y[0 + i] = part[i]
       /\ \A i \in 1 .. BlockBytes : i > 0 + len => y[i] = z[i]
  <2>1. 0 + Len(part) <= BlockBytes /\ 0 \in Nat
    BY <1>4, <1>10
  <2>2. /\ y \in [1 .. BlockBytes -> Int]
        /\ \A i \in 1 .. Len(part) : y[0 + i] = part[i]
        /\ \A i \in 1 .. BlockBytes : i > 0 + Len(part) => y[i] = z[i]
    <3>1. IsCopy(y, z, 0, part)
      BY <1>8, <1>10, <1>13, <2>1, CopyIs
    <3>2. QED
      BY <3>1, Zenon DEF IsCopy
  <2>3. QED
    BY <1>10, <2>2, Zenon
<1>15. \A i \in 1 .. BlockBytes : x[i] = y[i]
  <2> SUFFICES ASSUME NEW i \in 1 .. BlockBytes PROVE x[i] = y[i]
    OBVIOUS
  <2>1. CASE i <= len
    <3>1. i \in 1 .. len /\ 0 + i = i
      BY <1>4, <2>1
    <3>2. QED
      BY <1>3, <1>10, <1>12, <1>14, <3>1
  <2>2. CASE i > len
    <3>1. PICK j \in 1 .. BlockBytes - len : i = len + j
      BY <1>4, <2>2
    <3>2. x[i] = 0
      BY <1>6, <1>12, <3>1
    <3>3. i > 0 + len
      BY <1>4, <2>2
    <3>4. y[i] = 0
      BY <1>8, <1>14, <3>3
    <3>5. QED
      BY <3>2, <3>4
  <2>3. QED
    BY <1>4, <2>1, <2>2
<1>16. x = y
  <2>1. PICK D : D = 1 .. BlockBytes
    OBVIOUS
  <2>2. x \in [D -> Int] /\ y \in [D -> Int] /\ \A i \in D : x[i] = y[i]
    BY <1>12, <1>14, <1>15, <2>1, Zenon
  <2>3. QED
    BY <2>2, SameBytes
<1>17. QED
  BY <1>1, <1>2, <1>5, <1>7, <1>9, <1>11, <1>13, <1>16, Zenon

\* The flag of the last block.
IsLast == TRUE

\* blake2b_final counts the bytes in the buffer, marks the block as the last
\* and compresses it (blake2b.c:265-268).
LEMMA FinishedIs ==
    ASSUME NEW n, NEW m \in Nat, NEW buf, NEW len \in 1 .. BlockBytes,
           NEW c, c = m * BlockBytes + len, c < CounterRange,
           NEW s, s = Hasher(n, m, buf, len)
    PROVE  /\ Finished(s).f
           /\ Finished(s).h = Append(Chain(n, m),
                                     [block |-> Copy(buf, len, Zeroes(BlockBytes - len)),
                                      t |-> Counter(c), f |-> IsLast])
<1>1. PICK h, t, f : h = Chain(n, m) /\ t = Counter(m * BlockBytes) /\ f = NotLast
  OBVIOUS
<1>2. s = State(h, t, f, buf, len)
  BY <1>1, HasherState, Zenon
<1>3. s.t = t /\ s.buf = buf /\ s.buflen = len
  BY <1>2 DEF State
<1>4. blake2b_increment_counter(s, len) = [s EXCEPT !.t = Counter(c)]
  <2>1. PICK d \in Nat : d = m * BlockBytes
    BY Lengths
  <2>2. c = d + len /\ d + len < CounterRange /\ len \in 0 .. BlockBytes /\ s.t = Counter(d)
    BY <1>1, <1>3, <2>1, Lengths
  <2>3. QED
    BY <2>2, CountMore
<1>5. PICK s1 : s1 = blake2b_increment_counter(s, len)
  OBVIOUS
<1>6. PICK t1 : t1 = Counter(c)
  OBVIOUS
<1>7. s1 = State(h, t1, f, buf, len)
  <2>1. s1 = [s EXCEPT !.t = t1]
    BY <1>4, <1>5, <1>6, Zenon
  <2>2. QED
    BY <1>2, <2>1 DEF State
<1>8. PICK s2 : s2 = blake2b_set_lastblock(s1)
  OBVIOUS
<1>9. s2 = State(h, t1, IsLast, buf, len)
  <2>1. PICK yes : yes = IsLast
    OBVIOUS
  <2>2. s2 = [s1 EXCEPT !.f = yes]
    BY <1>8, <2>1, Zenon DEF blake2b_set_lastblock, IsLast
  <2>3. s2 = State(h, t1, yes, buf, len)
    BY <1>7, <2>2 DEF State
  <2>4. QED
    BY <2>1, <2>3, Zenon
<1>10. PICK pad : pad = Padded(s)
  OBVIOUS
<1>11. pad = Copy(buf, len, Zeroes(BlockBytes - len))
  BY <1>3, <1>10, Zenon DEF Padded
<1>12. PICK s3 : s3 = [s2 EXCEPT !.buf = pad]
  OBVIOUS
<1>13. s3 = State(h, t1, IsLast, pad, len)
  BY <1>9, <1>12 DEF State
<1>14. s3.h = h /\ s3.t = t1 /\ s3.f = IsLast
  BY <1>13 DEF State
<1>15. PICK h1 : h1 = Append(h, [block |-> pad, t |-> t1, f |-> IsLast])
  OBVIOUS
<1>16. Finished(s) = blake2b_compress(s3, pad)
  BY <1>3, <1>5, <1>8, <1>10, <1>12, Zenon DEF Finished
<1>17. blake2b_compress(s3, pad) = [s3 EXCEPT !.h = h1]
  BY <1>14, <1>15, Zenon DEF blake2b_compress
<1>18. PICK s4 : s4 = [s3 EXCEPT !.h = h1]
  OBVIOUS
<1>19. s4 = State(h1, t1, IsLast, pad, len)
  BY <1>13, <1>18 DEF State
<1>20. s4.h = h1 /\ s4.f = IsLast
  BY <1>19 DEF State
<1>21. QED
  <2>1. Finished(s) = s4
    BY <1>16, <1>17, <1>18, Zenon
  <2>2. Finished(s).h = h1 /\ Finished(s).f = IsLast
    BY <1>20, <2>1, Zenon
  <2>3. Finished(s).f
    BY <2>2, Zenon DEF IsLast
  <2>4. QED
    BY <1>1, <1>6, <1>11, <1>15, <2>2, <2>3, Zenon

\* The entries of s behind p.
Follow(t, p, s, n) == t[1] = p /\ \A k \in 1 .. n : t[k + 1] = s[k]

\* One entry in front of the others: the parameters before the blocks.
LEMMA InFront ==
    ASSUME NEW n \in Nat, NEW p, NEW s, IsFunction(s, n),
           NEW one, IsFunction(one, 1), one[1] = p, NEW t, t = one \o s
    PROVE  IsFunction(t, n + 1) /\ Follow(t, p, s, n)
<1> DEFINE V == {s[k] : k \in 1 .. n} \cup {p}
<1>1. p \in V /\ \A k \in 1 .. n : s[k] \in V
  OBVIOUS
<1> HIDE DEF V
<1>2. s \in Seq(V) /\ Len(s) = n
  BY <1>1, FunctionIsSeq
<1>4. one \in Seq(V) /\ Len(one) = 1 /\ one[1] = p
  <2>1. \A k \in 1 .. 1 : one[k] \in V
    BY <1>1
  <2>2. QED
    BY <2>1, FunctionIsSeq
<1>5. /\ t \in Seq(V) /\ Len(t) = 1 + n
      /\ \A k \in 1 .. 1 + n : t[k] = IF k <= 1 THEN one[k] ELSE s[k - 1]
  <2>1. /\ t \in Seq(V) /\ Len(t) = Len(one) + Len(s)
        /\ \A k \in 1 .. Len(one) + Len(s) : t[k] = IF k <= Len(one) THEN one[k] ELSE s[k - Len(one)]
    BY <1>2, <1>4, ConcatProperties, Zenon
  <2>2. QED
    BY <1>2, <1>4, <2>1, Zenon
<1>6. Follow(t, p, s, n)
  <2>1. t[1] = p
    BY <1>4, <1>5
  <2>2. ASSUME NEW k \in 1 .. n PROVE t[k + 1] = s[k]
    <3>1. PICK j : j = k + 1
      OBVIOUS
    <3>2. j \in 1 .. 1 + n /\ ~(j <= 1) /\ j - 1 = k
      BY <3>1
    <3>3. t[j] = s[j - 1]
      BY <1>5, <3>2, Zenon
    <3>4. QED
      BY <3>1, <3>2, <3>3
  <2>3. QED
    BY <2>1, <2>2 DEF Follow
<1>7. IsFunction(t, n + 1)
  <2>1. t \in [1 .. Len(t) -> V]
    BY <1>5, LenProperties
  <2>2. 1 + n = n + 1
    OBVIOUS
  <2>3. t \in [1 .. n + 1 -> V]
    BY <1>5, <2>1, <2>2, Zenon
  <2>4. QED
    BY <2>3 DEF IsFunction
<1>8. QED
  BY <1>6, <1>7

\* The blocks of the standard are those compressed and the padded buffer.
LEMMA BlocksIs ==
    ASSUME NEW n \in KeyLens, NEW c \in Nat, NEW m \in Nat, NEW len \in 1 .. BlockBytes,
           m * BlockBytes + len = BlockBytes + c, NEW buf, InBuffer(buf, n, m, len)
    PROVE  Append(Chain(n, m), [block |-> Copy(buf, len, Zeroes(BlockBytes - len)),
                                t |-> Counter(BlockBytes + c), f |-> IsLast])
           = Blocks(n, c)
<1> DEFINE seen(all, count, k) == IF k = count THEN Len(all) ELSE k * BlockBytes
           e(all, count, k) ==
              [block |-> Copy(Zeroes(BlockBytes), 0,
                              SubSeq(all, (k - 1) * BlockBytes + 1, seen(all, count, k))),
               t |-> <<seen(all, count, k) % WordMod, seen(all, count, k) \div WordMod>>,
               f |-> k = count]
           first == [digest_length |-> OutBytes, key_length |-> n]
<1>1. PICK all : all = Input(n, c)
  OBVIOUS
<1>2. n \in Nat /\ BlockBytes \in Nat /\ BlockBytes > 0 /\ m * BlockBytes \in Nat
  BY KeysFit, Lengths
<1>3. Carries(all, n, 0) /\ Len(all) = m * BlockBytes + len
  BY <1>1, InputIs
<1>4. (Len(all) + BlockBytes - 1) \div BlockBytes = m + 1
  <2>1. PICK d \in Nat : d = m * BlockBytes
    BY <1>2
  <2>2. PICK x \in Nat : x = Len(all) + BlockBytes - 1 /\ x = d + BlockBytes + (len - 1)
    BY <1>2, <1>3, <2>1
  <2>3. PICK q \in Nat : q = m + 1
    OBVIOUS
  <2>4. BlockBytes * q = d + BlockBytes
    BY <1>2, <2>1, <2>3
  <2>5. len - 1 \in Nat /\ len - 1 < BlockBytes
    BY <1>2
  <2>6. x = BlockBytes * q + (len - 1)
    BY <2>2, <2>4
  <2>7. x \div BlockBytes = q
    BY <1>2, <2>5, <2>6, Division
  <2>8. QED
    BY <2>2, <2>3, <2>7
<1>5. PICK count \in Nat : count = m + 1
  OBVIOUS
<1>6. Blocks(n, c) = <<first>> \o [k \in 1 .. count |-> e(all, count, k)]
  BY <1>1, <1>4, <1>5, Zenon DEF Blocks
<1>7. \A k \in 1 .. m : e(all, count, k) = [block |-> WholeBlock(n, k), t |-> Counter(k * BlockBytes),
                                           f |-> NotLast]
  <2> SUFFICES ASSUME NEW k \in 1 .. m
               PROVE  e(all, count, k) = [block |-> WholeBlock(n, k), t |-> Counter(k * BlockBytes),
                                          f |-> NotLast]
    OBVIOUS
  <2>1. k # count /\ k \in Nat /\ k > 0 /\ k <= m
    BY <1>5
  <2>2. k * BlockBytes <= Len(all)
    <3>1. k * BlockBytes <= m * BlockBytes
      BY <1>2, <2>1
    <3>2. k * BlockBytes \in Nat
      BY <1>2, <2>1
    <3>3. QED
      BY <1>2, <1>3, <3>1, <3>2
  <2>3. SubSeq(all, (k - 1) * BlockBytes + 1, k * BlockBytes) = WholeBlock(n, k)
    <3>1. PICK z \in Nat : z = 0
      OBVIOUS
    <3>2. z * BlockBytes = 0 /\ z + k = k
      BY <1>2, <2>1, <3>1
    <3>3. Carries(all, n, z * BlockBytes)
      BY <1>3, <3>2, Zenon
    <3>4. SubSeq(all, (k - 1) * BlockBytes + 1, k * BlockBytes) = WholeBlock(n, z + k)
      BY ONLY <1>2, <2>1, <2>2, <3>3, BlockIn
    <3>5. QED
      BY <3>2, <3>4, Zenon
  <2>4. Copy(Zeroes(BlockBytes), 0, WholeBlock(n, k)) = WholeBlock(n, k)
    BY <1>2, <2>1, BlockCopy
  <2>5. (k = count) = NotLast
    BY <2>1 DEF NotLast
  <2>6. seen(all, count, k) = k * BlockBytes
    BY <2>1
  <2> HIDE DEF seen
  <2>7. QED
    BY <2>3, <2>4, <2>5, <2>6, Zenon DEF Counter
<1>8. e(all, count, count) = [block |-> Copy(buf, len, Zeroes(BlockBytes - len)),
                              t |-> Counter(BlockBytes + c), f |-> IsLast]
  <2>1. seen(all, count, count) = Len(all) /\ count - 1 = m /\ (count = count) = IsLast
    BY <1>5 DEF IsLast
  <2>2. Copy(buf, len, Zeroes(BlockBytes - len))
        = Copy(Zeroes(BlockBytes), 0, SubSeq(all, m * BlockBytes + 1, Len(all)))
    BY <1>2, <1>3, PaddingIs
  <2>3. Len(all) = BlockBytes + c
    BY <1>3
  <2> HIDE DEF seen
  <2>4. QED
    BY <2>1, <2>2, <2>3, Zenon DEF Counter
<1> HIDE DEF e, first
<1>9. PICK s, t : s = Chain(n, m) /\ t = Blocks(n, c)
  OBVIOUS
<1>10. PICK tail : tail = [k \in 1 .. count |-> e(all, count, k)]
  OBVIOUS
<1>11. IsFunction(tail, count) /\ \A k \in 1 .. count : tail[k] = e(all, count, k)
  BY <1>10 DEF IsFunction
<1>12. IsFunction(t, count + 1) /\ t[1] = first /\ \A k \in 1 .. count : t[k + 1] = tail[k]
  <2>1. t = <<first>> \o tail
    BY <1>6, <1>9, <1>10, Zenon
  <2>2. PICK p : p = first
    OBVIOUS
  <2>3. PICK one : one = <<p>> /\ t = one \o tail
    BY <2>1, <2>2, Zenon
  <2>4. IsFunction(t, count + 1) /\ Follow(t, p, tail, count)
    <3>1. one \in [1 .. 1 -> {p}] /\ one[1] = p
      BY <2>3
    <3>2. IsFunction(one, 1) /\ one[1] = p
      BY <3>1 DEF IsFunction
    <3>3. QED
      BY <1>11, <2>3, <3>2, InFront
  <2>5. QED
    BY <2>2, <2>4, Zenon DEF Follow
<1>13. IsFunction(s, count)
  BY <1>5, <1>9 DEF IsFunction, Chain
<1>14. \A k \in 1 .. count : t[k] = s[k]
  <2> SUFFICES ASSUME NEW k \in 1 .. count PROVE t[k] = s[k]
    OBVIOUS
  <2>0. k \in 1 .. m + 1
    BY <1>5
  <2>1. CASE k = 1
    <3>1. s[1] = first
      BY <1>9, <2>0, <2>1 DEF Chain, first
    <3>2. QED
      BY <1>12, <2>1, <3>1
  <2>2. CASE k # 1
    <3>1. PICK j \in 1 .. m : j = k - 1 /\ k = j + 1
      BY <2>0, <2>2
    <3>2. j \in 1 .. count
      BY <1>5
    <3>3. t[k] = e(all, count, j)
      BY <1>11, <1>12, <3>1, <3>2
    <3>4. s[k] = [block |-> WholeBlock(n, j), t |-> Counter(j * BlockBytes), f |-> NotLast]
      <4>1. s[k] = [block |-> WholeBlock(n, k - 1), t |-> Counter((k - 1) * BlockBytes), f |-> NotLast]
        BY <1>9, <2>0, <2>2, Zenon DEF Chain, NotLast
      <4>2. QED
        BY <3>1, <4>1, Zenon
    <3>5. QED
      BY <1>7, <3>3, <3>4, Zenon
  <2>3. QED
    BY <2>1, <2>2
<1>15. t[count + 1] = [block |-> Copy(buf, len, Zeroes(BlockBytes - len)),
                       t |-> Counter(BlockBytes + c), f |-> IsLast]
  <2>1. count \in 1 .. count
    BY <1>5
  <2>2. QED
    BY <1>8, <1>11, <1>12, <2>1, Zenon
<1>16. Append(s, t[count + 1]) = t
  BY <1>12, <1>13, <1>14, AppendIs
<1>17. QED
  BY <1>9, <1>15, <1>16, Zenon

\* The digest is taken (blake2b.c:253-277).
LEMMA FinalizeInv ==
    ASSUME HashInv, Finalize
    PROVE  HashInv'
<1>1. /\ keylen \in KeyLens /\ fed \in 0 .. MaxMessage /\ ~S.f
      /\ out = NoDigest /\ Took(S, keylen, fed)
  BY DEF HashInv, Finalize
<1>2. S' = Finished(S) /\ out' = S'.h /\ keylen' = keylen /\ fed' = fed
  BY DEF Finalize
<1>3. PICK m \in Nat, len \in 1 .. BlockBytes : \E buf :
          /\ m * BlockBytes + len = BlockBytes + fed
          /\ InBuffer(buf, keylen, m, len)
          /\ S = Hasher(keylen, m, buf, len)
  BY <1>1 DEF Took
<1>4. PICK buf : /\ m * BlockBytes + len = BlockBytes + fed
                 /\ InBuffer(buf, keylen, m, len)
                 /\ S = Hasher(keylen, m, buf, len)
  BY <1>3
<1>5. fed \in Nat /\ BlockBytes + fed < CounterRange
  BY <1>1, Lengths
<1>6. /\ Finished(S).f
      /\ Finished(S).h = Append(Chain(keylen, m),
                                [block |-> Copy(buf, len, Zeroes(BlockBytes - len)),
                                 t |-> Counter(BlockBytes + fed), f |-> IsLast])
  BY <1>4, <1>5, FinishedIs
<1>7. Finished(S).h = Blocks(keylen, fed)
  BY <1>1, <1>4, <1>5, <1>6, BlocksIs
<1>8. S'.f /\ out' = Blocks(keylen, fed)
  BY <1>2, <1>6, <1>7, Zenon
<1>9. QED
  BY <1>1, <1>2, <1>8, Zenon DEF HashInv

-----------------------------------------------------------------------------
(* The theorems *)

\* Neither an update nor the end of the hash leaves it (blake2b.c:226-277).
LEMMA HashInvariant == BlakeSpec => []HashInv
<1>1. HashInv /\ [BlakeNext]_blakevars => HashInv'
  <2> SUFFICES ASSUME HashInv, [BlakeNext]_blakevars PROVE HashInv'
    OBVIOUS
  <2>1. ASSUME NEW k \in 0 .. MaxPiece, Update(k) PROVE HashInv'
    BY <2>1, UpdateInv
  <2>2. CASE Finalize
    BY <2>2, FinalizeInv
  <2>3. CASE UNCHANGED blakevars
    BY <2>3, Zenon DEF blakevars, HashInv
  <2>4. QED
    BY <2>1, <2>2, <2>3 DEF BlakeNext
<1>2. QED
  BY <1>1, InitInv, PTL DEF BlakeSpec

\* What came into blake2b_update is in the chaining value a block at a time
\* and the rest in the buffer, and what blake2b_final delivers is the digest
\* of all of it (blake2b.c:226-277).
THEOREM BlakeInvariant == BlakeSpec => []BlakeInv
  BY HashInvariant, HashInvIs, PTL

\* Whatever the pieces, the digest that hash_finalize delivers is that of the
\* keyed message (blake2b.c:253-277).
THEOREM DigestOfTheMessage == BlakeSpec => []DigestIsOfTheMessage
<1>1. HashInv => DigestIsOfTheMessage
  BY Zenon DEF HashInv, DigestIsOfTheMessage
<1>2. QED
  BY <1>1, HashInvariant, PTL

\* The hasher never compresses its last block before blake2b_final marks it
\* (the > in blake2b.c:233 and 240).
THEOREM BlockHeldBack == BlakeSpec => []ABlockIsHeldBack
<1>1. HashInv => ABlockIsHeldBack
  <2> SUFFICES ASSUME HashInv, ~S.f
               PROVE  /\ S.buflen \in 1 .. BlockBytes
                      /\ (Len(S.h) - 1) * BlockBytes + S.buflen = BlockBytes + fed
                      /\ \A k \in 2 .. Len(S.h) : ~S.h[k].f
    BY DEF ABlockIsHeldBack
  <2>1. PICK m \in Nat, len \in 1 .. BlockBytes : \E buf :
            /\ m * BlockBytes + len = BlockBytes + fed
            /\ S = Hasher(keylen, m, buf, len)
    BY DEF HashInv, Took
  <2>2. PICK buf : m * BlockBytes + len = BlockBytes + fed /\ S = Hasher(keylen, m, buf, len)
    BY <2>1
  <2>3. S.buflen = len /\ S.h = Chain(keylen, m)
    BY <2>2, HasherState DEF State
  <2>4. Len(Chain(keylen, m)) = m + 1 /\ \A k \in 2 .. m + 1 : ~Chain(keylen, m)[k].f
    BY ChainLength
  <2>5. m + 1 - 1 = m
    OBVIOUS
  <2>6. Len(S.h) = m + 1 /\ \A k \in 2 .. m + 1 : ~S.h[k].f
    BY <2>3, <2>4, Zenon
  <2>7. Len(S.h) - 1 = m
    BY <2>6
  <2>8. (Len(S.h) - 1) * BlockBytes + S.buflen = BlockBytes + fed
    BY <2>2, <2>3, <2>7, Zenon
  <2>9. \A k \in 2 .. Len(S.h) : ~S.h[k].f
    BY <2>6, Zenon
  <2>10. QED
    BY <2>3, <2>8, <2>9, Zenon
<1>2. QED
  BY <1>1, HashInvariant, PTL
=============================================================================
