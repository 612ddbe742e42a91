--------------------------- MODULE SighashProofs ----------------------------
(***************************************************************************)
(* The device hashes the client's preimage, and a preimage has one         *)
(* reading, for all transactions.                                          *)
(*                                                                         *)
(* Feeds(ss, b, bytes, c) says what statements do to a buffer and to the   *)
(* hash, however many they are.  From what one statement feeds follows     *)
(* what a loop, a hash inside and the whole of calc_sighash feed; the      *)
(* inductive invariant says that what was fed and what is still to be fed  *)
(* are the client's preimage.  That a preimage has one reading follows by  *)
(* taking its fields off again, each of a known length.                    *)
(***************************************************************************)
EXTENDS Sighash, SequenceTheorems, WellFoundedInduction, TLAPS

-----------------------------------------------------------------------------
(* Sequences of anything *)

IsSeq(s) == \E V : s \in Seq(V)

\* c is a behind which b follows.
IsCat(c, a, b) ==
    /\ IsSeq(c) /\ Len(c) = Len(a) + Len(b)
    /\ \A k \in 1 .. Len(a) : c[k] = a[k]
    /\ \A k \in 1 .. Len(b) : c[Len(a) + k] = b[k]

\* Sequences of bytes have a length.
LEMMA SeqLen ==
    ASSUME NEW s, IsSeq(s)
    PROVE  Len(s) \in Nat /\ DOMAIN s = 1 .. Len(s)
  BY LenProperties DEF IsSeq

\* Sequences over a set are sequences over a larger one.
LEMMA SeqGrows ==
    ASSUME NEW V, NEW W, V \subseteq W, NEW s \in Seq(V)
    PROVE  s \in Seq(W)
<1>1. s \in [1 .. Len(s) -> V] /\ Len(s) \in Nat
  BY LenProperties
<1>2. s \in [1 .. Len(s) -> W]
  BY <1>1
<1>3. QED
  BY <1>1, <1>2, SeqDef

\* A function on 1 .. n is a sequence.
LEMMA FunctionIsSeq ==
    ASSUME NEW n \in Nat, NEW s, s = [k \in 1 .. n |-> s[k]]
    PROVE  IsSeq(s) /\ Len(s) = n
<1> DEFINE V == {s[k] : k \in 1 .. n}
<1>1. s \in [1 .. n -> V]
  OBVIOUS
<1> HIDE DEF V
<1>2. s \in Seq(V)
  BY <1>1, SeqDef
<1>3. Len(s) = n
  BY <1>1, <1>2, LenProperties
<1>4. QED
  BY <1>2, <1>3 DEF IsSeq

\* One sequence behind another, entry by entry.
LEMMA CatIs ==
    ASSUME NEW a, NEW b, IsSeq(a), IsSeq(b)
    PROVE  IsCat(a \o b, a, b)
<1>1. PICK V : a \in Seq(V)
  BY DEF IsSeq
<1>2. PICK W : b \in Seq(W)
  BY DEF IsSeq
<1>3. PICK U : U = V \cup W
  OBVIOUS
<1>4. a \in Seq(U) /\ b \in Seq(U)
  BY <1>1, <1>2, <1>3, SeqGrows
<1>5. PICK c : c = a \o b
  OBVIOUS
<1>6. /\ c \in Seq(U) /\ Len(c) = Len(a) + Len(b)
      /\ \A i \in 1 .. Len(a) + Len(b) : c[i] = IF i <= Len(a) THEN a[i] ELSE b[i - Len(a)]
  BY <1>4, <1>5, ConcatProperties
<1>7. Len(a) \in Nat /\ Len(b) \in Nat
  BY SeqLen
<1>8. IsSeq(c) /\ Len(c) = Len(a) + Len(b)
  BY <1>6 DEF IsSeq
<1>9. \A k \in 1 .. Len(a) : c[k] = a[k]
  BY <1>6, <1>7
<1>10. ASSUME NEW k \in 1 .. Len(b) PROVE c[Len(a) + k] = b[k]
  <2>1. Len(a) + k \in 1 .. Len(a) + Len(b) /\ ~(Len(a) + k <= Len(a)) /\ (Len(a) + k) - Len(a) = k
    BY <1>7
  <2>2. QED
    BY <1>6, <2>1
<1>11. QED
  BY <1>5, <1>8, <1>9, <1>10, Zenon DEF IsCat

\* Sequences with the same entries are the same.
LEMMA SameSeq ==
    ASSUME NEW a, NEW b, IsSeq(a), IsSeq(b), Len(a) = Len(b),
           \A k \in 1 .. Len(a) : a[k] = b[k]
    PROVE  a = b
<1>1. PICK V : a \in Seq(V)
  BY DEF IsSeq
<1>2. PICK W : b \in Seq(W)
  BY DEF IsSeq
<1>3. PICK U : U = V \cup W
  OBVIOUS
<1>4. a \in Seq(U) /\ b \in Seq(U)
  BY <1>1, <1>2, <1>3, SeqGrows
<1>5. QED
  BY <1>4, SeqEqual

\* The entries of two sequences behind each other are those of no other one.
LEMMA CatUnique ==
    ASSUME NEW a, NEW b, NEW c, NEW d, IsSeq(a), IsSeq(b), IsCat(c, a, b), IsCat(d, a, b)
    PROVE  c = d
<1>1. Len(a) \in Nat /\ Len(b) \in Nat /\ IsSeq(c) /\ IsSeq(d)
      /\ Len(c) = Len(a) + Len(b) /\ Len(d) = Len(a) + Len(b)
  BY SeqLen DEF IsCat
<1>2. ASSUME NEW k \in 1 .. Len(c) PROVE c[k] = d[k]
  <2>1. CASE k <= Len(a)
    BY <1>1, <2>1 DEF IsCat
  <2>2. CASE k > Len(a)
    <3>1. PICK j \in 1 .. Len(b) : k = Len(a) + j
      <4>1. k - Len(a) \in 1 .. Len(b) /\ k = Len(a) + (k - Len(a))
        BY <1>1, <2>2
      <4>2. QED
        BY <4>1
    <3>2. QED
      BY <3>1 DEF IsCat
  <2>3. QED
    BY <1>1, <2>1, <2>2
<1>3. QED
  BY <1>1, <1>2, SameSeq

\* Cat is a sequence.
LEMMA CatIsSeq ==
    ASSUME NEW a, NEW b, IsSeq(a), IsSeq(b)
    PROVE  IsSeq(a \o b) /\ Len(a \o b) = Len(a) + Len(b)
  BY CatIs DEF IsCat

\* The order in which fields are put together does not matter.
LEMMA CatAssoc ==
    ASSUME NEW a, NEW b, NEW c, IsSeq(a), IsSeq(b), IsSeq(c)
    PROVE  (a \o b) \o c = a \o (b \o c)
<1>1. PICK ab : ab = a \o b
  OBVIOUS
<1>2. PICK bc : bc = b \o c
  OBVIOUS
<1>3. PICK l : l = ab \o c
  OBVIOUS
<1>4. IsCat(ab, a, b) /\ IsCat(bc, b, c)
  BY <1>1, <1>2, CatIs
<1>5. IsSeq(ab) /\ IsSeq(bc)
  BY <1>4 DEF IsCat
<1>6. IsCat(l, ab, c)
  BY <1>3, <1>5, CatIs
<1>7. Len(a) \in Nat /\ Len(b) \in Nat /\ Len(c) \in Nat
  BY SeqLen
<1>8. IsCat(l, a, bc)
  <2>1. IsSeq(l) /\ Len(l) = Len(a) + Len(bc) /\ Len(ab) = Len(a) + Len(b) /\ Len(bc) = Len(b) + Len(c)
    BY <1>4, <1>6, <1>7 DEF IsCat
  <2>2. ASSUME NEW k \in 1 .. Len(a) PROVE l[k] = a[k]
    BY <1>4, <1>6, <1>7, <2>1 DEF IsCat
  <2>3. ASSUME NEW k \in 1 .. Len(bc) PROVE l[Len(a) + k] = bc[k]
    <3>1. CASE k <= Len(b)
      <4>1. k \in 1 .. Len(b) /\ Len(a) + k \in 1 .. Len(ab)
        BY <1>7, <2>1, <3>1
      <4>2. l[Len(a) + k] = ab[Len(a) + k] /\ ab[Len(a) + k] = b[k] /\ bc[k] = b[k]
        BY <1>4, <1>6, <4>1 DEF IsCat
      <4>3. QED
        BY <4>2
    <3>2. CASE k > Len(b)
      <4>1. PICK j \in 1 .. Len(c) : k = Len(b) + j
        <5>1. k - Len(b) \in 1 .. Len(c) /\ k = Len(b) + (k - Len(b))
          BY <1>7, <2>1, <3>2
        <5>2. QED
          BY <5>1
      <4>2. bc[k] = c[j]
        BY <1>4, <4>1 DEF IsCat
      <4>3. l[Len(ab) + j] = c[j]
        BY <1>6, <4>1 DEF IsCat
      <4>4. Len(ab) + j = Len(a) + k
        BY <1>7, <2>1, <4>1
      <4>5. QED
        BY <4>2, <4>3, <4>4
    <3>3. QED
      BY <1>7, <2>1, <3>1, <3>2
  <2>4. QED
    BY <2>1, <2>2, <2>3 DEF IsCat
<1>9. IsCat(a \o bc, a, bc)
  BY <1>5, CatIs
<1>10. l = a \o bc
  BY <1>5, <1>8, <1>9, CatUnique
<1>11. QED
  BY <1>1, <1>2, <1>3, <1>10, Zenon

\* The empty sequence adds nothing.
LEMMA CatEmpty ==
    /\ IsSeq(<<>>) /\ Len(<<>>) = 0
    /\ \A a : IsSeq(a) => a \o <<>> = a /\ <<>> \o a = a
<1>1. IsSeq(<<>>) /\ Len(<<>>) = 0
  <2>1. <<>> \in Seq({})
    OBVIOUS
  <2>2. QED
    BY <2>1 DEF IsSeq
<1>2. ASSUME NEW a, IsSeq(a) PROVE a \o <<>> = a /\ <<>> \o a = a
  <2>1. PICK V : a \in Seq(V)
    BY <1>2 DEF IsSeq
  <2>2. QED
    BY <2>1, ConcatEmptySeq
<1>3. QED
  BY <1>1, <1>2

SameParts(a, b, c, d) == a = c /\ b = d

\* What two sequences begin with, and what follows, if the first parts are as
\* long as each other.
LEMMA CatSplit ==
    ASSUME NEW a, NEW b, NEW c, NEW d, IsSeq(a), IsSeq(b), IsSeq(c), IsSeq(d),
           Len(a) = Len(c), a \o b = c \o d
    PROVE  SameParts(a, b, c, d)
<1>1. PICK s : s = a \o b
  OBVIOUS
<1>2. IsCat(s, a, b) /\ IsCat(s, c, d)
  BY <1>1, CatIs
<1>3. Len(a) \in Nat /\ Len(b) \in Nat /\ Len(d) \in Nat /\ Len(b) = Len(d)
  BY <1>2, SeqLen DEF IsCat
<1>4. \A k \in 1 .. Len(a) : a[k] = c[k]
  BY <1>2 DEF IsCat
<1>5. \A k \in 1 .. Len(b) : b[k] = d[k]
  BY <1>2, <1>3 DEF IsCat
<1>6. a = c
  BY <1>4, SameSeq
<1>7. b = d
  BY <1>3, <1>5, SameSeq
<1>8. QED
  BY <1>6, <1>7, Zenon DEF SameParts

\* The beginning of a sequence.
LEMMA CatPrefix ==
    ASSUME NEW a, NEW b, IsSeq(a), IsSeq(b)
    PROVE  SubSeq(a \o b, 1, Len(a)) = a
<1>1. PICK c : c = a \o b
  OBVIOUS
<1>2. IsCat(c, a, b) /\ Len(a) \in Nat /\ Len(b) \in Nat
  BY <1>1, CatIs, SeqLen
<1>3. PICK U : c \in Seq(U)
  BY <1>2 DEF IsCat, IsSeq
<1>4. PICK p : p = SubSeq(c, 1, Len(a))
  OBVIOUS
<1>5. PICK n \in Nat : n = Len(a)
  BY <1>2
<1>6. n <= Len(c) /\ Len(c) \in Nat
  BY <1>2, <1>5 DEF IsCat
<1>7. \A i \in 1 .. n : c[i] \in U
  BY <1>3, <1>6, ElementOfSeq
<1>8. p = [k \in 1 .. n |-> c[k]]
  BY <1>2, <1>3, <1>4, <1>5, <1>6
<1>9. IsSeq(p) /\ Len(p) = n
  BY <1>8, FunctionIsSeq
<1>10. \A k \in 1 .. Len(a) : p[k] = a[k]
  BY <1>2, <1>5, <1>8 DEF IsCat
<1>11. p = a
  BY <1>5, <1>9, <1>10, SameSeq
<1>12. QED
  BY <1>1, <1>4, <1>11, Zenon

-----------------------------------------------------------------------------
(* What a sequence of statements feeds to the hash, and what it leaves in  *)
(* the buffer.                                                             *)

\* buf[k] is in the buffer after k statements, and rest[k] is fed after them.
Runs(ss, buf, rest) ==
    /\ rest[Len(ss)] = <<>>
    /\ \A k \in 0 .. Len(ss) : IsSeq(rest[k])
    /\ \A k \in 0 .. Len(ss) - 1 :
          /\ buf[k + 1] = BufferAfter(ss[k + 1], buf[k])
          /\ IsSeq(FedBy(ss[k + 1], buf[k]))
          /\ rest[k] = FedBy(ss[k + 1], buf[k]) \o rest[k + 1]

Feeds(ss, b, out, after) ==
    /\ IsSeq(ss)
    /\ \E buf, rest :
          /\ Runs(ss, buf, rest)
          /\ buf[0] = b /\ buf[Len(ss)] = after
          /\ rest[0] = out

\* What is fed is a sequence of bytes.
LEMMA FeedsSeq ==
    ASSUME NEW ss, NEW b, NEW out, NEW after, Feeds(ss, b, out, after)
    PROVE  IsSeq(ss) /\ IsSeq(out)
<1>1. PICK buf, rest : Runs(ss, buf, rest) /\ rest[0] = out
  BY DEF Feeds
<1>2. Len(ss) \in Nat /\ IsSeq(ss)
  BY SeqLen DEF Feeds
<1>3. QED
  BY <1>1, <1>2 DEF Runs

\* No statements feed nothing.
LEMMA FeedsNone ==
    ASSUME NEW b
    PROVE  Feeds(<<>>, b, <<>>, b)
<1>1. PICK buf : buf = [k \in {0} |-> b]
  OBVIOUS
<1>2. PICK rest : rest = [k \in {0} |-> <<>>]
  OBVIOUS
<1>3. PICK e : e = <<>>
  OBVIOUS
<1>4. IsSeq(e) /\ Len(e) = 0
  BY <1>3, CatEmpty
<1>5. Runs(e, buf, rest)
  BY <1>2, <1>3, <1>4 DEF Runs
<1>6. buf[0] = b /\ rest[0] = e
  BY <1>1, <1>2, <1>3
<1>7. Feeds(e, b, e, b)
  BY <1>4, <1>5, <1>6 DEF Feeds
<1>8. QED
  BY <1>3, <1>7

\* A statement and what follows it.
LEMMA FeedsFirst ==
    ASSUME NEW ss, IsSeq(ss), Len(ss) > 0, NEW tt, IsSeq(tt), Len(ss) = Len(tt) + 1,
           \A k \in 1 .. Len(tt) : tt[k] = ss[k + 1],
           NEW b, NEW out, NEW after, NEW fed, fed = FedBy(ss[1], b), IsSeq(fed),
           Feeds(tt, BufferAfter(ss[1], b), out, after)
    PROVE  Feeds(ss, b, fed \o out, after)
<1>1. PICK n \in Nat : n = Len(tt)
  BY SeqLen
<1>2. PICK buf, rest : /\ Runs(tt, buf, rest)
                       /\ buf[0] = BufferAfter(ss[1], b) /\ buf[n] = after /\ rest[0] = out
  BY <1>1 DEF Feeds
<1>3. PICK all : all = fed \o out
  OBVIOUS
<1>4. PICK buf2 : buf2 = [k \in 0 .. n + 1 |-> IF k = 0 THEN b ELSE buf[k - 1]]
  OBVIOUS
<1>5. PICK rest2 : rest2 = [k \in 0 .. n + 1 |-> IF k = 0 THEN all ELSE rest[k - 1]]
  OBVIOUS
<1>6. IsSeq(all)
  BY <1>3, FeedsSeq, CatIsSeq
<1>7. /\ rest[n] = <<>>
      /\ \A k \in 0 .. n : IsSeq(rest[k])
      /\ \A k \in 0 .. n - 1 :
            /\ buf[k + 1] = BufferAfter(tt[k + 1], buf[k])
            /\ IsSeq(FedBy(tt[k + 1], buf[k]))
            /\ rest[k] = FedBy(tt[k + 1], buf[k]) \o rest[k + 1]
  BY <1>1, <1>2 DEF Runs
<1>8. \A k \in 0 .. n : buf2[k + 1] = buf[k] /\ rest2[k + 1] = rest[k]
  BY <1>4, <1>5
<1>9. buf2[0] = b /\ rest2[0] = all
  BY <1>4, <1>5
<1>10. rest2[n + 1] = <<>> /\ buf2[n + 1] = after
  BY <1>2, <1>7, <1>8
<1>11. ASSUME NEW k \in 0 .. n + 1 PROVE IsSeq(rest2[k])
  <2>1. CASE k = 0
    BY <1>6, <1>9, <2>1
  <2>2. CASE k # 0
    BY <1>5, <1>7, <2>2
  <2>3. QED
    BY <2>1, <2>2
<1>12. ASSUME NEW k \in 0 .. n
       PROVE  /\ buf2[k + 1] = BufferAfter(ss[k + 1], buf2[k])
              /\ IsSeq(FedBy(ss[k + 1], buf2[k]))
              /\ rest2[k] = FedBy(ss[k + 1], buf2[k]) \o rest2[k + 1]
  <2>1. CASE k = 0
    <3>1. k + 1 = 1 /\ buf2[1] = buf[0] /\ rest2[1] = rest[0]
      BY <1>8, <2>1
    <3>2. QED
      BY <1>2, <1>3, <1>9, <2>1, <3>1, Zenon
  <2>2. CASE k # 0
    <3>1. PICK j \in 0 .. n - 1 : k = j + 1
      <4>1. k - 1 \in 0 .. n - 1 /\ k = (k - 1) + 1
        BY <2>2
      <4>2. QED
        BY <4>1
    <3>2. buf2[k] = buf[j] /\ buf2[k + 1] = buf[j + 1] /\ rest2[k] = rest[j] /\ rest2[k + 1] = rest[j + 1]
      BY <1>8, <3>1
    <3>3. ss[k + 1] = tt[j + 1]
      BY <1>1, <3>1
    <3>4. QED
      BY <1>7, <3>1, <3>2, <3>3, Zenon
  <2>3. QED
    BY <2>1, <2>2
<1>13. Len(ss) = n + 1 /\ Len(ss) - 1 = n
  BY <1>1
<1>14. Runs(ss, buf2, rest2)
  BY <1>10, <1>11, <1>12, <1>13 DEF Runs
<1>15. Feeds(ss, b, all, after)
  BY <1>9, <1>10, <1>13, <1>14 DEF Feeds
<1>16. QED
  BY <1>3, <1>15, Zenon

\* What the first statement leaves to the others.
GoesOn(ss, b, out, after) ==
    \E rest : /\ Feeds(Tail(ss), BufferAfter(Head(ss), b), rest, after)
              /\ IsSeq(FedBy(Head(ss), b)) /\ out = FedBy(Head(ss), b) \o rest

\* The first statement of several, and what the others feed.
LEMMA FeedsRest ==
    ASSUME NEW ss, NEW b, NEW out, NEW after, Feeds(ss, b, out, after), ss # <<>>
    PROVE  GoesOn(ss, b, out, after)
<1>1. PICK buf, rest : /\ Runs(ss, buf, rest) /\ IsSeq(ss)
                       /\ buf[0] = b /\ buf[Len(ss)] = after /\ rest[0] = out
  BY DEF Feeds
<1>2. PICK V : ss \in Seq(V)
  BY <1>1 DEF IsSeq
<1>3. PICK tt : tt = Tail(ss)
  OBVIOUS
<1>4. PICK n \in Nat : Len(ss) = n + 1 /\ tt \in Seq(V) /\ Len(tt) = n
  <2>1. Len(ss) \in Nat /\ Len(ss) # 0
    BY <1>2, EmptySeq, LenProperties
  <2>2. tt \in Seq(V) /\ Len(tt) = Len(ss) - 1
    BY <1>2, <1>3, <2>1, HeadTailProperties
  <2>3. QED
    BY <2>1, <2>2
<1>5. Head(ss) = ss[1] /\ \A k \in 1 .. n : tt[k] = ss[k + 1]
  BY <1>2, <1>3, <1>4, HeadTailProperties
<1>6. PICK buf2 : buf2 = [k \in 0 .. n |-> buf[k + 1]]
  OBVIOUS
<1>7. PICK rest2 : rest2 = [k \in 0 .. n |-> rest[k + 1]]
  OBVIOUS
<1>8. /\ rest[n + 1] = <<>>
      /\ \A k \in 0 .. n + 1 : IsSeq(rest[k])
      /\ \A k \in 0 .. n :
            /\ buf[k + 1] = BufferAfter(ss[k + 1], buf[k])
            /\ IsSeq(FedBy(ss[k + 1], buf[k]))
            /\ rest[k] = FedBy(ss[k + 1], buf[k]) \o rest[k + 1]
  <2>1. Len(ss) - 1 = n
    BY <1>4
  <2>2. QED
    BY <1>1, <1>4, <2>1 DEF Runs
<1>9. ASSUME NEW k \in 0 .. n - 1
      PROVE  /\ buf2[k + 1] = BufferAfter(tt[k + 1], buf2[k])
             /\ IsSeq(FedBy(tt[k + 1], buf2[k]))
             /\ rest2[k] = FedBy(tt[k + 1], buf2[k]) \o rest2[k + 1]
  <2>1. PICK j \in 0 .. n : j = k + 1
    OBVIOUS
  <2>2. buf2[k] = buf[j] /\ buf2[k + 1] = buf[j + 1] /\ rest2[k] = rest[j] /\ rest2[k + 1] = rest[j + 1]
    BY <1>6, <1>7, <2>1
  <2>3. tt[k + 1] = ss[j + 1]
    BY <1>5, <2>1
  <2>4. QED
    BY <1>8, <2>2, <2>3, Zenon
<1>10. rest2[n] = <<>> /\ \A k \in 0 .. n : IsSeq(rest2[k])
  BY <1>7, <1>8
<1>11. Runs(tt, buf2, rest2)
  BY <1>4, <1>9, <1>10 DEF Runs
<1>12. buf2[0] = BufferAfter(Head(ss), b) /\ buf2[n] = after
  <2>1. buf2[0] = buf[1] /\ buf2[n] = buf[n + 1] /\ 0 \in 0 .. n /\ 0 + 1 = 1
    BY <1>6
  <2>2. buf[1] = BufferAfter(ss[1], buf[0])
    BY <1>8, <2>1
  <2>3. QED
    BY <1>1, <1>4, <1>5, <2>1, <2>2
<1>13. IsSeq(FedBy(Head(ss), b)) /\ out = FedBy(Head(ss), b) \o rest2[0]
  <2>1. rest2[0] = rest[1] /\ 0 \in 0 .. n /\ 0 + 1 = 1
    BY <1>7
  <2>2. IsSeq(FedBy(ss[1], buf[0])) /\ rest[0] = FedBy(ss[1], buf[0]) \o rest[1]
    BY <1>8, <2>1
  <2>3. QED
    BY <1>1, <1>5, <2>1, <2>2, Zenon
<1>14. IsSeq(tt)
  BY <1>4 DEF IsSeq
<1>15. Feeds(tt, BufferAfter(Head(ss), b), rest2[0], after)
  BY <1>4, <1>11, <1>12, <1>14 DEF Feeds
<1>16. QED
  BY <1>3, <1>13, <1>15, Zenon DEF GoesOn

\* Statements after other statements.
LEMMA FeedsCat ==
    ASSUME NEW ss, NEW tt, NEW b, NEW c, NEW d, NEW x, NEW y,
           Feeds(ss, b, x, c), Feeds(tt, c, y, d)
    PROVE  Feeds(ss \o tt, b, x \o y, d)
<1>1. PICK m \in Nat : m = Len(ss)
  BY FeedsSeq, SeqLen
<1>2. PICK n \in Nat : n = Len(tt)
  BY FeedsSeq, SeqLen
<1>3. IsSeq(ss) /\ IsSeq(tt) /\ IsSeq(x) /\ IsSeq(y)
  BY FeedsSeq
<1>4. PICK buf1, rest1 : Runs(ss, buf1, rest1) /\ buf1[0] = b /\ buf1[m] = c /\ rest1[0] = x
  BY <1>1 DEF Feeds
<1>5. PICK buf2, rest2 : Runs(tt, buf2, rest2) /\ buf2[0] = c /\ buf2[n] = d /\ rest2[0] = y
  BY <1>2 DEF Feeds
<1>6. PICK st : st = ss \o tt
  OBVIOUS
<1>7. IsSeq(st) /\ Len(st) = m + n /\ (\A k \in 1 .. m : st[k] = ss[k]) /\ \A k \in 1 .. n : st[m + k] = tt[k]
  BY <1>1, <1>2, <1>3, <1>6, CatIs DEF IsCat
<1>8. /\ rest1[m] = <<>>
      /\ \A k \in 0 .. m : IsSeq(rest1[k])
      /\ \A k \in 0 .. m - 1 :
            /\ buf1[k + 1] = BufferAfter(ss[k + 1], buf1[k])
            /\ IsSeq(FedBy(ss[k + 1], buf1[k]))
            /\ rest1[k] = FedBy(ss[k + 1], buf1[k]) \o rest1[k + 1]
  BY <1>1, <1>4 DEF Runs
<1>9. /\ rest2[n] = <<>>
      /\ \A k \in 0 .. n : IsSeq(rest2[k])
      /\ \A k \in 0 .. n - 1 :
            /\ buf2[k + 1] = BufferAfter(tt[k + 1], buf2[k])
            /\ IsSeq(FedBy(tt[k + 1], buf2[k]))
            /\ rest2[k] = FedBy(tt[k + 1], buf2[k]) \o rest2[k + 1]
  BY <1>2, <1>5 DEF Runs
<1>10. PICK buf : buf = [k \in 0 .. m + n |-> IF k <= m THEN buf1[k] ELSE buf2[k - m]]
  OBVIOUS
<1>11. PICK rest : rest = [k \in 0 .. m + n |-> IF k <= m THEN rest1[k] \o y ELSE rest2[k - m]]
  OBVIOUS
<1>12. \A k \in 0 .. m : buf[k] = buf1[k] /\ rest[k] = rest1[k] \o y
  BY <1>10, <1>11
<1>13. ASSUME NEW k \in 0 .. n PROVE buf[m + k] = buf2[k] /\ rest[m + k] = rest2[k]
  <2>1. CASE k = 0
    <3>1. m + k = m /\ m \in 0 .. m
      BY <2>1
    <3>2. rest1[m] \o y = y
      BY <1>3, <1>8, CatEmpty
    <3>3. QED
      BY <1>4, <1>5, <1>12, <2>1, <3>1, <3>2
  <2>2. CASE k # 0
    <3>1. m + k \in 0 .. m + n /\ ~(m + k <= m) /\ (m + k) - m = k
      BY <2>2
    <3>2. QED
      BY <1>10, <1>11, <3>1
  <2>3. QED
    BY <2>1, <2>2
<1>14. ASSUME NEW k \in 0 .. m + n PROVE IsSeq(rest[k])
  <2>1. CASE k <= m
    <3>1. k \in 0 .. m
      BY <2>1
    <3>2. IsSeq(rest1[k]) /\ rest[k] = rest1[k] \o y
      BY <1>8, <1>12, <3>1
    <3>3. QED
      BY <1>3, <3>2, CatIsSeq
  <2>2. CASE k > m
    <3>1. PICK j \in 0 .. n : k = m + j
      <4>1. k - m \in 0 .. n /\ k = m + (k - m)
        BY <2>2
      <4>2. QED
        BY <4>1
    <3>2. QED
      BY <1>9, <1>13, <3>1
  <2>3. QED
    BY <2>1, <2>2
<1>15. ASSUME NEW k \in 0 .. m + n - 1
       PROVE  /\ buf[k + 1] = BufferAfter(st[k + 1], buf[k])
              /\ IsSeq(FedBy(st[k + 1], buf[k]))
              /\ rest[k] = FedBy(st[k + 1], buf[k]) \o rest[k + 1]
  <2>1. CASE k < m
    <3>1. k \in 0 .. m - 1 /\ k \in 0 .. m /\ k + 1 \in 0 .. m /\ k + 1 \in 1 .. m
      BY <2>1
    <3>2. /\ buf[k] = buf1[k] /\ buf[k + 1] = buf1[k + 1] /\ st[k + 1] = ss[k + 1]
          /\ rest[k] = rest1[k] \o y /\ rest[k + 1] = rest1[k + 1] \o y
      BY <1>7, <1>12, <3>1
    <3>3. PICK f : f = FedBy(ss[k + 1], buf1[k])
      OBVIOUS
    <3>4. IsSeq(f) /\ rest1[k] = f \o rest1[k + 1] /\ IsSeq(rest1[k + 1])
      BY <1>8, <3>1, <3>3, Zenon
    <3>5. rest[k] = f \o rest[k + 1]
      <4>1. PICK r : r = rest1[k + 1]
        OBVIOUS
      <4>2. IsSeq(f) /\ IsSeq(r) /\ IsSeq(y)
        BY <1>3, <3>4, <4>1
      <4>3. (f \o r) \o y = f \o (r \o y)
        BY <4>2, CatAssoc
      <4>4. QED
        BY <3>2, <3>4, <4>1, <4>3, Zenon
    <3>6. QED
      BY <1>8, <3>1, <3>2, <3>3, <3>4, <3>5, Zenon
  <2>2. CASE k >= m
    <3>1. PICK j \in 0 .. n - 1 : k = m + j
      <4>1. k - m \in 0 .. n - 1 /\ k = m + (k - m)
        BY <2>2
      <4>2. QED
        BY <4>1
    <3>2. j \in 0 .. n /\ j + 1 \in 0 .. n /\ j + 1 \in 1 .. n /\ k + 1 = m + (j + 1)
      BY <3>1
    <3>3. /\ buf[k] = buf2[j] /\ buf[k + 1] = buf2[j + 1] /\ st[k + 1] = tt[j + 1]
          /\ rest[k] = rest2[j] /\ rest[k + 1] = rest2[j + 1]
      BY <1>7, <1>13, <3>1, <3>2
    <3>4. QED
      BY <1>9, <3>1, <3>3, Zenon
  <2>3. k < m \/ k >= m
    OBVIOUS
  <2>4. QED
    BY <2>1, <2>2, <2>3, Zenon
<1>16. PICK xy : xy = x \o y
  OBVIOUS
<1>17. buf[0] = b /\ rest[0] = xy
  <2>1. 0 \in 0 .. m
    OBVIOUS
  <2>2. QED
    BY <1>4, <1>12, <1>16, <2>1, Zenon
<1>18. buf[m + n] = d /\ rest[m + n] = <<>>
  BY <1>5, <1>9, <1>13
<1>19. Runs(st, buf, rest)
  <2>1. ASSUME NEW k \in 0 .. Len(st) - 1
        PROVE  /\ buf[k + 1] = BufferAfter(st[k + 1], buf[k])
               /\ IsSeq(FedBy(st[k + 1], buf[k]))
               /\ rest[k] = FedBy(st[k + 1], buf[k]) \o rest[k + 1]
    <3>1. k \in 0 .. m + n - 1
      BY <1>7
    <3>2. QED
      BY <1>15, <3>1, Zenon
  <2>2. \A k \in 0 .. Len(st) : IsSeq(rest[k])
    BY <1>7, <1>14
  <2>3. QED
    BY <1>7, <1>18, <2>1, <2>2, Zenon DEF Runs
<1>20. Feeds(st, b, xy, d)
  BY <1>7, <1>17, <1>18, <1>19 DEF Feeds
<1>21. QED
  BY <1>6, <1>16, <1>20, Zenon

\* Induction over the natural numbers, with a set in place of a predicate.
LEMMA CountUp ==
    ASSUME NEW T, 0 \in T, \A n \in Nat : n \in T => n + 1 \in T
    PROVE  Nat \subseteq T
<1> DEFINE R == OpToRel(<, Nat)
           Missing == Nat \ T
<1> SUFFICES ASSUME Missing # {} PROVE FALSE
  OBVIOUS
<1>1. IsWellFoundedOn(R, Nat) /\ Missing \subseteq Nat
  BY NatLessThanWellFounded, Zenon
<1>2. \A x, y \in Nat : x < y => <<x, y>> \in R
  BY DEF OpToRel
<1> HIDE DEF R
<1>3. PICK x \in Missing : \A y \in Missing : ~(<<y, x>> \in R)
  BY <1>1, WFMin
<1>4. x \in Nat /\ x # 0 /\ x - 1 \in Nat /\ x - 1 < x
  OBVIOUS
<1>5. x - 1 \in T
  BY <1>2, <1>3, <1>4
<1>6. QED
  BY <1>4, <1>5

\* f[k] is the state of the inner buffer and what was fed after k statements.
IsRun(f, ss, n) ==
    f = [k \in 0 .. n |->
            IF k = 0 THEN [buffer |-> Zeros(InnerLen), fed |-> <<>>]
            ELSE LET before == f[k - 1] IN
                 [buffer |-> BufferAfter(ss[k], before.buffer),
                  fed    |-> before.fed \o FedBy(ss[k], before.buffer)]]

\* However many statements there are, they can be run.
LEMMA RunExists ==
    ASSUME NEW ss
    PROVE  \A n \in Nat : \E f : IsRun(f, ss, n)
<1> DEFINE T == {n \in Nat : \E f : IsRun(f, ss, n)}
           zero == [buffer |-> Zeros(InnerLen), fed |-> <<>>]
           next(k, before) == [buffer |-> BufferAfter(ss[k], before.buffer),
                               fed    |-> before.fed \o FedBy(ss[k], before.buffer)]
<1>1. \A f, n : IsRun(f, ss, n) <=> f = [k \in 0 .. n |-> IF k = 0 THEN zero ELSE next(k, f[k - 1])]
  BY Zenon DEF IsRun
<1> HIDE DEF zero, next
<1>2. 0 \in T
  <2>1. PICK f : f = [k \in 0 .. 0 |-> zero]
    OBVIOUS
  <2>2. f = [k \in 0 .. 0 |-> IF k = 0 THEN zero ELSE next(k, f[k - 1])]
    BY <2>1
  <2>3. QED
    BY <1>1, <2>2
<1>3. ASSUME NEW n \in Nat, n \in T PROVE n + 1 \in T
  <2>1. PICK f : f = [k \in 0 .. n |-> IF k = 0 THEN zero ELSE next(k, f[k - 1])]
    BY <1>1, <1>3
  <2>2. PICK g : g = [k \in 0 .. n + 1 |-> IF k <= n THEN f[k] ELSE next(k, f[k - 1])]
    OBVIOUS
  <2>3. \A k \in 0 .. n + 1 : k # 0 => g[k - 1] = f[k - 1]
    BY <2>2
  <2>4. \A k \in 0 .. n + 1 : g[k] = IF k = 0 THEN zero ELSE next(k, f[k - 1])
    BY <2>1, <2>2
  <2>5. \A k \in 0 .. n + 1 : g[k] = IF k = 0 THEN zero ELSE next(k, g[k - 1])
    BY <2>3, <2>4
  <2>6. g = [k \in 0 .. n + 1 |-> IF k = 0 THEN zero ELSE next(k, g[k - 1])]
    BY <2>2, <2>5
  <2>7. QED
    BY <1>1, <2>6
<1>4. Nat \subseteq T
  BY <1>2, <1>3, CountUp
<1>5. QED
  BY <1>4

\* A run that has fed all but the rest of what is to be fed.
InStep(state, b, rest, out) ==
    state.buffer = b /\ IsSeq(state.fed) /\ state.fed \o rest = out

\* FedByAll is what the statements feed.
LEMMA FedByAllIs ==
    ASSUME NEW ss, NEW out, NEW after, Feeds(ss, Zeros(InnerLen), out, after)
    PROVE  FedByAll(ss) = out
<1>1. PICK n \in Nat : n = Len(ss)
  BY FeedsSeq, SeqLen
<1>2. PICK buf, rest : Runs(ss, buf, rest) /\ buf[0] = Zeros(InnerLen) /\ rest[0] = out
  BY DEF Feeds
<1>3. PICK f : IsRun(f, ss, n) /\ FedByAll(ss) = f[n].fed
  <2> DEFINE run == CHOOSE f : IsRun(f, ss, n)
  <2>1. IsRun(run, ss, n)
    BY RunExists, Zenon
  <2>2. FedByAll(ss) = run[n].fed
    BY <1>1 DEF FedByAll, IsRun
  <2>3. QED
    BY <2>1, <2>2, Zenon
<1>4. /\ f[0].buffer = buf[0] /\ f[0].fed = <<>>
      /\ \A k \in 0 .. n - 1 : /\ f[k + 1].buffer = BufferAfter(ss[k + 1], f[k].buffer)
                               /\ f[k + 1].fed = f[k].fed \o FedBy(ss[k + 1], f[k].buffer)
  <2>1. \A k \in 0 .. n : f[k] = IF k = 0 THEN [buffer |-> Zeros(InnerLen), fed |-> <<>>]
                                 ELSE [buffer |-> BufferAfter(ss[k], f[k - 1].buffer),
                                       fed    |-> f[k - 1].fed \o FedBy(ss[k], f[k - 1].buffer)]
    BY <1>3, Zenon DEF IsRun
  <2>2. f[0] = [buffer |-> Zeros(InnerLen), fed |-> <<>>]
    <3>1. 0 \in 0 .. n
      OBVIOUS
    <3>2. QED
      BY <2>1, <3>1, Zenon
  <2>3. ASSUME NEW k \in 0 .. n - 1
        PROVE  f[k + 1] = [buffer |-> BufferAfter(ss[k + 1], f[k].buffer),
                           fed    |-> f[k].fed \o FedBy(ss[k + 1], f[k].buffer)]
    <3>1. k + 1 \in 0 .. n /\ k + 1 # 0 /\ (k + 1) - 1 = k
      OBVIOUS
    <3>2. QED
      BY <2>1, <3>1
  <2>4. ASSUME NEW k \in 0 .. n - 1
        PROVE  /\ f[k + 1].buffer = BufferAfter(ss[k + 1], f[k].buffer)
               /\ f[k + 1].fed = f[k].fed \o FedBy(ss[k + 1], f[k].buffer)
    <3>1. PICK x : x = f[k].fed \o FedBy(ss[k + 1], f[k].buffer)
      OBVIOUS
    <3>2. PICK y : y = BufferAfter(ss[k + 1], f[k].buffer)
      OBVIOUS
    <3>3. f[k + 1] = [buffer |-> y, fed |-> x]
      BY <2>3, <3>1, <3>2, Zenon
    <3>4. f[k + 1].buffer = y /\ f[k + 1].fed = x
      BY <3>3
    <3>5. QED
      BY <3>1, <3>2, <3>4, Zenon
  <2>5. f[0].buffer = buf[0] /\ f[0].fed = <<>>
    BY <1>2, <2>2
  <2>6. QED
    BY <2>4, <2>5, Zenon
<1>5. /\ rest[n] = <<>>
      /\ \A k \in 0 .. n : IsSeq(rest[k])
      /\ \A k \in 0 .. n - 1 :
            /\ buf[k + 1] = BufferAfter(ss[k + 1], buf[k])
            /\ IsSeq(FedBy(ss[k + 1], buf[k]))
            /\ rest[k] = FedBy(ss[k + 1], buf[k]) \o rest[k + 1]
  BY <1>1, <1>2 DEF Runs
<1> DEFINE T == {k \in Nat : k <= n => InStep(f[k], buf[k], rest[k], out)}
<1>6. 0 \in T
  <2>1. <<>> \o rest[0] = rest[0] /\ IsSeq(<<>>)
    BY <1>5, CatEmpty
  <2>2. InStep(f[0], buf[0], rest[0], out)
    BY <1>2, <1>4, <2>1, Zenon DEF InStep
  <2>3. QED
    BY <2>2
<1>7. ASSUME NEW k \in Nat, k \in T PROVE k + 1 \in T
  <2> SUFFICES ASSUME k + 1 <= n
               PROVE  InStep(f[k + 1], buf[k + 1], rest[k + 1], out)
    OBVIOUS
  <2>1. k \in 0 .. n - 1 /\ k \in 0 .. n /\ k + 1 \in 0 .. n
    OBVIOUS
  <2>2. f[k].buffer = buf[k] /\ IsSeq(f[k].fed) /\ f[k].fed \o rest[k] = out
    <3>1. InStep(f[k], buf[k], rest[k], out)
      BY <1>7, <2>1
    <3>2. QED
      BY <3>1, Zenon DEF InStep
  <2>3. PICK x : x = FedBy(ss[k + 1], buf[k])
    OBVIOUS
  <2>4. IsSeq(x) /\ rest[k] = x \o rest[k + 1] /\ IsSeq(rest[k + 1])
    BY <1>5, <2>1, <2>3, Zenon
  <2>5. f[k + 1].fed = f[k].fed \o x /\ f[k + 1].buffer = buf[k + 1]
    BY <1>4, <1>5, <2>1, <2>2, <2>3, Zenon
  <2>6. IsSeq(f[k + 1].fed)
    BY <2>2, <2>4, <2>5, CatIsSeq
  <2>7. PICK a : a = f[k].fed
    OBVIOUS
  <2>8. PICK c : c = rest[k + 1]
    OBVIOUS
  <2>9. IsSeq(a) /\ IsSeq(c)
    BY <2>2, <2>4, <2>7, <2>8, Zenon
  <2>10. (a \o x) \o c = a \o (x \o c)
    BY <2>4, <2>9, CatAssoc
  <2>11. f[k + 1].fed \o rest[k + 1] = out
    BY <2>2, <2>4, <2>5, <2>7, <2>8, <2>10, Zenon
  <2>12. QED
    BY <2>5, <2>6, <2>11, Zenon DEF InStep
<1>8. n \in T
  <2>1. Nat \subseteq T
    BY <1>6, <1>7, CountUp
  <2>2. QED
    BY <2>1
<1>9. IsSeq(f[n].fed) /\ f[n].fed \o <<>> = out
  <2>1. InStep(f[n], buf[n], rest[n], out)
    BY <1>8
  <2>2. QED
    BY <1>5, <2>1, Zenon DEF InStep
<1>10. QED
  BY <1>3, <1>9, CatEmpty

-----------------------------------------------------------------------------
(* Loops *)

\* f[k] is what the first k turns of a loop come to.
IsLoop(f, turn, n) == f = [k \in 0 .. n |-> IF k = 0 THEN <<>> ELSE f[k - 1] \o turn[k - 1]]

\* The turns one after the other: the last entry of f is what Turns computes.
IsUnrolled(f, turn, n) ==
    /\ f[n] = Turns(turn, n) /\ f[0] = <<>>
    /\ \A k \in 0 .. n - 1 : f[k + 1] = f[k] \o turn[k]

\* However many turns a loop has, they can be put together.
LEMMA LoopExists ==
    ASSUME NEW turn
    PROVE  \A n \in Nat : \E f : IsLoop(f, turn, n)
<1> DEFINE T == {n \in Nat : \E f : IsLoop(f, turn, n)}
           next(k, before) == before \o turn[k - 1]
<1>1. \A f, n : IsLoop(f, turn, n) <=> f = [k \in 0 .. n |-> IF k = 0 THEN <<>> ELSE next(k, f[k - 1])]
  BY Zenon DEF IsLoop
<1> HIDE DEF next
<1>2. 0 \in T
  <2>1. PICK f : f = [k \in 0 .. 0 |-> <<>>]
    OBVIOUS
  <2>2. f = [k \in 0 .. 0 |-> IF k = 0 THEN <<>> ELSE next(k, f[k - 1])]
    BY <2>1
  <2>3. QED
    BY <1>1, <2>2
<1>3. ASSUME NEW n \in Nat, n \in T PROVE n + 1 \in T
  <2>1. PICK f : f = [k \in 0 .. n |-> IF k = 0 THEN <<>> ELSE next(k, f[k - 1])]
    BY <1>1, <1>3
  <2>2. PICK g : g = [k \in 0 .. n + 1 |-> IF k <= n THEN f[k] ELSE next(k, f[k - 1])]
    OBVIOUS
  <2>3. \A k \in 0 .. n + 1 : k # 0 => g[k - 1] = f[k - 1]
    BY <2>2
  <2>4. \A k \in 0 .. n + 1 : g[k] = IF k = 0 THEN <<>> ELSE next(k, f[k - 1])
    BY <2>1, <2>2
  <2>5. \A k \in 0 .. n + 1 : g[k] = IF k = 0 THEN <<>> ELSE next(k, g[k - 1])
    BY <2>3, <2>4
  <2>6. g = [k \in 0 .. n + 1 |-> IF k = 0 THEN <<>> ELSE next(k, g[k - 1])]
    BY <2>2, <2>5
  <2>7. IsLoop(g, turn, n + 1)
    BY <1>1, <2>6, Zenon
  <2>8. QED
    BY <2>7
<1>4. Nat \subseteq T
  BY <1>2, <1>3, CountUp
<1>5. QED
  BY <1>4

\* A loop is its turns one after the other.
LEMMA TurnsAre ==
    ASSUME NEW turn, NEW n \in Nat
    PROVE  \E f : IsUnrolled(f, turn, n)
<1> DEFINE upto == CHOOSE f : IsLoop(f, turn, n)
<1>1. IsLoop(upto, turn, n)
  BY LoopExists, Zenon
<1>2. Turns(turn, n) = upto[n]
  BY Zenon DEF Turns, IsLoop
<1>3. PICK f : IsLoop(f, turn, n) /\ f[n] = Turns(turn, n)
  BY <1>1, <1>2, Zenon
<1>4. \A k \in 0 .. n : f[k] = IF k = 0 THEN <<>> ELSE f[k - 1] \o turn[k - 1]
  BY <1>3, Zenon DEF IsLoop
<1>5. f[0] = <<>>
  <2>1. 0 \in 0 .. n
    OBVIOUS
  <2>2. QED
    BY <1>4, <2>1, Zenon
<1>6. ASSUME NEW k \in 0 .. n - 1 PROVE f[k + 1] = f[k] \o turn[k]
  <2>1. k + 1 \in 0 .. n /\ k + 1 # 0 /\ (k + 1) - 1 = k
    OBVIOUS
  <2>2. f[k + 1] = f[(k + 1) - 1] \o turn[(k + 1) - 1]
    BY <1>4, <2>1, Zenon
  <2>3. QED
    BY <2>1, <2>2, Zenon
<1>7. QED
  BY <1>3, <1>5, <1>6, Zenon DEF IsUnrolled

\* A buffer of n bytes.
IsBuffer(b, n) == b = [k \in 1 .. n |-> b[k]]

\* Whatever is in the buffer, the statements feed the same bytes.
AlwaysFeeds(ss, bytes) ==
    \A b : IsBuffer(b, InnerLen) => \E c : IsBuffer(c, InnerLen) /\ Feeds(ss, b, bytes, c)

\* A loop whose turns do not depend on what is in the buffer feeds what its
\* turns feed.
LEMMA LoopFeeds ==
    ASSUME NEW turn, NEW part, NEW n \in Nat,
           \A k \in 0 .. n - 1 : AlwaysFeeds(turn[k], part[k])
    PROVE  AlwaysFeeds(Turns(turn, n), Turns(part, n))
<1>1. PICK f : IsUnrolled(f, turn, n)
  BY TurnsAre
<1>2. PICK g : IsUnrolled(g, part, n)
  BY TurnsAre
<1> DEFINE T == {k \in Nat : k <= n => AlwaysFeeds(f[k], g[k])}
<1>3. 0 \in T
  <2>1. f[0] = <<>> /\ g[0] = <<>>
    BY <1>1, <1>2 DEF IsUnrolled
  <2>2. AlwaysFeeds(f[0], g[0])
    BY <2>1, FeedsNone DEF AlwaysFeeds
  <2>3. QED
    BY <2>2
<1>4. ASSUME NEW k \in Nat, k \in T PROVE k + 1 \in T
  <2> SUFFICES ASSUME k + 1 <= n PROVE AlwaysFeeds(f[k + 1], g[k + 1])
    OBVIOUS
  <2>1. AlwaysFeeds(f[k], g[k]) /\ AlwaysFeeds(turn[k], part[k]) /\ k \in 0 .. n - 1
    BY <1>4
  <2>2. f[k + 1] = f[k] \o turn[k] /\ g[k + 1] = g[k] \o part[k]
    BY <1>1, <1>2, <2>1, Zenon DEF IsUnrolled
  <2>3. ASSUME NEW b, IsBuffer(b, InnerLen)
        PROVE  \E c : IsBuffer(c, InnerLen) /\ Feeds(f[k + 1], b, g[k + 1], c)
    <3>1. PICK c : IsBuffer(c, InnerLen) /\ Feeds(f[k], b, g[k], c)
      BY <2>1, <2>3, Zenon DEF AlwaysFeeds
    <3>2. PICK d : IsBuffer(d, InnerLen) /\ Feeds(turn[k], c, part[k], d)
      BY <2>1, <3>1, Zenon DEF AlwaysFeeds
    <3>3. Feeds(f[k] \o turn[k], b, g[k] \o part[k], d)
      BY <3>1, <3>2, FeedsCat
    <3>4. QED
      BY <2>2, <3>2, <3>3, Zenon
  <2>4. QED
    BY <2>3, Zenon DEF AlwaysFeeds
<1>5. Nat \subseteq T
  BY <1>3, <1>4, CountUp
<1>6. AlwaysFeeds(f[n], g[n])
  BY <1>5
<1>7. QED
  BY <1>1, <1>2, <1>6, Zenon DEF IsUnrolled

-----------------------------------------------------------------------------
(* Single statements *)

\* The buffer begins with these bytes.
Holds(b, n, bytes) ==
    /\ IsBuffer(b, n) /\ IsSeq(bytes) /\ Len(bytes) <= n
    /\ \A k \in 1 .. Len(bytes) : b[k] = bytes[k]

\* A statement on its own.
LEMMA FeedsSingle ==
    ASSUME NEW s, NEW b, NEW fed, fed = FedBy(s, b), IsSeq(fed)
    PROVE  Feeds(<<s>>, b, fed, BufferAfter(s, b))
<1>1. PICK ss : ss = <<s>>
  OBVIOUS
<1>2. PICK tt : tt = <<>>
  OBVIOUS
<1>3. IsSeq(tt) /\ Len(tt) = 0
  BY <1>2, CatEmpty
<1>4. IsSeq(ss) /\ Len(ss) = 1 /\ ss[1] = s
  <2>1. ss \in Seq({s}) /\ Len(ss) = 1 /\ ss[1] = s
    BY <1>1
  <2>2. QED
    BY <2>1 DEF IsSeq
<1>5. Feeds(tt, BufferAfter(ss[1], b), tt, BufferAfter(s, b))
  BY <1>2, <1>4, FeedsNone
<1>6. Feeds(ss, b, fed \o tt, BufferAfter(s, b))
  <2>1. Len(ss) > 0 /\ Len(ss) = Len(tt) + 1 /\ \A k \in 1 .. Len(tt) : tt[k] = ss[k + 1]
    BY <1>3, <1>4
  <2>2. fed = FedBy(ss[1], b)
    BY <1>4
  <2>3. QED
    BY <1>3, <1>4, <1>5, <2>1, <2>2, FeedsFirst
<1>7. fed \o tt = fed
  BY <1>2, CatEmpty
<1>8. QED
  BY <1>1, <1>6, <1>7, Zenon

\* memset: nothing is fed, the buffer is all zeroes.
LEMMA DoClear ==
    ASSUME NEW n \in Nat, NEW b, IsBuffer(b, n)
    PROVE  Feeds(<<Clear>>, b, <<>>, Zeros(n))
<1>1. Len(b) = n
  BY FunctionIsSeq DEF IsBuffer
<1>2. BufferAfter(Clear, b) = Zeros(n) /\ FedBy(Clear, b) = <<>>
  BY <1>1 DEF BufferAfter, FedBy, Clear
<1>3. QED
  BY <1>2, FeedsSingle, CatEmpty

\* A buffer of zeroes is a buffer that holds zeroes.
LEMMA ZerosHold ==
    ASSUME NEW n \in Nat, NEW m \in Nat, m <= n
    PROVE  IsBuffer(Zeros(n), n) /\ Holds(Zeros(n), n, Zeros(m)) /\ IsSeq(Zeros(m)) /\ Len(Zeros(m)) = m
<1>1. IsBuffer(Zeros(n), n)
  BY DEF IsBuffer, Zeros
<1>2. PICK z : z = Zeros(m)
  OBVIOUS
<1>3. z = [k \in 1 .. m |-> B(0)]
  BY <1>2 DEF Zeros
<1>4. IsSeq(z) /\ Len(z) = m
  BY <1>3, FunctionIsSeq
<1>5. \A k \in 1 .. m : Zeros(n)[k] = z[k]
  BY <1>3 DEF Zeros
<1>6. QED
  BY <1>1, <1>2, <1>4, <1>5 DEF Holds

\* A store at the beginning of the buffer: nothing is fed.
LEMMA DoStore ==
    ASSUME NEW n \in Nat, NEW b, IsBuffer(b, n), NEW bytes, IsSeq(bytes), Len(bytes) <= n
    PROVE  \E c : Feeds(<<Store(0, bytes)>>, b, <<>>, c) /\ Holds(c, n, bytes)
<1>1. PICK s : s = Store(0, bytes)
  OBVIOUS
<1>2. s.op = "store" /\ s.at = 0 /\ s.bytes = bytes
  BY <1>1 DEF Store
<1>3. DOMAIN b = 1 .. n /\ DOMAIN bytes = 1 .. Len(bytes) /\ Len(bytes) \in Nat
  BY SeqLen DEF IsBuffer
<1>4. PICK c : c = [k \in 1 .. n |-> IF k - 0 \in 1 .. Len(bytes) THEN bytes[k - 0] ELSE b[k]]
  OBVIOUS
<1>5. BufferAfter(s, b) = c /\ FedBy(s, b) = <<>>
  BY <1>2, <1>3, <1>4 DEF BufferAfter, FedBy
<1>6. Holds(c, n, bytes)
  BY <1>3, <1>4 DEF Holds, IsBuffer
<1>7. Feeds(<<s>>, b, <<>>, c)
  BY <1>5, FeedsSingle, CatEmpty
<1>8. QED
  BY <1>1, <1>6, <1>7

\* hash_update from the buffer feeds what it holds.
LEMMA DoFeed ==
    ASSUME NEW n \in Nat, NEW b, NEW bytes, Holds(b, n, bytes), NEW m, m = Len(bytes)
    PROVE  Feeds(<<Feed(m)>>, b, bytes, b)
<1>1. PICK s : s = Feed(m)
  OBVIOUS
<1>2. s.op = "feed" /\ s.len = m
  BY <1>1 DEF Feed
<1>3. m \in Nat /\ m <= n /\ IsSeq(b) /\ Len(b) = n
  BY SeqLen, FunctionIsSeq DEF Holds, IsBuffer
<1>4. PICK x : x = SubSeq(b, 1, m)
  OBVIOUS
<1>5. BufferAfter(s, b) = b /\ FedBy(s, b) = x
  BY <1>2, <1>4 DEF BufferAfter, FedBy
<1>6. PICK U : b \in Seq(U)
  BY <1>3 DEF IsSeq
<1>7. x = [k \in 1 .. m |-> b[k]]
  BY <1>3, <1>4, <1>6
<1>8. IsSeq(x) /\ Len(x) = m
  BY <1>3, <1>7, FunctionIsSeq
<1>9. \A k \in 1 .. m : x[k] = bytes[k]
  BY <1>7 DEF Holds
<1>10. x = bytes
  BY <1>8, <1>9, SameSeq DEF Holds
<1>11. Feeds(<<s>>, b, bytes, b)
  BY <1>5, <1>8, <1>10, FeedsSingle
<1>12. QED
  BY <1>1, <1>11, Zenon

\* hash_update from somewhere else.
LEMMA DoBytes ==
    ASSUME NEW b, NEW bytes, IsSeq(bytes)
    PROVE  Feeds(<<FeedBytes(bytes)>>, b, bytes, b)
<1>1. PICK s : s = FeedBytes(bytes)
  OBVIOUS
<1>2. s.op = "bytes" /\ s.bytes = bytes
  BY <1>1 DEF FeedBytes
<1>3. BufferAfter(s, b) = b /\ FedBy(s, b) = bytes
  BY <1>2 DEF BufferAfter, FedBy
<1>4. Feeds(<<s>>, b, bytes, b)
  BY <1>3, FeedsSingle
<1>5. QED
  BY <1>1, <1>4, Zenon

-----------------------------------------------------------------------------
(* Bytes *)

\* f[k] is n without its lowest k bytes.
IsShift(f, n, w) == f = [k \in 0 .. w |-> IF k = 0 THEN n ELSE f[k - 1] \div ByteMod]

\* A number can be shifted any number of times.
LEMMA ShiftExists ==
    ASSUME NEW n
    PROVE  \A w \in Nat : \E f : IsShift(f, n, w)
<1> DEFINE T == {w \in Nat : \E f : IsShift(f, n, w)}
           next(x) == x \div ByteMod
<1>1. 0 \in T
  <2>1. PICK f : f = [k \in 0 .. 0 |-> n]
    OBVIOUS
  <2>2. IsShift(f, n, 0)
    BY <2>1 DEF IsShift
  <2>3. QED
    BY <2>2
<1>2. ASSUME NEW w \in Nat, w \in T PROVE w + 1 \in T
  <2>1. PICK f : f = [k \in 0 .. w |-> IF k = 0 THEN n ELSE next(f[k - 1])]
    BY <1>2 DEF IsShift
  <2> HIDE DEF next
  <2>2. PICK g : g = [k \in 0 .. w + 1 |-> IF k <= w THEN f[k] ELSE next(f[k - 1])]
    OBVIOUS
  <2>3. \A k \in 0 .. w + 1 : k # 0 => g[k - 1] = f[k - 1]
    BY <2>2
  <2>4. \A k \in 0 .. w + 1 : g[k] = IF k = 0 THEN n ELSE next(f[k - 1])
    BY <2>1, <2>2
  <2>5. g = [k \in 0 .. w + 1 |-> IF k = 0 THEN n ELSE next(g[k - 1])]
    BY <2>2, <2>3, <2>4
  <2>6. QED
    BY <2>5 DEF IsShift, next
<1>3. Nat \subseteq T
  BY <1>1, <1>2, CountUp
<1>4. QED
  BY <1>3

\* Shifting once more divides once more, and nothing is below zero.
LEMMA ShiftIs ==
    ASSUME NEW n \in Nat
    PROVE  /\ Shifted(n, 0) = n
           /\ \A k \in Nat : Shifted(n, k) \in Nat /\ Shifted(n, k + 1) = Shifted(n, k) \div ByteMod
<1>1. ASSUME NEW w \in Nat PROVE \E f : IsShift(f, n, w) /\ Shifted(n, w) = f[w]
  <2> DEFINE rest == CHOOSE f : IsShift(f, n, w)
  <2>1. IsShift(rest, n, w)
    BY ShiftExists, Zenon
  <2>2. Shifted(n, w) = rest[w]
    BY Zenon DEF Shifted, IsShift
  <2>3. QED
    BY <2>1, <2>2, Zenon
<1>2. Shifted(n, 0) = n
  <2>1. PICK f : IsShift(f, n, 0) /\ Shifted(n, 0) = f[0]
    BY <1>1
  <2>2. QED
    BY <2>1 DEF IsShift
<1>3. ASSUME NEW k \in Nat
      PROVE  Shifted(n, k) \in Nat /\ Shifted(n, k + 1) = Shifted(n, k) \div ByteMod
  <2>1. PICK f : IsShift(f, n, k) /\ Shifted(n, k) = f[k]
    BY <1>1
  <2>2. PICK g : IsShift(g, n, k + 1) /\ Shifted(n, k + 1) = g[k + 1]
    BY <1>1
  <2> DEFINE T == {j \in Nat : j <= k => f[j] = g[j] /\ f[j] \in Nat}
  <2>3. \A j \in 0 .. k : f[j] = IF j = 0 THEN n ELSE f[j - 1] \div ByteMod
    BY <2>1 DEF IsShift
  <2>4. \A j \in 0 .. k + 1 : g[j] = IF j = 0 THEN n ELSE g[j - 1] \div ByteMod
    BY <2>2 DEF IsShift
  <2>5. 0 \in T
    BY <2>3, <2>4
  <2>6. ASSUME NEW j \in Nat, j \in T PROVE j + 1 \in T
    <3> SUFFICES ASSUME j + 1 <= k PROVE f[j + 1] = g[j + 1] /\ f[j + 1] \in Nat
      OBVIOUS
    <3>1. f[j] = g[j] /\ f[j] \in Nat
      BY <2>6
    <3>2. f[j + 1] = f[j] \div ByteMod /\ g[j + 1] = g[j] \div ByteMod
      BY <2>3, <2>4
    <3>3. f[j] \div ByteMod \in Nat
      BY <3>1, WidthAssumption
    <3>4. QED
      BY <3>1, <3>2, <3>3
  <2>7. Nat \subseteq T
    BY <2>5, <2>6, CountUp
  <2>8. f[k] = g[k] /\ f[k] \in Nat
    BY <2>7
  <2>9. g[k + 1] = g[k] \div ByteMod
    BY <2>4
  <2>10. QED
    BY <2>1, <2>2, <2>8, <2>9
<1>4. QED
  BY <1>2, <1>3

\* A number of w bytes is w bytes.
LEMMA LEIsSeq ==
    ASSUME NEW n, NEW w \in Nat
    PROVE  IsSeq(LE(n, w)) /\ Len(LE(n, w)) = w
<1>1. PICK s : s = LE(n, w)
  OBVIOUS
<1>2. s = [k \in 1 .. w |-> s[k]]
  BY <1>1 DEF LE
<1>3. QED
  BY <1>1, <1>2, FunctionIsSeq

\* The bytes of zero are zeroes.
LEMMA LEZero ==
    ASSUME NEW w \in Nat
    PROVE  LE(0, w) = Zeros(w)
<1> DEFINE T == {k \in Nat : Shifted(0, k) = 0}
<1>1. 0 \in T
  BY ShiftIs
<1>2. ASSUME NEW k \in Nat, k \in T PROVE k + 1 \in T
  <2>1. Shifted(0, k + 1) = Shifted(0, k) \div ByteMod /\ Shifted(0, k) = 0
    BY <1>2, ShiftIs
  <2>2. QED
    BY <2>1, WidthAssumption
<1>3. Nat \subseteq T
  BY <1>1, <1>2, CountUp
<1>4. \A k \in 1 .. w : Shifted(0, k - 1) % ByteMod = 0
  BY <1>3, WidthAssumption
<1>5. QED
  BY <1>4 DEF LE, Zeros

\* A number of one byte is that byte.
LEMMA LEByte ==
    ASSUME NEW n \in Byte
    PROVE  LE(n, 1) = <<B(n)>>
<1>1. Shifted(n, 1 - 1) % ByteMod = n
  <2>1. n \in Nat /\ n < ByteMod /\ ByteMod \in Nat /\ 1 - 1 = 0
    BY WidthAssumption DEF Byte
  <2>2. Shifted(n, 0) = n
    BY <2>1, ShiftIs
  <2>3. QED
    BY <2>1, <2>2
<1>2. QED
  BY <1>1 DEF LE

\* A value that is not taken apart has as many bytes as it is said to have.
LEMMA OpaqueIsSeq ==
    ASSUME NEW value, NEW n \in Nat
    PROVE  IsSeq(Opaque(value, n)) /\ Len(Opaque(value, n)) = n
<1>1. PICK s : s = Opaque(value, n)
  OBVIOUS
<1>2. s = [k \in 1 .. n |-> s[k]]
  BY <1>1 DEF Opaque
<1>3. QED
  BY <1>1, <1>2, FunctionIsSeq

-----------------------------------------------------------------------------
(* The four hashes inside *)

\* Short sequences of statements, put together from shorter ones.
LEMMA Two ==
    ASSUME NEW p, NEW q
    PROVE  <<p, q>> = <<p>> \o <<q>>
<1>1. PICK a : a = <<p>>
  OBVIOUS
<1>2. PICK b : b = <<q>>
  OBVIOUS
<1>3. PICK c : c = <<p, q>>
  OBVIOUS
<1>4. /\ a \in Seq({p}) /\ Len(a) = 1 /\ a[1] = p
      /\ b \in Seq({q}) /\ Len(b) = 1 /\ b[1] = q
      /\ c \in Seq({p, q}) /\ Len(c) = 2 /\ c[1] = p /\ c[2] = q
  BY <1>1, <1>2, <1>3
<1>5. IsSeq(a) /\ IsSeq(b) /\ IsSeq(c)
  BY <1>4 DEF IsSeq
<1>6. IsCat(c, a, b)
  BY <1>4, <1>5 DEF IsCat
<1>7. c = a \o b
  BY <1>5, <1>6, CatIs, CatUnique
<1>8. QED
  BY <1>1, <1>2, <1>3, <1>7, Zenon

\* One statement before two.
LEMMA Three ==
    ASSUME NEW p, NEW q, NEW r
    PROVE  <<p, q, r>> = <<p>> \o <<q, r>>
  OBVIOUS

\* One statement before three.
LEMMA Four ==
    ASSUME NEW p, NEW q, NEW r, NEW s
    PROVE  <<p, q, r, s>> = <<p>> \o <<q, r, s>>
  OBVIOUS

\* A statement that feeds nothing, and what follows it.
LEMMA FeedsQuietly ==
    ASSUME NEW s, NEW tt, NEW b, NEW c, NEW d, NEW y,
           Feeds(<<s>>, b, <<>>, c), Feeds(tt, c, y, d)
    PROVE  Feeds(<<s>> \o tt, b, y, d)
<1>1. Feeds(<<s>> \o tt, b, <<>> \o y, d)
  BY FeedsCat
<1>2. <<>> \o y = y
  BY FeedsSeq, CatEmpty
<1>3. QED
  BY <1>1, <1>2, Zenon

\* A field that is stored, fed and cleared away leaves a buffer of zeroes
\* behind, whatever was in the buffer before.
LEMMA FieldFeeds ==
    ASSUME NEW n \in Nat, NEW b, IsBuffer(b, n), NEW bytes, IsSeq(bytes), Len(bytes) <= n
    PROVE  Feeds(Field(bytes), b, bytes, Zeros(n))
<1>1. PICK c : Feeds(<<Store(0, bytes)>>, b, <<>>, c) /\ Holds(c, n, bytes)
  BY DoStore
<1>2. Feeds(<<Feed(Len(bytes))>>, c, bytes, c)
  BY <1>1, DoFeed
<1>3. Feeds(<<Clear>>, c, <<>>, Zeros(n))
  BY <1>1, DoClear DEF Holds
<1>4. Feeds(<<Feed(Len(bytes))>> \o <<Clear>>, c, bytes \o <<>>, Zeros(n))
  BY <1>2, <1>3, FeedsCat
<1>5. bytes \o <<>> = bytes
  BY CatEmpty
<1>6. PICK tt : tt = <<Feed(Len(bytes))>> \o <<Clear>>
  OBVIOUS
<1>7. Feeds(tt, c, bytes, Zeros(n))
  BY <1>4, <1>5, <1>6, Zenon
<1>8. Feeds(<<Store(0, bytes)>> \o tt, b, bytes, Zeros(n))
  BY <1>1, <1>7, FeedsQuietly
<1>9. <<Store(0, bytes)>> \o tt = <<Store(0, bytes), Feed(Len(bytes)), Clear>>
  <2>1. tt = <<Feed(Len(bytes)), Clear>>
    BY <1>6, Two, Zenon
  <2>2. QED
    BY <2>1, Three, Zenon
<1>10. QED
  BY <1>8, <1>9, Zenon DEF Field

\* One turn of calc_prev_outputs_hash (sighash.c:49).
LEMMA PrevOutputsTurn ==
    ASSUME NEW x, IsSeq(x), NEW y, IsSeq(y), Len(y) = 4
    PROVE  AlwaysFeeds(<<Clear, Store(0, y), FeedBytes(x), Feed(4)>>, x \o y)
<1> SUFFICES ASSUME NEW b, IsBuffer(b, InnerLen)
             PROVE  \E e : /\ IsBuffer(e, InnerLen)
                           /\ Feeds(<<Clear, Store(0, y), FeedBytes(x), Feed(4)>>, b, x \o y, e)
  BY DEF AlwaysFeeds
<1>1. PICK n \in Nat : n = InnerLen /\ 8 <= n /\ Len(y) <= n
  BY DEF InnerLen
<1>2. PICK z : z = Zeros(n) /\ IsBuffer(z, n)
  BY ZerosHold
<1>3. Feeds(<<Clear>>, b, <<>>, z)
  BY <1>1, <1>2, DoClear
<1>4. PICK c : Feeds(<<Store(0, y)>>, z, <<>>, c) /\ Holds(c, n, y)
  BY <1>1, <1>2, DoStore
<1>5. Feeds(<<FeedBytes(x)>>, c, x, c)
  BY DoBytes
<1>6. Feeds(<<Feed(4)>>, c, y, c)
  BY <1>4, DoFeed
<1>7. PICK tt : tt = <<FeedBytes(x)>> \o <<Feed(4)>>
  OBVIOUS
<1>8. Feeds(tt, c, x \o y, c)
  BY <1>5, <1>6, <1>7, FeedsCat
<1>9. PICK uu : uu = <<Store(0, y)>> \o tt
  OBVIOUS
<1>10. Feeds(uu, z, x \o y, c)
  BY <1>4, <1>8, <1>9, FeedsQuietly
<1>11. Feeds(<<Clear>> \o uu, b, x \o y, c)
  BY <1>3, <1>10, FeedsQuietly
<1>12. <<Clear>> \o uu = <<Clear, Store(0, y), FeedBytes(x), Feed(4)>>
  <2>1. tt = <<FeedBytes(x), Feed(4)>>
    BY <1>7, Two, Zenon
  <2>2. uu = <<Store(0, y), FeedBytes(x), Feed(4)>>
    BY <1>9, <2>1, Three, Zenon
  <2>3. QED
    BY <2>2, Four, Zenon
<1>13. IsBuffer(c, InnerLen)
  BY <1>1, <1>4 DEF Holds
<1>14. QED
  BY <1>11, <1>12, <1>13, Zenon

\* One turn of calc_sequences_hash (sighash.c:72).
LEMMA SequencesTurn ==
    ASSUME NEW y, IsSeq(y), Len(y) = 8
    PROVE  AlwaysFeeds(<<Clear, Store(0, y), Feed(8), Clear>>, y)
<1> SUFFICES ASSUME NEW b, IsBuffer(b, InnerLen)
             PROVE  \E e : /\ IsBuffer(e, InnerLen)
                           /\ Feeds(<<Clear, Store(0, y), Feed(8), Clear>>, b, y, e)
  BY DEF AlwaysFeeds
<1>1. PICK n \in Nat : n = InnerLen /\ 8 <= n /\ Len(y) <= n
  BY DEF InnerLen
<1>2. PICK z : z = Zeros(n) /\ IsBuffer(z, n)
  BY ZerosHold
<1>3. Feeds(<<Clear>>, b, <<>>, z)
  BY <1>1, <1>2, DoClear
<1>4. Feeds(Field(y), z, y, z)
  BY <1>1, <1>2, FieldFeeds
<1>5. Feeds(<<Clear>> \o Field(y), b, y, z)
  BY <1>3, <1>4, FeedsQuietly
<1>6. <<Clear>> \o Field(y) = <<Clear, Store(0, y), Feed(8), Clear>>
  BY Four, Zenon DEF Field
<1>7. QED
  BY <1>1, <1>2, <1>5, <1>6, Zenon

\* One turn of calc_sig_op_count_hash (sighash.c:95).
LEMMA SigOpCountTurn ==
    ASSUME NEW y, IsSeq(y), Len(y) = 1
    PROVE  AlwaysFeeds(<<Store(0, y), Feed(1), Clear>>, y)
<1> SUFFICES ASSUME NEW b, IsBuffer(b, InnerLen)
             PROVE  \E e : /\ IsBuffer(e, InnerLen)
                           /\ Feeds(<<Store(0, y), Feed(1), Clear>>, b, y, e)
  BY DEF AlwaysFeeds
<1>1. PICK n \in Nat : n = InnerLen /\ 8 <= n /\ Len(y) <= n
  BY DEF InnerLen
<1>2. PICK z : z = Zeros(n) /\ IsBuffer(z, n)
  BY ZerosHold
<1>3. Feeds(Field(y), b, y, z)
  BY <1>1, <1>2, FieldFeeds
<1>4. Field(y) = <<Store(0, y), Feed(1), Clear>>
  BY DEF Field
<1>5. QED
  BY <1>1, <1>2, <1>3, <1>4, Zenon

\* One turn of calc_outputs_hash (sighash.c:118): the buffer is cleared before
\* the two bytes of the script version are fed from it.
LEMMA OutputsTurn ==
    ASSUME NEW v, IsSeq(v), Len(v) = 8, NEW l, IsSeq(l), Len(l) = 8, NEW x, IsSeq(x)
    PROVE  AlwaysFeeds(<<Clear, Store(0, v), Feed(8), Clear, Feed(2), Store(0, l), Feed(8), FeedBytes(x)>>,
                       ((v \o Zeros(2)) \o l) \o x)
<1> DEFINE ss == <<Clear, Store(0, v), Feed(8), Clear, Feed(2), Store(0, l), Feed(8), FeedBytes(x)>>
           out == ((v \o Zeros(2)) \o l) \o x
<1> HIDE DEF ss, out
<1> SUFFICES ASSUME NEW b, IsBuffer(b, InnerLen)
             PROVE  \E e : IsBuffer(e, InnerLen) /\ Feeds(ss, b, out, e)
  BY DEF AlwaysFeeds, ss, out
<1>1. PICK n \in Nat : n = InnerLen /\ 2 <= n /\ Len(v) <= n /\ Len(l) <= n
  BY DEF InnerLen
<1>2. PICK z : z = Zeros(n) /\ IsBuffer(z, n)
  BY ZerosHold
<1>3. PICK two : two = Zeros(2)
  OBVIOUS
<1>4. Holds(z, n, two) /\ Len(two) = 2
  <2>1. 2 \in Nat
    OBVIOUS
  <2>2. QED
    BY <1>1, <1>2, <1>3, <2>1, ZerosHold
<1>5. PICK s1 : s1 = <<Clear>> \o Field(v)
  OBVIOUS
<1>6. Feeds(s1, b, v, z)
  <2>1. Feeds(<<Clear>>, b, <<>>, z)
    BY <1>1, <1>2, DoClear
  <2>2. Feeds(Field(v), z, v, z)
    BY <1>1, <1>2, FieldFeeds
  <2>3. QED
    BY <1>5, <2>1, <2>2, FeedsQuietly
<1>7. PICK s2 : s2 = s1 \o <<Feed(2)>>
  OBVIOUS
<1>8. Feeds(s2, b, v \o two, z)
  <2>1. Feeds(<<Feed(2)>>, z, two, z)
    BY <1>4, DoFeed
  <2>2. QED
    BY <1>6, <1>7, <2>1, FeedsCat
<1>9. PICK c : Feeds(<<Store(0, l)>>, z, <<>>, c) /\ Holds(c, n, l)
  BY <1>1, <1>2, DoStore
<1>10. PICK s3 : s3 = <<Store(0, l)>> \o <<Feed(8)>>
  OBVIOUS
<1>11. Feeds(s3, z, l, c)
  <2>1. Feeds(<<Feed(8)>>, c, l, c)
    BY <1>9, DoFeed
  <2>2. QED
    BY <1>9, <1>10, <2>1, FeedsQuietly
<1>12. Feeds(s2 \o s3, b, (v \o two) \o l, c)
  BY <1>8, <1>11, FeedsCat
<1>13. Feeds(<<FeedBytes(x)>>, c, x, c)
  BY DoBytes
<1>14. Feeds((s2 \o s3) \o <<FeedBytes(x)>>, b, ((v \o two) \o l) \o x, c)
  BY <1>12, <1>13, FeedsCat
<1>15. (s2 \o s3) \o <<FeedBytes(x)>> = ss
  <2>1. s1 = <<Clear, Store(0, v), Feed(8), Clear>>
    BY <1>5, Four, Zenon DEF Field
  <2>2. s2 = <<Clear, Store(0, v), Feed(8), Clear, Feed(2)>>
    <3>1. s2 = <<Clear, Store(0, v), Feed(8), Clear>> \o <<Feed(2)>>
      BY <1>7, <2>1, Zenon
    <3>2. PICK c1 : c1 = Clear
      OBVIOUS
    <3>3. PICK c2 : c2 = Store(0, v)
      OBVIOUS
    <3>4. PICK c3 : c3 = Feed(8)
      OBVIOUS
    <3>5. PICK c5 : c5 = Feed(2)
      OBVIOUS
    <3>6. <<c1, c2, c3, c1, c5>> = <<c1, c2, c3, c1>> \o <<c5>>
      BY ONLY SMT
    <3>7. QED
      BY <3>1, <3>2, <3>3, <3>4, <3>5, <3>6, Zenon
  <2>3. s3 = <<Store(0, l), Feed(8)>>
    BY <1>10, Two, Zenon
  <2>4. ss = (<<Clear, Store(0, v), Feed(8), Clear, Feed(2)>> \o <<Store(0, l), Feed(8)>>) \o <<FeedBytes(x)>>
    BY ONLY SMT DEF ss
  <2>5. QED
    BY <2>2, <2>3, <2>4, Zenon
<1>16. IsBuffer(c, InnerLen)
  BY <1>1, <1>9 DEF Holds
<1>17. QED
  BY <1>3, <1>14, <1>15, <1>16, Zenon DEF out

\* The parts of the client's preimage.
SpentParts(t)  == [k \in InputSlots |-> IdBytes(t.tx_inputs[k].tx_id) \o LE(t.tx_inputs[k].index, 4)]
ZeroParts      == [k \in InputSlots |-> LE(0, 8)]
OneParts       == [k \in InputSlots |-> LE(1, 1)]
OutputParts(t) == [o \in OutputSlots |->
                      LE(t.tx_outputs[o].value, 8) \o LE(0, 2)
                      \o LE(ScriptLen(t.tx_outputs[o].script.kind), 8)
                      \o ScriptBytes(t.tx_outputs[o].script)]

\* What a loop feeds from a fresh buffer.
LEMMA LoopDigest ==
    ASSUME NEW turn, NEW part, NEW n \in Nat,
           \A k \in 0 .. n - 1 : AlwaysFeeds(turn[k], part[k])
    PROVE  FedByAll(Turns(turn, n)) = Turns(part, n)
<1>1. AlwaysFeeds(Turns(turn, n), Turns(part, n))
  BY LoopFeeds
<1>2. PICK m \in Nat : m = InnerLen
  BY DEF InnerLen
<1>3. IsBuffer(Zeros(InnerLen), InnerLen)
  BY <1>2, ZerosHold
<1>4. PICK c : Feeds(Turns(turn, n), Zeros(InnerLen), Turns(part, n), c)
  BY <1>1, <1>3, Zenon DEF AlwaysFeeds
<1>5. QED
  BY <1>4, FedByAllIs

\* The lengths of a transaction that is signed.
LEMMA SlotsInRange ==
    ASSUME NEW t \in SighashTxs
    PROVE  /\ t.tx_input_len \in Nat /\ 0 .. t.tx_input_len - 1 \subseteq InputSlots
           /\ t.tx_output_len \in Nat /\ 0 .. t.tx_output_len - 1 \subseteq OutputSlots
           /\ t \in Transactions
  BY SighashAssumption, WidthAssumption DEF InputSlots, OutputSlots, MaxOutputCount

\* The outpoints are hashed as the client hashes them (sighash.c:49).
LEMMA PrevOutputsHashed ==
    ASSUME NEW t \in SighashTxs
    PROVE  calc_prev_outputs_hash(t) = Digest(Concat(SpentParts(t), t.tx_input_len))
<1> DEFINE turn == [i \in InputSlots |->
            <<Clear, Store(0, LE(t.tx_inputs[i].index, 4)),
              FeedBytes(IdBytes(t.tx_inputs[i].tx_id)), Feed(4)>>]
<1>1. ASSUME NEW k \in 0 .. t.tx_input_len - 1 PROVE AlwaysFeeds(turn[k], SpentParts(t)[k])
  <2>1. PICK y : y = LE(t.tx_inputs[k].index, 4)
    OBVIOUS
  <2>2. PICK x : x = IdBytes(t.tx_inputs[k].tx_id)
    OBVIOUS
  <2>3. IsSeq(y) /\ Len(y) = 4 /\ IsSeq(x)
    BY <2>1, <2>2, LEIsSeq, OpaqueIsSeq DEF IdBytes
  <2>4. AlwaysFeeds(<<Clear, Store(0, y), FeedBytes(x), Feed(4)>>, x \o y)
    BY <2>3, PrevOutputsTurn
  <2>5. k \in InputSlots
    BY SlotsInRange
  <2>6. SpentParts(t)[k] = x \o y
    BY <2>1, <2>2, <2>5, Zenon DEF SpentParts
  <2>7. turn[k] = <<Clear, Store(0, y), FeedBytes(x), Feed(4)>>
    BY <2>1, <2>2, <2>5, Zenon
  <2>8. QED
    BY <2>4, <2>6, <2>7, Zenon
<1>2. calc_prev_outputs_hash(t) = Digest(FedByAll(Turns(turn, t.tx_input_len)))
  BY Zenon DEF calc_prev_outputs_hash
<1> HIDE DEF turn
<1>3. FedByAll(Turns(turn, t.tx_input_len)) = Turns(SpentParts(t), t.tx_input_len)
  BY <1>1, SlotsInRange, LoopDigest
<1>4. QED
  BY <1>2, <1>3, Zenon DEF Concat

\* The sequences, all of them zero (sighash.c:72).
LEMMA SequencesHashed ==
    ASSUME NEW t \in SighashTxs
    PROVE  calc_sequences_hash(t) = Digest(Concat(ZeroParts, t.tx_input_len))
<1> DEFINE turn == [i \in InputSlots |-> <<Clear, Store(0, LE(Sequence, 8)), Feed(8), Clear>>]
<1>1. ASSUME NEW k \in 0 .. t.tx_input_len - 1 PROVE AlwaysFeeds(turn[k], ZeroParts[k])
  <2>1. PICK y : y = LE(0, 8)
    OBVIOUS
  <2>2. IsSeq(y) /\ Len(y) = 8
    BY <2>1, LEIsSeq
  <2>3. AlwaysFeeds(<<Clear, Store(0, y), Feed(8), Clear>>, y)
    BY <2>2, SequencesTurn
  <2>4. k \in InputSlots
    BY SlotsInRange
  <2>5. ZeroParts[k] = y
    BY <2>1, <2>4, Zenon DEF ZeroParts
  <2>6. turn[k] = <<Clear, Store(0, y), Feed(8), Clear>>
    BY <2>1, <2>4, Zenon DEF Sequence
  <2>7. QED
    BY <2>3, <2>5, <2>6, Zenon
<1>2. calc_sequences_hash(t) = Digest(FedByAll(Turns(turn, t.tx_input_len)))
  BY Zenon DEF calc_sequences_hash
<1> HIDE DEF turn
<1>3. FedByAll(Turns(turn, t.tx_input_len)) = Turns(ZeroParts, t.tx_input_len)
  BY <1>1, SlotsInRange, LoopDigest
<1>4. QED
  BY <1>2, <1>3, Zenon DEF Concat

\* The byte 1 is the number 1.
LEMMA OneByte == LE(1, 1) = <<B(1)>>
<1>1. 1 \in Byte
  BY WidthAssumption DEF Byte
<1>2. QED
  BY <1>1, LEByte

\* One signature operation for every input (sighash.c:95).
LEMMA SigOpCountsHashed ==
    ASSUME NEW t \in SighashTxs
    PROVE  calc_sig_op_count_hash(t) = Digest(Concat(OneParts, t.tx_input_len))
<1> DEFINE turn == [i \in InputSlots |-> <<Store(0, <<B(1)>>), Feed(1), Clear>>]
<1>1. ASSUME NEW k \in 0 .. t.tx_input_len - 1 PROVE AlwaysFeeds(turn[k], OneParts[k])
  <2>1. PICK y : y = LE(1, 1)
    OBVIOUS
  <2>2. IsSeq(y) /\ Len(y) = 1
    BY <2>1, LEIsSeq
  <2>3. AlwaysFeeds(<<Store(0, y), Feed(1), Clear>>, y)
    BY <2>2, SigOpCountTurn
  <2>4. k \in InputSlots
    BY SlotsInRange
  <2>5. OneParts[k] = y
    BY <2>1, <2>4, Zenon DEF OneParts
  <2>6. turn[k] = <<Store(0, y), Feed(1), Clear>>
    BY <2>1, <2>4, OneByte, Zenon
  <2>7. QED
    BY <2>3, <2>5, <2>6, Zenon
<1>2. calc_sig_op_count_hash(t) = Digest(FedByAll(Turns(turn, t.tx_input_len)))
  BY Zenon DEF calc_sig_op_count_hash
<1> HIDE DEF turn
<1>3. FedByAll(Turns(turn, t.tx_input_len)) = Turns(OneParts, t.tx_input_len)
  BY <1>1, SlotsInRange, LoopDigest
<1>4. QED
  BY <1>2, <1>3, Zenon DEF Concat

\* The outputs (sighash.c:118).
LEMMA OutputsHashed ==
    ASSUME NEW t \in SighashTxs
    PROVE  calc_outputs_hash(t) = Digest(Concat(OutputParts(t), t.tx_output_len))
<1> DEFINE turn == [o \in OutputSlots |->
            <<Clear, Store(0, LE(t.tx_outputs[o].value, 8)), Feed(8), Clear,
              Feed(2), Store(0, LE(ScriptLen(t.tx_outputs[o].script.kind), 8)), Feed(8),
              FeedBytes(ScriptBytes(t.tx_outputs[o].script))>>]
<1>1. ASSUME NEW k \in 0 .. t.tx_output_len - 1 PROVE AlwaysFeeds(turn[k], OutputParts(t)[k])
  <2>1. PICK v : v = LE(t.tx_outputs[k].value, 8)
    OBVIOUS
  <2>2. PICK l : l = LE(ScriptLen(t.tx_outputs[k].script.kind), 8)
    OBVIOUS
  <2>3. PICK x : x = ScriptBytes(t.tx_outputs[k].script)
    OBVIOUS
  <2>4. IsSeq(v) /\ Len(v) = 8 /\ IsSeq(l) /\ Len(l) = 8
    BY <2>1, <2>2, LEIsSeq
  <2>5. IsSeq(x)
    <3>1. ScriptLen(t.tx_outputs[k].script.kind) \in Nat
      BY DEF ScriptLen
    <3>2. QED
      BY <2>3, <3>1, OpaqueIsSeq DEF ScriptBytes
  <2>6. AlwaysFeeds(<<Clear, Store(0, v), Feed(8), Clear, Feed(2), Store(0, l), Feed(8), FeedBytes(x)>>,
                    ((v \o Zeros(2)) \o l) \o x)
    BY <2>4, <2>5, OutputsTurn
  <2>7. k \in OutputSlots
    BY SlotsInRange
  <2>8. LE(0, 2) = Zeros(2)
    BY LEZero
  <2>9. OutputParts(t)[k] = ((v \o Zeros(2)) \o l) \o x
    BY <2>1, <2>2, <2>3, <2>7, <2>8, Zenon DEF OutputParts
  <2>10. turn[k] = <<Clear, Store(0, v), Feed(8), Clear, Feed(2), Store(0, l), Feed(8), FeedBytes(x)>>
    BY <2>1, <2>2, <2>3, <2>7, Zenon
  <2>11. QED
    BY <2>6, <2>9, <2>10, Zenon
<1>2. calc_outputs_hash(t) = Digest(FedByAll(Turns(turn, t.tx_output_len)))
  BY Zenon DEF calc_outputs_hash
<1> HIDE DEF turn
<1>3. FedByAll(Turns(turn, t.tx_output_len)) = Turns(OutputParts(t), t.tx_output_len)
  BY <1>1, SlotsInRange, LoopDigest
<1>4. QED
  BY <1>2, <1>3, Zenon DEF Concat

-----------------------------------------------------------------------------
(* The whole preimage *)

Assoc(a, b, c) == (a \o b) \o c = a \o (b \o c)

\* CatAssoc with its conclusion as one fact.
LEMMA AssocHolds ==
    ASSUME NEW a, NEW b, NEW c, IsSeq(a), IsSeq(b), IsSeq(c)
    PROVE  Assoc(a, b, c)
  BY CatAssoc DEF Assoc

\* Several fields that are put behind others at once.
FiveMore(p, a, b, c, d, e) ==
    ((((p \o a) \o b) \o c) \o d) \o e = p \o ((a \o b) \o ((c \o d) \o e))

FourMore(p, l, u, k, w) == (((p \o l) \o u) \o k) \o w = p \o (l \o ((u \o k) \o w))

\* Five fields behind others.
LEMMA RegroupFive ==
    ASSUME NEW p, NEW a, NEW b, NEW c, NEW d, NEW e,
           IsSeq(p), IsSeq(a), IsSeq(b), IsSeq(c), IsSeq(d), IsSeq(e)
    PROVE  FiveMore(p, a, b, c, d, e)
<1>1. PICK ab : ab = a \o b
  OBVIOUS
<1>2. PICK cd : cd = c \o d
  OBVIOUS
<1>3. PICK pab : pab = p \o ab
  OBVIOUS
<1>4. IsSeq(ab) /\ IsSeq(cd)
  BY <1>1, <1>2, CatIsSeq, Zenon
<1>5. IsSeq(pab)
  BY <1>3, <1>4, CatIsSeq, Zenon
<1>6. PICK cde : cde = cd \o e
  OBVIOUS
<1>7. IsSeq(cde)
  BY <1>4, <1>6, CatIsSeq, Zenon
<1>8. Assoc(p, ab, cde) /\ Assoc(pab, cd, e) /\ Assoc(pab, c, d) /\ Assoc(p, a, b)
  BY <1>4, <1>5, <1>7, AssocHolds, Zenon
<1>9. QED
  BY <1>1, <1>2, <1>3, <1>6, <1>8, Zenon DEF Assoc, FiveMore

\* Four fields behind others.
LEMMA RegroupFour ==
    ASSUME NEW p, NEW l, NEW u, NEW k, NEW w,
           IsSeq(p), IsSeq(l), IsSeq(u), IsSeq(k), IsSeq(w)
    PROVE  FourMore(p, l, u, k, w)
<1>1. PICK uk : uk = u \o k
  OBVIOUS
<1>2. PICK pl : pl = p \o l
  OBVIOUS
<1>3. IsSeq(uk) /\ IsSeq(pl)
  BY <1>1, <1>2, CatIsSeq, Zenon
<1>4. PICK ukw : ukw = uk \o w
  OBVIOUS
<1>5. IsSeq(ukw)
  BY <1>3, <1>4, CatIsSeq, Zenon
<1>6. Assoc(p, l, ukw) /\ Assoc(pl, uk, w) /\ Assoc(pl, u, k)
  BY <1>3, <1>5, AssocHolds, Zenon
<1>7. QED
  BY <1>1, <1>2, <1>4, <1>6, Zenon DEF Assoc, FourMore

\* A buffer of zeroes.
IsClear(z, n) == z = Zeros(n) /\ n = BufferLen

\* One more field behind those that were fed, from a buffer of zeroes to a
\* buffer of zeroes.
LEMMA NextField ==
    ASSUME NEW n \in Nat, NEW z, IsClear(z, n), NEW ss, NEW out, Feeds(ss, z, out, z),
           NEW bytes, IsSeq(bytes), Len(bytes) <= n
    PROVE  Feeds(ss \o Field(bytes), z, out \o bytes, z)
<1>1. z = Zeros(n) /\ IsBuffer(z, n)
  BY ZerosHold DEF IsClear
<1>2. Feeds(Field(bytes), z, bytes, z)
  BY <1>1, FieldFeeds
<1>3. QED
  BY <1>2, FeedsCat

\* Zeroes from a buffer of zeroes.
LEMMA NextZeros ==
    ASSUME NEW n \in Nat, NEW z, IsClear(z, n), NEW m \in Nat, m <= n
    PROVE  Feeds(<<Feed(m)>>, z, LE(0, m), z)
<1>1. PICK bytes : bytes = Zeros(m)
  OBVIOUS
<1>2. Holds(z, n, bytes) /\ m = Len(bytes)
  BY <1>1, ZerosHold DEF IsClear
<1>3. Feeds(<<Feed(m)>>, z, bytes, z)
  BY <1>2, DoFeed
<1>4. QED
  BY <1>1, <1>3, LEZero

\* The script of the input that is signed, with its length before it
\* (sighash.c:270).
LEMMA SigningScript ==
    ASSUME NEW n \in Nat, NEW z, IsClear(z, n), NEW l, IsSeq(l), Len(l) = 8,
           NEW x, IsSeq(x), Len(x) = 34
    PROVE  Feeds(<<Store(0, l), Feed(8), Store(0, x), Feed(34), Clear>>, z, l \o x, z)
<1>1. z = Zeros(n) /\ IsBuffer(z, n) /\ n = 36
  BY ZerosHold DEF IsClear, BufferLen
<1>2. Len(l) <= n /\ Len(x) <= n
  BY <1>1
<1>3. PICK c : Feeds(<<Store(0, l)>>, z, <<>>, c) /\ Holds(c, n, l)
  BY <1>1, <1>2, DoStore
<1>4. Feeds(<<Feed(8)>>, c, l, c)
  BY <1>3, DoFeed
<1>5. PICK ss : ss = <<Store(0, l)>> \o <<Feed(8)>>
  OBVIOUS
<1>6. Feeds(ss, z, l, c)
  BY <1>3, <1>4, <1>5, FeedsQuietly
<1>7. IsBuffer(c, n)
  BY <1>3 DEF Holds
<1>8. Feeds(Field(x), c, x, z)
  BY <1>1, <1>2, <1>7, FieldFeeds
<1>9. Feeds(ss \o Field(x), z, l \o x, z)
  BY <1>6, <1>8, FeedsCat
<1>10. ss = <<Store(0, l), Feed(8)>>
  BY <1>5, Two, Zenon
<1>11. Field(x) = <<Store(0, x), Feed(34), Clear>>
  BY Zenon DEF Field
<1>12. <<Store(0, l), Feed(8), Store(0, x), Feed(34), Clear>>
          = <<Store(0, l), Feed(8)>> \o <<Store(0, x), Feed(34), Clear>>
  BY ONLY SMT
<1>13. QED
  BY <1>9, <1>10, <1>11, <1>12, Zenon

\* Lock time, subnetwork, gas and payload are zeroes, and the hash type is 1
\* (sighash.c:307).
LEMMA Trailer ==
    ASSUME NEW n \in Nat, NEW z, IsClear(z, n)
    PROVE  \E c : Feeds(<<Feed(8), Feed(20), Feed(8), Feed(32), Store(0, <<B(1)>>), Feed(1)>>, z,
                        (LE(0, 8) \o LE(0, 20)) \o ((LE(0, 8) \o LE(0, 32)) \o LE(1, 1)), c)
<1>1. z = Zeros(n) /\ IsBuffer(z, n) /\ n = 36
  BY ZerosHold DEF IsClear, BufferLen
<1>2. PICK one : one = LE(1, 1)
  OBVIOUS
<1>3. IsSeq(one) /\ Len(one) = 1 /\ Len(one) <= n
  BY <1>1, <1>2, LEIsSeq
<1>4. PICK c : Feeds(<<Store(0, one)>>, z, <<>>, c) /\ Holds(c, n, one)
  BY <1>1, <1>3, DoStore
<1>5. Feeds(<<Feed(1)>>, c, one, c)
  BY <1>3, <1>4, DoFeed
<1>6. PICK s3 : s3 = <<Store(0, one)>> \o <<Feed(1)>>
  OBVIOUS
<1>7. Feeds(s3, z, one, c)
  BY <1>4, <1>5, <1>6, FeedsQuietly
<1>8. /\ Feeds(<<Feed(8)>>, z, LE(0, 8), z)
      /\ Feeds(<<Feed(20)>>, z, LE(0, 20), z)
      /\ Feeds(<<Feed(32)>>, z, LE(0, 32), z)
  BY <1>1, NextZeros
<1>9. PICK s1 : s1 = <<Feed(8)>> \o <<Feed(20)>>
  OBVIOUS
<1>10. PICK s2 : s2 = <<Feed(8)>> \o <<Feed(32)>>
  OBVIOUS
<1>11. Feeds(s1, z, LE(0, 8) \o LE(0, 20), z)
  BY <1>8, <1>9, FeedsCat
<1>12. Feeds(s2, z, LE(0, 8) \o LE(0, 32), z)
  BY <1>8, <1>10, FeedsCat
<1>13. Feeds(s2 \o s3, z, (LE(0, 8) \o LE(0, 32)) \o one, c)
  BY <1>7, <1>12, FeedsCat
<1>14. Feeds(s1 \o (s2 \o s3), z, (LE(0, 8) \o LE(0, 20)) \o ((LE(0, 8) \o LE(0, 32)) \o one), c)
  BY <1>11, <1>13, FeedsCat
<1>15. s1 \o (s2 \o s3) = <<Feed(8), Feed(20), Feed(8), Feed(32), Store(0, one), Feed(1)>>
  <2>1. s1 = <<Feed(8), Feed(20)>> /\ s2 = <<Feed(8), Feed(32)>> /\ s3 = <<Store(0, one), Feed(1)>>
    BY <1>6, <1>9, <1>10, Two, Zenon
  <2>2. <<Feed(8), Feed(32), Store(0, one), Feed(1)>> = <<Feed(8), Feed(32)>> \o <<Store(0, one), Feed(1)>>
    BY ONLY SMT
  <2>3. <<Feed(8), Feed(20), Feed(8), Feed(32), Store(0, one), Feed(1)>>
           = <<Feed(8), Feed(20)>> \o <<Feed(8), Feed(32), Store(0, one), Feed(1)>>
    BY ONLY SMT
  <2>4. QED
    BY <2>1, <2>2, <2>3, Zenon
<1>16. QED
  BY <1>2, <1>14, <1>15, OneByte, Zenon

\* Key and script lengths (sighash.c:134).
LEMMA ScriptOfKey ==
    ASSUME NEW key
    PROVE  /\ calc_txin_script_public_key(key) = (LE(32, 1) \o KeyBytes(key)) \o LE(172, 1)
           /\ IsSeq(KeyBytes(key)) /\ IsSeq(calc_txin_script_public_key(key))
           /\ Len(calc_txin_script_public_key(key)) = 34
<1>1. 32 \in Byte /\ 172 \in Byte
  BY WidthAssumption, SighashAssumption DEF Byte
<1>2. LE(32, 1) = <<B(32)>> /\ LE(172, 1) = <<B(172)>>
  BY <1>1, LEByte
<1>3. calc_txin_script_public_key(key) = (LE(32, 1) \o KeyBytes(key)) \o LE(172, 1)
  BY <1>2, Zenon DEF calc_txin_script_public_key
<1>4. PICK u : u = LE(32, 1)
  OBVIOUS
<1>5. PICK w : w = LE(172, 1)
  OBVIOUS
<1>6. PICK k : k = KeyBytes(key)
  OBVIOUS
<1>7. IsSeq(u) /\ Len(u) = 1 /\ IsSeq(w) /\ Len(w) = 1 /\ IsSeq(k) /\ Len(k) = 32
  BY <1>4, <1>5, <1>6, LEIsSeq, OpaqueIsSeq DEF KeyBytes
<1>8. PICK uk : uk = u \o k
  OBVIOUS
<1>9. IsSeq(uk) /\ Len(uk) = 33
  <2>1. IsSeq(uk) /\ Len(uk) = Len(u) + Len(k)
    BY <1>7, <1>8, CatIsSeq, Zenon
  <2>2. QED
    BY <1>7, <2>1
<1>10. PICK ukw : ukw = uk \o w /\ IsSeq(ukw) /\ Len(ukw) = 34
  <2>1. PICK ukw : ukw = uk \o w
    OBVIOUS
  <2>2. IsSeq(ukw) /\ Len(ukw) = Len(uk) + Len(w)
    BY <1>7, <1>9, <2>1, CatIsSeq, Zenon
  <2>3. Len(ukw) = 34
    BY <1>7, <1>9, <2>2
  <2>4. QED
    BY <2>1, <2>2, <2>3, Zenon
<1>11. QED
  BY <1>3, <1>4, <1>5, <1>6, <1>7, <1>8, <1>10, Zenon

\* A digest has HashLen bytes.
LEMMA DigestIsSeq ==
    ASSUME NEW bytes
    PROVE  IsSeq(Digest(bytes)) /\ Len(Digest(bytes)) = 32
  BY OpaqueIsSeq DEF Digest, HashLen

\* The statements of calc_sighash feed the client's preimage (sighash.c:199).
LEMMA StatementsFeed ==
    ASSUME NEW t \in SighashTxs, NEW i
    PROVE  \E c : Feeds(Statements(t, i), Zeros(BufferLen), to_hash(t, i), c)
<1>1. PICK n \in Nat : n = BufferLen /\ n = 36
  BY DEF BufferLen
<1>2. PICK z : z = Zeros(BufferLen) /\ IsClear(z, n) /\ IsBuffer(z, n)
  BY <1>1, ZerosHold DEF IsClear
<1>3. PICK f1 : f1 = LE(t.version, 2)
  OBVIOUS
<1>4. PICK f2 : f2 = calc_prev_outputs_hash(t) /\ f2 = Digest(Concat(SpentParts(t), t.tx_input_len))
  BY PrevOutputsHashed
<1>5. PICK f3 : f3 = calc_sequences_hash(t) /\ f3 = Digest(Concat(ZeroParts, t.tx_input_len))
  BY SequencesHashed
<1>6. PICK f4 : f4 = calc_sig_op_count_hash(t) /\ f4 = Digest(Concat(OneParts, t.tx_input_len))
  BY SigOpCountsHashed
<1>7. PICK f5 : f5 = IdBytes(i.tx_id)
  OBVIOUS
<1>8. PICK f6 : f6 = LE(i.index, 4)
  OBVIOUS
<1>9. PICK l : l = LE(34, 8)
  OBVIOUS
<1>10. PICK k : k = KeyBytes(SigningKey(t, i))
  OBVIOUS
<1>11. PICK f7 : f7 = calc_txin_script_public_key(SigningKey(t, i)) /\ f7 = (LE(32, 1) \o k) \o LE(172, 1)
  BY <1>10, ScriptOfKey, Zenon
<1>12. PICK f8 : f8 = LE(i.value, 8)
  OBVIOUS
<1>13. PICK f9 : f9 = LE(0, 8)
  OBVIOUS
<1>14. PICK f10 : f10 = LE(1, 1) /\ f10 = <<B(1)>>
  BY OneByte
<1>15. PICK f11 : f11 = calc_outputs_hash(t) /\ f11 = Digest(Concat(OutputParts(t), t.tx_output_len))
  BY OutputsHashed
<1>16. /\ IsSeq(f1) /\ Len(f1) <= n
       /\ IsSeq(f2) /\ Len(f2) <= n
       /\ IsSeq(f3) /\ Len(f3) <= n
       /\ IsSeq(f4) /\ Len(f4) <= n
       /\ IsSeq(f6) /\ Len(f6) <= n
       /\ IsSeq(f8) /\ Len(f8) <= n
       /\ IsSeq(f9) /\ Len(f9) <= n
       /\ IsSeq(f10) /\ Len(f10) <= n
       /\ IsSeq(f11) /\ Len(f11) <= n
  <2>1. IsSeq(f1) /\ Len(f1) = 2 /\ IsSeq(f6) /\ Len(f6) = 4
    BY <1>3, <1>8, LEIsSeq
  <2>2. IsSeq(f8) /\ Len(f8) = 8 /\ IsSeq(f9) /\ Len(f9) = 8 /\ IsSeq(f10) /\ Len(f10) = 1
    BY <1>12, <1>13, <1>14, LEIsSeq
  <2>3. /\ IsSeq(f2) /\ Len(f2) = 32 /\ IsSeq(f3) /\ Len(f3) = 32
        /\ IsSeq(f4) /\ Len(f4) = 32 /\ IsSeq(f11) /\ Len(f11) = 32
    BY <1>4, <1>5, <1>6, <1>15, DigestIsSeq
  <2>4. QED
    BY <1>1, <2>1, <2>2, <2>3
<1>17. IsSeq(f5) /\ IsSeq(l) /\ Len(l) = 8 /\ IsSeq(k) /\ IsSeq(f7) /\ Len(f7) = 34
  BY <1>7, <1>9, <1>10, <1>11, LEIsSeq, OpaqueIsSeq, ScriptOfKey DEF IdBytes
<1>18. PICK s1 : s1 = Field(f1)
  OBVIOUS
<1>19. Feeds(s1, z, f1, z)
  BY <1>1, <1>2, <1>16, <1>18, FieldFeeds
<1>20. PICK s2 : s2 = s1 \o Field(f2)
  OBVIOUS
<1>21. PICK o2 : o2 = f1 \o f2
  OBVIOUS
<1>22. Feeds(s2, z, o2, z)
  BY <1>2, <1>16, <1>19, <1>20, <1>21, NextField
<1>23. PICK s3 : s3 = s2 \o Field(f3)
  OBVIOUS
<1>24. PICK o3 : o3 = o2 \o f3
  OBVIOUS
<1>25. Feeds(s3, z, o3, z)
  BY <1>2, <1>16, <1>22, <1>23, <1>24, NextField
<1>26. PICK s4 : s4 = s3 \o Field(f4)
  OBVIOUS
<1>27. PICK o4 : o4 = o3 \o f4
  OBVIOUS
<1>28. Feeds(s4, z, o4, z)
  BY <1>2, <1>16, <1>25, <1>26, <1>27, NextField
<1>29. PICK s5 : s5 = s4 \o <<FeedBytes(f5)>>
  OBVIOUS
<1>30. PICK o5 : o5 = o4 \o f5
  OBVIOUS
<1>31. Feeds(s5, z, o5, z)
  <2>1. Feeds(<<FeedBytes(f5)>>, z, f5, z)
    BY <1>17, DoBytes
  <2>2. QED
    BY <1>28, <1>29, <1>30, <2>1, FeedsCat
<1>32. PICK s6 : s6 = s5 \o Field(f6)
  OBVIOUS
<1>33. PICK o6 : o6 = o5 \o f6
  OBVIOUS
<1>34. Feeds(s6, z, o6, z)
  BY <1>2, <1>16, <1>31, <1>32, <1>33, NextField
<1>35. PICK s7 : s7 = s6 \o <<Feed(2)>>
  OBVIOUS
<1>36. PICK o7 : o7 = o6 \o LE(0, 2)
  OBVIOUS
<1>37. Feeds(s7, z, o7, z)
  <2>1. Feeds(<<Feed(2)>>, z, LE(0, 2), z)
    BY <1>1, <1>2, NextZeros
  <2>2. QED
    BY <1>34, <1>35, <1>36, <2>1, FeedsCat
<1>38. PICK s8 : s8 = s7 \o <<Store(0, l), Feed(8), Store(0, f7), Feed(34), Clear>>
  OBVIOUS
<1>39. PICK o8 : o8 = (((o7 \o l) \o LE(32, 1)) \o k) \o LE(172, 1)
  OBVIOUS
<1>40. Feeds(s8, z, o8, z)
  <2>1. Feeds(<<Store(0, l), Feed(8), Store(0, f7), Feed(34), Clear>>, z, l \o f7, z)
    BY <1>2, <1>17, SigningScript
  <2>2. Feeds(s8, z, o7 \o (l \o f7), z)
    BY <1>37, <1>38, <2>1, FeedsCat
  <2>3. IsSeq(o7) /\ IsSeq(LE(32, 1)) /\ IsSeq(LE(172, 1))
    BY <1>37, FeedsSeq, LEIsSeq
  <2>4. PICK u : u = LE(32, 1)
    OBVIOUS
  <2>5. PICK w : w = LE(172, 1)
    OBVIOUS
  <2>6. FourMore(o7, l, u, k, w)
    BY <1>17, <2>3, <2>4, <2>5, RegroupFour
  <2>7. QED
    BY <1>11, <1>39, <2>2, <2>4, <2>5, <2>6, Zenon DEF FourMore
<1>41. PICK s9 : s9 = s8 \o Field(f8)
  OBVIOUS
<1>42. PICK o9 : o9 = o8 \o f8
  OBVIOUS
<1>43. Feeds(s9, z, o9, z)
  BY <1>2, <1>16, <1>40, <1>41, <1>42, NextField
<1>44. PICK s10 : s10 = s9 \o Field(f9)
  OBVIOUS
<1>45. PICK o10 : o10 = o9 \o f9
  OBVIOUS
<1>46. Feeds(s10, z, o10, z)
  BY <1>2, <1>16, <1>43, <1>44, <1>45, NextField
<1>47. PICK s11 : s11 = s10 \o Field(f10)
  OBVIOUS
<1>48. PICK o11 : o11 = o10 \o f10
  OBVIOUS
<1>49. Feeds(s11, z, o11, z)
  BY <1>2, <1>16, <1>46, <1>47, <1>48, NextField
<1>50. PICK s12 : s12 = s11 \o Field(f11)
  OBVIOUS
<1>51. PICK o12 : o12 = o11 \o f11
  OBVIOUS
<1>52. Feeds(s12, z, o12, z)
  BY <1>2, <1>16, <1>49, <1>50, <1>51, NextField
<1>53. PICK s13 : s13 = s12 \o <<Feed(8), Feed(20), Feed(8), Feed(32), Store(0, <<B(1)>>), Feed(1)>>
  OBVIOUS
<1>54. PICK o13 : o13 = ((((o12 \o LE(0, 8)) \o LE(0, 20)) \o LE(0, 8)) \o LE(0, 32)) \o LE(1, 1)
  OBVIOUS
<1>55. PICK c : Feeds(s13, z, o13, c)
  <2>1. PICK c : Feeds(<<Feed(8), Feed(20), Feed(8), Feed(32), Store(0, <<B(1)>>), Feed(1)>>, z,
                       (LE(0, 8) \o LE(0, 20)) \o ((LE(0, 8) \o LE(0, 32)) \o LE(1, 1)), c)
    BY <1>2, Trailer
  <2>2. Feeds(s13, z, o12 \o ((LE(0, 8) \o LE(0, 20)) \o ((LE(0, 8) \o LE(0, 32)) \o LE(1, 1))), c)
    BY <1>52, <1>53, <2>1, FeedsCat
  <2>3. IsSeq(o12) /\ IsSeq(LE(0, 8)) /\ IsSeq(LE(0, 20)) /\ IsSeq(LE(0, 32)) /\ IsSeq(LE(1, 1))
    BY <1>52, FeedsSeq, LEIsSeq
  <2>4. PICK a : a = LE(0, 8)
    OBVIOUS
  <2>5. PICK b : b = LE(0, 20)
    OBVIOUS
  <2>6. PICK d : d = LE(0, 32)
    OBVIOUS
  <2>7. PICK e : e = LE(1, 1)
    OBVIOUS
  <2>8. FiveMore(o12, a, b, a, d, e)
    BY <2>3, <2>4, <2>5, <2>6, <2>7, RegroupFive
  <2>9. QED
    BY <1>54, <2>2, <2>4, <2>5, <2>6, <2>7, <2>8, Zenon DEF FiveMore
<1>56. s13 = Statements(t, i)
  <2>1. s8 = Field(f1) \o Field(f2) \o Field(f3) \o Field(f4)
             \o <<FeedBytes(f5)>> \o Field(f6) \o <<Feed(2)>>
             \o <<Store(0, l), Feed(8), Store(0, f7), Feed(34), Clear>>
    BY <1>18, <1>20, <1>23, <1>26, <1>29, <1>32, <1>35, <1>38, Zenon
  <2>2. s13 = s8 \o Field(f8) \o Field(f9) \o Field(f10) \o Field(f11)
              \o <<Feed(8), Feed(20), Feed(8), Feed(32), Store(0, <<B(1)>>), Feed(1)>>
    BY <1>41, <1>44, <1>47, <1>50, <1>53, Zenon
  <2>3. QED
    BY <1>3, <1>4, <1>5, <1>6, <1>7, <1>8, <1>9, <1>11, <1>12, <1>13, <1>14, <1>15, <2>1, <2>2, Zenon
       DEF Statements, Sequence
<1>57. o13 = to_hash(t, i)
  <2>1. o8 = f1 \o f2 \o f3 \o f4 \o f5 \o f6 \o LE(0, 2) \o l \o LE(32, 1) \o k \o LE(172, 1)
    BY <1>21, <1>24, <1>27, <1>30, <1>33, <1>36, <1>39, Zenon
  <2>2. o13 = o8 \o f8 \o f9 \o f10 \o f11
              \o LE(0, 8) \o LE(0, 20) \o LE(0, 8) \o LE(0, 32) \o LE(1, 1)
    BY <1>42, <1>45, <1>48, <1>51, <1>54, Zenon
  <2>3. QED
    BY <1>3, <1>4, <1>5, <1>6, <1>7, <1>8, <1>9, <1>10, <1>12, <1>13, <1>14, <1>15, <2>1, <2>2, Zenon
       DEF to_hash, SpentParts, ZeroParts, OneParts, OutputParts
<1>58. QED
  BY <1>2, <1>55, <1>56, <1>57, Zenon

-----------------------------------------------------------------------------
(* The inductive invariant: what was fed and what is still to be fed make  *)
(* up the client's preimage.                                               *)
PreimageInv ==
    /\ tx \in SighashTxs /\ IsSeq(preimage)
    /\ \E rest, after : /\ Feeds(todo, outer_buffer, rest, after)
                        /\ preimage \o rest = to_hash(tx, txin)

\* It holds before the first statement.
LEMMA PreimageInit == SighashInit => PreimageInv
<1> SUFFICES ASSUME SighashInit PROVE PreimageInv
  OBVIOUS
<1>1. tx \in SighashTxs /\ todo = Statements(tx, txin) /\ outer_buffer = Zeros(BufferLen) /\ preimage = <<>>
  BY DEF SighashInit
<1>2. PICK c : Feeds(todo, outer_buffer, to_hash(tx, txin), c)
  BY <1>1, StatementsFeed
<1>3. IsSeq(to_hash(tx, txin))
  BY <1>2, FeedsSeq
<1>4. IsSeq(preimage) /\ preimage \o to_hash(tx, txin) = to_hash(tx, txin)
  BY <1>1, <1>3, CatEmpty
<1>5. QED
  BY <1>1, <1>2, <1>4, Zenon DEF PreimageInv

\* Every statement keeps it.
LEMMA PreimageStep == PreimageInv /\ [Step]_sighashvars => PreimageInv'
<1> SUFFICES ASSUME PreimageInv, [Step]_sighashvars PROVE PreimageInv'
  OBVIOUS
<1>1. CASE Step
  <2>1. PICK rest, after : Feeds(todo, outer_buffer, rest, after) /\ preimage \o rest = to_hash(tx, txin)
    BY DEF PreimageInv
  <2>2. PICK fed : fed = FedBy(Head(todo), outer_buffer)
    OBVIOUS
  <2>3. PICK more : /\ Feeds(Tail(todo), BufferAfter(Head(todo), outer_buffer), more, after)
                    /\ IsSeq(fed) /\ rest = fed \o more
    <3>1. todo # <<>>
      BY <1>1 DEF Step, Done
    <3>2. GoesOn(todo, outer_buffer, rest, after)
      BY <2>1, <3>1, FeedsRest
    <3>3. QED
      BY <2>2, <3>2, Zenon DEF GoesOn
  <2>4. Feeds(todo', outer_buffer', more, after) /\ preimage' = preimage \o fed /\ tx' = tx /\ txin' = txin
    BY <1>1, <2>2, <2>3, Zenon DEF Step
  <2>5. IsSeq(preimage) /\ IsSeq(more) /\ tx \in SighashTxs
    BY <2>3, FeedsSeq DEF PreimageInv
  <2>6. IsSeq(preimage')
    BY <2>3, <2>4, <2>5, CatIsSeq
  <2>7. (preimage \o fed) \o more = preimage \o (fed \o more)
    BY <2>3, <2>5, CatAssoc
  <2>8. preimage' \o more = to_hash(tx', txin')
    BY <2>1, <2>3, <2>4, <2>7, Zenon
  <2>9. QED
    BY <2>4, <2>5, <2>6, <2>8, Zenon DEF PreimageInv
<1>2. CASE UNCHANGED sighashvars
  BY <1>2, Zenon DEF PreimageInv, sighashvars
<1>3. QED
  BY <1>1, <1>2

\* It says that the preimage is the client's.
LEMMA PreimageInvMatches == PreimageInv => PreimageMatchesClient
<1> SUFFICES ASSUME PreimageInv PROVE PreimageMatchesClient
  OBVIOUS
<1>1. PICK rest, after : Feeds(todo, outer_buffer, rest, after) /\ preimage \o rest = to_hash(tx, txin)
  BY DEF PreimageInv
<1>2. IsSeq(preimage) /\ IsSeq(rest)
  BY <1>1, FeedsSeq DEF PreimageInv
<1>3. preimage = SubSeq(to_hash(tx, txin), 1, Len(preimage))
  <2>1. SubSeq(preimage \o rest, 1, Len(preimage)) = preimage
    BY <1>2, CatPrefix
  <2>2. QED
    BY <1>1, <2>1, Zenon
<1>4. ASSUME Done PROVE preimage = to_hash(tx, txin)
  <2>1. todo = <<>> /\ Len(todo) = 0
    BY <1>4, CatEmpty DEF Done
  <2>2. rest = <<>>
    <3>1. PICK buf, r : Runs(todo, buf, r) /\ r[0] = rest
      BY <1>1 DEF Feeds
    <3>2. QED
      BY <2>1, <3>1 DEF Runs
  <2>3. preimage \o <<>> = preimage
    BY <1>2, CatEmpty
  <2>4. QED
    BY <1>1, <2>2, <2>3, Zenon
<1>5. QED
  BY <1>3, <1>4, Zenon DEF PreimageMatchesClient

\* At every moment of calc_sighash the bytes that were fed are the beginning of
\* the client's preimage, and at the end all of it: for every transaction of
\* every number of inputs, whatever the values (sighash.c:199-325,
\* kaspa_transaction.py:190).
THEOREM DeviceHashesClientPreimage == SighashSpec => []PreimageMatchesClient
<1>1. SighashSpec => []PreimageInv
  BY PreimageInit, PreimageStep, PTL DEF SighashSpec
<1>2. QED
  BY <1>1, PreimageInvMatches, PTL

-----------------------------------------------------------------------------
(* No two readings of a preimage *)

\* What two sequences end with, and what comes before it, if the last parts are
\* as long as each other.
LEMMA CatSplitLast ==
    ASSUME NEW a, NEW b, NEW c, NEW d, IsSeq(a), IsSeq(b), IsSeq(c), IsSeq(d),
           Len(b) = Len(d), a \o b = c \o d
    PROVE  SameParts(a, b, c, d)
<1>1. PICK s : s = a \o b
  OBVIOUS
<1>2. IsCat(s, a, b) /\ IsCat(s, c, d)
  BY <1>1, CatIs, Zenon
<1>3. Len(a) \in Nat /\ Len(b) \in Nat /\ Len(c) \in Nat /\ Len(d) \in Nat
  BY SeqLen
<1>4. Len(a) = Len(c)
  BY <1>2, <1>3 DEF IsCat
<1>5. QED
  BY <1>4, CatSplit, Zenon

\* A number can be read back from its bytes (write_u16_le, write_u32_le,
\* write_u64_le).
LEMMA LEInjective ==
    ASSUME NEW n \in Nat, NEW m \in Nat, NEW w \in Nat,
           Fits(n, w), Fits(m, w), LE(n, w) = LE(m, w)
    PROVE  n = m
<1>1. ByteMod \in Nat /\ ByteMod > 0
  BY WidthAssumption
<1>2. \A k \in 0 .. w - 1 : Shifted(n, k) % ByteMod = Shifted(m, k) % ByteMod
  <2> SUFFICES ASSUME NEW k \in 0 .. w - 1
               PROVE  Shifted(n, k) % ByteMod = Shifted(m, k) % ByteMod
    OBVIOUS
  <2>1. k + 1 \in 1 .. w /\ (k + 1) - 1 = k
    OBVIOUS
  <2>2. LE(n, w)[k + 1] = B(Shifted(n, k) % ByteMod) /\ LE(m, w)[k + 1] = B(Shifted(m, k) % ByteMod)
    BY <2>1, Zenon DEF LE
  <2>3. B(Shifted(n, k) % ByteMod) = B(Shifted(m, k) % ByteMod)
    BY <2>2, Zenon
  <2>4. QED
    BY <2>3 DEF B
<1> DEFINE T == {j \in Nat : j <= w => Shifted(n, w - j) = Shifted(m, w - j)}
<1>3. 0 \in T
  BY DEF Fits
<1>4. ASSUME NEW j \in Nat, j \in T PROVE j + 1 \in T
  <2> SUFFICES ASSUME j + 1 <= w PROVE Shifted(n, w - (j + 1)) = Shifted(m, w - (j + 1))
    OBVIOUS
  <2>1. PICK k \in Nat : k = w - (j + 1)
    OBVIOUS
  <2>2. k \in 0 .. w - 1 /\ k + 1 = w - j /\ j <= w
    BY <2>1
  <2>3. PICK x \in Nat : x = Shifted(n, k)
    BY ShiftIs
  <2>4. PICK y \in Nat : y = Shifted(m, k)
    BY ShiftIs
  <2>5. Shifted(n, k + 1) = x \div ByteMod /\ Shifted(m, k + 1) = y \div ByteMod
    BY <2>3, <2>4, ShiftIs
  <2>6. x \div ByteMod = y \div ByteMod
    BY <1>4, <2>2, <2>5
  <2>7. x % ByteMod = y % ByteMod
    BY <1>2, <2>2, <2>3, <2>4
  <2>8. x = y
    BY ONLY <1>1, <2>6, <2>7, x \in Nat, y \in Nat
  <2>9. QED
    BY <2>1, <2>3, <2>4, <2>8
<1>5. w \in T
  <2>1. Nat \subseteq T
    BY <1>3, <1>4, CountUp
  <2>2. QED
    BY <2>1
<1>6. Shifted(n, 0) = Shifted(m, 0)
  BY <1>5
<1>7. QED
  BY <1>6, ShiftIs

\* A value that is not taken apart is known by its bytes.
LEMMA OpaqueInjective ==
    ASSUME NEW x, NEW y, NEW n \in Nat, n > 0, Opaque(x, n) = Opaque(y, n)
    PROVE  x = y
<1>1. 1 \in 1 .. n
  OBVIOUS
<1>2. Opaque(x, n)[1] = <<"value", x, n>> /\ Opaque(y, n)[1] = <<"value", y, n>>
  BY <1>1 DEF Opaque
<1>3. <<"value", x, n>> = <<"value", y, n>>
  BY <1>2, Zenon
<1>4. QED
  BY <1>3

\* Loops with the same turns come to the same.
LEMMA TurnsSame ==
    ASSUME NEW n \in Nat, NEW p, NEW q, \A k \in 0 .. n - 1 : p[k] = q[k]
    PROVE  Turns(p, n) = Turns(q, n)
<1>1. PICK f : IsUnrolled(f, p, n)
  BY TurnsAre
<1>2. PICK g : IsUnrolled(g, q, n)
  BY TurnsAre
<1> DEFINE T == {k \in Nat : k <= n => f[k] = g[k]}
<1>3. 0 \in T
  BY <1>1, <1>2 DEF IsUnrolled
<1>4. ASSUME NEW k \in Nat, k \in T PROVE k + 1 \in T
  <2> SUFFICES ASSUME k + 1 <= n PROVE f[k + 1] = g[k + 1]
    OBVIOUS
  <2>1. f[k] = g[k] /\ k \in 0 .. n - 1
    BY <1>4
  <2>2. f[k + 1] = f[k] \o p[k] /\ g[k + 1] = g[k] \o q[k]
    BY <1>1, <1>2, <2>1, Zenon DEF IsUnrolled
  <2>3. p[k] = q[k]
    BY <2>1
  <2>4. QED
    BY <2>1, <2>2, <2>3, Zenon
<1>5. Nat \subseteq T
  BY <1>3, <1>4, CountUp
<1>6. f[n] = g[n]
  BY <1>5
<1>7. QED
  BY <1>1, <1>2, <1>6, Zenon DEF IsUnrolled

\* The turns of a loop whose parts all have w bytes.
EvenParts(p, n, w) == \A k \in 0 .. n - 1 : IsSeq(p[k]) /\ Len(p[k]) = w

\* The outpoints of n inputs have 36 n bytes (sighash.c:49).
LEMMA UnrolledLength ==
    ASSUME NEW n \in Nat, NEW p, EvenParts(p, n, 36), NEW f, IsUnrolled(f, p, n)
    PROVE  \A k \in 0 .. n : IsSeq(f[k]) /\ Len(f[k]) = 36 * k
<1> DEFINE T == {k \in Nat : k <= n => IsSeq(f[k]) /\ Len(f[k]) = 36 * k}
<1>1. 0 \in T
  BY CatEmpty DEF IsUnrolled
<1>2. ASSUME NEW k \in Nat, k \in T PROVE k + 1 \in T
  <2> SUFFICES ASSUME k + 1 <= n PROVE IsSeq(f[k + 1]) /\ Len(f[k + 1]) = 36 * (k + 1)
    OBVIOUS
  <2>1. IsSeq(f[k]) /\ Len(f[k]) = 36 * k /\ k \in 0 .. n - 1
    BY <1>2
  <2>2. IsSeq(p[k]) /\ Len(p[k]) = 36
    BY <2>1 DEF EvenParts
  <2>3. f[k + 1] = f[k] \o p[k]
    BY <2>1, Zenon DEF IsUnrolled
  <2>4. IsSeq(f[k + 1]) /\ Len(f[k + 1]) = Len(f[k]) + Len(p[k])
    BY <2>1, <2>2, <2>3, CatIsSeq, Zenon
  <2>5. QED
    BY <2>1, <2>2, <2>4
<1>3. Nat \subseteq T
  BY <1>1, <1>2, CountUp
<1>4. QED
  BY <1>3

\* Parts of the same length can be read back, and so can their number.
LEMMA TurnsInjective ==
    ASSUME NEW n \in Nat, NEW m \in Nat, NEW p, NEW q,
           EvenParts(p, n, 36), EvenParts(q, m, 36), Turns(p, n) = Turns(q, m)
    PROVE  n = m /\ \A k \in 0 .. n - 1 : p[k] = q[k]
<1>1. PICK f : IsUnrolled(f, p, n)
  BY TurnsAre
<1>2. PICK g : IsUnrolled(g, q, m)
  BY TurnsAre
<1>3. /\ \A k \in 0 .. n : IsSeq(f[k]) /\ Len(f[k]) = 36 * k
      /\ \A k \in 0 .. m : IsSeq(g[k]) /\ Len(g[k]) = 36 * k
  BY <1>1, <1>2, UnrolledLength
<1>4. f[n] = g[m]
  BY <1>1, <1>2, Zenon DEF IsUnrolled
<1>5. n = m
  BY <1>3, <1>4
<1> DEFINE T == {j \in Nat : j <= n => f[n - j] = g[n - j]}
<1>6. ASSUME NEW k \in 0 .. n - 1, f[k + 1] = g[k + 1]
      PROVE  f[k] = g[k] /\ p[k] = q[k]
  <2>1. f[k + 1] = f[k] \o p[k] /\ g[k + 1] = g[k] \o q[k]
    BY <1>1, <1>2, <1>5, Zenon DEF IsUnrolled
  <2>2. k \in 0 .. n /\ k \in 0 .. m /\ k \in 0 .. m - 1
    BY <1>5
  <2>3. IsSeq(f[k]) /\ IsSeq(g[k]) /\ IsSeq(p[k]) /\ IsSeq(q[k]) /\ Len(p[k]) = Len(q[k])
    BY <1>3, <2>2 DEF EvenParts
  <2>4. f[k] \o p[k] = g[k] \o q[k]
    BY <1>6, <2>1, Zenon
  <2>5. SameParts(f[k], p[k], g[k], q[k])
    BY <2>3, <2>4, CatSplitLast
  <2>6. QED
    BY <2>5, Zenon DEF SameParts
<1>7. 0 \in T
  BY <1>4, <1>5
<1>8. ASSUME NEW j \in Nat, j \in T PROVE j + 1 \in T
  <2> SUFFICES ASSUME j + 1 <= n PROVE f[n - (j + 1)] = g[n - (j + 1)]
    OBVIOUS
  <2>1. PICK k \in 0 .. n - 1 : k = n - (j + 1) /\ k + 1 = n - j
    OBVIOUS
  <2>2. f[k + 1] = g[k + 1]
    BY <1>8, <2>1
  <2>3. QED
    BY <1>6, <2>1, <2>2
<1>9. Nat \subseteq T
  BY <1>7, <1>8, CountUp
<1>10. ASSUME NEW k \in 0 .. n - 1 PROVE p[k] = q[k]
  <2>1. PICK j \in Nat : j = n - (k + 1) /\ k + 1 = n - j /\ j <= n
    OBVIOUS
  <2>2. f[k + 1] = g[k + 1]
    BY <1>9, <2>1
  <2>3. QED
    BY <1>6, <2>2
<1>11. QED
  BY <1>5, <1>10

\* A script length has a byte of its own.
LEMMA ScriptLenFits ==
    ASSUME NEW kind
    PROVE  /\ ScriptLen(kind) \in Nat /\ ScriptLen(kind) > 0
           /\ Fits(ScriptLen(kind), 8)
<1>1. PICK n \in Nat : n = ScriptLen(kind) /\ n > 0 /\ n < ByteMod
  <2>1. ScriptLen(kind) \in Nat /\ ScriptLen(kind) > 0 /\ ScriptLen(kind) < 36
    BY DEF ScriptLen
  <2>2. QED
    BY <2>1, WidthAssumption, SighashAssumption
<1> DEFINE T == {k \in Nat : Shifted(n, k + 1) = 0}
<1>2. 0 \in T
  <2>1. Shifted(n, 0 + 1) = Shifted(n, 0) \div ByteMod /\ Shifted(n, 0) = n
    BY ShiftIs
  <2>2. n \div ByteMod = 0
    BY <1>1, WidthAssumption
  <2>3. QED
    BY <2>1, <2>2
<1>3. ASSUME NEW k \in Nat, k \in T PROVE k + 1 \in T
  <2>1. Shifted(n, (k + 1) + 1) = Shifted(n, k + 1) \div ByteMod /\ Shifted(n, k + 1) = 0
    BY <1>3, ShiftIs
  <2>2. QED
    BY <2>1, WidthAssumption
<1>4. Nat \subseteq T
  BY <1>2, <1>3, CountUp
<1>5. Shifted(n, 8) = 0
  BY <1>4
<1>6. QED
  BY <1>1, <1>5 DEF Fits

\* The bytes of one output.
OutputBytes(out) ==
    LE(out.value, 8) \o LE(0, 2) \o LE(ScriptLen(out.script.kind), 8) \o ScriptBytes(out.script)

\* The bytes of an output before its script.
HeadBytes(out) == LE(out.value, 8) \o LE(0, 2) \o LE(ScriptLen(out.script.kind), 8)

\* Both are sequences.
LEMMA OutputIsSeq ==
    ASSUME NEW out
    PROVE  /\ IsSeq(HeadBytes(out)) /\ Len(HeadBytes(out)) = 18
           /\ IsSeq(ScriptBytes(out.script)) /\ Len(ScriptBytes(out.script)) = ScriptLen(out.script.kind)
           /\ OutputBytes(out) = HeadBytes(out) \o ScriptBytes(out.script)
           /\ IsSeq(OutputBytes(out)) /\ Len(OutputBytes(out)) > 0
<1>1. PICK v : v = LE(out.value, 8)
  OBVIOUS
<1>2. PICK z : z = LE(0, 2)
  OBVIOUS
<1>3. PICK l : l = LE(ScriptLen(out.script.kind), 8)
  OBVIOUS
<1>4. PICK x : x = ScriptBytes(out.script)
  OBVIOUS
<1>5. IsSeq(v) /\ Len(v) = 8 /\ IsSeq(z) /\ Len(z) = 2 /\ IsSeq(l) /\ Len(l) = 8
  BY <1>1, <1>2, <1>3, LEIsSeq
<1>6. IsSeq(x) /\ Len(x) = ScriptLen(out.script.kind) /\ Len(x) \in Nat
  BY <1>4, ScriptLenFits, OpaqueIsSeq DEF ScriptBytes
<1>7. PICK vz : vz = v \o z
  OBVIOUS
<1>8. IsSeq(vz) /\ Len(vz) = Len(v) + Len(z)
  BY <1>5, <1>7, CatIsSeq, Zenon
<1>9. PICK h : h = vz \o l
  OBVIOUS
<1>10. IsSeq(h) /\ Len(h) = Len(vz) + Len(l)
  BY <1>5, <1>8, <1>9, CatIsSeq, Zenon
<1>11. Len(h) = 18
  BY <1>5, <1>8, <1>10
<1>12. h = HeadBytes(out)
  BY <1>1, <1>2, <1>3, <1>7, <1>9, Zenon DEF HeadBytes
<1>13. PICK hx : hx = h \o x
  OBVIOUS
<1>14. IsSeq(hx) /\ Len(hx) = Len(h) + Len(x)
  BY <1>6, <1>10, <1>13, CatIsSeq, Zenon
<1>15. Len(hx) > 0
  BY <1>6, <1>11, <1>14
<1>16. hx = OutputBytes(out) /\ hx = HeadBytes(out) \o ScriptBytes(out.script)
  BY <1>1, <1>2, <1>3, <1>4, <1>7, <1>9, <1>12, <1>13, Zenon DEF OutputBytes
<1>17. QED
  BY <1>4, <1>6, <1>10, <1>11, <1>12, <1>14, <1>15, <1>16, Zenon

\* The first output can be read back, and what follows it: the length before
\* the script says where the script ends (sighash.c:118).
LEMMA FirstOutput ==
    ASSUME NEW x \in Outputs, Fits(x.value, 8), NEW y \in Outputs, Fits(y.value, 8),
           NEW a, IsSeq(a), NEW b, IsSeq(b), OutputBytes(x) \o a = OutputBytes(y) \o b
    PROVE  SameParts(x, a, y, b)
<1>1. PICK hx : hx = HeadBytes(x)
  OBVIOUS
<1>2. PICK hy : hy = HeadBytes(y)
  OBVIOUS
<1>3. PICK sx : sx = ScriptBytes(x.script)
  OBVIOUS
<1>4. PICK sy : sy = ScriptBytes(y.script)
  OBVIOUS
<1>5. /\ IsSeq(hx) /\ IsSeq(hy) /\ Len(hx) = Len(hy)
      /\ IsSeq(sx) /\ Len(sx) = ScriptLen(x.script.kind)
      /\ IsSeq(sy) /\ Len(sy) = ScriptLen(y.script.kind)
      /\ OutputBytes(x) = hx \o sx /\ OutputBytes(y) = hy \o sy
  BY <1>1, <1>2, <1>3, <1>4, OutputIsSeq, Zenon
<1>6. Assoc(hx, sx, a) /\ Assoc(hy, sy, b)
  BY <1>5, AssocHolds, Zenon
<1>7. hx \o (sx \o a) = hy \o (sy \o b)
  BY <1>5, <1>6, Zenon DEF Assoc
<1>8. PICK ra : ra = sx \o a /\ IsSeq(ra)
  BY <1>5, CatIsSeq, Zenon
<1>9. PICK rb : rb = sy \o b /\ IsSeq(rb)
  BY <1>5, CatIsSeq, Zenon
<1>10. hx \o ra = hy \o rb
  BY <1>7, <1>8, <1>9, Zenon
<1>11. hx = hy /\ ra = rb
  <2>1. SameParts(hx, ra, hy, rb)
    BY <1>5, <1>8, <1>9, <1>10, CatSplit, Zenon
  <2>2. QED
    BY <2>1, Zenon DEF SameParts
<1>12. x.value = y.value /\ ScriptLen(x.script.kind) = ScriptLen(y.script.kind)
  <2>1. PICK v : v = LE(x.value, 8)
    OBVIOUS
  <2>2. PICK w : w = LE(y.value, 8)
    OBVIOUS
  <2>3. PICK z : z = LE(0, 2)
    OBVIOUS
  <2>4. PICK l : l = LE(ScriptLen(x.script.kind), 8)
    OBVIOUS
  <2>5. PICK k : k = LE(ScriptLen(y.script.kind), 8)
    OBVIOUS
  <2>6. /\ IsSeq(v) /\ Len(v) = 8 /\ IsSeq(w) /\ Len(w) = 8 /\ IsSeq(z)
        /\ IsSeq(l) /\ Len(l) = 8 /\ IsSeq(k) /\ Len(k) = 8
    BY <2>1, <2>2, <2>3, <2>4, <2>5, LEIsSeq
  <2>7. PICK vz : vz = v \o z /\ IsSeq(vz)
    BY <2>6, CatIsSeq, Zenon
  <2>8. PICK wz : wz = w \o z /\ IsSeq(wz)
    BY <2>6, CatIsSeq, Zenon
  <2>9. vz \o l = wz \o k
    BY <1>1, <1>2, <1>11, <2>1, <2>2, <2>3, <2>4, <2>5, <2>7, <2>8, Zenon DEF HeadBytes
  <2>10. Len(l) = Len(k)
    BY <2>6
  <2>11. SameParts(vz, l, wz, k)
    BY <2>6, <2>7, <2>8, <2>9, <2>10, CatSplitLast, Zenon
  <2>12. v \o z = w \o z /\ l = k
    BY <2>7, <2>8, <2>11, Zenon DEF SameParts
  <2>13. SameParts(v, z, w, z)
    BY <2>6, <2>12, CatSplitLast, Zenon
  <2>14. v = w
    BY <2>13, Zenon DEF SameParts
  <2>15. x.value \in Nat /\ y.value \in Nat
    BY DEF Outputs, Amounts
  <2>16. x.value = y.value
    BY <2>1, <2>2, <2>14, <2>15, LEInjective
  <2>17. ScriptLen(x.script.kind) = ScriptLen(y.script.kind)
    BY <2>4, <2>5, <2>12, ScriptLenFits, LEInjective
  <2>18. QED
    BY <2>16, <2>17
<1>13. sx = sy /\ a = b
  <2>1. sx \o a = sy \o b /\ Len(sx) = Len(sy)
    BY <1>5, <1>8, <1>9, <1>11, <1>12, Zenon
  <2>2. SameParts(sx, a, sy, b)
    BY <1>5, <2>1, CatSplit, Zenon
  <2>3. QED
    BY <2>2, Zenon DEF SameParts
<1>14. x.script = y.script
  <2>1. PICK n \in Nat : n = ScriptLen(x.script.kind) /\ n = ScriptLen(y.script.kind) /\ n > 0
    BY <1>12, ScriptLenFits
  <2>2. Opaque(x.script, n) = Opaque(y.script, n)
    BY <1>3, <1>4, <1>13, <2>1, Zenon DEF ScriptBytes
  <2>3. QED
    BY <2>1, <2>2, OpaqueInjective
<1>15. x = y
  BY <1>12, <1>14 DEF Outputs
<1>16. QED
  BY <1>13, <1>15, Zenon DEF SameParts

\* One or two outputs are read back from their bytes.
LEMMA OutputsInjective ==
    ASSUME NEW t \in SighashTxs, NEW u \in SighashTxs,
           Turns(OutputParts(t), t.tx_output_len) = Turns(OutputParts(u), u.tx_output_len)
    PROVE  /\ t.tx_output_len = u.tx_output_len
           /\ \A o \in 0 .. t.tx_output_len - 1 : t.tx_outputs[o] = u.tx_outputs[o]
<1>1. \A s \in SighashTxs :
          /\ s.tx_output_len \in 1 .. 2
          /\ s.tx_outputs[0] \in Outputs /\ Fits(s.tx_outputs[0].value, 8)
          /\ s.tx_outputs[1] \in Outputs /\ Fits(s.tx_outputs[1].value, 8)
          /\ OutputParts(s)[0] = OutputBytes(s.tx_outputs[0])
          /\ OutputParts(s)[1] = OutputBytes(s.tx_outputs[1])
  <2> SUFFICES ASSUME NEW s \in SighashTxs
               PROVE  /\ s.tx_output_len \in 1 .. 2
                      /\ s.tx_outputs[0] \in Outputs /\ Fits(s.tx_outputs[0].value, 8)
                      /\ s.tx_outputs[1] \in Outputs /\ Fits(s.tx_outputs[1].value, 8)
                      /\ OutputParts(s)[0] = OutputBytes(s.tx_outputs[0])
                      /\ OutputParts(s)[1] = OutputBytes(s.tx_outputs[1])
    OBVIOUS
  <2>1. 0 \in OutputSlots /\ 1 \in OutputSlots
    BY DEF OutputSlots, MaxOutputCount
  <2>2. /\ s \in Transactions /\ s.tx_output_len \in 1 .. 2
        /\ \A o \in OutputSlots : Fits(s.tx_outputs[o].value, 8)
    BY SighashAssumption
  <2>3. s.tx_outputs \in [OutputSlots -> Outputs]
    BY <2>2 DEF Transactions
  <2>4. OutputParts(s)[0] = OutputBytes(s.tx_outputs[0]) /\ OutputParts(s)[1] = OutputBytes(s.tx_outputs[1])
    BY <2>1, Zenon DEF OutputParts, OutputBytes
  <2>5. QED
    BY <2>1, <2>2, <2>3, <2>4
<1>2. ASSUME NEW s \in SighashTxs
      PROVE  \E a : /\ IsSeq(a)
                    /\ Turns(OutputParts(s), s.tx_output_len) = OutputBytes(s.tx_outputs[0]) \o a
                    /\ a = IF s.tx_output_len = 2 THEN OutputBytes(s.tx_outputs[1]) ELSE <<>>
  <2>1. PICK p : p = OutputBytes(s.tx_outputs[0])
    OBVIOUS
  <2>2. PICK q : q = OutputBytes(s.tx_outputs[1])
    OBVIOUS
  <2>3. IsSeq(p) /\ IsSeq(q)
    BY <2>1, <2>2, OutputIsSeq
  <2>4. PICK n \in 1 .. 2 : n = s.tx_output_len
    BY <1>1
  <2>5. PICK f : IsUnrolled(f, OutputParts(s), n)
    BY TurnsAre
  <2>6. f[0] = <<>> /\ f[0 + 1] = f[0] \o OutputParts(s)[0] /\ f[n] = Turns(OutputParts(s), n)
    <3>1. 0 \in 0 .. n - 1
      OBVIOUS
    <3>2. QED
      BY <2>5, <3>1, Zenon DEF IsUnrolled
  <2>7. <<>> \o p = p /\ p \o <<>> = p
    BY <2>3, CatEmpty
  <2>8. f[1] = p
    <3>1. f[0 + 1] = p
      BY <1>1, <2>1, <2>6, <2>7, Zenon
    <3>2. 0 + 1 = 1
      OBVIOUS
    <3>3. QED
      BY <3>1, <3>2, Zenon
  <2>9. CASE n = 1
    <3>1. IsSeq(<<>>) /\ s.tx_output_len # 2
      BY <2>4, <2>9, CatEmpty
    <3>2. f[n] = p \o <<>>
      BY <2>7, <2>8, <2>9, Zenon
    <3>3. QED
      BY <2>1, <2>4, <2>6, <3>1, <3>2, Zenon
  <2>10. CASE n = 2
    <3>1. 1 \in 0 .. n - 1 /\ 1 + 1 = n
      BY <2>10
    <3>2. f[1 + 1] = f[1] \o OutputParts(s)[1]
      BY <2>5, <3>1, Zenon DEF IsUnrolled
    <3>3. f[n] = p \o q
      BY <1>1, <2>2, <2>8, <3>1, <3>2, Zenon
    <3>4. QED
      BY <2>1, <2>2, <2>3, <2>4, <2>6, <2>10, <3>3, Zenon
  <2>11. QED
    BY <2>9, <2>10
<1>3. PICK a : /\ IsSeq(a)
               /\ Turns(OutputParts(t), t.tx_output_len) = OutputBytes(t.tx_outputs[0]) \o a
               /\ a = IF t.tx_output_len = 2 THEN OutputBytes(t.tx_outputs[1]) ELSE <<>>
  BY <1>2, Zenon
<1>4. PICK b : /\ IsSeq(b)
               /\ Turns(OutputParts(u), u.tx_output_len) = OutputBytes(u.tx_outputs[0]) \o b
               /\ b = IF u.tx_output_len = 2 THEN OutputBytes(u.tx_outputs[1]) ELSE <<>>
  BY <1>2, Zenon
<1>5. OutputBytes(t.tx_outputs[0]) \o a = OutputBytes(u.tx_outputs[0]) \o b
  BY <1>3, <1>4, Zenon
<1>6. SameParts(t.tx_outputs[0], a, u.tx_outputs[0], b)
  BY <1>1, <1>3, <1>4, <1>5, FirstOutput, Zenon
<1>7. t.tx_outputs[0] = u.tx_outputs[0] /\ a = b
  BY <1>6, Zenon DEF SameParts
<1>8. /\ Len(OutputBytes(t.tx_outputs[1])) > 0 /\ Len(OutputBytes(u.tx_outputs[1])) > 0
      /\ Len(<<>>) = 0
  BY OutputIsSeq, CatEmpty
<1>9. t.tx_output_len = u.tx_output_len
  <2>1. t.tx_output_len \in 1 .. 2 /\ u.tx_output_len \in 1 .. 2
    BY <1>1
  <2>2. t.tx_output_len = 2 <=> Len(a) > 0
    BY <1>3, <1>8
  <2>3. u.tx_output_len = 2 <=> Len(b) > 0
    BY <1>4, <1>8
  <2>4. QED
    BY <1>7, <2>1, <2>2, <2>3
<1>10. t.tx_output_len = 2 => t.tx_outputs[1] = u.tx_outputs[1]
  <2> SUFFICES ASSUME t.tx_output_len = 2 PROVE t.tx_outputs[1] = u.tx_outputs[1]
    OBVIOUS
  <2>1. PICK e : e = <<>>
    OBVIOUS
  <2>2. IsSeq(e)
    BY <2>1, CatEmpty
  <2>3. OutputBytes(t.tx_outputs[1]) \o e = OutputBytes(u.tx_outputs[1]) \o e
    BY <1>3, <1>4, <1>7, <1>9, Zenon
  <2>4. SameParts(t.tx_outputs[1], e, u.tx_outputs[1], e)
    BY <1>1, <2>2, <2>3, FirstOutput, Zenon
  <2>5. QED
    BY <2>4, Zenon DEF SameParts
<1>11. \A o \in 0 .. t.tx_output_len - 1 : o = 0 \/ (o = 1 /\ t.tx_output_len = 2)
  BY <1>1
<1>12. QED
  BY <1>7, <1>9, <1>10, <1>11

\* Two computations agree on everything the hash commits to.
SameFields(t, i, u, j) ==
    /\ t.version = u.version /\ t.tx_input_len = u.tx_input_len
    /\ \A k \in 0 .. t.tx_input_len - 1 : Outpoint(t.tx_inputs[k]) = Outpoint(u.tx_inputs[k])
    /\ Outpoint(i) = Outpoint(j)
    /\ SigningKey(t, i) = SigningKey(u, j)
    /\ i.value = j.value
    /\ t.tx_output_len = u.tx_output_len
    /\ \A o \in 0 .. t.tx_output_len - 1 : t.tx_outputs[o] = u.tx_outputs[o]

\* TxRules says the same of a hash with the fields it is known by.
LEMMA CommitsAreFields ==
    ASSUME NEW t \in SighashTxs, NEW i, NEW u \in SighashTxs, NEW j
    PROVE  Commits(t, i) = Commits(u, j) <=> SameFields(t, i, u, j)
<1>1. PICK n \in Nat : n = t.tx_input_len /\ n > 0 /\ n <= MaxInputCount
  BY SighashAssumption, WidthAssumption
<1>2. PICK m \in Nat : m = u.tx_input_len /\ m > 0 /\ m <= MaxInputCount
  BY SighashAssumption, WidthAssumption
<1>3. PICK a \in 1 .. 2 : a = t.tx_output_len
  BY SighashAssumption
<1>4. PICK b \in 1 .. 2 : b = u.tx_output_len
  BY SighashAssumption
<1>5. PICK P : P = [k \in 0 .. n - 1 |-> Outpoint(t.tx_inputs[k])]
  OBVIOUS
<1>6. PICK Q : Q = [k \in 0 .. m - 1 |-> Outpoint(u.tx_inputs[k])]
  OBVIOUS
<1>7. PrevOutputsHash(t, i) = P
  BY <1>1, <1>5, WidthAssumption DEF PrevOutputsHash, InputAt
<1>8. PrevOutputsHash(u, j) = Q
  BY <1>2, <1>6, WidthAssumption DEF PrevOutputsHash, InputAt
<1>9. PICK R : R = [o \in 0 .. a - 1 |-> t.tx_outputs[o]]
  OBVIOUS
<1>10. PICK S : S = [o \in 0 .. b - 1 |-> u.tx_outputs[o]]
  OBVIOUS
<1>11. OutputsHash(t) = R /\ OutputsHash(u) = S
  BY <1>3, <1>4, <1>9, <1>10 DEF OutputsHash
<1>12. Commits(t, i) = [version |-> t.version, prev_outputs |-> P, outpoint |-> Outpoint(i),
                        script |-> TxinScript(SigningKey(t, i)), value |-> i.value, outputs |-> R]
  BY <1>7, <1>11, Zenon DEF Commits, calc_sighash
<1>13. Commits(u, j) = [version |-> u.version, prev_outputs |-> Q, outpoint |-> Outpoint(j),
                        script |-> TxinScript(SigningKey(u, j)), value |-> j.value, outputs |-> S]
  BY <1>8, <1>11, Zenon DEF Commits, calc_sighash
<1>14. Commits(t, i) = Commits(u, j) <=>
          /\ t.version = u.version /\ P = Q /\ Outpoint(i) = Outpoint(j)
          /\ TxinScript(SigningKey(t, i)) = TxinScript(SigningKey(u, j)) /\ i.value = j.value /\ R = S
  BY <1>12, <1>13
<1>15. TxinScript(SigningKey(t, i)) = TxinScript(SigningKey(u, j)) <=> SigningKey(t, i) = SigningKey(u, j)
  BY DEF TxinScript
<1>16. P = Q <=> n = m /\ \A k \in 0 .. n - 1 : Outpoint(t.tx_inputs[k]) = Outpoint(u.tx_inputs[k])
  <2>1. ASSUME P = Q
        PROVE  n = m /\ \A k \in 0 .. n - 1 : Outpoint(t.tx_inputs[k]) = Outpoint(u.tx_inputs[k])
    <3>1. 0 .. n - 1 = 0 .. m - 1
      BY <1>5, <1>6, <2>1, Zenon
    <3>2. n - 1 \in 0 .. m - 1 /\ m - 1 \in 0 .. n - 1
      BY <1>1, <1>2, <3>1
    <3>3. n = m
      BY <3>2
    <3>4. \A k \in 0 .. n - 1 : P[k] = Outpoint(t.tx_inputs[k])
      BY <1>5, Zenon
    <3>5. \A k \in 0 .. n - 1 : Q[k] = Outpoint(u.tx_inputs[k])
      BY <1>6, <3>1, Zenon
    <3>6. QED
      BY <2>1, <3>3, <3>4, <3>5, Zenon
  <2>2. ASSUME n = m, \A k \in 0 .. n - 1 : Outpoint(t.tx_inputs[k]) = Outpoint(u.tx_inputs[k])
        PROVE  P = Q
    BY <1>5, <1>6, <2>2
  <2>3. QED
    BY <2>1, <2>2
<1>17. R = S <=> a = b /\ \A o \in 0 .. a - 1 : t.tx_outputs[o] = u.tx_outputs[o]
  <2>1. ASSUME R = S
        PROVE  a = b /\ \A o \in 0 .. a - 1 : t.tx_outputs[o] = u.tx_outputs[o]
    <3>1. 0 .. a - 1 = 0 .. b - 1
      BY <1>9, <1>10, <2>1, Zenon
    <3>2. a - 1 \in 0 .. b - 1 /\ b - 1 \in 0 .. a - 1
      BY <3>1
    <3>3. a = b
      BY <3>2
    <3>4. \A o \in 0 .. a - 1 : R[o] = t.tx_outputs[o]
      BY <1>9, Zenon
    <3>5. \A o \in 0 .. a - 1 : S[o] = u.tx_outputs[o]
      BY <1>10, <3>1, Zenon
    <3>6. QED
      BY <2>1, <3>3, <3>4, <3>5, Zenon
  <2>2. ASSUME a = b, \A o \in 0 .. a - 1 : t.tx_outputs[o] = u.tx_outputs[o]
        PROVE  R = S
    BY <1>9, <1>10, <2>2
  <2>3. QED
    BY <2>1, <2>2
<1>18. QED
  BY <1>1, <1>2, <1>3, <1>4, <1>14, <1>15, <1>16, <1>17, Zenon DEF SameFields

\* The client's preimage, with its parts named.
LEMMA ToHashIs ==
    ASSUME NEW t, NEW i
    PROVE  to_hash(t, i) =
              LE(t.version, 2)
              \o Digest(Concat(SpentParts(t), t.tx_input_len))
              \o Digest(Concat(ZeroParts, t.tx_input_len))
              \o Digest(Concat(OneParts, t.tx_input_len))
              \o IdBytes(i.tx_id) \o LE(i.index, 4) \o LE(0, 2)
              \o LE(34, 8) \o LE(32, 1) \o KeyBytes(SigningKey(t, i)) \o LE(172, 1)
              \o LE(i.value, 8) \o LE(0, 8) \o LE(1, 1)
              \o Digest(Concat(OutputParts(t), t.tx_output_len))
              \o LE(0, 8) \o LE(0, 20) \o LE(0, 8) \o LE(0, 32) \o LE(1, 1)
  BY Zenon DEF to_hash, SpentParts, ZeroParts, OneParts, OutputParts

\* Equal fields make equal preimages.
LEMMA SameFieldsSameHash ==
    ASSUME NEW t \in SighashTxs, NEW i, NEW u \in SighashTxs, NEW j, SameFields(t, i, u, j)
    PROVE  to_hash(t, i) = to_hash(u, j)
<1>1. PICK n \in Nat : n = t.tx_input_len /\ n = u.tx_input_len /\ 0 .. n - 1 \subseteq InputSlots
  BY SlotsInRange DEF SameFields
<1>2. PICK a \in Nat : a = t.tx_output_len /\ a = u.tx_output_len /\ 0 .. a - 1 \subseteq OutputSlots
  BY SlotsInRange DEF SameFields
<1>3. ASSUME NEW k \in 0 .. n - 1 PROVE SpentParts(t)[k] = SpentParts(u)[k]
  <2>1. Outpoint(t.tx_inputs[k]) = Outpoint(u.tx_inputs[k])
    BY <1>1, Zenon DEF SameFields
  <2>2. t.tx_inputs[k].tx_id = u.tx_inputs[k].tx_id /\ t.tx_inputs[k].index = u.tx_inputs[k].index
    BY <2>1 DEF Outpoint
  <2>3. k \in InputSlots
    BY <1>1
  <2>4. QED
    BY <2>2, <2>3, Zenon DEF SpentParts
<1>4. ASSUME NEW o \in 0 .. a - 1 PROVE OutputParts(t)[o] = OutputParts(u)[o]
  <2>1. t.tx_outputs[o] = u.tx_outputs[o]
    BY <1>2, Zenon DEF SameFields
  <2>2. o \in OutputSlots
    BY <1>2
  <2>3. QED
    BY <2>1, <2>2, Zenon DEF OutputParts
<1>5. Turns(SpentParts(t), n) = Turns(SpentParts(u), n) /\ Turns(OutputParts(t), a) = Turns(OutputParts(u), a)
  BY <1>3, <1>4, TurnsSame
<1>6. i.tx_id = j.tx_id /\ i.index = j.index
  BY DEF SameFields, Outpoint
<1>7. /\ Digest(Concat(SpentParts(t), t.tx_input_len)) = Digest(Concat(SpentParts(u), u.tx_input_len))
      /\ Digest(Concat(ZeroParts, t.tx_input_len)) = Digest(Concat(ZeroParts, u.tx_input_len))
      /\ Digest(Concat(OneParts, t.tx_input_len)) = Digest(Concat(OneParts, u.tx_input_len))
      /\ Digest(Concat(OutputParts(t), t.tx_output_len)) = Digest(Concat(OutputParts(u), u.tx_output_len))
  BY <1>1, <1>2, <1>5, Zenon DEF Concat
<1>8. /\ LE(t.version, 2) = LE(u.version, 2) /\ IdBytes(i.tx_id) = IdBytes(j.tx_id)
      /\ LE(i.index, 4) = LE(j.index, 4) /\ LE(i.value, 8) = LE(j.value, 8)
      /\ KeyBytes(SigningKey(t, i)) = KeyBytes(SigningKey(u, j))
  BY <1>6, Zenon DEF SameFields
<1>9. QED
  BY <1>7, <1>8, ToHashIs, Zenon

\* Three fields that are as long as three others.
SameThree(a, x1, x2, x3, b, y1, y2, y3) == a = b /\ x1 = y1 /\ x2 = y2 /\ x3 = y3

SameFour(a, x1, x2, x3, x4, b, y1, y2, y3, y4) ==
    SameThree(a, x1, x2, x3, b, y1, y2, y3) /\ x4 = y4

\* Two sequences of bytes that are as long as each other.
Alike(x, y) == IsSeq(x) /\ IsSeq(y) /\ Len(x) = Len(y)

\* Three fields of known length at the end of a preimage are read back.
LEMMA PeelThree ==
    ASSUME NEW a, NEW x1, NEW x2, NEW x3, NEW b, NEW y1, NEW y2, NEW y3,
           IsSeq(a), IsSeq(b), Alike(x1, y1), Alike(x2, y2), Alike(x3, y3),
           ((a \o x1) \o x2) \o x3 = ((b \o y1) \o y2) \o y3
    PROVE  SameThree(a, x1, x2, x3, b, y1, y2, y3)
<1>1. /\ IsSeq(x1) /\ IsSeq(x2) /\ IsSeq(x3) /\ IsSeq(y1) /\ IsSeq(y2) /\ IsSeq(y3)
      /\ Len(x1) = Len(y1) /\ Len(x2) = Len(y2) /\ Len(x3) = Len(y3)
  BY Zenon DEF Alike
<1>2. PICK a1 : a1 = a \o x1 /\ IsSeq(a1)
  BY <1>1, CatIsSeq, Zenon
<1>3. PICK b1 : b1 = b \o y1 /\ IsSeq(b1)
  BY <1>1, CatIsSeq, Zenon
<1>4. PICK a2 : a2 = a1 \o x2 /\ IsSeq(a2)
  BY <1>1, <1>2, CatIsSeq, Zenon
<1>5. PICK b2 : b2 = b1 \o y2 /\ IsSeq(b2)
  BY <1>1, <1>3, CatIsSeq, Zenon
<1>6. a2 \o x3 = b2 \o y3
  BY <1>2, <1>3, <1>4, <1>5, Zenon
<1>7. SameParts(a2, x3, b2, y3)
  BY <1>1, <1>4, <1>5, <1>6, CatSplitLast, Zenon
<1>8. a1 \o x2 = b1 \o y2 /\ x3 = y3
  BY <1>4, <1>5, <1>7, Zenon DEF SameParts
<1>9. SameParts(a1, x2, b1, y2)
  BY <1>1, <1>2, <1>3, <1>8, CatSplitLast, Zenon
<1>10. a \o x1 = b \o y1 /\ x2 = y2
  BY <1>2, <1>3, <1>9, Zenon DEF SameParts
<1>11. SameParts(a, x1, b, y1)
  BY <1>1, <1>10, CatSplitLast, Zenon
<1>12. QED
  BY <1>8, <1>10, <1>11, Zenon DEF SameParts, SameThree

\* Four of them.
LEMMA PeelFour ==
    ASSUME NEW a, NEW x1, NEW x2, NEW x3, NEW x4, NEW b, NEW y1, NEW y2, NEW y3, NEW y4,
           IsSeq(a), IsSeq(b), Alike(x1, y1), Alike(x2, y2), Alike(x3, y3), Alike(x4, y4),
           (((a \o x1) \o x2) \o x3) \o x4 = (((b \o y1) \o y2) \o y3) \o y4
    PROVE  SameFour(a, x1, x2, x3, x4, b, y1, y2, y3, y4)
<1>1. /\ IsSeq(x1) /\ IsSeq(x2) /\ IsSeq(x3) /\ IsSeq(y1) /\ IsSeq(y2) /\ IsSeq(y3)
      /\ IsSeq(x4) /\ IsSeq(y4) /\ Len(x4) = Len(y4)
  BY Zenon DEF Alike
<1>2. PICK a1 : a1 = a \o x1 /\ IsSeq(a1)
  BY <1>1, CatIsSeq, Zenon
<1>3. PICK b1 : b1 = b \o y1 /\ IsSeq(b1)
  BY <1>1, CatIsSeq, Zenon
<1>4. PICK a2 : a2 = a1 \o x2 /\ IsSeq(a2)
  BY <1>1, <1>2, CatIsSeq, Zenon
<1>5. PICK b2 : b2 = b1 \o y2 /\ IsSeq(b2)
  BY <1>1, <1>3, CatIsSeq, Zenon
<1>6. PICK a3 : a3 = a2 \o x3 /\ IsSeq(a3)
  BY <1>1, <1>4, CatIsSeq, Zenon
<1>7. PICK b3 : b3 = b2 \o y3 /\ IsSeq(b3)
  BY <1>1, <1>5, CatIsSeq, Zenon
<1>8. a3 \o x4 = b3 \o y4
  BY <1>2, <1>3, <1>4, <1>5, <1>6, <1>7, Zenon
<1>9. SameParts(a3, x4, b3, y4)
  BY <1>1, <1>6, <1>7, <1>8, CatSplitLast, Zenon
<1>10. ((a \o x1) \o x2) \o x3 = ((b \o y1) \o y2) \o y3 /\ x4 = y4
  BY <1>2, <1>3, <1>4, <1>5, <1>6, <1>7, <1>9, Zenon DEF SameParts
<1>11. SameThree(a, x1, x2, x3, b, y1, y2, y3)
  BY <1>10, PeelThree, Zenon
<1>12. QED
  BY <1>10, <1>11, Zenon DEF SameFour

\* Fields that are numbers or values that are not taken apart are alike.
LEMMA FieldsAlike ==
    /\ \A n, m : \A w \in Nat : Alike(LE(n, w), LE(m, w))
    /\ \A x, y : /\ Alike(Digest(x), Digest(y)) /\ Alike(IdBytes(x), IdBytes(y))
                 /\ Alike(KeyBytes(x), KeyBytes(y))
<1>1. \A n, m : \A w \in Nat : Alike(LE(n, w), LE(m, w))
  BY LEIsSeq DEF Alike
<1>2. \A x, y : Alike(Digest(x), Digest(y))
  BY DigestIsSeq DEF Alike
<1>3. 32 \in Nat
  OBVIOUS
<1>4. \A x : IsSeq(Opaque(x, 32)) /\ Len(Opaque(x, 32)) = 32
  BY <1>3, OpaqueIsSeq
<1>5. \A x, y : Alike(IdBytes(x), IdBytes(y)) /\ Alike(KeyBytes(x), KeyBytes(y))
  BY <1>4, Zenon DEF Alike, IdBytes, KeyBytes
<1>6. QED
  BY <1>1, <1>2, <1>5, Zenon

\* What the equality of two preimages says of their fields.
SameBytes(t, i, u, j) ==
    /\ LE(t.version, 2) = LE(u.version, 2)
    /\ Digest(Concat(SpentParts(t), t.tx_input_len)) = Digest(Concat(SpentParts(u), u.tx_input_len))
    /\ IdBytes(i.tx_id) = IdBytes(j.tx_id) /\ LE(i.index, 4) = LE(j.index, 4)
    /\ KeyBytes(SigningKey(t, i)) = KeyBytes(SigningKey(u, j))
    /\ LE(i.value, 8) = LE(j.value, 8)
    /\ Digest(Concat(OutputParts(t), t.tx_output_len)) = Digest(Concat(OutputParts(u), u.tx_output_len))

\* The parts of the preimage, four fields at a time.
Front(t)       == LE(t.version, 2) \o Digest(Concat(SpentParts(t), t.tx_input_len))
                  \o Digest(Concat(ZeroParts, t.tx_input_len)) \o Digest(Concat(OneParts, t.tx_input_len))
Spending(t, i) == Front(t) \o IdBytes(i.tx_id) \o LE(i.index, 4) \o LE(0, 2) \o LE(34, 8)
Owning(t, i)   == Spending(t, i) \o LE(32, 1) \o KeyBytes(SigningKey(t, i)) \o LE(172, 1) \o LE(i.value, 8)
Paying(t, i)   == Owning(t, i) \o LE(0, 8) \o LE(1, 1)
                  \o Digest(Concat(OutputParts(t), t.tx_output_len)) \o LE(0, 8)

\* Four more fields make a sequence of bytes again.
LEMMA FourMoreIsSeq ==
    ASSUME NEW a, NEW x1, NEW x2, NEW x3, NEW x4,
           IsSeq(a), IsSeq(x1), IsSeq(x2), IsSeq(x3), IsSeq(x4)
    PROVE  IsSeq((((a \o x1) \o x2) \o x3) \o x4)
<1>1. PICK a1 : a1 = a \o x1 /\ IsSeq(a1)
  BY CatIsSeq, Zenon
<1>2. PICK a2 : a2 = a1 \o x2 /\ IsSeq(a2)
  BY <1>1, CatIsSeq, Zenon
<1>3. PICK a3 : a3 = a2 \o x3 /\ IsSeq(a3)
  BY <1>2, CatIsSeq, Zenon
<1>4. IsSeq(a3 \o x4)
  BY <1>3, CatIsSeq, Zenon
<1>5. QED
  BY <1>1, <1>2, <1>3, <1>4, Zenon

\* The parts are sequences of bytes.
LEMMA FrontsAreSeq ==
    ASSUME NEW t, NEW i
    PROVE  IsSeq(Front(t)) /\ IsSeq(Spending(t, i)) /\ IsSeq(Owning(t, i)) /\ IsSeq(Paying(t, i))
<1>1. /\ \A n : \A w \in Nat : IsSeq(LE(n, w))
      /\ \A x : IsSeq(Digest(x)) /\ IsSeq(IdBytes(x)) /\ IsSeq(KeyBytes(x))
  BY FieldsAlike, Zenon DEF Alike
<1>2. 0 \in Nat /\ 1 \in Nat /\ 2 \in Nat /\ 4 \in Nat /\ 8 \in Nat
  OBVIOUS
<1>3. IsSeq(Front(t))
  <2>1. PICK a : a = LE(t.version, 2) \o Digest(Concat(SpentParts(t), t.tx_input_len)) /\ IsSeq(a)
    BY <1>1, <1>2, CatIsSeq, Zenon
  <2>2. PICK b : b = a \o Digest(Concat(ZeroParts, t.tx_input_len)) /\ IsSeq(b)
    BY <1>1, <2>1, CatIsSeq, Zenon
  <2>3. IsSeq(b \o Digest(Concat(OneParts, t.tx_input_len)))
    BY <1>1, <2>2, CatIsSeq, Zenon
  <2>4. QED
    BY <2>1, <2>2, <2>3, Zenon DEF Front
<1>4. IsSeq(Spending(t, i))
  <2>1. IsSeq(IdBytes(i.tx_id)) /\ IsSeq(LE(i.index, 4)) /\ IsSeq(LE(0, 2)) /\ IsSeq(LE(34, 8))
    BY <1>1, <1>2, Zenon
  <2>2. QED
    BY <1>3, <2>1, FourMoreIsSeq, Zenon DEF Spending
<1>5. IsSeq(Owning(t, i))
  <2>1. IsSeq(LE(32, 1)) /\ IsSeq(KeyBytes(SigningKey(t, i))) /\ IsSeq(LE(172, 1)) /\ IsSeq(LE(i.value, 8))
    BY <1>1, <1>2, Zenon
  <2>2. PICK a : a = Spending(t, i) \o LE(32, 1) /\ IsSeq(a)
    BY <1>4, <2>1, CatIsSeq, Zenon
  <2>3. PICK b : b = a \o KeyBytes(SigningKey(t, i)) /\ IsSeq(b)
    BY <2>1, <2>2, CatIsSeq, Zenon
  <2>4. PICK c : c = b \o LE(172, 1) /\ IsSeq(c)
    BY <2>1, <2>3, CatIsSeq, Zenon
  <2>5. IsSeq(c \o LE(i.value, 8))
    BY <2>1, <2>4, CatIsSeq, Zenon
  <2>6. QED
    BY <2>2, <2>3, <2>4, <2>5, Zenon DEF Owning
<1>6. IsSeq(Paying(t, i))
  <2>1. /\ IsSeq(LE(0, 8)) /\ IsSeq(LE(1, 1))
        /\ IsSeq(Digest(Concat(OutputParts(t), t.tx_output_len)))
    BY <1>1, <1>2, Zenon
  <2>2. QED
    BY <1>5, <2>1, FourMoreIsSeq, Zenon DEF Paying
<1>7. QED
  BY <1>3, <1>4, <1>5, <1>6, Zenon

\* Every field of the preimage has a fixed place (sighash.c:199).
LEMMA SameHashSameBytes ==
    ASSUME NEW t, NEW i, NEW u, NEW j, to_hash(t, i) = to_hash(u, j)
    PROVE  SameBytes(t, i, u, j)
<1>1. 0 \in Nat /\ 1 \in Nat /\ 2 \in Nat /\ 4 \in Nat /\ 8 \in Nat /\ 20 \in Nat /\ 32 \in Nat
  OBVIOUS
<1>2. /\ to_hash(t, i) = Paying(t, i) \o LE(0, 20) \o LE(0, 8) \o LE(0, 32) \o LE(1, 1)
      /\ to_hash(u, j) = Paying(u, j) \o LE(0, 20) \o LE(0, 8) \o LE(0, 32) \o LE(1, 1)
  BY ToHashIs, Zenon DEF Paying, Owning, Spending, Front
<1>3. Paying(t, i) = Paying(u, j)
  <2>1. Paying(t, i) \o LE(0, 20) \o LE(0, 8) \o LE(0, 32) \o LE(1, 1)
          = Paying(u, j) \o LE(0, 20) \o LE(0, 8) \o LE(0, 32) \o LE(1, 1)
    BY <1>2, Zenon
  <2>2. SameFour(Paying(t, i), LE(0, 20), LE(0, 8), LE(0, 32), LE(1, 1),
                 Paying(u, j), LE(0, 20), LE(0, 8), LE(0, 32), LE(1, 1))
    BY <1>1, <2>1, FieldsAlike, FrontsAreSeq, PeelFour, Zenon
  <2>3. QED
    BY <2>2, Zenon DEF SameThree, SameFour
<1>4. /\ Owning(t, i) = Owning(u, j)
      /\ Digest(Concat(OutputParts(t), t.tx_output_len)) = Digest(Concat(OutputParts(u), u.tx_output_len))
  <2>1. Owning(t, i) \o LE(0, 8) \o LE(1, 1) \o Digest(Concat(OutputParts(t), t.tx_output_len)) \o LE(0, 8)
          = Owning(u, j) \o LE(0, 8) \o LE(1, 1) \o Digest(Concat(OutputParts(u), u.tx_output_len)) \o LE(0, 8)
    BY <1>3, Zenon DEF Paying
  <2>2. SameFour(Owning(t, i), LE(0, 8), LE(1, 1),
                 Digest(Concat(OutputParts(t), t.tx_output_len)), LE(0, 8),
                 Owning(u, j), LE(0, 8), LE(1, 1),
                 Digest(Concat(OutputParts(u), u.tx_output_len)), LE(0, 8))
    BY <1>1, <2>1, FieldsAlike, FrontsAreSeq, PeelFour, Zenon
  <2>3. QED
    BY <2>2, Zenon DEF SameThree, SameFour
<1>5. /\ Spending(t, i) = Spending(u, j) /\ LE(i.value, 8) = LE(j.value, 8)
      /\ KeyBytes(SigningKey(t, i)) = KeyBytes(SigningKey(u, j))
  <2>1. Spending(t, i) \o LE(32, 1) \o KeyBytes(SigningKey(t, i)) \o LE(172, 1) \o LE(i.value, 8)
          = Spending(u, j) \o LE(32, 1) \o KeyBytes(SigningKey(u, j)) \o LE(172, 1) \o LE(j.value, 8)
    BY <1>4, Zenon DEF Owning
  <2>2. SameFour(Spending(t, i), LE(32, 1), KeyBytes(SigningKey(t, i)), LE(172, 1), LE(i.value, 8),
                 Spending(u, j), LE(32, 1), KeyBytes(SigningKey(u, j)), LE(172, 1), LE(j.value, 8))
    BY <1>1, <2>1, FieldsAlike, FrontsAreSeq, PeelFour, Zenon
  <2>3. QED
    BY <2>2, Zenon DEF SameThree, SameFour
<1>6. /\ Front(t) = Front(u) /\ IdBytes(i.tx_id) = IdBytes(j.tx_id)
      /\ LE(i.index, 4) = LE(j.index, 4)
  <2>1. Front(t) \o IdBytes(i.tx_id) \o LE(i.index, 4) \o LE(0, 2) \o LE(34, 8)
          = Front(u) \o IdBytes(j.tx_id) \o LE(j.index, 4) \o LE(0, 2) \o LE(34, 8)
    BY <1>5, Zenon DEF Spending
  <2>2. SameFour(Front(t), IdBytes(i.tx_id), LE(i.index, 4), LE(0, 2), LE(34, 8),
                 Front(u), IdBytes(j.tx_id), LE(j.index, 4), LE(0, 2), LE(34, 8))
    BY <1>1, <2>1, FieldsAlike, FrontsAreSeq, PeelFour, Zenon
  <2>3. QED
    BY <2>2, Zenon DEF SameThree, SameFour
<1>7. /\ LE(t.version, 2) = LE(u.version, 2)
      /\ Digest(Concat(SpentParts(t), t.tx_input_len)) = Digest(Concat(SpentParts(u), u.tx_input_len))
  <2>1. LE(t.version, 2) \o Digest(Concat(SpentParts(t), t.tx_input_len))
          \o Digest(Concat(ZeroParts, t.tx_input_len)) \o Digest(Concat(OneParts, t.tx_input_len))
        = LE(u.version, 2) \o Digest(Concat(SpentParts(u), u.tx_input_len))
          \o Digest(Concat(ZeroParts, u.tx_input_len)) \o Digest(Concat(OneParts, u.tx_input_len))
    BY <1>6, Zenon DEF Front
  <2>2. IsSeq(LE(t.version, 2)) /\ IsSeq(LE(u.version, 2))
    BY <1>1, FieldsAlike, Zenon DEF Alike
  <2>3. SameThree(LE(t.version, 2), Digest(Concat(SpentParts(t), t.tx_input_len)),
                  Digest(Concat(ZeroParts, t.tx_input_len)), Digest(Concat(OneParts, t.tx_input_len)),
                  LE(u.version, 2), Digest(Concat(SpentParts(u), u.tx_input_len)),
                  Digest(Concat(ZeroParts, u.tx_input_len)), Digest(Concat(OneParts, u.tx_input_len)))
    BY <1>1, <2>1, <2>2, FieldsAlike, PeelThree, Zenon
  <2>4. QED
    BY <2>3, Zenon DEF SameThree
<1>8. QED
  BY <1>4, <1>5, <1>6, <1>7, Zenon DEF SameBytes

\* An input that is hashed.
InputsOf(t) == {t.tx_inputs[k] : k \in 0 .. t.tx_input_len - 1}

\* Its numbers fit the bytes they are written to: uint64_t value, an index of a
\* byte (types.h).
LEMMA InputsFit ==
    ASSUME NEW t \in SighashTxs, NEW i \in InputsOf(t)
    PROVE  /\ i.index \in Nat /\ Fits(i.index, 4)
           /\ i.value \in Nat /\ Fits(i.value, 8)
<1>1. PICK k \in 0 .. t.tx_input_len - 1 : i = t.tx_inputs[k]
  BY DEF InputsOf
<1>2. k \in InputSlots
  BY SlotsInRange
<1>3. Fits(i.value, 8) /\ Fits(i.index, 4)
  BY <1>1, <1>2, SighashAssumption, Zenon
<1>4. t.tx_inputs \in [InputSlots -> Inputs]
  BY SlotsInRange DEF Transactions
<1>5. i \in Inputs
  BY <1>1, <1>2, <1>4
<1>6. i.index \in Nat /\ i.value \in Amounts
  BY <1>5 DEF Inputs
<1>7. i.value \in Nat
  BY <1>6, WidthAssumption DEF Amounts
<1>8. QED
  BY <1>3, <1>6, <1>7

\* The outpoints are read back from the bytes they are hashed from: 32 bytes of
\* an id, 4 of an index (sighash.c:49).
LEMMA OutpointsInjective ==
    ASSUME NEW t \in SighashTxs, NEW u \in SighashTxs,
           Turns(SpentParts(t), t.tx_input_len) = Turns(SpentParts(u), u.tx_input_len)
    PROVE  /\ t.tx_input_len = u.tx_input_len
           /\ \A k \in 0 .. t.tx_input_len - 1 : Outpoint(t.tx_inputs[k]) = Outpoint(u.tx_inputs[k])
<1>1. \A x : IsSeq(IdBytes(x)) /\ Len(IdBytes(x)) = 32
  <2>1. 32 \in Nat
    OBVIOUS
  <2>2. QED
    BY <2>1, OpaqueIsSeq DEF IdBytes
<1>2. \A n : IsSeq(LE(n, 4)) /\ Len(LE(n, 4)) = 4
  BY LEIsSeq
<1>3. ASSUME NEW s \in SighashTxs PROVE EvenParts(SpentParts(s), s.tx_input_len, 36)
  <2> SUFFICES ASSUME NEW k \in 0 .. s.tx_input_len - 1
               PROVE  IsSeq(SpentParts(s)[k]) /\ Len(SpentParts(s)[k]) = 36
    BY DEF EvenParts
  <2>1. k \in InputSlots
    BY SlotsInRange
  <2>2. PICK a : a = IdBytes(s.tx_inputs[k].tx_id) /\ IsSeq(a) /\ Len(a) = 32
    BY <1>1
  <2>3. PICK b : b = LE(s.tx_inputs[k].index, 4) /\ IsSeq(b) /\ Len(b) = 4
    BY <1>2
  <2>4. PICK c : c = a \o b
    OBVIOUS
  <2>5. IsCat(c, a, b) /\ IsSeq(c)
    BY <2>2, <2>3, <2>4, CatIs, CatIsSeq, Zenon
  <2>6. Len(c) = 36
    BY <2>2, <2>3, <2>5 DEF IsCat
  <2>7. SpentParts(s)[k] = c
    BY <2>1, <2>2, <2>3, <2>4, Zenon DEF SpentParts
  <2>8. QED
    BY <2>5, <2>6, <2>7
<1>4. t.tx_input_len \in Nat /\ u.tx_input_len \in Nat
  BY SlotsInRange
<1>5. /\ t.tx_input_len = u.tx_input_len
      /\ \A k \in 0 .. t.tx_input_len - 1 : SpentParts(t)[k] = SpentParts(u)[k]
  BY <1>3, <1>4, TurnsInjective
<1>6. ASSUME NEW k \in 0 .. t.tx_input_len - 1
      PROVE  Outpoint(t.tx_inputs[k]) = Outpoint(u.tx_inputs[k])
  <2>1. k \in InputSlots /\ k \in 0 .. u.tx_input_len - 1
    BY <1>5, SlotsInRange
  <2>2. PICK a : a = IdBytes(t.tx_inputs[k].tx_id) /\ IsSeq(a) /\ Len(a) = 32
    BY <1>1
  <2>3. PICK b : b = LE(t.tx_inputs[k].index, 4) /\ IsSeq(b)
    BY <1>2
  <2>4. PICK c : c = IdBytes(u.tx_inputs[k].tx_id) /\ IsSeq(c) /\ Len(c) = 32
    BY <1>1
  <2>5. PICK d : d = LE(u.tx_inputs[k].index, 4) /\ IsSeq(d)
    BY <1>2
  <2>6. a \o b = c \o d
    BY <1>5, <2>1, <2>2, <2>3, <2>4, <2>5, Zenon DEF SpentParts
  <2>7. SameParts(a, b, c, d)
    BY <2>2, <2>3, <2>4, <2>5, <2>6, CatSplit, Zenon
  <2>8. a = c /\ b = d
    BY <2>7 DEF SameParts
  <2>9. t.tx_inputs[k].tx_id = u.tx_inputs[k].tx_id
    <3>1. Opaque(t.tx_inputs[k].tx_id, 32) = Opaque(u.tx_inputs[k].tx_id, 32)
      BY <2>2, <2>4, <2>8, Zenon DEF IdBytes
    <3>2. 32 \in Nat /\ 32 > 0
      OBVIOUS
    <3>3. QED
      BY <3>1, <3>2, OpaqueInjective, Zenon
  <2>10. t.tx_inputs[k].index = u.tx_inputs[k].index
    <3>1. t.tx_inputs[k] \in InputsOf(t) /\ u.tx_inputs[k] \in InputsOf(u)
      BY <2>1, Zenon DEF InputsOf
    <3>2. /\ t.tx_inputs[k].index \in Nat /\ Fits(t.tx_inputs[k].index, 4)
          /\ u.tx_inputs[k].index \in Nat /\ Fits(u.tx_inputs[k].index, 4)
      BY <3>1, InputsFit, Zenon
    <3>3. LE(t.tx_inputs[k].index, 4) = LE(u.tx_inputs[k].index, 4)
      BY <2>3, <2>5, <2>8, Zenon
    <3>4. 4 \in Nat
      OBVIOUS
    <3>5. QED
      BY <3>2, <3>3, <3>4, LEInjective, Zenon
  <2>11. QED
    BY <2>9, <2>10, Zenon DEF Outpoint
<1>7. QED
  BY <1>5, <1>6

\* Equal fields of the preimage were written from equal values.
LEMMA SameBytesSameFields ==
    ASSUME NEW t \in SighashTxs, NEW i \in InputsOf(t), NEW u \in SighashTxs, NEW j \in InputsOf(u),
           SameBytes(t, i, u, j)
    PROVE  SameFields(t, i, u, j)
<1>1. 2 \in Nat /\ 4 \in Nat /\ 8 \in Nat /\ 32 \in Nat /\ 32 > 0
  OBVIOUS
<1>2. t.version = u.version
  <2>1. t.version \in Nat /\ u.version \in Nat
    BY SlotsInRange DEF Transactions
  <2>2. Fits(t.version, 2) /\ Fits(u.version, 2)
    BY SighashAssumption
  <2>3. LE(t.version, 2) = LE(u.version, 2)
    BY Zenon DEF SameBytes
  <2>4. QED
    BY <1>1, <2>1, <2>2, <2>3, LEInjective, Zenon
<1>3. i.index = j.index
  <2>1. LE(i.index, 4) = LE(j.index, 4)
    BY Zenon DEF SameBytes
  <2>2. i.index \in Nat /\ j.index \in Nat /\ Fits(i.index, 4) /\ Fits(j.index, 4)
    BY InputsFit, Zenon
  <2>3. QED
    BY <1>1, <2>1, <2>2, LEInjective, Zenon
<1>4. i.value = j.value
  <2>1. LE(i.value, 8) = LE(j.value, 8)
    BY Zenon DEF SameBytes
  <2>2. i.value \in Nat /\ j.value \in Nat /\ Fits(i.value, 8) /\ Fits(j.value, 8)
    BY InputsFit, Zenon
  <2>3. QED
    BY <1>1, <2>1, <2>2, LEInjective, Zenon
<1>5. i.tx_id = j.tx_id
  <2>1. Opaque(i.tx_id, 32) = Opaque(j.tx_id, 32)
    BY Zenon DEF SameBytes, IdBytes
  <2>2. QED
    BY <1>1, <2>1, OpaqueInjective, Zenon
<1>6. SigningKey(t, i) = SigningKey(u, j)
  <2>1. Opaque(SigningKey(t, i), 32) = Opaque(SigningKey(u, j), 32)
    BY Zenon DEF SameBytes, KeyBytes
  <2>2. QED
    BY <1>1, <2>1, OpaqueInjective, Zenon
<1>7. /\ t.tx_input_len = u.tx_input_len
      /\ \A k \in 0 .. t.tx_input_len - 1 : Outpoint(t.tx_inputs[k]) = Outpoint(u.tx_inputs[k])
  <2>1. Opaque(Concat(SpentParts(t), t.tx_input_len), 32) = Opaque(Concat(SpentParts(u), u.tx_input_len), 32)
    BY Zenon DEF SameBytes, Digest, HashLen
  <2>2. Concat(SpentParts(t), t.tx_input_len) = Concat(SpentParts(u), u.tx_input_len)
    BY <1>1, <2>1, OpaqueInjective, Zenon
  <2>3. Turns(SpentParts(t), t.tx_input_len) = Turns(SpentParts(u), u.tx_input_len)
    BY <2>2, Zenon DEF Concat
  <2>4. QED
    BY <2>3, OutpointsInjective
<1>8. /\ t.tx_output_len = u.tx_output_len
      /\ \A o \in 0 .. t.tx_output_len - 1 : t.tx_outputs[o] = u.tx_outputs[o]
  <2>1. Opaque(Concat(OutputParts(t), t.tx_output_len), 32) = Opaque(Concat(OutputParts(u), u.tx_output_len), 32)
    BY Zenon DEF SameBytes, Digest, HashLen
  <2>2. Concat(OutputParts(t), t.tx_output_len) = Concat(OutputParts(u), u.tx_output_len)
    BY <1>1, <2>1, OpaqueInjective, Zenon
  <2>3. Turns(OutputParts(t), t.tx_output_len) = Turns(OutputParts(u), u.tx_output_len)
    BY <2>2, Zenon DEF Concat
  <2>4. QED
    BY <2>3, OutputsInjective
<1>9. Outpoint(i) = Outpoint(j)
  BY <1>3, <1>5, Zenon DEF Outpoint
<1>10. QED
  BY <1>2, <1>4, <1>6, <1>7, <1>8, <1>9, Zenon DEF SameFields

\* The input that is signed stays one of the transaction's.
LEMMA SignsAnInput == SighashSpec => [](txin \in InputsOf(tx))
<1>1. SighashInit => txin \in InputsOf(tx)
  BY Zenon DEF SighashInit, InputsOf
<1>2. txin \in InputsOf(tx) /\ [Step]_sighashvars => (txin \in InputsOf(tx))'
  BY Zenon DEF Step, sighashvars, InputsOf
<1>3. QED
  BY <1>1, <1>2, PTL DEF SighashSpec

\* A preimage has one reading: two hashes are taken of the same bytes exactly
\* when they commit to the same version, outpoints, key, value and outputs,
\* whatever the transactions are (sighash.c:199-325, calc_sighash).
THEOREM PreimageHasOneReading == SighashSpec => []PreimageIsUnambiguous
<1>1. tx \in SighashTxs /\ txin \in InputsOf(tx) /\ PreimageMatchesClient => PreimageIsUnambiguous
  <2> SUFFICES ASSUME tx \in SighashTxs, txin \in InputsOf(tx), PreimageMatchesClient, Done,
                      NEW t \in SighashTxs, NEW i \in InputsOf(t)
               PROVE  preimage = to_hash(t, i) <=> Commits(tx, txin) = Commits(t, i)
    BY Zenon DEF PreimageIsUnambiguous, InputsOf
  <2>1. preimage = to_hash(tx, txin)
    BY Zenon DEF PreimageMatchesClient
  <2>2. Commits(tx, txin) = Commits(t, i) <=> SameFields(tx, txin, t, i)
    BY CommitsAreFields, Zenon
  <2>3. ASSUME to_hash(tx, txin) = to_hash(t, i) PROVE SameFields(tx, txin, t, i)
    <3>1. SameBytes(tx, txin, t, i)
      BY <2>3, SameHashSameBytes, Zenon
    <3>2. QED
      BY <3>1, SameBytesSameFields, Zenon
  <2>4. ASSUME SameFields(tx, txin, t, i) PROVE to_hash(tx, txin) = to_hash(t, i)
    BY <2>4, SameFieldsSameHash
  <2>5. QED
    BY <2>1, <2>2, <2>3, <2>4, Zenon
<1>2. SighashSpec => [](tx \in SighashTxs)
  <2>1. PreimageInv => tx \in SighashTxs
    BY DEF PreimageInv
  <2>2. QED
    BY <2>1, PreimageInit, PreimageStep, PTL DEF SighashSpec
<1>3. QED
  BY <1>1, <1>2, SignsAnInput, DeviceHashesClientPreimage, PTL
=============================================================================
