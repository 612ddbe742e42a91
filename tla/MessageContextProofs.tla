------------------------ MODULE MessageContextProofs ------------------------
(***************************************************************************)
(* Long messages run over message_hash and signature: why that is harmless *)
(* for every layout in which the two fields have room for the rest of the  *)
(* longest message.                                                        *)
(***************************************************************************)
EXTENDS MessageContext, SequenceTheorems, TLAPS

-----------------------------------------------------------------------------
(* Memory *)

\* m is n cells of memory.
IsMemory(m, n) == m = [k \in 1 .. n |-> m[k]]

\* A load that stays inside the memory reads one cell after the other.
LEMMA LoadIs ==
    ASSUME NEW n \in Nat, NEW m, IsMemory(m, n),
           NEW at \in Nat \ {0}, NEW len \in Nat, at + len - 1 <= n
    PROVE  Load(m, at, len) = [k \in 1 .. len |-> m[at + k - 1]]
<1> DEFINE V == {m[k] : k \in 1 .. n}
<1>1. m \in [1 .. n -> V]
  BY DEF IsMemory
<1>2. m \in Seq(V) /\ Len(m) = n
  <2>1. m \in Seq(V)
    BY <1>1, SeqDef
  <2>2. DOMAIN m = 1 .. n
    BY <1>1
  <2>3. QED
    BY <2>1, <2>2, LenProperties
<1>3. at + len - 1 \in Int /\ \A k \in at .. at + len - 1 : m[k] \in V
  BY <1>1
<1>4. /\ SubSeq(m, at, at + len - 1) \in Seq(V)
      /\ Len(SubSeq(m, at, at + len - 1)) =
             IF at <= at + len - 1 THEN at + len - 1 - at + 1 ELSE 0
      /\ \A i \in 1 .. at + len - 1 - at + 1 : SubSeq(m, at, at + len - 1)[i] = m[at + i - 1]
  BY <1>2, <1>3, SubSeqProperties
<1>5. Len(SubSeq(m, at, at + len - 1)) = len /\ at + len - 1 - at + 1 = len
  BY <1>4
<1> DEFINE r == SubSeq(m, at, at + len - 1)
<1>6. r \in [1 .. len -> V]
  BY <1>4, <1>5, LenProperties
<1>7. \A i \in 1 .. len : r[i] = m[at + i - 1]
  BY <1>4, <1>5
<1>8. r = [i \in 1 .. len |-> m[at + i - 1]]
  BY <1>6, <1>7
<1>9. QED
  BY <1>8 DEF Load

\* A store changes the cells it writes and no others.
LEMMA StoreIs ==
    ASSUME NEW n \in Nat, NEW m, IsMemory(m, n), NEW at \in Int,
           NEW bytes, NEW len \in Nat, IsMemory(bytes, len)
    PROVE  /\ IsMemory(Store(m, at, bytes), n)
           /\ \A k \in 1 .. n : Store(m, at, bytes)[k] =
                  IF k - at + 1 \in 1 .. len THEN bytes[k - at + 1] ELSE m[k]
<1>1. DOMAIN m = 1 .. n /\ DOMAIN bytes = 1 .. len
  BY DEF IsMemory
<1>2. Store(m, at, bytes) =
          [k \in 1 .. n |-> IF k - at + 1 \in 1 .. len THEN bytes[k - at + 1] ELSE m[k]]
  BY <1>1 DEF Store
<1>3. QED
  BY <1>2 DEF IsMemory

\* What was stored is what is loaded from the same place.
LEMMA LoadStored ==
    ASSUME NEW n \in Nat, NEW m, IsMemory(m, n), NEW at \in Nat \ {0},
           NEW bytes, NEW len \in Nat, IsMemory(bytes, len), at + len - 1 <= n
    PROVE  Load(Store(m, at, bytes), at, len) = bytes
<1> DEFINE s == Store(m, at, bytes)
<1>1. IsMemory(s, n) /\ \A k \in 1 .. len : s[at + k - 1] = bytes[k]
  <2>1. \A k \in 1 .. len : at + k - 1 \in 1 .. n /\ at + k - 1 - at + 1 = k
    OBVIOUS
  <2>2. QED
    BY <2>1, StoreIs
<1> HIDE DEF s
<1>2. Load(s, at, len) = [k \in 1 .. len |-> s[at + k - 1]]
  BY <1>1, LoadIs
<1>3. bytes = [k \in 1 .. len |-> bytes[k]]
  BY DEF IsMemory
<1>4. Load(s, at, len) = bytes
  BY <1>1, <1>2, <1>3
<1>5. QED
  BY <1>4 DEF s

\* A store further up leaves what lies below it alone.
LEMMA LoadBelow ==
    ASSUME NEW n \in Nat, NEW m, IsMemory(m, n), NEW at \in Nat \ {0}, NEW len \in Nat,
           NEW up \in Nat, at + len <= up, at + len - 1 <= n,
           NEW bytes, NEW size \in Nat, IsMemory(bytes, size)
    PROVE  Load(Store(m, up, bytes), at, len) = Load(m, at, len)
<1> DEFINE s == Store(m, up, bytes)
<1>1. IsMemory(s, n) /\ \A k \in 1 .. len : s[at + k - 1] = m[at + k - 1]
  <2>1. \A k \in 1 .. len : at + k - 1 \in 1 .. n /\ at + k - 1 - up + 1 \notin 1 .. size
    OBVIOUS
  <2>2. QED
    BY <2>1, StoreIs
<1> HIDE DEF s
<1>2. Load(s, at, len) = [k \in 1 .. len |-> s[at + k - 1]]
  BY <1>1, LoadIs
<1>3. Load(m, at, len) = [k \in 1 .. len |-> m[at + k - 1]]
  BY LoadIs
<1>4. Load(s, at, len) = Load(m, at, len)
  BY <1>1, <1>2, <1>3
<1>5. QED
  BY <1>4 DEF s
-----------------------------------------------------------------------------
(* The layout *)

\* Where the fields begin, and that the account is behind the signature.
LEMMA Layout ==
    /\ Room \in Nat \ {0} /\ HashLen \in Nat \ {0} /\ SigLen \in Nat \ {0}
    /\ MaxMessageLen \in Nat \ {0} /\ MaxDataLen \in Nat \ {0}
    /\ Message = 1 /\ Hash = 1 + Room /\ Signature = 1 + Room + HashLen
    /\ Account = 1 + Room + HashLen + SigLen /\ LastCell = Account
    /\ MaxMessageLen < Account
    /\ Message \in Nat \ {0} /\ Hash \in Nat \ {0} /\ Signature \in Nat \ {0}
    /\ Account \in Nat \ {0} /\ LastCell \in Nat \ {0}
<1>1. /\ Room \in Nat \ {0} /\ HashLen \in Nat \ {0} /\ SigLen \in Nat \ {0}
      /\ MaxMessageLen \in Nat \ {0} /\ MaxDataLen \in Nat \ {0}
  BY LayoutAssumption
<1>2. /\ Message = 1 /\ Hash = 1 + Room /\ Signature = 1 + Room + HashLen
      /\ Account = 1 + Room + HashLen + SigLen /\ LastCell = Account
  BY DEF Message, Hash, Signature, Account, LastCell
<1>3. MaxMessageLen < Account
  BY <1>1, <1>2, LayoutAssumption DEF Cells
<1>4. QED
  BY <1>1, <1>2, <1>3

\* The blocks of bytes that are stored.
LEMMA ByteBlocks ==
    /\ \A len \in Nat : IsMemory(Bytes(len), len)
    /\ \A b : IsMemory(Digest(b), HashLen)
    /\ \A d, a : IsMemory(Signed(d, a), SigLen)
    /\ \A a : IsMemory(<<a>>, 1) /\ <<a>>[1] = a
    /\ IsMemory(Zeroes, LastCell)
<1>1. \A len \in Nat : IsMemory(Bytes(len), len)
  BY DEF IsMemory, Bytes
<1>2. \A b : IsMemory(Digest(b), HashLen)
  BY DEF IsMemory, Digest
<1>3. \A d, a : IsMemory(Signed(d, a), SigLen)
  BY DEF IsMemory, Signed
<1>4. \A a : IsMemory(<<a>>, 1) /\ <<a>>[1] = a
  BY DEF IsMemory
<1>5. IsMemory(Zeroes, LastCell)
  BY DEF IsMemory, Zeroes
<1>6. QED
  BY <1>1, <1>2, <1>3, <1>4, <1>5

-----------------------------------------------------------------------------
(* The invariant *)

\* While a message is under review all of it is in memory, over whatever
\* fields, the account it is to be signed under is still behind it, and the
\* text on display was made of it.
UnderReview ==
    /\ request.len \in 1 .. MaxMessageLen
    /\ message_len = request.len
    /\ bip32_path = request.account
    /\ g_message = Bytes(request.len)
    /\ IsMemory(memory, LastCell)
    /\ Load(memory, Message, request.len) = Bytes(request.len)
    /\ memory[Account] = request.account

MsgInv ==
    /\ status = "review" => UnderReview
    /\ SignatureIsOfTheMessage
    /\ PathIsOfTheRequest

\* The message is stored over the fields that follow message[], and ends before
\* the account (sign_msg.c:66-99).
LEMMA HandlerInv ==
    ASSUME NEW len \in 0 .. MaxDataLen, NEW account \in Accounts,
           handler_sign_msg(len, account)
    PROVE  MsgInv'
<1> DEFINE first == Store(Zeroes, Account, <<account>>)
           stored == Store(first, Message, Bytes(len))
<1>1. len \in Nat
  BY Layout
<1>2. IsMemory(first, LastCell) /\ first[Account] = account
  <2>1. /\ IsMemory(first, LastCell)
        /\ \A k \in 1 .. LastCell : first[k] =
               IF k - Account + 1 \in 1 .. 1 THEN <<account>>[k - Account + 1] ELSE Zeroes[k]
    BY Layout, ByteBlocks, StoreIs
  <2>2. Account \in 1 .. LastCell /\ Account - Account + 1 = 1
    BY Layout
  <2>3. <<account>>[1] = account
    BY ByteBlocks
  <2>4. QED
    BY <2>1, <2>2, <2>3
<1> HIDE DEF first
<1>3. CASE LengthOK(len)
  <2>1. len \in 1 .. MaxMessageLen
    BY <1>1, <1>3, Layout DEF LengthOK
  <2>2. /\ IsMemory(stored, LastCell)
        /\ \A k \in 1 .. LastCell : stored[k] =
               IF k - Message + 1 \in 1 .. len THEN Bytes(len)[k - Message + 1] ELSE first[k]
    BY <1>1, <1>2, Layout, ByteBlocks, StoreIs
  <2>3. stored[Account] = account
    <3>1. Account \in 1 .. LastCell /\ Account - Message + 1 \notin 1 .. len
      BY <2>1, Layout
    <3>2. QED
      BY <1>2, <2>2, <3>1
  <2>4. Load(stored, Message, len) = Bytes(len)
    <3>1. Message + len - 1 <= LastCell
      BY <2>1, Layout
    <3>2. QED
      BY <1>1, <1>2, <3>1, Layout, ByteBlocks, LoadStored
  <2>5. /\ memory' = stored /\ message_len' = len /\ bip32_path' = stored[Account]
        /\ g_message' = Load(stored, Message, len) /\ status' = "review"
        /\ request'.len = len /\ request'.account = account
    BY <1>3 DEF handler_sign_msg, first
  <2> HIDE DEF stored
  <2>6. UnderReview'
    BY <2>1, <2>2, <2>3, <2>4, <2>5 DEF UnderReview
  <2>7. QED
    BY <2>3, <2>5, <2>6 DEF MsgInv, SignatureIsOfTheMessage, PathIsOfTheRequest
<1>4. CASE ~LengthOK(len)
  BY <1>4 DEF handler_sign_msg, MsgInv, SignatureIsOfTheMessage, PathIsOfTheRequest
<1>5. QED
  BY <1>3, <1>4

\* The whole message is hashed before the hash is written over the end of it,
\* and what is sent is what was written last (crypto.c:125, personal_message.c).
LEMMA ApproveInv ==
    ASSUME MsgInv, Approve
    PROVE  MsgInv'
<1> DEFINE digest == Digest(Bytes(request.len))
           hashed == hash_personal_message(memory)
           final == Store(hashed, Signature, Signed(digest, request.account))
<1>1. UnderReview
  BY DEF MsgInv, Approve
<1>2. hashed = Store(memory, Hash, digest)
  BY <1>1 DEF hash_personal_message, UnderReview
<1>3. IsMemory(digest, HashLen) /\ IsMemory(Signed(digest, request.account), SigLen)
  BY ByteBlocks
<1> HIDE DEF digest, hashed
<1>4. IsMemory(memory, LastCell) /\ memory[Account] = request.account
  BY <1>1 DEF UnderReview
<1>5. IsMemory(hashed, LastCell) /\ hashed[Account] = request.account
  <2>1. /\ IsMemory(hashed, LastCell)
        /\ \A k \in 1 .. LastCell : hashed[k] =
               IF k - Hash + 1 \in 1 .. HashLen THEN digest[k - Hash + 1] ELSE memory[k]
    BY <1>2, <1>3, <1>4, Layout, StoreIs
  <2>2. Account \in 1 .. LastCell /\ Account - Hash + 1 \notin 1 .. HashLen
    BY Layout
  <2>3. QED
    BY <1>4, <2>1, <2>2
<1>6. Load(hashed, Hash, HashLen) = digest
  <2>1. Hash + HashLen - 1 <= LastCell
    BY Layout
  <2>2. QED
    BY <1>2, <1>3, <1>4, <2>1, Layout, LoadStored
<1>7. crypto_sign_personal_message(memory) = final
  BY <1>1, <1>6 DEF crypto_sign_personal_message, UnderReview, hashed
<1>8. final[Account] = request.account
  <2>1. \A k \in 1 .. LastCell : final[k] =
            IF k - Signature + 1 \in 1 .. SigLen
            THEN Signed(digest, request.account)[k - Signature + 1] ELSE hashed[k]
    BY <1>3, <1>5, Layout, StoreIs
  <2>2. Account \in 1 .. LastCell /\ Account - Signature + 1 \notin 1 .. SigLen
    BY Layout
  <2>3. QED
    BY <1>5, <2>1, <2>2
<1>9. Load(final, Signature, SigLen) = Signed(digest, request.account)
  <2>1. Signature + SigLen - 1 <= LastCell
    BY Layout
  <2>2. QED
    BY <1>3, <1>5, <2>1, Layout, LoadStored
<1>10. Load(final, Hash, HashLen) = digest
  <2>1. Hash + HashLen <= Signature /\ Hash + HashLen - 1 <= LastCell
    BY Layout
  <2>2. Load(final, Hash, HashLen) = Load(hashed, Hash, HashLen)
    BY <1>3, <1>5, <2>1, Layout, LoadBelow
  <2>3. QED
    BY <1>6, <2>2
<1> HIDE DEF final
<1>11. /\ memory' = final /\ status' = "signed" /\ request' = request
       /\ bip32_path' = bip32_path /\ g_message' = g_message
       /\ rapdu'.signature = Load(memory', Signature, SigLen)
       /\ rapdu'.message_hash = Load(memory', Hash, HashLen)
  BY <1>7 DEF Approve
<1>12. /\ rapdu'.signature = Signed(digest, request.account) /\ rapdu'.message_hash = digest
       /\ memory'[Account] = request.account
  BY <1>8, <1>9, <1>10, <1>11
<1>13. bip32_path = request.account /\ g_message = Bytes(request.len)
  BY <1>1 DEF UnderReview
<1>14. SignatureIsOfTheMessage'
  BY <1>11, <1>12, <1>13 DEF SignatureIsOfTheMessage, digest
<1>15. PathIsOfTheRequest'
  BY <1>11, <1>12, <1>13 DEF PathIsOfTheRequest
<1>16. QED
  BY <1>11, <1>14, <1>15 DEF MsgInv

\* The invariant holds at first and every step preserves it.
THEOREM MsgInvariant == MsgSpec => []MsgInv
<1>1. MsgInit => MsgInv
  BY DEF MsgInit, MsgInv, SignatureIsOfTheMessage, PathIsOfTheRequest
<1>2. MsgInv /\ [MsgNext]_msgvars => MsgInv'
  <2> SUFFICES ASSUME MsgInv, [MsgNext]_msgvars PROVE MsgInv'
    OBVIOUS
  <2>1. CASE Reject
    BY <2>1 DEF Reject, MsgInv, SignatureIsOfTheMessage, PathIsOfTheRequest
  <2>2. CASE UNCHANGED msgvars
    BY <2>2 DEF msgvars, MsgInv, UnderReview, SignatureIsOfTheMessage, PathIsOfTheRequest
  <2>3. QED
    BY <2>1, <2>2, HandlerInv, ApproveInv DEF MsgNext
<1>3. QED
  BY <1>1, <1>2, PTL DEF MsgSpec

\* The signature and the hash beside it are of the message that was on display,
\* whole, for every length the handler accepts and every size of the fields
\* (sign_msg.c:93, crypto.c:125-157, send_reponse.c:72-89).
THEOREM SignatureOfLongMessages == MsgSpec => []SignatureIsOfTheMessage
<1>1. MsgInv => SignatureIsOfTheMessage
  BY DEF MsgInv
<1>2. QED
  BY <1>1, MsgInvariant, PTL

\* However long the message, it ends before the account field, and the path is
\* that of the account in the command (sign_msg.c:93-99).
THEOREM PathOfLongMessages == MsgSpec => []PathIsOfTheRequest
<1>1. MsgInv => PathIsOfTheRequest
  BY DEF MsgInv
<1>2. QED
  BY <1>1, MsgInvariant, PTL
=============================================================================
