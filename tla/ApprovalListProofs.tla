------------------------- MODULE ApprovalListProofs -------------------------
(***************************************************************************)
(* What the list container guarantees for every hook configuration, every  *)
(* set of list Configs and any number of lists and reloads.                *)
(***************************************************************************)
EXTENDS ApprovalList, SequenceTheorems, TLAPS

\* Every infohash some configuration names.
Named == UNION {HashesOf(c) : c \in Configs}

\* The lists built since the last (re)start each find the hashes they
\* named under their own context: a build only ever adds to the store.
IInv ==
    /\ pc \in 1..(NLists + 1)
    /\ kv \in [StoreCtxs -> SUBSET Named]
    /\ ctxOf \in [Lists -> StoreCtxs]
    /\ invertOf \in [Lists -> BOOLEAN]
    /\ entries \in [Lists -> SUBSET Named]
    /\ \A j \in 1..(pc - 1) : entries[j] \subseteq kv[ctxOf[j]]

\* An unset storage_ctx falls back to the default, so the context a list
\* reads is one the store has.
LEMMA CtxInStore ==
    ASSUME NEW c \in Configs
    PROVE  CtxOf(c) \in StoreCtxs
  BY DEF CtxOf, StoreCtxs

\* A build of list i keeps what the earlier lists found and gives list i
\* its own hashes.
LEMMA BuildStep ==
    ASSUME IInv, NEW i \in Lists, BuildSucceeds(i)
    PROVE  IInv'
<1>1. PICK c \in Configs :
        /\ BuildOk(c)
        /\ kv' = IF Len(c.hashList) > 0
                 THEN [kv EXCEPT ![CtxOf(c)] = @ \cup HashesOf(c)]
                 ELSE kv
        /\ ctxOf' = [ctxOf EXCEPT ![i] = CtxOf(c)]
        /\ invertOf' = [invertOf EXCEPT ![i] = c.invert]
        /\ entries' = [entries EXCEPT ![i] = HashesOf(c)]
  BY DEF BuildSucceeds
<1>2. pc = i /\ pc' = i + 1
  BY DEF BuildSucceeds
<1>3. CtxOf(c) \in StoreCtxs /\ HashesOf(c) \subseteq Named
  BY CtxInStore DEF Named
<1>4. \A x \in StoreCtxs : kv[x] \subseteq kv'[x]
  BY <1>1, <1>3 DEF IInv
<1>5. kv' \in [StoreCtxs -> SUBSET Named]
  BY <1>1, <1>3 DEF IInv
<1>6. HashesOf(c) \subseteq kv'[CtxOf(c)]
  <2>1. CASE Len(c.hashList) > 0
    BY <1>1, <1>3, <2>1 DEF IInv
  <2>2. CASE ~(Len(c.hashList) > 0)
    <3>1. c.hashList \in Seq(Seq(Byte))
      BY ApprovalAssumptions DEF ConfigType
    <3>2. 1..Len(c.hashList) = {}
      BY <2>2, <3>1
    <3> QED
      BY <3>2 DEF HashesOf
  <2> QED
    BY <2>1, <2>2
<1>7. c.invert \in BOOLEAN
  BY ApprovalAssumptions DEF ConfigType
<1>8. ASSUME NEW j \in 1..(pc' - 1) PROVE entries'[j] \subseteq kv'[ctxOf'[j]]
  <2>1. CASE j = i
    BY <1>1, <1>6, <2>1, ApprovalAssumptions DEF IInv, Lists
  <2>2. CASE j # i
    <3>1. j \in 1..(pc - 1) /\ j \in Lists
      BY <1>2, <2>2, ApprovalAssumptions DEF IInv, Lists
    <3>2. entries'[j] = entries[j] /\ ctxOf'[j] = ctxOf[j]
      BY <1>1, <2>2, <3>1 DEF IInv
    <3> QED
      BY <1>4, <3>1, <3>2 DEF IInv
  <2> QED
    BY <2>1, <2>2
<1>9. entries' \in [Lists -> SUBSET Named]
  BY <1>1, <1>3 DEF IInv
<1>10. pc' \in 1..(NLists + 1)
  BY <1>2, ApprovalAssumptions DEF Lists, IInv
<1> QED
  BY <1>1, <1>3, <1>5, <1>7, <1>8, <1>9, <1>10 DEF IInv

LEMMA Inductive == Spec => []IInv
<1>1. Init => IInv
  BY ApprovalAssumptions DEF Init, IInv, StoreCtxs, Lists
<1>2. IInv /\ [Next]_vars => IInv'
  <2> SUFFICES ASSUME IInv, [Next]_vars PROVE IInv'
    OBVIOUS
  <2>1. ASSUME NEW i \in Lists, BuildSucceeds(i) PROVE IInv'
    BY <2>1, BuildStep
  <2>2. ASSUME NEW i \in Lists, BuildFails(i) PROVE IInv'
    BY <2>2 DEF BuildFails, IInv
  <2>3. CASE Reload
    BY <2>3 DEF Reload, IInv
  <2>4. CASE Idle \/ UNCHANGED vars
    BY <2>4 DEF Idle, vars, IInv
  <2> QED
    BY <2>1, <2>2, <2>3, <2>4 DEF Next
<1> QED
  BY <1>1, <1>2, PTL DEF Spec

\* However the lists share storage contexts and whatever earlier
\* configurations stored before a reload, while the tracker serves every
\* hash a list's own configuration names is approved by a whitelist and
\* refused by a blacklist.
THEOREM OwnEntriesHonouredHolds == Spec => []OwnEntriesHonoured
<1>1. IInv => OwnEntriesHonoured
  <2> SUFFICES ASSUME IInv, Serving, NEW i \in Lists, NEW h \in entries[i]
               PROVE  Approved(i, h) = ~invertOf[i]
    BY DEF OwnEntriesHonoured
  <2>1. i \in 1..(pc - 1)
    BY ApprovalAssumptions DEF Serving, Lists, IInv
  <2>2. h \in kv[ctxOf[i]]
    BY <2>1 DEF IInv
  <2>3. invertOf[i] \in BOOLEAN
    BY DEF IInv
  <2> QED
    BY <2>2, <2>3 DEF Approved
<1> QED
  BY <1>1, Inductive, PTL

(***************************************************************************)
(* Hex encoding and NewInfoHash.                                           *)
(***************************************************************************)
\* A hex digit written for a nibble reads back as that nibble.
LEMMA NibbleRoundTrip ==
    ASSUME NEW n \in 0..15
    PROVE  HexChar(n) \in Nat /\ IsHexChar(HexChar(n)) /\ FromHexChar(HexChar(n)) = n
  BY DEF IsHexChar, FromHexChar, HexChar, Digits, LowerHex, UpperHex

\* A hex digit of either case is a nibble.
LEMMA HexCharValue ==
    ASSUME NEW ch, IsHexChar(ch)
    PROVE  FromHexChar(ch) \in 0..15
  BY DEF IsHexChar, FromHexChar, Digits, LowerHex, UpperHex

\* A byte is its high nibble times 16 plus its low nibble.
LEMMA ByteSplit ==
    ASSUME NEW b \in Byte
    PROVE  /\ b \div 16 \in 0..15 /\ b % 16 \in 0..15
           /\ 16 * (b \div 16) + (b % 16) = b
  BY DEF Byte

\* Decoding what EncodeToString wrote gives the bytes back.
LEMMA EncodeDecode ==
    ASSUME NEW h \in Seq(Byte)
    PROVE  LET E == EncodeToString(h)
           IN  /\ E \in Seq(Nat) /\ Len(E) = 2 * Len(h)
               /\ DecodeOk(E)
               /\ DecodeString(E) = h
<1> DEFINE n == Len(h)
           E == EncodeToString(h)
<1>1. n \in Nat /\ DOMAIN h = 1..n /\ \A k \in 1..n : h[k] \in Byte
  BY LenProperties, ElementOfSeq
<1>2. ASSUME NEW k \in 1..n
      PROVE  /\ E[2 * k - 1] = HexChar(h[k] \div 16)
             /\ E[2 * k] = HexChar(h[k] % 16)
  <2>1. (2 * k - 1) % 2 = 1 /\ (2 * k - 1 + 1) \div 2 = k
        /\ (2 * k) % 2 = 0 /\ (2 * k) \div 2 = k
        /\ 2 * k - 1 \in 1..(2 * n) /\ 2 * k \in 1..(2 * n)
    OBVIOUS
  <2> QED
    BY <2>1 DEF EncodeToString
<1>3. ASSUME NEW j \in 1..(2 * n)
      PROVE  E[j] \in Nat /\ IsHexChar(E[j])
  <2>1. CASE j % 2 = 1
    <3>1. (j + 1) \div 2 \in 1..n
      BY <1>1, <2>1
    <3>2. h[(j + 1) \div 2] \div 16 \in 0..15
      BY <1>1, <3>1, ByteSplit
    <3>3. E[j] = HexChar(h[(j + 1) \div 2] \div 16)
      BY <2>1 DEF EncodeToString
    <3> QED
      BY <3>2, <3>3, NibbleRoundTrip
  <2>2. CASE j % 2 # 1
    <3>1. j \div 2 \in 1..n
      BY <1>1, <2>2
    <3>2. h[j \div 2] % 16 \in 0..15
      BY <1>1, <3>1, ByteSplit
    <3>3. E[j] = HexChar(h[j \div 2] % 16)
      BY <2>2 DEF EncodeToString
    <3> QED
      BY <3>2, <3>3, NibbleRoundTrip
  <2> QED
    BY <2>1, <2>2
<1>4. E \in Seq(Nat) /\ Len(E) = 2 * n
  <2>1. E \in [1..(2 * n) -> Nat]
    BY <1>3 DEF EncodeToString
  <2>2. E \in Seq(Nat)
    BY <1>1, <2>1, SeqDef
  <2>3. DOMAIN E = 1..Len(E) /\ Len(E) \in Nat
    BY <2>2, LenProperties
  <2> QED
    BY <1>1, <2>1, <2>2, <2>3
<1>5. DecodeOk(E)
  BY <1>3, <1>4 DEF DecodeOk
<1>6. ASSUME NEW k \in 1..n PROVE DecodeString(E)[k] = h[k]
  <2>1. h[k] \in Byte
    OBVIOUS
  <2>2. /\ FromHexChar(E[2 * k - 1]) = h[k] \div 16
        /\ FromHexChar(E[2 * k]) = h[k] % 16
    BY <1>2, <2>1, ByteSplit, NibbleRoundTrip
  <2>3. k \in 1..(Len(E) \div 2)
    BY <1>4
  <2> QED
    BY <2>1, <2>2, <2>3, ByteSplit DEF DecodeString
<1>7. DecodeString(E) = h
  <2>1. DOMAIN DecodeString(E) = 1..n
    BY <1>4 DEF DecodeString
  <2>2. h \in [1..n -> Byte]
    BY LenProperties
  <2>3. DecodeString(E) = [k \in 1..n |-> DecodeString(E)[k]]
    BY <1>4 DEF DecodeString
  <2> QED
    BY <1>6, <2>2, <2>3
<1> QED
  BY <1>4, <1>5, <1>7

\* The infohashes NewInfoHash accepts: byte strings of a hash length.
ValidHash == {h \in Seq(Byte) : Len(h) \in InfoHashLens}

\* InfoHash.String then NewInfoHash is the identity on infohashes.
LEMMA StringRoundTrip ==
    ASSUME NEW h \in ValidHash
    PROVE  NewInfoHash("string", String(h)) = [ok |-> TRUE, ih |-> h]
<1> DEFINE E == EncodeToString(h)
<1>1. E \in Seq(Nat) /\ Len(E) = 2 * Len(h) /\ DecodeOk(E) /\ DecodeString(E) = h
  BY EncodeDecode DEF ValidHash
<1>2. Len(E) \in {2 * InfoHashV1Len, 2 * InfoHashV2Len}
  BY <1>1 DEF ValidHash, InfoHashLens
<1>3. SwitchBytes("string", E) = h
  BY <1>1, <1>2 DEF SwitchBytes
<1>4. Len(h) \in InfoHashLens
  BY DEF ValidHash
<1> QED
  BY <1>1, <1>2, <1>3, <1>4 DEF NewInfoHash, String

\* A hash_list entry the build accepts decodes to a valid infohash.
LEMMA DecodedValid ==
    ASSUME NEW s \in Seq(Byte), EntryOk(s)
    PROVE  Decoded(s).ih \in ValidHash
<1>1. Len(s) \in Nat /\ \A k \in 1..Len(s) : IsHexChar(s[k])
  BY LenProperties DEF EntryOk, DecodeOk
<1>2. ASSUME NEW k \in 1..(Len(s) \div 2) PROVE DecodeString(s)[k] \in Byte
  <2>1. 2 * k - 1 \in 1..Len(s) /\ 2 * k \in 1..Len(s)
    BY <1>1
  <2>2. FromHexChar(s[2 * k - 1]) \in 0..15 /\ FromHexChar(s[2 * k]) \in 0..15
    BY <1>1, <2>1, HexCharValue
  <2>3. DecodeString(s)[k] = 16 * FromHexChar(s[2 * k - 1]) + FromHexChar(s[2 * k])
    BY DEF DecodeString
  <2>4. \A a, b \in 0..15 : 16 * a + b \in Byte
    BY DEF Byte
  <2> QED
    BY <2>2, <2>3, <2>4, Zenon
<1>3. DecodeString(s) \in Seq(Byte)
  <2>1. DecodeString(s) \in [1..(Len(s) \div 2) -> Byte]
    BY <1>2 DEF DecodeString
  <2> QED
    BY <1>1, <2>1, SeqDef
<1>4. Decoded(s).ok => Decoded(s) = [ok |-> TRUE, ih |-> DecodeString(s)] /\ Len(DecodeString(s)) \in InfoHashLens
  BY DEF Decoded, NewInfoHash, SwitchBytes, Failed
<1> QED
  BY <1>3, <1>4 DEF EntryOk, ValidHash

\* The store holds only what a successful build put there.
StoredValid == kv \in [StoreCtxs -> SUBSET ValidHash]

LEMMA StoredValidInductive == Spec => []StoredValid
<1>1. Init => StoredValid
  BY DEF Init, StoredValid
<1>2. ASSUME StoredValid, NEW i \in Lists, BuildSucceeds(i) PROVE StoredValid'
  <2>1. PICK c \in Configs :
          /\ BuildOk(c)
          /\ kv' = IF Len(c.hashList) > 0
                   THEN [kv EXCEPT ![CtxOf(c)] = @ \cup HashesOf(c)]
                   ELSE kv
    BY <1>2 DEF BuildSucceeds
  <2>2. c.hashList \in Seq(Seq(Byte))
    BY ApprovalAssumptions DEF ConfigType
  <2>3. HashesOf(c) \subseteq ValidHash
    <3> SUFFICES ASSUME NEW k \in 1..Len(c.hashList)
                 PROVE  Decoded(c.hashList[k]).ih \in ValidHash
      BY DEF HashesOf
    <3>1. c.hashList[k] \in Seq(Byte)
      BY <2>2, ElementOfSeq
    <3>2. EntryOk(c.hashList[k])
      BY <2>1 DEF BuildOk
    <3> QED
      BY <3>1, <3>2, DecodedValid
  <2> QED
    BY <1>2, <2>1, <2>3, CtxInStore DEF StoredValid
<1>3. StoredValid /\ [Next]_vars => StoredValid'
  <2> SUFFICES ASSUME StoredValid, [Next]_vars PROVE StoredValid'
    OBVIOUS
  <2>1. ASSUME NEW i \in Lists, BuildSucceeds(i) PROVE StoredValid'
    BY <2>1, <1>2
  <2>2. ASSUME NEW i \in Lists, BuildFails(i) PROVE StoredValid'
    BY <2>2 DEF BuildFails, StoredValid
  <2>3. CASE Reload \/ Idle \/ UNCHANGED vars
    BY <2>3 DEF Reload, Idle, vars, StoredValid
  <2> QED
    BY <2>1, <2>2, <2>3 DEF Next
<1> QED
  BY <1>1, <1>3, PTL DEF Spec

\* Every infohash the lists stored prints, through InfoHash.String, as a
\* hex string that NewInfoHash reads back as the same infohash, for every
\* hash length pair, every configuration and any number of reloads.
THEOREM HexRoundTripHolds == Spec => []HexRoundTrip
<1>1. StoredValid => HexRoundTrip
  BY StringRoundTrip DEF StoredValid, HexRoundTrip
<1> QED
  BY <1>1, StoredValidInductive, PTL
====
