----------------------------- MODULE WireTypes -----------------------------
(***************************************************************************)
(* The infohash wire type of src/bittorrent/bittorrent.go: an InfoHash is  *)
(* a byte string of InfoHashV1Len (sha1.Size) or InfoHashV2Len            *)
(* (sha256.Size) bytes, built by NewInfoHash from a byte slice, an array   *)
(* or a raw or hex string, and printed by String in base 16.  A byte       *)
(* string is a sequence of naturals below 256; a Go string is the same     *)
(* byte sequence, and a hex digit is its ASCII code.                       *)
(***************************************************************************)
EXTENDS Naturals, Sequences

CONSTANTS
    InfoHashV1Len,  \* 20 in the code
    InfoHashV2Len   \* 32 in the code

\* The lengths keep the code's relations: a v1 hash is shorter than a v2
\* hash, and no hex form has the length of a raw hash.
ASSUME WireAssumptions ==
    /\ InfoHashV1Len \in Nat \ {0}
    /\ InfoHashV2Len \in Nat \ {0}
    /\ InfoHashV1Len < InfoHashV2Len
    /\ 2 * InfoHashV1Len # InfoHashV2Len

Byte == 0..255
InfoHashLens == {InfoHashV1Len, InfoHashV2Len}
NoneInfoHash == <<>>

(***************************************************************************)
(* encoding/hex, as NewInfoHash, String and the approval list use it.     *)
(***************************************************************************)
Digits == 48..57        \* '0'..'9'
LowerHex == 97..102     \* 'a'..'f'
UpperHex == 65..70      \* 'A'..'F'

\* fromHexChar: the value of a hex digit of either case.
IsHexChar(ch) == ch \in Digits \cup LowerHex \cup UpperHex
FromHexChar(ch) ==
    CASE ch \in Digits   -> ch - 48
      [] ch \in LowerHex -> ch - 87
      [] ch \in UpperHex -> ch - 55

\* The lower-case digit of a nibble, as hextable holds it.
HexChar(n) == IF n < 10 THEN 48 + n ELSE 87 + n

\* hex.DecodeString fails on an odd length or on any byte that is not a
\* hex digit; otherwise byte k is made of characters 2k-1 and 2k.
DecodeOk(s) == Len(s) % 2 = 0 /\ \A k \in 1..Len(s) : IsHexChar(s[k])
DecodeString(s) ==
    [k \in 1..(Len(s) \div 2) |-> 16 * FromHexChar(s[2 * k - 1]) + FromHexChar(s[2 * k])]

\* hex.EncodeToString writes the high nibble of each byte first.
EncodeToStringLowNibbleFirst(b) ==
    [k \in 1..(2 * Len(b)) |->
        IF k % 2 = 1 THEN HexChar(b[(k + 1) \div 2] % 16) ELSE HexChar(b[k \div 2] \div 16)]

EncodeToString(b) ==
    [k \in 1..(2 * Len(b)) |->
        IF k % 2 = 1 THEN HexChar(b[(k + 1) \div 2] \div 16) ELSE HexChar(b[k \div 2] % 16)]

(***************************************************************************)
(* NewInfoHash (lines 74-103).  Its argument is an interface{}: kind is    *)
(* its dynamic type ("nil", "array" for both fixed-size arrays, "bytes",   *)
(* "string", "other" for any other type) and v its bytes.  The result is   *)
(* [ok, ih]: ok is FALSE where the code returns an error, with             *)
(* NoneInfoHash.                                                           *)
(***************************************************************************)
Failed == [ok |-> FALSE, ih |-> NoneInfoHash]

\* The bytes the type switch yields: a string of a hex form's length is
\* hex-decoded, any other string taken raw; a type the switch does not
\* list leaves ba nil.
SwitchBytes(kind, v) ==
    CASE kind \in {"array", "bytes"} -> v
      [] kind = "string" ->
            IF Len(v) \in {2 * InfoHashV1Len, 2 * InfoHashV2Len} THEN DecodeString(v) ELSE v
      [] kind = "other" -> NoneInfoHash

NewInfoHash(kind, v) ==
    IF \/ kind = "nil"
       \/ kind = "string" /\ Len(v) \in {2 * InfoHashV1Len, 2 * InfoHashV2Len} /\ ~DecodeOk(v)
       \/ Len(SwitchBytes(kind, v)) \notin InfoHashLens
    THEN Failed
    ELSE [ok |-> TRUE, ih |-> SwitchBytes(kind, v)]

\* InfoHash.String (lines 105-108).
String(ih) == EncodeToString(ih)
====
