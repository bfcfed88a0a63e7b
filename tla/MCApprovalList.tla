--------------------------- MODULE MCApprovalList ---------------------------
(* Model-checking instance of ApprovalList: a v1 infohash of one byte and  *)
(* a v2 infohash of three (20 and 32 in the code), bytes from a small set, *)
(* and hash_list entries in both cases, malformed and of a wrong length.   *)
EXTENDS ApprovalList

ByteVals == {0, 171, 255}

MCRequestHashes ==
    [1..InfoHashV1Len -> ByteVals] \cup [1..InfoHashV2Len -> ByteVals]

\* "ab", "AB", "ff", "zz", "ab00", "00abff" as ASCII codes.
LowAB == <<97, 98>>
UpAB == <<65, 66>>
LowFF == <<102, 102>>
NotHex == <<122, 122>>
TooLong == <<97, 98, 48, 48>>
HexV2 == <<48, 48, 97, 98, 102, 102>>

HashLists == {<<>>, <<LowAB>>, <<UpAB, LowFF>>, <<HexV2>>, <<LowAB, NotHex>>, <<TooLong>>}

MCConfigs ==
    [parses : {TRUE}, hashList : HashLists, invert : BOOLEAN, storageCtx : {"", "tracker"}]
    \cup {[parses |-> FALSE, hashList |-> <<>>, invert |-> FALSE, storageCtx |-> ""]}
====
