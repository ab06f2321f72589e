----------------------------- MODULE MCS3Store -----------------------------
(* blobx.S3Store for TLC.  A path segment is a model value. *)
EXTENDS S3StoreContract, TLC

CONSTANTS c1, c2, c3, sp, sq, sa, badKey, v1, v2

MCVersions == {v1, v2}
MCSegments == {sp, sq, sa}
Puts(K, V) == [op : {"put"}, key : K, version : V]
Others(ops, K) == [op : ops, key : K, version : {Nothing}]
Signs(K) == [op : {"presign"}, key : K, version : {v1, Nothing}]

\* Stores under p and q, and one for the whole bucket; key "a" under p is key
\* "p/a" of the bucket.
TrioCallers == {c1, c2, c3}
TrioStoreOf == [c \in TrioCallers |-> c]
TrioPrefix == c1 :> <<sp>> @@ c2 :> <<sq>> @@ c3 :> <<>>
TrioKeys == {<<sa>>, <<sp, sa>>}
TrioCalls ==
    c1 :> (Puts({<<sa>>}, {v1, Nothing}) \cup Others({"get", "stat", "delete"}, {<<sa>>})
           \cup Others({"get"}, {badKey}) \cup Signs({<<sa>>}))
    @@ c2 :> Puts({<<sa>>}, {v2})
    @@ c3 :> Puts({<<sp, sa>>}, {v2})
============================================================================
