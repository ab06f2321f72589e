---------------------------- MODULE MCFileStore ----------------------------
(* blobx.FileStore for TLC: few goroutines, two bodies of one and two chunks. *)
EXTENDS FileStore, TLC

CONSTANTS t1, t2, a, ab, badKey, v1, v2

MCThreads == {t1, t2}
MCVersions == {v1, v2}
MCChunks == v1 :> 1 @@ v2 :> 2

\* "a" alone: no key is a directory on the way to another.
FlatKeys == {a}
FlatAbove == [k \in FlatKeys |-> {}]

\* "a" and "a/b".
NestedKeys == {a, ab}
NestedAbove == a :> {} @@ ab :> {a}

Puts(K, V) == [op : {"put"}, key : K, version : V]
Others(ops, K) == [op : ops, key : K, version : {Nothing}]

\* Everybody may do everything, on a valid or on a rejected key.
AllCalls(K) == [t \in MCThreads |->
    Puts(K, MCVersions \cup {Nothing}) \cup Others({"get", "stat", "delete"}, K \cup {badKey})]
OneKeyCalls == AllCalls(FlatKeys)

\* One goroutine writes, the other reads.
SplitCalls == t1 :> (Puts(NestedKeys, MCVersions) \cup Others({"delete"}, NestedKeys))
              @@ t2 :> Others({"get", "stat"}, NestedKeys)

\* Everybody writes, reads and deletes a key and the directory it is in.
TreeCalls == [t \in MCThreads |->
    Puts(NestedKeys, MCVersions) \cup Others({"get", "delete"}, NestedKeys)
    \cup Others({"get"}, {badKey})]

Symmetry == Permutations(MCThreads)
============================================================================
