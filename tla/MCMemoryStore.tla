--------------------------- MODULE MCMemoryStore ---------------------------
(* blobx.MemoryStore for TLC: everybody may do everything on one key. *)
EXTENDS MemoryStore, TLC

CONSTANTS t1, t2, key, badKey, v1, v2

MCThreads == {t1, t2}
MCVersions == {v1, v2}
MCChunks == v1 :> 0 @@ v2 :> 2
MCKeys == {key}
MCCalls == [t \in MCThreads |->
    [op : {"put"}, key : {key}, version : MCVersions \cup {Nothing}]
    \cup [op : {"get", "stat", "delete"}, key : {key, badKey}, version : {Nothing}]]
Symmetry == Permutations(MCThreads)
============================================================================
