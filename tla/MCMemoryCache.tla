--------------------------- MODULE MCMemoryCache ---------------------------
(* cachex.Memory for TLC: few goroutines, one real key and the empty key. *)
EXTENDS MemoryCacheContract, TLC

CONSTANTS t1, t2, k1, emptyKey, v1, v2

MCThreads == {t1, t2}
MCKeys == {k1, emptyKey}
MCValues == {v1, v2}
MCTTLs == {-1, 0, 1}
Symmetry == Permutations(MCThreads) \cup Permutations(MCValues)
============================================================================
