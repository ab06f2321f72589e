------------------------ MODULE MemoryCacheContract ------------------------
(***************************************************************************)
(* cachex.Memory against the contract of cachex.Cache.  Two history        *)
(* variables are added to MemoryCache: when the pending call of a          *)
(* goroutine began, and which live entries of its key the call overlapped. *)
(* They record and never constrain the steps.                              *)
(***************************************************************************)
EXTENDS MemoryCache

VARIABLES
    since,   \* when the pending call of each goroutine began, 0 outside a call
    seen     \* what was live under its key at the instants of the call

varsH == <<entries, now, pc, call, item, answer, since, seen>>

\* The entries a reader of the map could still be given at time t.
Visible(e, t) == IF e = Nothing THEN Nothing
                 ELSE IF Expired(e, t) THEN Nothing ELSE e
View == [k \in Keys |-> Visible(entries[k], now)]

Contract == INSTANCE CacheContract WITH Callers <- Threads, view <- View

Observe ==
    seen' = [t \in Threads |->
                IF call'[t] = NoCall THEN {}
                ELSE seen[t] \cup {Visible(entries'[call'[t].key], now')}]

InitH ==
    /\ Init
    /\ since = [t \in Threads |-> 0]
    /\ seen = [t \in Threads |-> {}]

StepH(t) ==
    /\ Step(t)
    /\ since' = [since EXCEPT ![t] = IF pc[t] = "idle" THEN now
                                     ELSE IF pc'[t] = "idle" THEN 0 ELSE @]
    /\ Observe

TickH == Tick /\ UNCHANGED since /\ Observe

NextH == TickH \/ \E t \in Threads : StepH(t)

SpecH == InitH /\ [][NextH]_varsH

TypeOKH ==
    /\ TypeOK
    /\ since \in [Threads -> Nat]
    /\ seen \in [Threads -> SUBSET (Entry \cup {Nothing})]

----------------------------------------------------------------------------
\* The program counter and the pending call agree: Get never reaches the
\* store, Set and Delete never reach the deadline check, and past the head
\* checks of Set and Delete the key is not empty.
PcMatchesCall(t) ==
    /\ pc[t] = "idle" <=> call[t] = NoCall
    /\ pc[t] \in {"get", "check", "evict"} => call[t].op = "get"
    /\ pc[t] \in {"set", "store"} => call[t].op = "set" /\ call[t].value \in Values
    /\ pc[t] = "store" => call[t].ttl >= 0 /\ call[t].key # EmptyKey
    /\ pc[t] = "delete" => \/ call[t].op = "delete"
                           \/ call[t].op = "set" /\ call[t].ttl < 0

\* What Get carries across its unlocked window: the copied entry was live
\* under the key at an instant of the call, or it was already expired and the
\* key was then absent; past the check it is expired.
CopyOverlaps(t) ==
    /\ pc[t] \in {"check", "evict"} =>
          /\ item[t] # Nothing
          /\ \/ item[t] \in seen[t]
             \/ Nothing \in seen[t] /\ Expired(item[t], now)
    /\ pc[t] = "evict" => Expired(item[t], now)

\* The pending call has seen the present view of its key.
SeesPresent(t) ==
    IF call[t] = NoCall THEN seen[t] = {}
    ELSE Visible(entries[call[t].key], now) \in seen[t]

\* What Set carries to the lock: its own value, with a deadline read from the
\* clock during the call.
BuiltFromCall(t) ==
    /\ since[t] <= now
    /\ pc[t] = "store" =>
          /\ item[t] # Nothing
          /\ item[t].value = call[t].value
          /\ item[t].expiresAt \in
                IF call[t].ttl = 0 THEN {0}
                ELSE (since[t] + call[t].ttl) .. (now + call[t].ttl)

\* The inductive strengthening behind ImplementsContract: what each goroutine
\* carries between its lock sections (memory.go:36-49 and 65-71) is still
\* justified by what the map showed during its call.
WindowInv == \A t \in Threads :
    PcMatchesCall(t) /\ CopyOverlaps(t) /\ SeesPresent(t) /\ BuiltFromCall(t)

\* Lazy eviction never takes a live entry away: only a Delete, or a Set with a
\* negative TTL, makes a key whose entry is live absent (memory.go:43-48 drops
\* the lock between the check and the deletion).
OnlyDeleteDropsLive ==
    [][\A k \in Keys :
          entries[k] # Nothing /\ ~Expired(entries[k], now) /\ entries'[k] = Nothing
            => \E t \in Threads : pc[t] = "delete" /\ call[t].key = k]_varsH

\* The cache implements its contract: every answer is the one a map with
\* exact deadlines could have given at an instant of the call, and the late
\* clean-up of expired entries is invisible (cache.go:13-22).
ImplementsContract == Contract!Spec

============================================================================
