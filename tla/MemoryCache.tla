---------------------------- MODULE MemoryCache ----------------------------
(***************************************************************************)
(* cachex.Memory (cachex/memory.go), used by concurrent goroutines.  Each  *)
(* action is one stretch of code between two accesses to shared state: a   *)
(* section under c.mu, or a reading of the clock c.now.  The clock only    *)
(* moves forward (time.Now carries a monotonic reading).                   *)
(***************************************************************************)
EXTENDS Integers

CONSTANTS
    Threads,   \* goroutines that use the cache
    Keys,      \* key strings, the empty one included
    EmptyKey,  \* the key ""
    Values,    \* byte slices
    TTLs,      \* the time.Duration arguments of Set
    Nothing,   \* no entry
    NoCall,    \* the goroutine is outside the cache
    MaxTime    \* bound on the clock

VARIABLES
    entries,   \* the map guarded by c.mu
    now,       \* what c.now() returns
    pc,        \* where each goroutine is
    call,      \* the arguments of its call
    item,      \* its local variable item
    answer     \* what its last call returned; none while pending

vars == <<entries, now, pc, call, item, answer>>

Entry == [value : Values, expiresAt : Nat]
Call == [op : {"get", "set", "delete"}, key : Keys,
         value : Values \cup {Nothing}, ttl : TTLs \cup {0}]
PC == {"idle", "get", "check", "evict", "set", "store", "delete"}
Answer == [kind : {"none", "hit", "miss", "ok", "canceled", "badkey"},
           value : Values \cup {Nothing}]

ASSUME KeyAssumption == EmptyKey \in Keys
ASSUME TTLAssumption == TTLs \subseteq Int
ASSUME TimeAssumption == MaxTime \in Nat
ASSUME NothingAssumption == Nothing \notin Entry \cup Values
ASSUME NoCallAssumption == NoCall \notin Call

GetCall(k) == [op |-> "get", key |-> k, value |-> Nothing, ttl |-> 0]
SetCall(k, v, d) == [op |-> "set", key |-> k, value |-> v, ttl |-> d]
DeleteCall(k) == [op |-> "delete", key |-> k, value |-> Nothing, ttl |-> 0]
Calls == {GetCall(k) : k \in Keys}
         \cup {SetCall(k, v, d) : k \in Keys, v \in Values, d \in TTLs}
         \cup {DeleteCall(k) : k \in Keys}

Plain(kind) == [kind |-> kind, value |-> Nothing]
Hit(v) == [kind |-> "hit", value |-> v]

\* !expiresAt.IsZero() && !now.Before(expiresAt); 0 is the zero time.
Expired(e, t) == e.expiresAt # 0 /\ t >= e.expiresAt

TypeOK ==
    /\ entries \in [Keys -> Entry \cup {Nothing}]
    /\ now \in Nat \ {0}
    /\ pc \in [Threads -> PC]
    /\ call \in [Threads -> Call \cup {NoCall}]
    /\ item \in [Threads -> Entry \cup {Nothing}]
    /\ answer \in [Threads -> Answer]

Init ==
    /\ entries = [k \in Keys |-> Nothing]
    /\ now = 1
    /\ pc = [t \in Threads |-> "idle"]
    /\ call = [t \in Threads |-> NoCall]
    /\ item = [t \in Threads |-> Nothing]
    /\ answer = [t \in Threads |-> Plain("none")]

Invoke(t) ==
    /\ pc[t] = "idle"
    /\ \E a \in Calls :
          /\ call' = [call EXCEPT ![t] = a]
          /\ pc' = [pc EXCEPT ![t] = a.op]
    /\ answer' = [answer EXCEPT ![t] = Plain("none")]
    /\ UNCHANGED <<entries, now, item>>

Return(t, r) ==
    /\ pc' = [pc EXCEPT ![t] = "idle"]
    /\ call' = [call EXCEPT ![t] = NoCall]
    /\ item' = [item EXCEPT ![t] = Nothing]
    /\ answer' = [answer EXCEPT ![t] = r]

\* ctx.Err() # nil at the head of Get, Set or Delete.
Canceled(t) ==
    /\ pc[t] \in {"get", "set", "delete"}
    /\ Return(t, Plain("canceled"))
    /\ UNCHANGED <<entries, now>>

\* Set and Delete refuse the empty key; Get looks it up.
EmptyKeyError(t) ==
    /\ pc[t] \in {"set", "delete"}
    /\ call[t].key = EmptyKey
    /\ Return(t, Plain("badkey"))
    /\ UNCHANGED <<entries, now>>

\* Get, under RLock: copy the map entry out; the lock is released before the
\* deadline is looked at.
GetRead(t) ==
    LET e == entries[call[t].key] IN
    /\ pc[t] = "get"
    /\ \/ /\ e = Nothing
          /\ Return(t, Plain("miss"))
       \/ /\ e # Nothing
          /\ e.expiresAt = 0
          /\ Return(t, Hit(e.value))
       \/ /\ e # Nothing
          /\ e.expiresAt # 0
          /\ pc' = [pc EXCEPT ![t] = "check"]
          /\ item' = [item EXCEPT ![t] = e]
          /\ UNCHANGED <<call, answer>>
    /\ UNCHANGED <<entries, now>>

\* Mutant: the deadline of the copy is not checked.
GetCheckNever(t) ==
    /\ pc[t] = "check"
    /\ Return(t, Hit(item[t].value))
    /\ UNCHANGED <<entries, now>>

\* Get, without a lock: c.now() against the deadline of the copy.
GetCheck(t) ==
    /\ pc[t] = "check"
    /\ IF Expired(item[t], now)
          THEN /\ pc' = [pc EXCEPT ![t] = "evict"]
               /\ UNCHANGED <<call, item, answer>>
          ELSE Return(t, Hit(item[t].value))
    /\ UNCHANGED <<entries, now>>

\* Mutant: the entry is deleted without comparing the deadlines.
GetEvictUnchecked(t) ==
    /\ pc[t] = "evict"
    /\ entries' = [entries EXCEPT ![call[t].key] = Nothing]
    /\ Return(t, Plain("miss"))
    /\ UNCHANGED now

\* Get, under Lock: delete the entry if the map still holds that deadline.
GetEvict(t) ==
    LET k == call[t].key
        current == entries[k]
    IN
    /\ pc[t] = "evict"
    /\ entries' = IF current # Nothing /\ current.expiresAt = item[t].expiresAt
                     THEN [entries EXCEPT ![k] = Nothing]
                     ELSE entries
    /\ Return(t, Plain("miss"))
    /\ UNCHANGED now

\* Mutant: a negative TTL is stored like any other.
SetBuildNegative(t) ==
    LET a == call[t] IN
    /\ pc[t] = "set"
    /\ a.key # EmptyKey
    /\ pc' = [pc EXCEPT ![t] = "store"]
    /\ item' = [item EXCEPT ![t] =
          [value |-> a.value,
           expiresAt |-> IF a.ttl # 0 THEN now + a.ttl ELSE 0]]
    /\ UNCHANGED <<entries, now, call, answer>>

\* Mutant: the TTL, whatever its sign, is stored as the deadline.
SetBuildRelative(t) ==
    LET a == call[t] IN
    /\ pc[t] = "set"
    /\ a.key # EmptyKey
    /\ pc' = [pc EXCEPT ![t] = "store"]
    /\ item' = [item EXCEPT ![t] = [value |-> a.value, expiresAt |-> a.ttl]]
    /\ UNCHANGED <<entries, now, call, answer>>

\* Set up to the lock: a negative TTL continues in Delete, otherwise the
\* entry is built and its deadline fixed from the clock.
SetBuild(t) ==
    LET a == call[t] IN
    /\ pc[t] = "set"
    /\ a.key # EmptyKey
    /\ IF a.ttl < 0
          THEN /\ pc' = [pc EXCEPT ![t] = "delete"]
               /\ UNCHANGED item
          ELSE /\ pc' = [pc EXCEPT ![t] = "store"]
               /\ item' = [item EXCEPT ![t] =
                     [value |-> a.value,
                      expiresAt |-> IF a.ttl > 0 THEN now + a.ttl ELSE 0]]
    /\ UNCHANGED <<entries, now, call, answer>>

\* Set, under Lock.
SetStore(t) ==
    /\ pc[t] = "store"
    /\ entries' = [entries EXCEPT ![call[t].key] = item[t]]
    /\ Return(t, Plain("ok"))
    /\ UNCHANGED now

\* Delete, under Lock; a missing key is no error.
DeleteRemove(t) ==
    /\ pc[t] = "delete"
    /\ call[t].key # EmptyKey
    /\ entries' = [entries EXCEPT ![call[t].key] = Nothing]
    /\ Return(t, Plain("ok"))
    /\ UNCHANGED now

Tick ==
    /\ now < MaxTime
    /\ now' = now + 1
    /\ UNCHANGED <<entries, pc, call, item, answer>>

Step(t) ==
    \/ Invoke(t) \/ Canceled(t) \/ EmptyKeyError(t)
    \/ GetRead(t) \/ GetCheck(t) \/ GetEvict(t)
    \/ SetBuild(t) \/ SetStore(t) \/ DeleteRemove(t)

Next == Tick \/ \E t \in Threads : Step(t)

Spec == Init /\ [][Next]_vars
=============================================================================
