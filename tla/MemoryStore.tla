---------------------------- MODULE MemoryStore ----------------------------
(***************************************************************************)
(* blobx.MemoryStore (blobx/testing.go), used by concurrent goroutines.    *)
(* Put reads the body before it takes the lock; each section under s.mu is *)
(* one action.  applied and seen are history variables: they record        *)
(* whether the pending call has taken effect and what it overlapped.       *)
(***************************************************************************)
EXTENDS Naturals

CONSTANTS
    Threads,   \* goroutines that use the store
    Keys,      \* keys that NormalizeKey accepts
    BadKey,    \* a key that NormalizeKey rejects
    Versions,  \* bodies with their content types
    Chunks,    \* Chunks[v]: the length of the body of v
    CallsOf,   \* CallsOf[t]: the calls that goroutine t makes
    Nothing,   \* no object; for a Put, a nil body
    NoCall     \* the goroutine is outside the store

VARIABLES
    objects,   \* the map: data (version and chunks of it) and info
    pc,        \* where each goroutine is
    call,      \* the arguments of its call
    buffer,    \* how many chunks of the body its Put has read
    answer,    \* what its last call returned; none while pending
    applied, seen

vars == <<objects, pc, call, buffer, answer, applied, seen>>

Object == [data : Versions, chunks : Nat, info : Versions]
Call == [op : {"put", "get", "stat", "delete"}, key : Keys \cup {BadKey},
         version : Versions \cup {Nothing}]
Answer == [kind : {"none", "ok", "notfound", "error", "canceled", "refused", "panic"},
           size : Versions \cup {Nothing}, body : Versions \cup {Nothing}]

ASSUME BodyAssumption == Chunks \in [Versions -> Nat]
ASSUME CallAssumption ==
    /\ BadKey \notin Keys
    /\ CallsOf \in [Threads -> SUBSET Call]
    /\ \A t \in Threads : \A a \in CallsOf[t] : a.op = "delete" => a.version = Nothing
ASSUME MarkAssumption == Nothing \notin Versions \cup Object /\ NoCall \notin Call

Reply(kind, size, body) == [kind |-> kind, size |-> size, body |-> body]
Plain(kind) == Reply(kind, Nothing, Nothing)

TypeOK ==
    /\ objects \in [Keys -> Object \cup {Nothing}]
    /\ pc \in [Threads -> {"idle", "put", "get", "stat", "delete", "lock", "unlocked"}]
    /\ call \in [Threads -> Call \cup {NoCall}]
    /\ buffer \in [Threads -> Nat]
    /\ answer \in [Threads -> Answer]
    /\ applied \in [Threads -> BOOLEAN]
    /\ seen \in [Threads -> SUBSET (Versions \cup {Nothing})]

Init ==
    /\ objects = [k \in Keys |-> Nothing]
    /\ pc = [t \in Threads |-> "idle"]
    /\ call = [t \in Threads |-> NoCall]
    /\ buffer = [t \in Threads |-> 0]
    /\ answer = [t \in Threads |-> Plain("none")]
    /\ applied = [t \in Threads |-> FALSE]
    /\ seen = [t \in Threads |-> {}]

----------------------------------------------------------------------------
Goto(t, label) == pc' = [pc EXCEPT ![t] = label]

Invoke(t) ==
    /\ pc[t] = "idle"
    /\ \E a \in CallsOf[t] : call' = [call EXCEPT ![t] = a] /\ Goto(t, a.op)
    /\ answer' = [answer EXCEPT ![t] = Plain("none")]
    /\ UNCHANGED <<objects, buffer, applied>>

Return(t, r) ==
    /\ Goto(t, "idle")
    /\ call' = [call EXCEPT ![t] = NoCall]
    /\ buffer' = [buffer EXCEPT ![t] = 0]
    /\ answer' = [answer EXCEPT ![t] = r]
    /\ applied' = [applied EXCEPT ![t] = FALSE]

\* ctx.Err() at the head of Get and Delete, and in every round of Put's
\* copyContext; the body's reader may fail there too.
Stopped(t) ==
    /\ pc[t] \in {"put", "get", "stat", "delete"}
    /\ pc[t] = "put" => call[t].key # BadKey
    /\ \/ Return(t, Plain("canceled"))
       \/ /\ pc[t] = "put" /\ call[t].version # Nothing
          /\ Return(t, Plain("error"))
    /\ UNCHANGED objects

Refused(t) ==
    /\ pc[t] \in {"put", "get", "stat", "delete"}
    /\ call[t].key = BadKey
    /\ Return(t, Plain("refused"))
    /\ UNCHANGED objects

\* copyContext reads from a nil body: unlike the other stores, Put does not
\* look, and panics.
PutPanics(t) ==
    /\ pc[t] = "put" /\ call[t].key # BadKey
    /\ call[t].version = Nothing
    /\ Return(t, Plain("panic"))
    /\ UNCHANGED objects

\* A round of copyContext, into the buffer and the hash.
PutCopyChunk(t) ==
    /\ pc[t] = "put" /\ call[t].key # BadKey /\ call[t].version # Nothing
    /\ buffer[t] < Chunks[call[t].version]
    /\ buffer' = [buffer EXCEPT ![t] = @ + 1]
    /\ UNCHANGED <<objects, pc, call, answer, applied>>

PutCopyDone(t) ==
    /\ pc[t] = "put" /\ call[t].key # BadKey /\ call[t].version # Nothing
    /\ buffer[t] = Chunks[call[t].version]
    /\ Goto(t, "lock")
    /\ UNCHANGED <<objects, call, buffer, answer, applied>>

\* Mutant: an object that exists is kept.
PutStoreOnce(t) ==
    /\ pc[t] = "lock"
    /\ objects' = [objects EXCEPT ![call[t].key] =
          IF @ # Nothing THEN @
          ELSE [data |-> call[t].version, chunks |-> buffer[t], info |-> call[t].version]]
    /\ applied' = [applied EXCEPT ![t] = TRUE]
    /\ Goto(t, "unlocked")
    /\ UNCHANGED <<call, buffer, answer>>

\* Put under s.mu.
PutStore(t) ==
    /\ pc[t] = "lock"
    /\ objects' = [objects EXCEPT ![call[t].key] =
          [data |-> call[t].version, chunks |-> buffer[t], info |-> call[t].version]]
    /\ applied' = [applied EXCEPT ![t] = TRUE]
    /\ Goto(t, "unlocked")
    /\ UNCHANGED <<call, buffer, answer>>

\* Delete under s.mu.
DeleteRemove(t) ==
    /\ pc[t] = "delete" /\ call[t].key # BadKey
    /\ objects' = [objects EXCEPT ![call[t].key] = Nothing]
    /\ applied' = [applied EXCEPT ![t] = TRUE]
    /\ Goto(t, "unlocked")
    /\ UNCHANGED <<call, buffer, answer>>

\* Put returns its info, Delete nil.
Written(t) ==
    /\ pc[t] = "unlocked"
    /\ Return(t, Reply("ok", call[t].version, Nothing))
    /\ UNCHANGED objects

\* Get, and Stat through it, under s.mu.RLock; the slice that is cloned
\* afterwards is never written again.
Read(t) ==
    LET o == objects[call[t].key] IN
    /\ pc[t] \in {"get", "stat"} /\ call[t].key # BadKey
    /\ Return(t, IF o = Nothing THEN Plain("notfound")
                 ELSE Reply("ok", o.info, IF pc[t] = "get" THEN o.data ELSE Nothing))
    /\ UNCHANGED objects

\* The objects as the contract knows them: by the Put whose whole body, with its own
\* metadata, is stored.  A torn object is mapped to itself, which no contract allows.
Whole(o) == o.chunks = Chunks[o.data] /\ o.info = o.data
Stored == [k \in Keys |-> IF objects[k] # Nothing /\ Whole(objects[k])
                          THEN objects[k].data ELSE objects[k]]

Observe ==
    seen' = [t \in Threads |->
                IF call'[t] = NoCall THEN {}
                ELSE IF call'[t].key = BadKey THEN {}
                ELSE seen[t] \cup {Stored'[call'[t].key]}]

Step(t) ==
    \/ Invoke(t) \/ Stopped(t) \/ Refused(t) \/ PutPanics(t) \/ PutCopyChunk(t)
    \/ PutCopyDone(t) \/ PutStore(t) \/ DeleteRemove(t) \/ Written(t) \/ Read(t)

Next == (\E t \in Threads : Step(t)) /\ Observe

Spec == Init /\ [][Next]_vars

----------------------------------------------------------------------------
Answers == [t \in Threads |->
    [answer[t] EXCEPT !.kind = IF @ = "panic" THEN "refused" ELSE @]]

Contract ==
    INSTANCE ObjectStore WITH
       Callers <- Threads, objects <- Stored, late <- {}, answer <- Answers

\* The test double keeps the promise of blobx.Store (blob.go:31-37): calls
\* behave as on a map of whole objects, with nothing left behind by a failed
\* one.  A nil body counts as refused, although here the refusal is a panic.
ImplementsObjectStore == Contract!Spec

\* What a goroutine has in hand between its sections under s.mu, and what its call
\* has seen: with whole objects, the reason why the promise is kept.
InHand(t) ==
    /\ pc[t] = "idle" <=> call[t] = NoCall
    /\ pc[t] \in {"put", "get", "stat", "delete"} => call[t].op = pc[t]
    /\ pc[t] = "lock" =>
          /\ call[t].op = "put" /\ call[t].key \in Keys /\ call[t].version \in Versions
          /\ buffer[t] = Chunks[call[t].version]
    /\ pc[t] = "unlocked" <=> applied[t]
    /\ call[t] # NoCall /\ call[t].op = "delete" => call[t].version = Nothing
    /\ call[t] = NoCall \/ call[t].key = BadKey => seen[t] = {}
    /\ call[t] # NoCall /\ call[t].key # BadKey => Stored[call[t].key] \in seen[t]

MemoryInv ==
    /\ TypeOK
    /\ \A k \in Keys : objects[k] # Nothing => Whole(objects[k])
    /\ \A t \in Threads : InHand(t)
============================================================================
