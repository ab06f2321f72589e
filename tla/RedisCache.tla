----------------------------- MODULE RedisCache -----------------------------
(***************************************************************************)
(* cachex.RedisCache (cachex/redis.go) and the JSON helpers over it        *)
(* (cachex/encoding.go): several caches, told apart by their prefix only,  *)
(* share one Redis server.  A command may be lost, its answer may be lost, *)
(* go-redis may send it again, and a copy may arrive after its caller has  *)
(* given up.  A key is a sequence of characters, since key() concatenates. *)
(* A value is its provenance and its JSON type: nothing else of it matters.*)
(***************************************************************************)
EXTENDS Integers, Sequences, FiniteSets

CONSTANTS
    Callers,   \* goroutines that use the caches
    Caches,    \* instances of RedisCache on one server
    Prefix,    \* Prefix[x]: the KeyPrefix of cache x
    CallsOf,   \* CallsOf[c]: the calls that caller c makes
    Types,     \* JSON types of values
    Opaque,    \* the type of values that json.Marshal refuses
    Ms,        \* units of the clock in a millisecond
    MaxSends,  \* bound: copies of one command (MaxRetries + 1)
    MaxLate,   \* bound: commands on their way without a caller when a call begins
    MaxTime,   \* bound: the clock
    Nothing, NoCall, Nobody

VARIABLES
    db,        \* the entries of the server, expired ones included
    clock,     \* the time
    call,      \* the pending call of each caller
    sends,     \* copies of its command sent so far
    inbox,     \* the answer to the last copy, or Nothing
    wire,      \* commands on their way to the server
    answer,    \* what the last call of each caller returned; none while pending
    seen,      \* history: the views of its path that the pending call overlapped
    applied    \* history: the server has executed the command of the call

vars == <<db, clock, call, sends, inbox, wire, answer, seen, applied>>

Writes == {"set", "setjson", "delete"}
Call == [op : Writes \cup {"get", "getjson"}, cache : Caches, key : Seq(STRING),
         type : Types \cup {Opaque}, ttl : Int]

\* All calls that are ever made.
Calls == UNION {CallsOf[c] : c \in Callers}

\* Only SetJSON takes values of any type; Set takes bytes.
ASSUME CallAssumption ==
    /\ Calls \subseteq Call
    /\ \A a \in Calls : a.type = Opaque => a.op = "setjson"
    /\ \A x \in Caches : Prefix[x] \in Seq(STRING)
ASSUME BoundAssumption ==
    Ms \in Nat \ {0} /\ MaxSends \in Nat \ {0} /\ MaxTime \in Nat
ASSUME MarkAssumption == NoCall \notin Call /\ Nobody \notin Callers /\ Opaque \notin Types

\* Mutant: the prefix is forgotten.
PathBare(a) == a.key

\* RedisCache.key: no separator between the prefix and the key.
Path(a) == Prefix[a.cache] \o a.key

Paths == {Path(a) : a \in Calls}

\* Mutant: a negative TTL reaches go-redis, which then sets no deadline.
CommandOpNegative(a) ==
    IF a.op \in {"get", "getjson"} THEN "get"
    ELSE IF a.op = "delete" THEN "del" ELSE "set"

\* The command that a call turns into: a negative TTL deletes.
CommandOp(a) ==
    IF a.op \in {"get", "getjson"} THEN "get"
    ELSE IF a.op = "delete" \/ a.ttl < 0 THEN "del" ELSE "set"

\* go-redis rounds a TTL down to milliseconds, but not to none.
Milliseconds(ttl) == IF ttl < Ms THEN 1 ELSE ttl \div Ms

\* The server counts whole milliseconds and drops an entry when its last one
\* has passed; until = 0 means that the entry persists.
Visible(e, t) ==
    IF e = Nothing THEN Nothing
    ELSE IF e.until = 0 \/ t \div Ms <= e.until THEN e.value ELSE Nothing

Stored(a) ==
    [value |-> [cache |-> a.cache, key |-> a.key, type |-> a.type],
     until |-> IF a.ttl <= 0 THEN 0 ELSE clock \div Ms + Milliseconds(a.ttl),
     at |-> clock, ttl |-> a.ttl]

Plain(kind) == [kind |-> kind, value |-> Nothing]

Init ==
    /\ db = [p \in Paths |-> Nothing]
    /\ clock = 0
    /\ call = [c \in Callers |-> NoCall]
    /\ sends = [c \in Callers |-> 0]
    /\ inbox = [c \in Callers |-> Nothing]
    /\ wire = {}
    /\ answer = [c \in Callers |-> Plain("none")]
    /\ seen = [c \in Callers |-> {}]
    /\ applied = [c \in Callers |-> FALSE]

----------------------------------------------------------------------------
Begin(c) ==
    /\ call[c] = NoCall
    /\ Cardinality({w \in wire : w.to = Nobody}) <= MaxLate
    /\ \E a \in CallsOf[c] :
          /\ call' = [call EXCEPT ![c] = a]
          /\ seen' = [seen EXCEPT ![c] =
                IF CommandOp(a) = "get" THEN {Visible(db[Path(a)], clock)} ELSE {}]
    /\ answer' = [answer EXCEPT ![c] = Plain("none")]
    /\ applied' = [applied EXCEPT ![c] = FALSE]
    /\ UNCHANGED <<db, clock, sends, inbox, wire>>

\* The call ends; copies of its command may still be on their way, of which
\* those of a Get do not matter and those of a write count as one.
Return(c, r) ==
    /\ call' = [call EXCEPT ![c] = NoCall]
    /\ sends' = [sends EXCEPT ![c] = 0]
    /\ inbox' = [inbox EXCEPT ![c] = Nothing]
    /\ answer' = [answer EXCEPT ![c] = r]
    /\ wire' = {w \in wire : w.to # c}
               \cup {[w EXCEPT !.to = Nobody, !.copy = 1] :
                       w \in {u \in wire : u.to = c /\ CommandOp(u.call) # "get"}}
    /\ UNCHANGED <<db, clock, applied, seen>>

Unencodable(a) == a.op = "setjson" /\ a.type = Opaque

\* SetJSON: json.Marshal comes before everything else.
EncodeFails(c) ==
    /\ call[c] # NoCall /\ Unencodable(call[c])
    /\ Return(c, Plain("encode"))

\* Every method refuses the empty key.
EmptyKey(c) ==
    /\ call[c] # NoCall /\ ~Unencodable(call[c])
    /\ call[c].key = <<>>
    /\ Return(c, Plain("badkey"))

\* The call has reached the client.
Accepted(c) == call[c] # NoCall /\ ~Unencodable(call[c]) /\ call[c].key # <<>>

\* The client sends the command, and again when no answer came in time; an
\* answer to an earlier copy is not read.
Send(c) ==
    /\ Accepted(c) /\ sends[c] < MaxSends /\ inbox[c] = Nothing
    /\ sends' = [sends EXCEPT ![c] = @ + 1]
    /\ wire' = wire \cup {[to |-> c, copy |-> sends'[c], call |-> call[c]]}
    /\ UNCHANGED <<db, clock, call, inbox, answer, seen, applied>>

Reading(c, p) ==
    call[c] # NoCall /\ CommandOp(call[c]) = "get" /\ Path(call[c]) = p

\* The server executes a command in one step and answers.
Execute ==
    \E w \in wire :
      LET p == Path(w.call)
          v == Visible(db[p], clock) IN
      /\ wire' = wire \ {w}
      /\ db' = CASE CommandOp(w.call) = "get" -> db
                 [] CommandOp(w.call) = "set" -> [db EXCEPT ![p] = Stored(w.call)]
                 [] CommandOp(w.call) = "del" -> [db EXCEPT ![p] = Nothing]
      /\ IF w.to = Nobody THEN UNCHANGED <<inbox, applied>>
         ELSE /\ applied' = [applied EXCEPT ![w.to] = CommandOp(w.call) # "get"]
              /\ IF w.copy # sends[w.to] THEN UNCHANGED inbox
                 ELSE \/ inbox' = [inbox EXCEPT ![w.to] =
                            IF CommandOp(w.call) # "get" THEN Plain("done")
                            ELSE IF v = Nothing THEN Plain("nil")
                            ELSE [kind |-> "value", value |-> v]]
                      \/ UNCHANGED inbox
      /\ seen' = [c \in Callers |->
                    IF Reading(c, p) THEN seen[c] \cup {Visible(db'[p], clock)} ELSE seen[c]]
      /\ UNCHANGED <<clock, call, sends, answer>>

Lose ==
    /\ \E w \in wire : wire' = wire \ {w}
    /\ UNCHANGED <<db, clock, call, sends, inbox, answer, seen, applied>>

\* Mutant: a failing server looks like an absent key.
ProviderFailsMiss(c) ==
    /\ Accepted(c)
    /\ Return(c, Plain(IF CommandOp(call[c]) = "get" THEN "miss" ELSE "error"))

\* Mutant: the error of a Set is dropped.
ProviderFailsSilently(c) ==
    /\ Accepted(c)
    /\ Return(c, Plain(IF CommandOp(call[c]) = "set" THEN "ok" ELSE "error"))

\* The context ends, the server answers with an error, or the last copy is
\* given up; the error is wrapped whatever the operation.
ProviderFails(c) ==
    /\ Accepted(c)
    /\ Return(c, Plain("error"))

\* GetJSON decodes what Get returns.
Decoded(a, v) ==
    IF a.op = "getjson" /\ v.type # a.type THEN Plain("decode") ELSE [kind |-> "hit", value |-> v]

\* The answer to Get: goredis.Nil becomes ErrMiss.
GetAnswered(c) ==
    /\ call[c] # NoCall /\ inbox[c] # Nothing /\ CommandOp(call[c]) = "get"
    /\ Return(c, IF inbox[c].kind = "nil" THEN Plain("miss") ELSE Decoded(call[c], inbox[c].value))

WriteAnswered(c) ==
    /\ call[c] # NoCall /\ inbox[c] # Nothing /\ CommandOp(call[c]) # "get"
    /\ Return(c, Plain("ok"))

Tick ==
    /\ clock < MaxTime
    /\ clock' = clock + 1
    /\ seen' = [c \in Callers |->
                  seen[c] \cup {Visible(db[p], clock') : p \in {q \in Paths : Reading(c, q)}}]
    /\ UNCHANGED <<db, call, sends, inbox, wire, answer, applied>>

Next ==
    \/ Execute \/ Lose \/ Tick
    \/ \E c \in Callers :
         \/ Begin(c) \/ EncodeFails(c) \/ EmptyKey(c) \/ Send(c)
         \/ ProviderFails(c) \/ GetAnswered(c) \/ WriteAnswered(c)

Spec == Init /\ [][Next]_vars
----------------------------------------------------------------------------
Value == [cache : Caches, key : Seq(STRING), type : Types]
Entry == [value : Value, until : Nat, at : Nat, ttl : Nat]
Command == [to : Callers \cup {Nobody}, copy : 1 .. MaxSends, call : Calls]
Reply(kinds) == [kind : kinds, value : Value \cup {Nothing}]

TypeOK ==
    /\ db \in [Paths -> Entry \cup {Nothing}]
    /\ clock \in 0 .. MaxTime
    /\ call \in [Callers -> Calls \cup {NoCall}]
    /\ sends \in [Callers -> 0 .. MaxSends]
    /\ inbox \in [Callers -> Reply({"done", "nil", "value"}) \cup {Nothing}]
    /\ wire \subseteq Command
    /\ answer \in [Callers -> Reply({"none", "hit", "miss", "ok", "error", "badkey",
                                      "encode", "decode"})]
    /\ seen \in [Callers -> SUBSET (Value \cup {Nothing})]
    /\ applied \in [Callers -> BOOLEAN]

\* Get answers only with what its path showed during the call: a value that was
\* live then, and ErrMiss only if there was none; neither a failing server nor a
\* value of another type is a miss (redis.go:35-43, encoding.go:28-38).
AnswersFromCall ==
    \A c \in Callers :
       /\ answer[c].kind = "hit" => answer[c].value \in seen[c]
       /\ answer[c].kind = "miss" => Nothing \in seen[c]

\* A write that reports success has been executed by the server during the call,
\* retries and lost answers included, and a refused one never (redis.go:46-69).
SuccessMeansApplied ==
    \A c \in Callers :
       /\ answer[c].kind = "ok" => applied[c]
       /\ answer[c].kind \in {"badkey", "encode"} => ~applied[c]

Extends(p, q) == Len(q) < Len(p) /\ SubSeq(p, 1, Len(q)) = q

\* What lies under the path of a cache's key was set through a cache with the same
\* prefix under the same key, unless one prefix extends the other: then "a" + "bc"
\* and "ab" + "c" are one path (redis.go:71-73).
KeysKeptApart ==
    \A c \in Callers : \A a \in CallsOf[c] :
       LET e == db[Path(a)] IN
       e # Nothing =>
          \/ Prefix[e.value.cache] = Prefix[a.cache] /\ e.value.key = a.key
          \/ Extends(Prefix[e.value.cache], Prefix[a.cache])
          \/ Extends(Prefix[a.cache], Prefix[e.value.cache])

\* An entry lives for its TTL, up to a millisecond less and up to two more, or
\* for ever when the TTL is zero; a negative TTL leaves none (redis.go:46-55).
Lifetimes ==
    \A p \in Paths : db[p] # Nothing =>
       LET e == db[p]
           life == (e.until + 1) * Ms - e.at IN
       \/ e.ttl = 0 /\ e.until = 0
       \/ e.ttl > 0 /\ e.ttl - Ms < life /\ life < e.ttl + 2 * Ms
=============================================================================
