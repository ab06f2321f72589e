-------------------------- MODULE RedisCacheProofs --------------------------
(***************************************************************************)
(* Proofs about cachex.RedisCache for any callers, caches, prefixes, keys, *)
(* TTLs and calls, with any number of lost, repeated and late commands:    *)
(* answers belong to their call, success means done, caches are kept apart *)
(* by their prefixes, and entries live for their TTL.                      *)
(***************************************************************************)
EXTENDS RedisCache, SequenceTheorems, TLAPS

\* A command that has a caller is the command of its pending call, which the
\* client has accepted; no command carries a value that cannot be encoded.
OnTheWire ==
    \A w \in wire : /\ ~Unencodable(w.call)
                    /\ w.to # Nobody => call[w.to] = w.call /\ Accepted(w.to)

\* The pending Get has noted what its path shows.
Watched(c) ==
    \A p \in Paths : Reading(c, p) => Visible(db[p], clock) \in seen[c]

\* An answer of the server waits for its call only: a Get's was seen during the
\* call, a write has been executed.
Justified(c) ==
    /\ inbox[c] # Nothing =>
          /\ Accepted(c)
          /\ IF CommandOp(call[c]) = "get"
             THEN \/ inbox[c].kind = "nil" /\ Nothing \in seen[c]
                  \/ inbox[c].kind = "value" /\ inbox[c].value \in seen[c]
             ELSE applied[c]
    /\ call[c] # NoCall => answer[c].kind = "none" /\ (applied[c] => Accepted(c))

\* What is stored at a path was stored by a Set for this path, with a deadline
\* that fits its TTL.
Lives(e) ==
    LET life == (e.until + 1) * Ms - e.at IN
    \/ e.ttl = 0 /\ e.until = 0
    \/ e.ttl > 0 /\ e.ttl - Ms < life /\ life < e.ttl + 2 * Ms

Entries ==
    \A p \in Paths : db[p] # Nothing =>
       /\ p = Prefix[db[p].value.cache] \o db[p].value.key
       /\ Lives(db[p])

\* The inductive invariant.
RedisInv ==
    /\ TypeOK
    /\ OnTheWire
    /\ \A c \in Callers : Watched(c) /\ Justified(c)
    /\ Entries
    /\ AnswersFromCall
    /\ SuccessMeansApplied

-----------------------------------------------------------------------------
\* Division with remainder.
LEMMA Division ==
    ASSUME NEW n \in Nat, NEW d \in Nat \ {0}
    PROVE  /\ n \div d \in Nat
           /\ d * (n \div d) <= n /\ n < d * (n \div d) + d
OBVIOUS

\* The deadline that the server computes from a TTL fits it.
LEMMA DeadlineFits ==
    ASSUME NEW t \in Nat, NEW ttl \in Nat \ {0},
           NEW until, until = t \div Ms + Milliseconds(ttl)
    PROVE  /\ until \in Nat
           /\ ttl - Ms < (until + 1) * Ms - t
           /\ (until + 1) * Ms - t < ttl + 2 * Ms
<1> DEFINE q == t \div Ms
           m == Milliseconds(ttl)
<1>1. Ms \in Nat \ {0}
  BY BoundAssumption
<1>2. q \in Nat /\ Ms * q <= t /\ t < Ms * q + Ms
  BY <1>1, Division
<1>3. m \in Nat /\ ttl - Ms < Ms * m /\ Ms * m < ttl + Ms
  <2>1. CASE ttl < Ms
    BY <1>1, <2>1 DEF Milliseconds
  <2>2. CASE ~(ttl < Ms)
    <3>1. m = ttl \div Ms
      BY <2>2 DEF Milliseconds
    <3>2. /\ ttl \div Ms \in Nat
          /\ Ms * (ttl \div Ms) <= ttl /\ ttl < Ms * (ttl \div Ms) + Ms
      BY <1>1, Division
    <3> QED BY <1>1, <3>1, <3>2
  <2> QED BY <2>1, <2>2
<1>4. until = q + m
  OBVIOUS
<1>5. (until + 1) * Ms = Ms * q + Ms * m + Ms
  <2> HIDE DEF q, m
  <2> QED BY <1>1, <1>2, <1>3, <1>4
<1> HIDE DEF q, m
<1> QED BY <1>1, <1>2, <1>3, <1>4, <1>5

\* Two ways to cut one sequence in two are the same, or one first part is longer and
\* begins with the other.
LEMMA Cuts ==
    ASSUME NEW S, NEW p \in Seq(S), NEW k \in Seq(S), NEW q \in Seq(S), NEW l \in Seq(S),
           p \o k = q \o l
    PROVE  (p = q /\ k = l) \/ Extends(p, q) \/ Extends(q, p)
<1>1. CASE Len(p) = Len(q)
  <2>1. \A i \in 1 .. Len(p) : p[i] = q[i]
    <3> TAKE i \in 1 .. Len(p)
    <3>1. p[i] = (p \o k)[i] /\ q[i] = (q \o l)[i]
      BY <1>1
    <3> QED BY <3>1
  <2>2. p = q
    BY <1>1, <2>1, SeqEqual
  <2>3. Len(k) = Len(l) /\ \A i \in 1 .. Len(k) : k[i] = l[i]
    <3>1. Len(p \o k) = Len(p) + Len(k) /\ Len(q \o l) = Len(q) + Len(l)
      OBVIOUS
    <3>2. Len(k) = Len(l)
      BY <1>1, <3>1, LenProperties
    <3>3. ASSUME NEW i \in 1 .. Len(k) PROVE k[i] = l[i]
      <4>1. k[i] = (p \o k)[Len(p) + i] /\ l[i] = (q \o l)[Len(q) + i]
        BY <3>2, LenProperties
      <4> QED BY <4>1, <1>1
    <3> QED BY <3>2, <3>3
  <2> QED BY <2>2, <2>3, SeqEqual
<1>2. ASSUME NEW a \in Seq(S), NEW b \in Seq(S), NEW c \in Seq(S), NEW d \in Seq(S),
             a \o b = c \o d, Len(a) < Len(c)
      PROVE  Extends(c, a)
  <2>1. \A i \in 1 .. Len(a) : c[i] = a[i]
    <3> TAKE i \in 1 .. Len(a)
    <3>1. a[i] = (a \o b)[i] /\ c[i] = (c \o d)[i]
      BY <1>2, LenProperties
    <3> QED BY <3>1, <1>2
  <2>2. /\ SubSeq(c, 1, Len(a)) \in Seq(S)
        /\ Len(SubSeq(c, 1, Len(a))) = Len(a)
        /\ \A i \in 1 .. Len(a) : SubSeq(c, 1, Len(a))[i] = c[i]
    BY <1>2, LenProperties, SubSeqProperties
  <2>3. SubSeq(c, 1, Len(a)) = a
    BY <2>1, <2>2, SeqEqual
  <2> QED BY <1>2, <2>3 DEF Extends
<1>3. CASE Len(p) < Len(q)
  BY <1>2, <1>3
<1>4. CASE Len(q) < Len(p)
  BY <1>2, <1>4
<1>5. Len(p) \in Nat /\ Len(q) \in Nat
  BY LenProperties
<1> QED BY <1>1, <1>3, <1>4, <1>5

-----------------------------------------------------------------------------
\* Every call of a caller is well formed, and its path is one of the paths.
LEMMA PendingCall ==
    /\ \A c \in Callers : CallsOf[c] \subseteq Calls
    /\ \A a \in Calls : a \in Call /\ a # NoCall /\ Path(a) \in Paths
BY CallAssumption, MarkAssumption DEF Calls, Paths

\* A call may return with any reply that the history of the call justifies.
LEMMA ReturnStep ==
    ASSUME RedisInv, NEW c \in Callers, call[c] # NoCall, NEW r, Return(c, r),
           r \in Reply({"hit", "miss", "ok", "error", "badkey", "encode", "decode"}),
           r.kind = "hit" => r.value \in seen[c],
           r.kind = "miss" => Nothing \in seen[c],
           r.kind = "ok" => applied[c],
           r.kind \in {"badkey", "encode"} => ~applied[c]
    PROVE  RedisInv'
<1>1. TypeOK /\ call'[c] = NoCall /\ \A d \in Callers : d # c => call'[d] = call[d]
  BY DEF RedisInv, TypeOK, Return
<1>2. ASSUME NEW w \in wire'
      PROVE  \/ w \in wire /\ w.to # c
             \/ w \in Command /\ w.to = Nobody /\ ~Unencodable(w.call)
  <2>1. CASE w \in wire /\ w.to # c
    BY <2>1
  <2>2. CASE ~(w \in wire /\ w.to # c)
    <3>1. PICK u \in wire : w = [u EXCEPT !.to = Nobody, !.copy = 1]
      BY <1>2, <2>2 DEF Return
    <3>2. u \in Command /\ 1 \in 1 .. MaxSends /\ ~Unencodable(u.call)
      BY <1>1, BoundAssumption DEF TypeOK, RedisInv, OnTheWire
    <3>3. w \in Command /\ w.to = Nobody /\ w.call = u.call
      BY <3>1, <3>2 DEF Command
    <3> QED BY <3>2, <3>3
  <2> QED BY <2>1, <2>2
<1>3. TypeOK'
  <2>1. wire' \subseteq Command
    BY <1>1, <1>2 DEF TypeOK
  <2>2. answer' \in [Callers -> Reply({"none", "hit", "miss", "ok", "error", "badkey",
                                       "encode", "decode"})]
    <3>1. r \in Reply({"none", "hit", "miss", "ok", "error", "badkey", "encode", "decode"})
      BY DEF Reply
    <3> QED BY <1>1, <3>1 DEF Return, TypeOK
  <2>3. sends' \in [Callers -> 0 .. MaxSends]
    <3>1. 0 \in 0 .. MaxSends
      BY BoundAssumption
    <3>2. sends' = [sends EXCEPT ![c] = 0]
      BY DEF Return
    <3> QED BY <1>1, <3>1, <3>2 DEF TypeOK
  <2>4. inbox' \in [Callers -> Reply({"done", "nil", "value"}) \cup {Nothing}]
    BY <1>1 DEF Return, TypeOK
  <2> QED BY <1>1, <2>1, <2>2, <2>3, <2>4 DEF Return, TypeOK
<1>4. OnTheWire'
  <2> SUFFICES ASSUME NEW w \in wire'
               PROVE  /\ ~Unencodable(w.call)
                      /\ w.to # Nobody => call'[w.to] = w.call /\ Accepted(w.to)'
    BY DEF OnTheWire, Unencodable
  <2>1. CASE w.to = Nobody
    BY <1>2, <2>1 DEF RedisInv, OnTheWire
  <2>2. CASE w.to # Nobody
    <3>1. w \in wire /\ w.to # c /\ w.to \in Callers
      BY <1>1, <1>2, <2>2 DEF TypeOK, Command
    <3>2. call[w.to] = w.call /\ Accepted(w.to) /\ ~Unencodable(w.call)
      BY <2>2, <3>1 DEF RedisInv, OnTheWire
    <3> QED BY <1>1, <3>1, <3>2 DEF Accepted
  <2> QED BY <2>1, <2>2
<1>5. ASSUME NEW d \in Callers PROVE Watched(d)' /\ Justified(d)'
  <2>1. CASE d = c
    BY <1>1, <2>1 DEF Watched, Justified, Reading, Return, TypeOK
  <2>2. CASE d # c
    BY <1>1, <1>5, <2>2 DEF RedisInv, Watched, Justified, Reading, Accepted, Return, TypeOK
  <2> QED BY <2>1, <2>2
<1>6. Entries'
  BY DEF RedisInv, Entries, Return
<1>7. AnswersFromCall' /\ SuccessMeansApplied'
  BY <1>1 DEF RedisInv, AnswersFromCall, SuccessMeansApplied, Return, TypeOK
<1> QED BY <1>3, <1>4, <1>5, <1>6, <1>7 DEF RedisInv

\* The steps of the code keep the invariant.
LEMMA CallerStep ==
    ASSUME RedisInv, NEW c \in Callers,
           \/ Begin(c) \/ EncodeFails(c) \/ EmptyKey(c) \/ Send(c)
           \/ ProviderFails(c) \/ GetAnswered(c) \/ WriteAnswered(c)
    PROVE  RedisInv'
<1>type. TypeOK /\ Justified(c)
  BY DEF RedisInv
<1>plain. \A k \in {"miss", "ok", "error", "badkey", "encode", "decode"} :
            /\ Plain(k) \in Reply({"hit", "miss", "ok", "error", "badkey", "encode", "decode"})
            /\ Plain(k).kind = k
  BY DEF Plain, Reply
<1>1. CASE Begin(c)
  <2>1. PICK a \in CallsOf[c] :
           /\ call' = [call EXCEPT ![c] = a]
           /\ seen' = [seen EXCEPT ![c] =
                 IF CommandOp(a) = "get" THEN {Visible(db[Path(a)], clock)} ELSE {}]
    BY <1>1 DEF Begin
  <2>2. a \in Calls /\ a # NoCall /\ Path(a) \in Paths /\ call[c] = NoCall
    BY <1>1, PendingCall DEF Begin
  <2>3. inbox[c] = Nothing /\ \A w \in wire : w.to # c
    BY <1>type, <2>2, MarkAssumption DEF RedisInv, Justified, OnTheWire, Accepted
  <2>4. Visible(db[Path(a)], clock) \in Value \cup {Nothing}
    BY <1>type, <2>2 DEF TypeOK, Visible, Entry
  <2>5. TypeOK'
    <3>1. Plain("none") \in Reply({"none", "hit", "miss", "ok", "error", "badkey",
                                   "encode", "decode"})
      BY DEF Plain, Reply
    <3> QED BY <1>1, <1>type, <2>1, <2>2, <2>4, <3>1 DEF Begin, TypeOK
  <2>6. OnTheWire'
    BY <1>1, <1>type, <2>1, <2>3 DEF RedisInv, OnTheWire, Accepted, Begin, TypeOK, Command
  <2>7. ASSUME NEW d \in Callers PROVE Watched(d)' /\ Justified(d)'
    <3>1. CASE d = c
      BY <1>1, <1>type, <2>1, <2>2, <2>3, <3>1
         DEF Watched, Justified, Reading, Accepted, Begin, TypeOK, Plain
    <3>2. CASE d # c
      BY <1>1, <1>type, <2>1, <2>7, <3>2
         DEF RedisInv, Watched, Justified, Reading, Accepted, Begin, TypeOK
    <3> QED BY <3>1, <3>2
  <2>8. Entries'
    BY <1>1 DEF RedisInv, Entries, Begin
  <2>9. AnswersFromCall' /\ SuccessMeansApplied'
    BY <1>1, <1>type, <2>1 DEF RedisInv, AnswersFromCall, SuccessMeansApplied, Begin, TypeOK, Plain
  <2> QED BY <2>5, <2>6, <2>7, <2>8, <2>9 DEF RedisInv
<1>2. CASE EncodeFails(c)
  BY <1>2, <1>type, <1>plain, ReturnStep DEF EncodeFails, Justified, Accepted
<1>3. CASE EmptyKey(c)
  BY <1>3, <1>type, <1>plain, ReturnStep DEF EmptyKey, Justified, Accepted
<1>4. CASE Send(c)
  <2>1. [to |-> c, copy |-> sends'[c], call |-> call[c]] \in Command
    BY <1>4, <1>type, BoundAssumption DEF Send, Accepted, TypeOK, Command
  <2>2. TypeOK'
    BY <1>4, <1>type, <2>1, BoundAssumption DEF Send, TypeOK
  <2>3. OnTheWire'
    BY <1>4, <1>type DEF RedisInv, OnTheWire, Accepted, Unencodable, Send, TypeOK
  <2>4. \A d \in Callers : Watched(d)' /\ Justified(d)'
    BY <1>4, <1>type DEF RedisInv, Watched, Justified, Reading, Accepted, Send, TypeOK
  <2>5. Entries' /\ AnswersFromCall' /\ SuccessMeansApplied'
    BY <1>4 DEF RedisInv, Entries, AnswersFromCall, SuccessMeansApplied, Send
  <2> QED BY <2>2, <2>3, <2>4, <2>5 DEF RedisInv
<1>5. CASE ProviderFails(c)
  BY <1>5, <1>plain, ReturnStep DEF ProviderFails, Accepted
<1>6. CASE GetAnswered(c)
  <2> DEFINE r == IF inbox[c].kind = "nil" THEN Plain("miss")
                  ELSE Decoded(call[c], inbox[c].value)
  <2>1. /\ call[c] # NoCall /\ inbox[c] # Nothing /\ CommandOp(call[c]) = "get"
        /\ Return(c, r)
    BY <1>6 DEF GetAnswered
  <2>2. CASE inbox[c].kind = "nil"
    <3>1. r = Plain("miss") /\ Nothing \in seen[c]
      BY <1>type, <2>1, <2>2 DEF Justified
    <3> HIDE DEF r
    <3> QED BY <1>plain, <2>1, <3>1, ReturnStep
  <2>3. CASE inbox[c].kind # "nil"
    <3>1. inbox[c].value \in seen[c] /\ inbox[c].value \in Value \cup {Nothing}
      BY <1>type, <2>1, <2>3 DEF Justified, TypeOK, Reply
    <3>2. r = Plain("decode") \/ r = [kind |-> "hit", value |-> inbox[c].value]
      BY <2>3 DEF Decoded
    <3>3. [kind |-> "hit", value |-> inbox[c].value]
             \in Reply({"hit", "miss", "ok", "error", "badkey", "encode", "decode"})
      BY <3>1 DEF Reply
    <3> HIDE DEF r
    <3>4. CASE r = Plain("decode")
      BY <1>plain, <2>1, <3>4, ReturnStep
    <3>5. CASE r = [kind |-> "hit", value |-> inbox[c].value]
      BY <2>1, <3>1, <3>3, <3>5, ReturnStep
    <3> QED BY <3>2, <3>4, <3>5
  <2> QED BY <2>2, <2>3
<1>7. CASE WriteAnswered(c)
  BY <1>7, <1>type, <1>plain, ReturnStep DEF WriteAnswered, Justified
<1> QED BY <1>1, <1>2, <1>3, <1>4, <1>5, <1>6, <1>7

\* What a Set stores fits its path and its TTL.
LEMMA StoredFits ==
    ASSUME TypeOK, NEW a \in Calls, CommandOp(a) = "set", ~Unencodable(a)
    PROVE  /\ Stored(a) \in Entry
           /\ Path(a) = Prefix[Stored(a).value.cache] \o Stored(a).value.key
           /\ Lives(Stored(a))
<1>1. a \in Call /\ a.op \in {"set", "setjson"} /\ a.ttl \in Nat /\ clock \in Nat
  BY PendingCall DEF TypeOK, Call, CommandOp, Writes
<1>2. a.type \in Types /\ a.cache \in Caches /\ a.key \in Seq(STRING)
  BY <1>1, CallAssumption DEF Call, Unencodable
<1>3. Stored(a).value = [cache |-> a.cache, key |-> a.key, type |-> a.type]
      /\ Stored(a).at = clock /\ Stored(a).ttl = a.ttl
      /\ Stored(a).until = IF a.ttl <= 0 THEN 0 ELSE clock \div Ms + Milliseconds(a.ttl)
  BY DEF Stored
<1>p. Path(a) = Prefix[Stored(a).value.cache] \o Stored(a).value.key
  <2>1. Stored(a).value.cache = a.cache /\ Stored(a).value.key = a.key
    BY <1>3
  <2> QED BY <2>1 DEF Path
<1>4. CASE a.ttl = 0
  <2>1. Stored(a).until = 0
    BY <1>3, <1>4
  <2>2. Stored(a) \in Entry
    BY <1>1, <1>2, <1>3, <2>1 DEF Stored, Entry, Value
  <2> QED BY <1>p, <1>3, <1>4, <2>1, <2>2 DEF Lives
<1>5. CASE a.ttl # 0
  <2>1. Stored(a).until = clock \div Ms + Milliseconds(a.ttl) /\ a.ttl \in Nat \ {0}
    BY <1>1, <1>3, <1>5
  <2>2. /\ Stored(a).until \in Nat
        /\ a.ttl - Ms < (Stored(a).until + 1) * Ms - clock
        /\ (Stored(a).until + 1) * Ms - clock < a.ttl + 2 * Ms
    BY <1>1, <2>1, DeadlineFits
  <2>3. Lives(Stored(a))
    BY <1>1, <1>3, <2>1, <2>2 DEF Lives
  <2>4. Stored(a) \in Entry
    BY <1>1, <1>2, <1>3, <2>2 DEF Stored, Entry, Value
  <2> QED BY <1>p, <2>3, <2>4
<1> QED BY <1>4, <1>5

\* What a path shows is a value or nothing.
LEMMA VisibleType ==
    ASSUME NEW e \in Entry \cup {Nothing}, NEW t
    PROVE  Visible(e, t) \in Value \cup {Nothing}
BY DEF Visible, Entry

\* The server's step keeps the invariant.
LEMMA ServerStep ==
    ASSUME RedisInv, Execute
    PROVE  RedisInv'
<1> DEFINE Now(p) == Visible(db[p], clock)
<1>1. PICK w \in wire :
        /\ wire' = wire \ {w}
        /\ db' = CASE CommandOp(w.call) = "get" -> db
                   [] CommandOp(w.call) = "set" -> [db EXCEPT ![Path(w.call)] = Stored(w.call)]
                   [] CommandOp(w.call) = "del" -> [db EXCEPT ![Path(w.call)] = Nothing]
        /\ IF w.to = Nobody THEN UNCHANGED <<inbox, applied>>
           ELSE /\ applied' = [applied EXCEPT ![w.to] = CommandOp(w.call) # "get"]
                /\ IF w.copy # sends[w.to] THEN UNCHANGED inbox
                   ELSE \/ inbox' = [inbox EXCEPT ![w.to] =
                              IF CommandOp(w.call) # "get" THEN Plain("done")
                              ELSE IF Now(Path(w.call)) = Nothing THEN Plain("nil")
                              ELSE [kind |-> "value", value |-> Now(Path(w.call))]]
                        \/ UNCHANGED inbox
        /\ seen' = [c \in Callers |->
                      IF Reading(c, Path(w.call))
                      THEN seen[c] \cup {Visible(db'[Path(w.call)], clock)} ELSE seen[c]]
        /\ UNCHANGED <<clock, call, sends, answer>>
  BY DEF Execute
<1>2. TypeOK /\ w \in Command /\ w.call \in Calls /\ Path(w.call) \in Paths
  BY PendingCall DEF RedisInv, TypeOK, Command
<1>3. CommandOp(w.call) \in {"get", "set", "del"}
  BY DEF CommandOp
<1>4. w.to # Nobody => w.to \in Callers /\ call[w.to] = w.call /\ Accepted(w.to)
  BY <1>1, <1>2 DEF RedisInv, OnTheWire, Command
<1>5. CommandOp(w.call) = "set" =>
         /\ Stored(w.call) \in Entry
         /\ Path(w.call) = Prefix[Stored(w.call).value.cache] \o Stored(w.call).value.key
         /\ Lives(Stored(w.call))
  BY <1>2, StoredFits DEF RedisInv, OnTheWire
<1>6. /\ db' \in [Paths -> Entry \cup {Nothing}]
      /\ \A p \in Paths : p # Path(w.call) => db'[p] = db[p]
      /\ CommandOp(w.call) = "set" => db'[Path(w.call)] = Stored(w.call)
      /\ CommandOp(w.call) = "del" => db'[Path(w.call)] = Nothing
      /\ CommandOp(w.call) = "get" => db' = db
  BY <1>1, <1>2, <1>3, <1>5 DEF TypeOK
<1>7. TypeOK'
  <2>1. Visible(db'[Path(w.call)], clock) \in Value \cup {Nothing}
        /\ Now(Path(w.call)) \in Value \cup {Nothing}
    BY <1>2, <1>6, VisibleType DEF TypeOK
  <2>2. seen' \in [Callers -> SUBSET (Value \cup {Nothing})]
    BY <1>1, <1>2, <2>1 DEF TypeOK
  <2>3. applied' \in [Callers -> BOOLEAN]
    BY <1>1, <1>2, <1>4 DEF TypeOK
  <2>4. /\ Plain("done") \in Reply({"done", "nil", "value"})
        /\ Plain("nil") \in Reply({"done", "nil", "value"})
        /\ [kind |-> "value", value |-> Now(Path(w.call))] \in Reply({"done", "nil", "value"})
    BY <2>1 DEF Plain, Reply
  <2> HIDE DEF Now
  <2>5. inbox' \in [Callers -> Reply({"done", "nil", "value"}) \cup {Nothing}]
    BY <1>1, <1>2, <1>4, <2>4 DEF TypeOK
  <2> QED BY <1>1, <1>2, <1>6, <2>2, <2>3, <2>5 DEF TypeOK
<1>8. OnTheWire'
  BY <1>1 DEF RedisInv, OnTheWire, Accepted, Unencodable
<1>9. ASSUME NEW c \in Callers PROVE Watched(c)' /\ Justified(c)'
  <2>1. Watched(c) /\ Justified(c)
    BY <1>9 DEF RedisInv
  <2>2. /\ seen[c] \subseteq seen'[c]
        /\ Reading(c, Path(w.call)) => Visible(db'[Path(w.call)], clock) \in seen'[c]
        /\ \A p \in Paths : Reading(c, p)' <=> Reading(c, p)
        /\ Accepted(c)' <=> Accepted(c)
    <3>1. seen'[c] = IF Reading(c, Path(w.call))
                     THEN seen[c] \cup {Visible(db'[Path(w.call)], clock)} ELSE seen[c]
      BY <1>1, <1>9
    <3>2. call' = call
      BY <1>1
    <3>3. \A p \in Paths : Reading(c, p)' <=> Reading(c, p)
      BY <3>2 DEF Reading
    <3>4. Accepted(c)' <=> Accepted(c)
      BY <3>2 DEF Accepted, Unencodable
    <3> QED BY <3>1, <3>3, <3>4
  <2>3. Watched(c)'
    <3> SUFFICES ASSUME NEW p \in Paths, Reading(c, p)
                 PROVE  Visible(db'[p], clock) \in seen'[c]
      BY <1>1, <2>2 DEF Watched
    <3>1. CASE p = Path(w.call)
      BY <2>2, <3>1
    <3>2. CASE p # Path(w.call)
      BY <1>6, <2>1, <2>2, <3>2 DEF Watched
    <3> QED BY <3>1, <3>2
  <2>4. CASE w.to # c
    <3>1. inbox'[c] = inbox[c] /\ applied'[c] = applied[c]
      BY <1>1, <1>2, <1>4, <1>9, <2>4 DEF TypeOK
    <3> QED BY <1>1, <2>1, <2>2, <2>3, <3>1 DEF Justified
  <2>5. CASE w.to = c
    <3>1. call[c] = w.call /\ Accepted(c) /\ w.to # Nobody
      BY <1>4, <1>9, <2>5, MarkAssumption
    <3>2. applied'[c] = (CommandOp(call[c]) # "get")
      BY <1>1, <1>2, <1>9, <2>5, <3>1 DEF TypeOK
    <3>3. CASE CommandOp(call[c]) # "get"
      BY <1>1, <2>1, <2>2, <2>3, <3>1, <3>2, <3>3 DEF Justified
    <3>4. CASE CommandOp(call[c]) = "get"
      <4>1. Now(Path(w.call)) \in seen'[c]
        BY <1>2, <2>1, <2>2, <3>1, <3>4 DEF Watched, Reading, Accepted
      <4> HIDE DEF Now
      <4>2. \/ inbox'[c] = inbox[c]
            \/ inbox'[c] = Plain("nil") /\ Now(Path(w.call)) = Nothing
            \/ inbox'[c] = [kind |-> "value", value |-> Now(Path(w.call))]
        BY <1>1, <1>2, <1>9, <2>5, <3>1, <3>4 DEF TypeOK
      <4> QED BY <1>1, <2>1, <2>2, <2>3, <3>1, <3>2, <3>4, <4>1, <4>2 DEF Justified, Plain
    <3> QED BY <3>3, <3>4
  <2> QED BY <2>4, <2>5
<1>10. Entries'
  <2> SUFFICES ASSUME NEW p \in Paths, db'[p] # Nothing
               PROVE  /\ p = Prefix[db'[p].value.cache] \o db'[p].value.key
                      /\ Lives(db'[p])
    BY DEF Entries, Lives
  <2>1. CASE db'[p] = db[p]
    BY <2>1 DEF RedisInv, Entries
  <2>2. CASE db'[p] # db[p]
    <3>1. p = Path(w.call) /\ CommandOp(w.call) = "set" /\ db'[p] = Stored(w.call)
      BY <1>3, <1>6, <2>2
    <3> QED BY <1>5, <3>1
  <2> QED BY <2>1, <2>2
<1>11. AnswersFromCall' /\ SuccessMeansApplied'
  <2> SUFFICES ASSUME NEW c \in Callers
               PROVE  /\ answer[c].kind = "hit" => answer[c].value \in seen'[c]
                      /\ answer[c].kind = "miss" => Nothing \in seen'[c]
                      /\ answer[c].kind = "ok" => applied'[c]
                      /\ answer[c].kind \in {"badkey", "encode"} => ~applied'[c]
    BY <1>1 DEF AnswersFromCall, SuccessMeansApplied
  <2>1. seen[c] \subseteq seen'[c]
    BY <1>1
  <2>2. CASE w.to = c
    BY <1>4, <2>2, MarkAssumption DEF RedisInv, Justified, Accepted
  <2>3. CASE w.to # c
    <3>1. applied'[c] = applied[c]
      BY <1>1, <1>2, <1>4, <2>3 DEF TypeOK
    <3> QED BY <2>1, <3>1 DEF RedisInv, AnswersFromCall, SuccessMeansApplied
  <2> QED BY <2>2, <2>3
<1> QED BY <1>7, <1>8, <1>9, <1>10, <1>11 DEF RedisInv

\* The loss of a command keeps the invariant.
LEMMA LoseStep ==
    ASSUME RedisInv, Lose
    PROVE  RedisInv'
<1>1. wire' \subseteq wire /\ UNCHANGED <<db, clock, call, sends, inbox, answer, seen, applied>>
  BY DEF Lose
<1> QED BY <1>1 DEF RedisInv, TypeOK, OnTheWire, Watched, Justified, Reading, Accepted,
                    Unencodable, Entries, Lives, AnswersFromCall, SuccessMeansApplied

\* Time passes: what expires now is noted by the Gets that read it.
LEMMA TickStep ==
    ASSUME RedisInv, Tick
    PROVE  RedisInv'
<1>1. TypeOK /\ clock' \in 0 .. MaxTime
  BY BoundAssumption DEF RedisInv, TypeOK, Tick
<1>2. \A p \in Paths : Visible(db[p], clock') \in Value \cup {Nothing}
  BY <1>1, VisibleType DEF TypeOK
<1>3. TypeOK'
  <2>1. seen' \in [Callers -> SUBSET (Value \cup {Nothing})]
    BY <1>1, <1>2 DEF TypeOK, Tick
  <2> QED BY <1>1, <2>1 DEF TypeOK, Tick
<1>4. \A c \in Callers : seen[c] \subseteq seen'[c] /\ Watched(c)'
  BY DEF Tick, Watched, Reading
<1>5. OnTheWire' /\ Entries'
  BY DEF RedisInv, OnTheWire, Accepted, Unencodable, Entries, Lives, Tick
<1>6. \A c \in Callers : Justified(c)'
  BY <1>4 DEF RedisInv, Justified, Accepted, Tick
<1>7. AnswersFromCall' /\ SuccessMeansApplied'
  BY <1>4 DEF RedisInv, AnswersFromCall, SuccessMeansApplied, Tick
<1> QED BY <1>3, <1>4, <1>5, <1>6, <1>7 DEF RedisInv

-----------------------------------------------------------------------------
\* The invariant holds throughout every behaviour.
THEOREM RedisInvariant == Spec => []RedisInv
<1>1. Init => RedisInv
  <2> SUFFICES ASSUME Init PROVE RedisInv
    OBVIOUS
  <2>1. Plain("none") \in Reply({"none", "hit", "miss", "ok", "error", "badkey", "encode", "decode"})
        /\ Plain("none").kind = "none"
    BY DEF Plain, Reply
  <2>2. TypeOK
    BY <2>1, BoundAssumption DEF Init, TypeOK
  <2> QED BY <2>1, <2>2 DEF Init, RedisInv, OnTheWire, Watched, Justified, Reading, Entries,
                        AnswersFromCall, SuccessMeansApplied
<1>2. RedisInv /\ [Next]_vars => RedisInv'
  <2> SUFFICES ASSUME RedisInv, [Next]_vars PROVE RedisInv'
    OBVIOUS
  <2>1. CASE UNCHANGED vars
    BY <2>1 DEF vars, RedisInv, TypeOK, OnTheWire, Watched, Justified, Reading, Accepted,
                Unencodable, Entries, Lives, AnswersFromCall, SuccessMeansApplied
  <2> QED BY <2>1, ServerStep, LoseStep, TickStep, CallerStep DEF Next
<1> QED BY <1>1, <1>2, PTL DEF Spec

\* The caches and the server keep well-formed state, for any calls (redis.go).
THEOREM RedisTypeCorrect == Spec => []TypeOK
BY RedisInvariant, PTL DEF RedisInv

\* Get answers with what its path showed during the call, for any number of callers and
\* of lost, repeated and late commands; neither a failing server nor a value of another
\* type is a miss (redis.go, Get; encoding.go, GetJSON).
THEOREM GetAnswersFromCall == Spec => []AnswersFromCall
BY RedisInvariant, PTL DEF RedisInv

\* A write that reports success has been executed during the call, a refused one never
\* (redis.go, Set and Delete).
THEOREM WritesReallyDone == Spec => []SuccessMeansApplied
BY RedisInvariant, PTL DEF RedisInv

\* Whatever the prefixes and keys, an entry under the path of one cache was set through
\* a cache with the same prefix and the same key, unless one prefix extends the other
\* (redis.go, key).
THEOREM PrefixesSeparate == Spec => []KeysKeptApart
<1>1. ASSUME RedisInv PROVE KeysKeptApart
  <2> SUFFICES ASSUME NEW c \in Callers, NEW a \in CallsOf[c], db[Path(a)] # Nothing
               PROVE  LET e == db[Path(a)] IN
                      \/ Prefix[e.value.cache] = Prefix[a.cache] /\ e.value.key = a.key
                      \/ Extends(Prefix[e.value.cache], Prefix[a.cache])
                      \/ Extends(Prefix[a.cache], Prefix[e.value.cache])
    BY DEF KeysKeptApart
  <2> DEFINE v == db[Path(a)].value
  <2>1. a \in Call /\ Path(a) \in Paths
    BY PendingCall
  <2>2. v \in Value /\ Path(a) = Prefix[v.cache] \o v.key
    BY <1>1, <2>1 DEF RedisInv, TypeOK, Entry, Entries
  <2>3. Path(a) = Prefix[a.cache] \o a.key
    BY DEF Path
  <2>4. /\ Prefix[v.cache] \in Seq(STRING) /\ v.key \in Seq(STRING)
        /\ Prefix[a.cache] \in Seq(STRING) /\ a.key \in Seq(STRING)
    BY <2>1, <2>2, CallAssumption DEF Call, Value
  <2> HIDE DEF v
  <2>5. (Prefix[v.cache] = Prefix[a.cache] /\ v.key = a.key)
        \/ Extends(Prefix[v.cache], Prefix[a.cache]) \/ Extends(Prefix[a.cache], Prefix[v.cache])
    BY <2>2, <2>3, <2>4, Cuts
  <2> QED BY <2>5 DEF v
<1> QED BY <1>1, RedisInvariant, PTL

\* An entry lives for its TTL, up to a millisecond less and up to two more, whatever the
\* TTL and the unit of the clock (redis.go, Set).
THEOREM EntriesLiveForTTL == Spec => []Lifetimes
<1>1. RedisInv => Lifetimes
  BY DEF RedisInv, Entries, Lives, Lifetimes
<1> QED BY <1>1, RedisInvariant, PTL
=============================================================================
