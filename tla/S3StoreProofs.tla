--------------------------- MODULE S3StoreProofs ---------------------------
(***************************************************************************)
(* Proofs about blobx.S3Store for any callers, stores, prefixes, keys and  *)
(* bodies, and any number of attempts that are lost, repeated or late:     *)
(* stores are kept apart by their prefixes, and path by path the bucket    *)
(* keeps the promise of blobx.Store.                                       *)
(***************************************************************************)
EXTENDS S3StoreContract, SequenceTheorems, TLAPS

\* A caller between two requests of its call still has the arguments it came with,
\* which were found in order; only a Put keeps an ETag, that of its own body.
Pending(c) ==
    /\ pc[c] = "idle" <=> call[c] = NoCall
    /\ call[c] # NoCall => call[c] \in CallsOf[c] /\ answer[c] = Plain("none")
    /\ pc[c] \in {"put", "stat", "get", "delete", "presign"} => call[c].op = pc[c]
    /\ pc[c] \in {"written", "describe"} => ~Malformed(c)
    /\ pc[c] = "written" => call[c].op \in {"put", "delete"}
    /\ pc[c] = "describe" => call[c].op = "put" /\ (tag[c] = Nothing => FALSE \in ETags)
    /\ tag[c] # Nothing => pc[c] = "describe" /\ tag[c] = call[c].version

\* What a Put has left, or may still leave, at a path was put under that path.
PutHere(p, o) == o # Nothing => p = ProviderKey(o.store, o.key)

Provenance ==
    /\ \A p \in Paths : PutHere(p, bucket[p])
    /\ \A w \in late : PutHere(w.path, w.object)

\* The inductive invariant.
S3Inv ==
    /\ TypeOK
    /\ \A c \in Callers : Pending(c)
    /\ Provenance

-----------------------------------------------------------------------------
\* The same end behind the same beginning is the same sequence; and of two
\* beginnings of one sequence, one lies within the other.
LEMMA SameBeginning ==
    ASSUME NEW S, NEW p \in Seq(S), NEW k \in Seq(S), NEW l \in Seq(S), p \o k = p \o l
    PROVE  k = l
<1>1. Len(p \o k) = Len(p) + Len(k) /\ Len(p \o l) = Len(p) + Len(l)
  OBVIOUS
<1>2. Len(k) = Len(l)
  BY <1>1, LenProperties
<1>3. ASSUME NEW i \in 1 .. Len(k) PROVE k[i] = l[i]
  <2>1. k[i] = (p \o k)[Len(p) + i] /\ l[i] = (p \o l)[Len(p) + i]
    BY <1>2, LenProperties
  <2> QED BY <2>1
<1> QED BY <1>2, <1>3, SeqEqual

\* Of two prefixes of one path, one begins with the other.
LEMMA TwoBeginnings ==
    ASSUME NEW S, NEW p \in Seq(S), NEW k \in Seq(S), NEW q \in Seq(S), NEW l \in Seq(S),
           p \o k = q \o l
    PROVE  Within(p, q) \/ Within(q, p)
<1>1. ASSUME NEW a \in Seq(S), NEW b \in Seq(S), NEW c \in Seq(S), NEW d \in Seq(S),
             a \o b = c \o d, Len(a) <= Len(c)
      PROVE  Within(c, a)
  <2>1. \A i \in 1 .. Len(a) : c[i] = a[i]
    <3> TAKE i \in 1 .. Len(a)
    <3>1. a[i] = (a \o b)[i] /\ c[i] = (c \o d)[i]
      BY <1>1, LenProperties
    <3> QED BY <3>1, <1>1
  <2>2. /\ SubSeq(c, 1, Len(a)) \in Seq(S)
        /\ Len(SubSeq(c, 1, Len(a))) = Len(a)
        /\ \A i \in 1 .. Len(a) : SubSeq(c, 1, Len(a))[i] = c[i]
    BY <1>1, LenProperties, SubSeqProperties
  <2>3. SubSeq(c, 1, Len(a)) = a
    BY <2>1, <2>2, SeqEqual
  <2> QED BY <1>1, <2>3 DEF Within
<1>2. CASE Len(p) <= Len(q)
  BY <1>1, <1>2
<1>3. CASE Len(q) <= Len(p)
  BY <1>1, <1>3
<1>4. Len(p) \in Nat /\ Len(q) \in Nat
  BY LenProperties
<1> QED BY <1>2, <1>3, <1>4

\* A call that is not refused has a path of the bucket, and what it writes there is
\* an object of this path, or nothing.
LEMMA PathOfCall ==
    ASSUME TypeOK, NEW c \in Callers, call[c] # NoCall, ~Malformed(c)
    PROVE  /\ call[c] \in Call /\ call[c].key \in Keys /\ Path(c) \in Paths
           /\ call[c].op \in {"put", "delete"} =>
                 Content(c) \in Object \cup {Nothing} /\ PutHere(Path(c), Content(c))
<1>1. call[c] \in Call
  BY DEF TypeOK
<1>2. call[c].key \in Keys /\ call[c].version \in Versions \cup {Nothing}
  BY <1>1 DEF Call, CallOn, Malformed
<1>3. StoreOf[c] \in Stores /\ Path(c) \in Paths
  BY <1>2 DEF Path, Paths, Stores
<1>4. CASE call[c].op = "put"
  <2>1. call[c].version \in Versions
    BY <1>2, <1>4 DEF Malformed
  <2>2. Content(c) = [version |-> call[c].version, store |-> StoreOf[c], key |-> call[c].key]
    BY <1>4 DEF Content
  <2> QED BY <1>1, <1>2, <1>3, <2>1, <2>2 DEF Object, PutHere, Path
<1>5. CASE call[c].op = "delete"
  BY <1>1, <1>2, <1>3, <1>5 DEF Content, PutHere
<1> QED BY <1>1, <1>2, <1>3, <1>4, <1>5

\* Every plain answer is one.
LEMMA PlainType ==
    ASSUME NEW k \in {"none", "ok", "notfound", "error", "refused"}
    PROVE  Plain(k) \in Answer /\ Plain(k).body = Nothing
BY DEF Plain, Answer

\* A call returns, whatever it answers.
LEMMA ReturnStep ==
    ASSUME S3Inv, NEW c \in Callers, call[c] # NoCall, NEW r \in Answer, Return(c, r),
           UNCHANGED bucket,
           late' = late \/ (/\ late' = late \cup {[path |-> Path(c), object |-> Content(c)]}
                            /\ ~Malformed(c) /\ call[c].op \in {"put", "delete"})
    PROVE  S3Inv'
<1>1. TypeOK'
  <2>1. late' \subseteq Write
    BY PathOfCall DEF S3Inv, TypeOK, Write
  <2> QED BY <2>1 DEF S3Inv, TypeOK, Return
<1>2. ASSUME NEW d \in Callers PROVE Pending(d)'
  BY <1>2 DEF S3Inv, TypeOK, Return, Pending, Malformed
<1>3. Provenance'
  BY PathOfCall DEF S3Inv, Provenance
<1> QED BY <1>1, <1>2, <1>3 DEF S3Inv

\* Every step of a caller keeps the invariant.
LEMMA CallerKeepsInv ==
    ASSUME S3Inv, NEW c \in Callers, Step(c)
    PROVE  S3Inv'
<1>type. TypeOK /\ Pending(c)
  BY DEF S3Inv
<1>1. CASE Invoke(c)
  <2>1. PICK a \in CallsOf[c] : call' = [call EXCEPT ![c] = a] /\ pc' = [pc EXCEPT ![c] = a.op]
    BY <1>1 DEF Invoke
  <2>2. a \in Call /\ a # NoCall /\ a.op \in {"put", "get", "stat", "delete", "presign"}
    <3>1. a \in Call
      BY CallAssumption
    <3>2. a \in CallOn(Keys \cup Paths)
      BY <3>1 DEF Call, CallOn
    <3> QED BY <3>1, <3>2, MarkAssumption DEF CallOn
  <2>3. TypeOK'
    BY <1>1, <1>type, <2>1, <2>2, PlainType DEF Invoke, TypeOK
  <2>4. ASSUME NEW d \in Callers PROVE Pending(d)'
    BY <1>1, <1>type, <2>1, <2>2, <2>4 DEF S3Inv, Invoke, TypeOK, Pending, Malformed
  <2>5. Provenance'
    BY <1>1 DEF S3Inv, Invoke, Provenance
  <2> QED BY <2>3, <2>4, <2>5 DEF S3Inv
<1>2. CASE Refused(c)
  BY <1>2, <1>type, PlainType, ReturnStep DEF Refused, Pending
<1>3. CASE WriteObject(c)
  <2>1. call[c] # NoCall /\ ~Malformed(c) /\ call[c].op \in {"put", "delete"}
    BY <1>3, <1>type DEF WriteObject, Pending
  <2>2. /\ Path(c) \in Paths /\ Content(c) \in Object \cup {Nothing}
        /\ PutHere(Path(c), Content(c))
    BY <1>type, <2>1, PathOfCall
  <2>3. TypeOK'
    BY <1>3, <1>type, <2>2 DEF WriteObject, TypeOK
  <2>4. ASSUME NEW d \in Callers PROVE Pending(d)'
    BY <1>3, <1>type, <2>1, <2>4 DEF S3Inv, WriteObject, TypeOK, Pending, Malformed
  <2>5. Provenance'
    BY <1>3, <1>type, <2>2 DEF S3Inv, WriteObject, TypeOK, Provenance
  <2> QED BY <2>3, <2>4, <2>5 DEF S3Inv
<1>4. CASE WriteAnswered(c)
  <2>1. CASE call[c].op = "delete"
    BY <1>4, <1>type, <2>1, PlainType, ReturnStep DEF WriteAnswered, Pending
  <2>2. CASE call[c].op = "put"
    <3>1. PICK tagged \in ETags :
             tag' = [tag EXCEPT ![c] = IF tagged THEN call[c].version ELSE Nothing]
      BY <1>4, <2>2 DEF WriteAnswered
    <3>2. /\ pc[c] = "written" /\ pc' = [pc EXCEPT ![c] = "describe"]
          /\ UNCHANGED <<call, answer, bucket, late>>
      BY <1>4, <2>2 DEF WriteAnswered
    <3>3. call[c] # NoCall /\ call[c] \in Call /\ ~Malformed(c)
      BY <1>type, <3>2 DEF Pending, TypeOK
    <3>4. call[c].version \in Versions /\ tagged \in BOOLEAN /\ Nothing \notin Versions
      BY <2>2, <3>3, ServiceAssumption, MarkAssumption DEF Call, CallOn, Malformed
    <3>5. TypeOK'
      BY <1>type, <3>1, <3>2, <3>4 DEF TypeOK
    <3>6. ASSUME NEW d \in Callers PROVE Pending(d)'
      <4>1. CASE d = c
        BY <1>type, <2>2, <3>1, <3>2, <3>3, <3>4, <4>1 DEF TypeOK, Pending, Malformed
      <4>2. CASE d # c
        BY <1>type, <3>1, <3>2, <3>6, <4>2 DEF S3Inv, TypeOK, Pending, Malformed
      <4> QED BY <4>1, <4>2
    <3>7. Provenance'
      BY <3>2 DEF S3Inv, Provenance
    <3> QED BY <3>5, <3>6, <3>7 DEF S3Inv
  <2> QED BY <1>4, <2>1, <2>2 DEF WriteAnswered
<1>5. CASE Resend(c)
  <2>1. call[c] # NoCall /\ ~Malformed(c) /\ call[c].op \in {"put", "delete"}
    BY <1>5, <1>type DEF Resend, Pending
  <2>2. late' = late \/ late' = late \cup {[path |-> Path(c), object |-> Content(c)]}
    BY <1>5 DEF Resend, GiveUp
  <2>3. TypeOK'
    <3>1. late' \subseteq Write
      BY <1>type, <2>1, <2>2, PathOfCall DEF TypeOK, Write
    <3>2. pc' = [pc EXCEPT ![c] = call[c].op] /\ UNCHANGED <<bucket, call, tag, answer>>
      BY <1>5 DEF Resend
    <3> QED BY <1>type, <2>1, <3>1, <3>2 DEF TypeOK
  <2>4. ASSUME NEW d \in Callers PROVE Pending(d)'
    BY <1>5, <1>type, <2>1, <2>4 DEF S3Inv, Resend, TypeOK, Pending, Malformed
  <2>5. Provenance'
    BY <1>5, <1>type, <2>1, <2>2, PathOfCall DEF S3Inv, Resend, Provenance
  <2> QED BY <2>3, <2>4, <2>5 DEF S3Inv
<1>6. CASE WriteFails(c)
  <2>1. call[c] # NoCall /\ ~Malformed(c) /\ call[c].op \in {"put", "delete"}
    BY <1>6, <1>type DEF WriteFails, Pending
  <2> QED BY <1>6, <2>1, PlainType, ReturnStep DEF WriteFails, GiveUp
<1>7. CASE ReadFails(c)
  BY <1>7, <1>type, PlainType, ReturnStep DEF ReadFails, Pending
<1>8. CASE ReadObject(c)
  <2>1. call[c] # NoCall /\ ~Malformed(c) /\ Path(c) \in Paths
    BY <1>8, <1>type, PathOfCall DEF ReadObject, Pending
  <2> DEFINE o == bucket[Path(c)]
  <2>2. CASE o = Nothing
    BY <1>8, <2>1, <2>2, PlainType, ReturnStep DEF ReadObject
  <2>3. CASE o # Nothing
    <3>1. o \in Object /\ o.version \in Versions /\ tag[c] \in Versions \cup {Nothing}
      BY <1>type, <2>1, <2>3 DEF TypeOK, Object
    <3>2. CASE pc[c] = "describe"
      <4>1. Return(c, Described(c, o)) /\ UNCHANGED <<bucket, late>>
        BY <1>8, <2>3, <3>2 DEF ReadObject
      <4>2. Described(c, o) \in Answer
        BY <3>1 DEF Described, Answer
      <4> QED BY <2>1, <4>1, <4>2, ReturnStep
    <3>3. CASE pc[c] # "describe"
      <4> DEFINE r == [kind |-> "ok", size |-> o.version, etag |-> o.version,
                       body |-> IF pc[c] = "get" THEN o ELSE Nothing, url |-> Nothing]
      <4>1. Return(c, r) /\ UNCHANGED <<bucket, late>>
        BY <1>8, <2>3, <3>3 DEF ReadObject
      <4>2. r \in Answer
        BY <3>1 DEF Answer
      <4> QED BY <2>1, <4>1, <4>2, ReturnStep
    <3> QED BY <3>2, <3>3
  <2> QED BY <2>2, <2>3
<1>9. CASE Presign(c)
  <2>1. call[c] # NoCall /\ Path(c) \in Paths
    BY <1>9, <1>type, PathOfCall DEF Presign, Pending
  <2>2. [Plain("ok") EXCEPT !.url = Path(c)] \in Answer
    BY <2>1, PlainType DEF Plain, Answer
  <2> QED BY <1>9, <2>1, <2>2, ReturnStep DEF Presign
<1> QED BY <1>1, <1>2, <1>3, <1>4, <1>5, <1>6, <1>7, <1>8, <1>9 DEF Step

\* The arrival of an attempt that was given up keeps the invariant.
LEMMA ArriveKeepsInv ==
    ASSUME S3Inv, Arrive
    PROVE  S3Inv'
<1>1. PICK w \in late :
        /\ bucket' = [bucket EXCEPT ![w.path] = w.object]
        /\ late' \in {late, late \ {w}}
        /\ UNCHANGED <<pc, call, tag, answer>>
  BY DEF Arrive
<1>2. w \in Write /\ w.path \in Paths /\ w.object \in Object \cup {Nothing}
  BY DEF S3Inv, TypeOK, Write
<1>3. TypeOK'
  BY <1>1, <1>2 DEF S3Inv, TypeOK
<1>4. \A c \in Callers : Pending(c)'
  BY <1>1 DEF S3Inv, Pending, Malformed
<1>5. Provenance'
  BY <1>1, <1>2 DEF S3Inv, TypeOK, Provenance
<1> QED BY <1>3, <1>4, <1>5 DEF S3Inv

\* An empty bucket and idle callers satisfy the invariant.
LEMMA InitInv == Init => S3Inv
BY PlainType DEF Init, S3Inv, TypeOK, Pending, Provenance, PutHere

\* Every step of a caller, and every late write, preserves it.
LEMMA StepKeepsInv ==
    ASSUME S3Inv, [Next]_vars
    PROVE  S3Inv'
<1>1. CASE UNCHANGED vars
  BY <1>1 DEF vars, S3Inv, TypeOK, Pending, Malformed, Provenance
<1> QED BY <1>1, CallerKeepsInv, ArriveKeepsInv DEF Next

\* The invariant holds throughout every behaviour.
THEOREM S3Invariant == Spec => []S3Inv
BY InitInv, StepKeepsInv, PTL DEF Spec

\* Whatever the prefixes and keys, a Get returns what a Put stored under that key of
\* that store, unless the prefix of one store lies within that of the other (s3.go,
\* providerKey).
THEOREM StoresKeptApart == Spec => ReadsOwnPuts
<1> DEFINE Own(c) ==
             call[c] # NoCall /\ answer'[c].body # Nothing =>
               LET o == answer'[c].body
                   mine == Prefix[StoreOf[c]]
                   other == Prefix[o.store]
               IN IF o.store = StoreOf[c] THEN o.key = call[c].key
                  ELSE Within(mine, other) \/ Within(other, mine)
<1>1. ASSUME S3Inv, [Next]_vars, NEW c \in Callers, call[c] # NoCall, answer'[c].body # Nothing
      PROVE  /\ call[c].key \in Keys /\ Path(c) \in Paths
             /\ answer'[c].body = bucket[Path(c)] /\ bucket[Path(c)] # Nothing
  <2>1. answer[c] = Plain("none") /\ answer[c].body = Nothing /\ TypeOK /\ Pending(c)
    BY <1>1, PlainType DEF S3Inv, Pending
  <2>2. PICK d \in Callers : Step(d)
    BY <1>1, <2>1 DEF Next, vars, Arrive
  <2>3. d = c
    BY <1>1, <2>1, <2>2 DEF TypeOK, Step, Invoke, Refused, WriteObject, WriteAnswered, Resend,
                            WriteFails, ReadFails, ReadObject, Presign, Return
  <2>4. ASSUME NEW r, Return(c, r) PROVE answer'[c] = r
    BY <2>1, <2>4 DEF Return, TypeOK
  <2>5. ReadObject(c)
    <3>1. ~Invoke(c)
      BY <1>1, <2>1 DEF Invoke, Pending
    <3>2. ~Refused(c) /\ ~WriteFails(c) /\ ~ReadFails(c)
      BY <1>1, <2>4, PlainType DEF Refused, WriteFails, ReadFails
    <3>3. ~WriteObject(c) /\ ~Resend(c)
      BY <1>1, <2>1 DEF WriteObject, Resend
    <3>4. ~WriteAnswered(c)
      BY <1>1, <2>1, <2>4, PlainType DEF WriteAnswered
    <3>5. ~Presign(c)
      BY <1>1, <2>4 DEF Presign, Plain
    <3> QED BY <2>2, <2>3, <3>1, <3>2, <3>3, <3>4, <3>5 DEF Step
  <2>6. call[c].key \in Keys /\ Path(c) \in Paths
    BY <1>1, <2>1, <2>5, PathOfCall DEF ReadObject
  <2>7. CASE bucket[Path(c)] = Nothing
    BY <1>1, <2>4, <2>5, <2>7, PlainType DEF ReadObject
  <2>8. CASE bucket[Path(c)] # Nothing
    BY <1>1, <2>4, <2>5, <2>6, <2>8 DEF ReadObject, Described
  <2> QED BY <2>7, <2>8
<1>2. ASSUME S3Inv, [Next]_vars, NEW c \in Callers PROVE Own(c)
  <2> SUFFICES ASSUME call[c] # NoCall, answer'[c].body # Nothing PROVE Own(c)
    OBVIOUS
  <2> DEFINE o == bucket[Path(c)]
  <2>1. call[c].key \in Keys /\ Path(c) \in Paths /\ answer'[c].body = o /\ o # Nothing
    BY <1>1, <1>2
  <2>2. o \in Object /\ PutHere(Path(c), o)
    BY <1>2, <2>1 DEF S3Inv, TypeOK, Provenance
  <2> HIDE DEF o
  <2>3. o.store \in Stores /\ o.key \in Keys /\ StoreOf[c] \in Stores
    BY <2>2 DEF Object, Stores
  <2>4. Prefix[o.store] \o o.key = Prefix[StoreOf[c]] \o call[c].key
    BY <2>1, <2>2 DEF PutHere, ProviderKey, Path
  <2>5. /\ Prefix[o.store] \in Seq(Segments) /\ o.key \in Seq(Segments)
        /\ Prefix[StoreOf[c]] \in Seq(Segments) /\ call[c].key \in Seq(Segments)
    BY <2>1, <2>3, StoreAssumption
  <2>6. CASE o.store = StoreOf[c]
    BY <2>1, <2>4, <2>5, <2>6, SameBeginning
  <2>7. CASE o.store # StoreOf[c]
    BY <2>1, <2>4, <2>5, <2>7, TwoBeginnings
  <2> QED BY <2>6, <2>7
<1>3. S3Inv /\ [Next]_vars => [\A c \in Callers : Own(c)]_vars
  BY <1>2
<1> QED BY <1>3, S3Invariant, PTL DEF Spec, ReadsOwnPuts

-----------------------------------------------------------------------------
(* The bucket implements the contract.                                      *)

\* The history variables: an attempt has been carried out where the code waits for,
\* or acts on, its answer, and a call has seen what is stored now.
Current(c) ==
    /\ applied[c] <=> pc[c] \in {"written", "describe"}
    /\ call[c] = NoCall \/ call[c].key = BadKey => seen[c] = {}
    /\ call[c] # NoCall /\ call[c].key # BadKey => VersionOf(bucket[Path(c)]) \in seen[c]

HistoryInv ==
    /\ S3Inv
    /\ applied \in [Callers -> BOOLEAN]
    /\ seen \in [Callers -> SUBSET (Versions \cup {Nothing})]
    /\ \A c \in Callers : Current(c)

\* The path takes the place of the key, and nothing else changes.
LEMMA AtPathFacts ==
    ASSUME NEW s \in Stores, NEW a \in Call
    PROVE  /\ AtPath(s, a) # NoCall
           /\ AtPath(s, a).op = a.op /\ AtPath(s, a).version = a.version
           /\ AtPath(s, a).key = BadKey <=> a.key = BadKey
           /\ a.key # BadKey => AtPath(s, a).key = ProviderKey(s, a.key) /\ AtPath(s, a).key \in Paths
<1>1. CASE a.key = BadKey
  <2>1. AtPath(s, a) = a /\ a \in CallOn(Keys \cup Paths)
    BY <1>1 DEF AtPath, Call, CallOn
  <2> QED BY <1>1, <2>1, MarkAssumption
<1>2. CASE a.key # BadKey
  <2>1. a.key \in Keys
    BY <1>2 DEF Call, CallOn
  <2>2. ProviderKey(s, a.key) \in Paths
    BY <2>1 DEF Paths
  <2>3. ProviderKey(s, a.key) # BadKey
    BY <2>2, StoreAssumption
  <2>4. AtPath(s, a) = [a EXCEPT !.key = ProviderKey(s, a.key)]
    BY <1>2 DEF AtPath
  <2>5. /\ AtPath(s, a).op = a.op /\ AtPath(s, a).version = a.version
        /\ AtPath(s, a).key = ProviderKey(s, a.key)
    BY <2>4 DEF Call, CallOn
  <2>6. AtPath(s, a) \in CallOn(Keys \cup Paths)
    BY <2>2, <2>4 DEF Call, CallOn
  <2> QED BY <1>2, <2>2, <2>3, <2>5, <2>6, MarkAssumption
<1> QED BY <1>1, <1>2

\* What an object shows is a version or nothing.
LEMMA VersionType ==
    ASSUME NEW o \in Object \cup {Nothing}
    PROVE  VersionOf(o) \in Versions \cup {Nothing} /\ (VersionOf(o) = Nothing <=> o = Nothing)
BY MarkAssumption DEF VersionOf, Object

\* The invariant of the history variables is kept.
LEMMA HistoryKept ==
    ASSUME HistoryInv, NextH
    PROVE  HistoryInv'
<1>1. S3Inv /\ S3Inv' /\ TypeOK /\ TypeOK' /\ Observe
  <2>1. Next
    BY DEF NextH, ArriveH, StepH, Next
  <2> QED BY <2>1, StepKeepsInv DEF HistoryInv, S3Inv, NextH, ArriveH, StepH
<1>2. ASSUME NEW c \in Callers, call'[c] # NoCall, call'[c].key # BadKey
      PROVE  /\ Path(c)' \in Paths /\ Path(c)' = ProviderKey(StoreOf[c], call'[c].key)
             /\ VersionOf(bucket'[Path(c)']) \in Versions \cup {Nothing}
  <2>1. call'[c] \in Call /\ call'[c].key \in Keys /\ StoreOf[c] \in Stores
    BY <1>1, <1>2 DEF TypeOK, Call, CallOn, Stores
  <2>2. Path(c)' \in Paths /\ Path(c)' = ProviderKey(StoreOf[c], call'[c].key)
    BY <2>1 DEF Path, Paths
  <2> QED BY <1>1, <2>2, VersionType DEF TypeOK
<1>3. seen' \in [Callers -> SUBSET (Versions \cup {Nothing})]
  BY <1>1, <1>2 DEF HistoryInv, Observe
<1>4. applied' \in [Callers -> BOOLEAN] /\ \A c \in Callers : applied'[c] <=> pc'[c] \in {"written", "describe"}
  <2>1. CASE ArriveH
    BY <2>1 DEF HistoryInv, ArriveH, Arrive, Current
  <2>2. CASE \E c \in Callers : StepH(c)
    <3>1. PICK c \in Callers : StepH(c)
      BY <2>2
    <3>2. \A d \in Callers : d # c => pc'[d] = pc[d]
      BY <1>1, <3>1 DEF TypeOK, StepH, Step, Invoke, Refused, WriteObject, WriteAnswered, Resend,
                       WriteFails, ReadFails, ReadObject, Presign, Return
    <3> DEFINE b == pc'[c] \in {"written", "describe"}
    <3>3. applied' = [applied EXCEPT ![c] = b] /\ b \in BOOLEAN
      BY <3>1 DEF StepH
    <3>4. applied \in [Callers -> BOOLEAN] /\ \A d \in Callers : applied[d] <=> pc[d] \in {"written", "describe"}
      BY DEF HistoryInv, Current
    <3>5. applied' \in [Callers -> BOOLEAN] /\ (applied'[c] <=> b)
      <4> HIDE DEF b
      <4> QED BY <3>3, <3>4
    <3>6. ASSUME NEW d \in Callers, d # c PROVE applied'[d] <=> pc'[d] \in {"written", "describe"}
      <4>1. applied'[d] = applied[d]
        BY <3>3, <3>4, <3>6
      <4> QED BY <3>2, <3>4, <3>6, <4>1
    <3> QED BY <3>5, <3>6
  <2> QED BY <2>1, <2>2 DEF NextH
<1>5. ASSUME NEW c \in Callers
      PROVE  /\ call'[c] = NoCall \/ call'[c].key = BadKey => seen'[c] = {}
             /\ call'[c] # NoCall /\ call'[c].key # BadKey => VersionOf(bucket'[Path(c)']) \in seen'[c]
  BY <1>1, <1>2, <1>5 DEF Observe
<1>6. \A c \in Callers : Current(c)'
  BY <1>4, <1>5 DEF Current, Path, VersionOf
<1> QED BY <1>1, <1>3, <1>4, <1>6 DEF HistoryInv

-----------------------------------------------------------------------------
(* How the contract's state follows the bucket's.                           *)

\* A change of a caller's call is a change of its call at the path.
LEMMA CallFollows ==
    ASSUME TypeOK, NEW c \in Callers, NEW x, call' = [call EXCEPT ![c] = x]
    PROVE  PathCalls' = [PathCalls EXCEPT ![c] =
                           IF x = NoCall THEN NoCall ELSE AtPath(StoreOf[c], x)]
BY DEF TypeOK, PathCalls

\* So is a change of a caller's answer,
LEMMA AnswerFollows ==
    ASSUME TypeOK, NEW c \in Callers, NEW r, answer' = [answer EXCEPT ![c] = r]
    PROVE  PathAnswers' = [PathAnswers EXCEPT ![c] =
                             [kind |-> r.kind, size |-> r.etag, body |-> VersionOf(r.body)]]
BY DEF TypeOK, PathAnswers

\* of an object of the bucket,
LEMMA ObjectFollows ==
    ASSUME TypeOK, NEW p \in Paths, NEW o, bucket' = [bucket EXCEPT ![p] = o]
    PROVE  PathObjects' = [PathObjects EXCEPT ![p] = VersionOf(o)]
BY DEF TypeOK, PathObjects

\* and of the attempts that may still arrive.
LEMMA AttemptFollows ==
    ASSUME NEW p, NEW o, late' = late \cup {[path |-> p, object |-> o]}
    PROVE  PathAttempts' = PathAttempts \cup {[key |-> p, version |-> VersionOf(o)]}
<1> DEFINE Image(w) == [key |-> w.path, version |-> VersionOf(w.object)]
           n == [path |-> p, object |-> o]
<1>1. Image(n) = [key |-> p, version |-> VersionOf(o)]
  OBVIOUS
<1>2. PathAttempts' = {Image(w) : w \in late \cup {n}} /\ PathAttempts = {Image(w) : w \in late}
  BY DEF PathAttempts, VersionOf
<1> HIDE DEF Image, n
<1> QED BY <1>1, <1>2

\* What the store leaves alone, the contract sees unchanged.
LEMMA NothingFollows ==
    /\ bucket' = bucket => PathObjects' = PathObjects
    /\ late' = late => PathAttempts' = PathAttempts
    /\ call' = call => PathCalls' = PathCalls
    /\ answer' = answer => PathAnswers' = PathAnswers
BY DEF PathObjects, PathAttempts, PathCalls, PathAnswers

\* The pending call as the contract sees it.
LEMMA PendingAtPath ==
    ASSUME TypeOK, NEW c \in Callers
    PROVE  /\ PathCalls[c] = NoCall <=> call[c] = NoCall
           /\ call[c] # NoCall =>
                /\ PathCalls[c].op = call[c].op /\ PathCalls[c].version = call[c].version
                /\ PathCalls[c].key = BadKey <=> call[c].key = BadKey
                /\ call[c].key # BadKey =>
                     PathCalls[c].key = Path(c) /\ Path(c) \in Paths
<1>1. StoreOf[c] \in Stores /\ call[c] \in Call \cup {NoCall}
  BY DEF TypeOK, Stores
<1>2. PathCalls[c] = IF call[c] = NoCall THEN NoCall ELSE AtPath(StoreOf[c], call[c])
  BY DEF PathCalls
<1>3. CASE call[c] = NoCall
  BY <1>2, <1>3
<1>4. CASE call[c] # NoCall
  <2>1. call[c] \in Call
    BY <1>1, <1>4
  <2> QED BY <1>1, <1>2, <1>4, <2>1, AtPathFacts DEF Path
<1> QED BY <1>3, <1>4

\* Both keep the same record of what the calls see.
LEMMA ObserveFollows ==
    ASSUME TypeOK', Observe
    PROVE  Contract!Observe
<1>1. ASSUME NEW c \in Callers
      PROVE  (IF PathCalls'[c] = NoCall \/ PathCalls'[c].key = BadKey THEN {}
              ELSE seen[c] \cup {PathObjects'[PathCalls'[c].key]})
             = (IF call'[c] = NoCall THEN {}
                ELSE IF call'[c].key = BadKey THEN {}
                ELSE seen[c] \cup {VersionOf(bucket'[ProviderKey(StoreOf[c], call'[c].key)])})
  <2>1. StoreOf[c] \in Stores /\ call'[c] \in Call \cup {NoCall}
    BY <1>1 DEF TypeOK, Stores
  <2>2. PathCalls'[c] = IF call'[c] = NoCall THEN NoCall ELSE AtPath(StoreOf[c], call'[c])
    BY <1>1 DEF PathCalls
  <2>3. \A p \in Paths : PathObjects'[p] = VersionOf(bucket'[p])
    BY DEF PathObjects, VersionOf
  <2>4. CASE call'[c] = NoCall
    BY <2>2, <2>4
  <2>5. CASE call'[c] # NoCall
    <3>1. call'[c] \in Call
      BY <2>1, <2>5
    <3>2. /\ PathCalls'[c] # NoCall
          /\ PathCalls'[c].key = BadKey <=> call'[c].key = BadKey
          /\ call'[c].key # BadKey =>
               /\ PathCalls'[c].key = ProviderKey(StoreOf[c], call'[c].key)
               /\ PathCalls'[c].key \in Paths
      BY <2>1, <2>2, <2>5, <3>1, AtPathFacts
    <3> QED BY <2>3, <2>5, <3>2
  <2> QED BY <2>4, <2>5
<1> QED BY <1>1 DEF Observe, Contract!Observe

\* A call of the store returns: it does in the contract.
LEMMA ReturnFollows ==
    ASSUME HistoryInv, NEW c \in Callers, call[c] # NoCall, NEW r, Return(c, r),
           UNCHANGED bucket, applied' = [applied EXCEPT ![c] = pc'[c] \in {"written", "describe"}]
    PROVE  Contract!Return(c, [kind |-> r.kind, size |-> r.etag, body |-> VersionOf(r.body)])
<1>1. TypeOK /\ PathCalls[c] # NoCall
  BY PendingAtPath DEF HistoryInv, S3Inv
<1>2. PathCalls' = [PathCalls EXCEPT ![c] = NoCall]
  BY <1>1, CallFollows DEF Return
<1>3. applied' = [applied EXCEPT ![c] = FALSE]
  <2>1. (pc'[c] \in {"written", "describe"}) = FALSE
    BY <1>1 DEF Return, TypeOK
  <2> QED BY <2>1
<1>4. PathAnswers' = [PathAnswers EXCEPT ![c] =
                        [kind |-> r.kind, size |-> r.etag, body |-> VersionOf(r.body)]]
  BY <1>1, AnswerFollows DEF Return
<1> QED BY <1>1, <1>2, <1>3, <1>4, NothingFollows DEF Contract!Return

\* An answer without an object is one of the contract.
LEMMA PlainFollows ==
    ASSUME HistoryInv, NEW c \in Callers, call[c] # NoCall, NEW k, Return(c, Plain(k)),
           UNCHANGED bucket, applied' = [applied EXCEPT ![c] = pc'[c] \in {"written", "describe"}]
    PROVE  Contract!Return(c, Contract!Reply(k, Nothing, Nothing))
<1> DEFINE r == Plain(k)
<1>1. r.kind = k /\ r.etag = Nothing /\ VersionOf(r.body) = Nothing
  BY DEF Plain, VersionOf
<1>2. Contract!Return(c, [kind |-> r.kind, size |-> r.etag, body |-> VersionOf(r.body)])
  BY ReturnFollows
<1> QED BY <1>1, <1>2 DEF Contract!Reply

-----------------------------------------------------------------------------
\* An attempt that arrives late does so in the contract, where the attempts that
\* agree in path and version are one.
LEMMA ArriveFollows ==
    ASSUME TypeOK, Arrive, UNCHANGED applied
    PROVE  Contract!Arrive
<1> DEFINE Image(w) == [key |-> w.path, version |-> VersionOf(w.object)]
<1>1. PICK w \in late :
        /\ bucket' = [bucket EXCEPT ![w.path] = w.object]
        /\ late' \in {late, late \ {w}}
        /\ UNCHANGED <<pc, call, tag, answer>>
  BY DEF Arrive
<1>2. w \in Write /\ w.path \in Paths
  BY DEF TypeOK, Write
<1>3. PathObjects' = [PathObjects EXCEPT ![Image(w).key] = Image(w).version]
  BY <1>1, <1>2, ObjectFollows
<1>4. PathAttempts = {Image(u) : u \in late} /\ PathAttempts' = {Image(u) : u \in late'}
  BY DEF PathAttempts, VersionOf
<1>5. Image(w) \in PathAttempts
  BY <1>4
<1>6. PathAttempts' \in {PathAttempts, PathAttempts \ {Image(w)}}
  <2> HIDE DEF Image
  <2>1. CASE late' = late
    BY <1>4, <2>1
  <2>2. CASE late' = late \ {w} /\ \E u \in late \ {w} : Image(u) = Image(w)
    BY <1>4, <2>2
  <2>3. CASE late' = late \ {w} /\ ~\E u \in late \ {w} : Image(u) = Image(w)
    BY <1>4, <2>3
  <2> QED BY <1>1, <2>1, <2>2, <2>3
<1>7. PathCalls' = PathCalls /\ PathAnswers' = PathAnswers
  BY <1>1, NothingFollows
<1> QED BY <1>3, <1>5, <1>6, <1>7 DEF Contract!Arrive

\* A write leaves the version it was called with; for Delete that is none.
LEMMA ContentVersion ==
    ASSUME TypeOK, NEW c \in Callers, Pending(c), call[c] # NoCall, ~Malformed(c),
           call[c].op \in {"put", "delete"}
    PROVE  VersionOf(Content(c)) = call[c].version
<1>1. CASE call[c].op = "put"
  <2>1. Content(c) = [version |-> call[c].version, store |-> StoreOf[c], key |-> call[c].key]
    BY <1>1 DEF Content
  <2>2. call[c].key \in Keys /\ call[c].version \in Versions /\ StoreOf[c] \in Stores
    BY <1>1 DEF TypeOK, Call, CallOn, Malformed, Stores
  <2>3. Content(c) \in Object /\ Content(c).version = call[c].version
    BY <2>1, <2>2 DEF Object
  <2>4. Content(c) # Nothing
    BY <2>3, MarkAssumption
  <2> QED BY <2>3, <2>4 DEF VersionOf
<1>2. CASE call[c].op = "delete"
  BY <1>2, CallAssumption DEF Pending, Content, VersionOf
<1> QED BY <1>1, <1>2

\* What may stay behind of a write that is given up.
LEMMA GiveUpFollows ==
    ASSUME HistoryInv, NEW c \in Callers, call[c] # NoCall, ~Malformed(c),
           call[c].op \in {"put", "delete"}, GiveUp(c)
    PROVE  Contract!Writes(c) /\ Contract!LeftBehind(c)
<1>1. TypeOK /\ Pending(c)
  BY DEF HistoryInv, S3Inv
<1>2. /\ PathCalls[c] # NoCall /\ PathCalls[c].op = call[c].op
      /\ PathCalls[c].version = call[c].version /\ PathCalls[c].key = Path(c) /\ Path(c) \in Paths
  BY <1>1, PendingAtPath DEF Malformed
<1>3. Contract!Writes(c)
  BY <1>2 DEF Contract!Writes, Malformed
<1>4. VersionOf(Content(c)) = call[c].version
  BY <1>1, ContentVersion
<1>5. CASE UNCHANGED late
  BY <1>3, <1>5, NothingFollows DEF Contract!LeftBehind
<1>6. CASE late' = late \cup {[path |-> Path(c), object |-> Content(c)]}
  <2>1. PathAttempts' = PathAttempts \cup {[key |-> Path(c), version |-> VersionOf(Content(c))]}
    BY <1>6, AttemptFollows
  <2>2. Contract!Attempt(c) = [key |-> Path(c), version |-> VersionOf(Content(c))]
    BY <1>2, <1>4 DEF Contract!Attempt
  <2> QED BY <1>3, <2>1, <2>2 DEF Contract!LeftBehind
<1> QED BY <1>5, <1>6 DEF GiveUp

\* Every step of a caller is one of its call in the contract, or none.
LEMMA StepFollows ==
    ASSUME HistoryInv, ETags = {TRUE}, NEW c \in Callers, StepH(c)
    PROVE  Contract!CallStep(c) \/ UNCHANGED Contract!vars
<1>inv. TypeOK /\ Pending(c) /\ Current(c)
  BY DEF HistoryInv, S3Inv
<1>app. applied' = [applied EXCEPT ![c] = pc'[c] \in {"written", "describe"}]
  BY DEF StepH
<1>call. /\ PathCalls[c] = NoCall <=> call[c] = NoCall
         /\ call[c] # NoCall =>
              /\ PathCalls[c].op = call[c].op /\ PathCalls[c].version = call[c].version
              /\ PathCalls[c].key = BadKey <=> call[c].key = BadKey
              /\ call[c].key # BadKey => PathCalls[c].key = Path(c) /\ Path(c) \in Paths
  BY <1>inv, PendingAtPath
<1>1. CASE Invoke(c)
  <2>1. PICK a \in CallsOf[c] : call' = [call EXCEPT ![c] = a] /\ pc' = [pc EXCEPT ![c] = a.op]
    BY <1>1 DEF Invoke
  <2>2. a \in Call /\ StoreOf[c] \in Stores
    BY CallAssumption DEF Stores
  <2>3. a # NoCall /\ a.op \notin {"written", "describe"}
    BY <2>2, MarkAssumption DEF Call, CallOn
  <2>4. PathCalls' = [PathCalls EXCEPT ![c] = AtPath(StoreOf[c], a)]
    BY <1>inv, <2>1, <2>3, CallFollows
  <2>5. PathAnswers' = [PathAnswers EXCEPT ![c] = Contract!Reply("none", Nothing, Nothing)]
    <3>1. [kind |-> Plain("none").kind, size |-> Plain("none").etag, body |-> VersionOf(Plain("none").body)]
            = Contract!Reply("none", Nothing, Nothing)
      BY DEF Plain, VersionOf, Contract!Reply
    <3>2. answer' = [answer EXCEPT ![c] = Plain("none")]
      BY <1>1 DEF Invoke
    <3>3. PathAnswers' = [PathAnswers EXCEPT ![c] =
            [kind |-> Plain("none").kind, size |-> Plain("none").etag, body |-> VersionOf(Plain("none").body)]]
      BY <1>inv, <3>2, AnswerFollows
    <3> QED BY <3>1, <3>3
  <2>6. applied' = applied
    <3>1. (pc'[c] \in {"written", "describe"}) = FALSE
      BY <1>inv, <2>1, <2>3 DEF TypeOK
    <3>2. applied[c] = FALSE /\ applied \in [Callers -> BOOLEAN]
      BY <1>1, <1>inv DEF Invoke, Current, HistoryInv
    <3>3. applied' = [applied EXCEPT ![c] = FALSE]
      BY <1>app, <3>1
    <3> QED BY <3>2, <3>3
  <2>7. call[c] = NoCall
    BY <1>1, <1>inv DEF Invoke, Pending
  <2>8. Contract!Begin(c)
    BY <1>1, <1>call, <2>4, <2>5, <2>6, <2>7, NothingFollows DEF Invoke, Contract!Begin
  <2> QED BY <2>8 DEF Contract!CallStep
<1>2. CASE Refused(c)
  <2>1. call[c] # NoCall
    BY <1>2, <1>inv DEF Refused, Pending
  <2>2. Contract!Return(c, Contract!Reply("refused", Nothing, Nothing))
    BY <1>2, <1>app, <2>1, PlainFollows DEF Refused
  <2>3. Contract!Refuse(c)
    BY <1>2, <1>call, <2>1, <2>2, NothingFollows DEF Refused, Malformed, Contract!Refuse
  <2> QED BY <1>call, <2>1, <2>3 DEF Contract!CallStep
<1>3. CASE WriteObject(c)
  <2>1. call[c] # NoCall /\ ~Malformed(c) /\ call[c].op \in {"put", "delete"}
    BY <1>3, <1>inv DEF WriteObject, Pending
  <2>2. PathCalls[c].key = Path(c) /\ Path(c) \in Paths /\ PathCalls[c].op = call[c].op
    BY <1>call, <2>1 DEF Malformed
  <2>3. VersionOf(Content(c)) = call[c].version
    BY <1>inv, <2>1, ContentVersion
  <2>4. PathObjects' = [PathObjects EXCEPT ![PathCalls[c].key] = PathCalls[c].version]
    <3>1. bucket' = [bucket EXCEPT ![Path(c)] = Content(c)]
      BY <1>3 DEF WriteObject
    <3>2. PathObjects' = [PathObjects EXCEPT ![Path(c)] = VersionOf(Content(c))]
      BY <1>inv, <2>2, <3>1, ObjectFollows
    <3> QED BY <1>call, <2>1, <2>2, <2>3, <3>2
  <2>5. applied' = [applied EXCEPT ![c] = TRUE]
    <3>1. (pc'[c] \in {"written", "describe"}) = TRUE
      BY <1>3, <1>inv DEF WriteObject, TypeOK
    <3> QED BY <1>app, <3>1
  <2>6. Contract!Writes(c)
    BY <1>call, <2>1, <2>2 DEF Contract!Writes, Malformed
  <2>7. ~applied[c]
    BY <1>3, <1>inv DEF WriteObject, Current
  <2>8. Contract!Apply(c)
    BY <1>3, <2>4, <2>5, <2>6, <2>7, NothingFollows DEF WriteObject, Contract!Apply
  <2> QED BY <2>8 DEF Contract!CallStep
<1>4. CASE WriteAnswered(c)
  <2>1. call[c] # NoCall /\ applied[c]
    BY <1>4, <1>inv DEF WriteAnswered, Pending, Current
  <2>2. CASE call[c].op = "delete"
    <3>1. Contract!Return(c, Contract!Reply("ok", Nothing, Nothing))
      BY <1>4, <1>app, <2>1, <2>2, PlainFollows DEF WriteAnswered
    <3>2. PathCalls[c].version = Nothing
      BY <1>inv, <1>call, <2>1, <2>2, CallAssumption DEF Pending
    <3>3. Contract!Succeed(c)
      BY <1>4, <2>1, <3>1, <3>2, NothingFollows DEF WriteAnswered, Contract!Succeed
    <3> QED BY <1>call, <2>1, <3>3 DEF Contract!CallStep
  <2>3. CASE call[c].op = "put"
    <3>1. pc' = [pc EXCEPT ![c] = "describe"] /\ UNCHANGED <<call, answer, bucket, late>>
      BY <1>4, <2>3 DEF WriteAnswered
    <3>2. applied' = applied
      <4>1. (pc'[c] \in {"written", "describe"}) = TRUE
        BY <1>inv, <3>1 DEF TypeOK
      <4>2. applied[c] = TRUE /\ applied \in [Callers -> BOOLEAN]
        BY <2>1 DEF HistoryInv
      <4>3. applied' = [applied EXCEPT ![c] = TRUE]
        BY <1>app, <4>1
      <4> QED BY <4>2, <4>3
    <3>3. seen' = seen
      <4>1. seen \in [Callers -> SUBSET (Versions \cup {Nothing})]
            /\ \A d \in Callers : Current(d)
        BY DEF HistoryInv
      <4>2. seen' = [d \in Callers |->
                       IF call[d] = NoCall THEN {}
                       ELSE IF call[d].key = BadKey THEN {}
                       ELSE seen[d] \cup {VersionOf(bucket[Path(d)])}]
        BY <3>1 DEF StepH, Observe, Path, VersionOf
      <4>3. \A d \in Callers : seen'[d] = seen[d]
        BY <4>1, <4>2 DEF Current
      <4> QED BY <4>1, <4>2, <4>3
    <3> QED BY <3>1, <3>2, <3>3, NothingFollows DEF Contract!vars
  <2> QED BY <1>4, <2>2, <2>3 DEF WriteAnswered
<1>5. CASE Resend(c)
  <2>1. call[c] # NoCall /\ ~Malformed(c) /\ call[c].op \in {"put", "delete"}
    BY <1>5, <1>inv DEF Resend, Pending
  <2>2. Contract!Writes(c) /\ Contract!LeftBehind(c)
    BY <1>5, <2>1, GiveUpFollows DEF Resend
  <2>3. applied' = [applied EXCEPT ![c] = FALSE]
    <3>1. (pc'[c] \in {"written", "describe"}) = FALSE
      BY <1>5, <1>inv, <2>1 DEF Resend, TypeOK
    <3> QED BY <1>app, <3>1
  <2>4. Contract!TryAgain(c)
    BY <1>5, <2>2, <2>3, NothingFollows DEF Resend, Contract!TryAgain
  <2> QED BY <2>4 DEF Contract!CallStep
<1>6. CASE WriteFails(c)
  <2>1. call[c] # NoCall /\ ~Malformed(c) /\ call[c].op \in {"put", "delete"}
    BY <1>6, <1>inv DEF WriteFails, Pending
  <2>2. Contract!LeftBehind(c)
    BY <1>6, <2>1, GiveUpFollows DEF WriteFails
  <2>3. Contract!Return(c, Contract!Reply("error", Nothing, Nothing))
    BY <1>6, <1>app, <2>1, PlainFollows DEF WriteFails
  <2>4. Contract!Fail(c)
    BY <2>2, <2>3 DEF Contract!Fail
  <2> QED BY <1>call, <2>1, <2>4 DEF Contract!CallStep
<1>7. CASE ReadFails(c)
  <2>1. call[c] # NoCall
    BY <1>7, <1>inv DEF ReadFails, Pending
  <2>2. Contract!LeftBehind(c)
    BY <1>7, NothingFollows DEF ReadFails, Contract!LeftBehind
  <2>3. Contract!Return(c, Contract!Reply("error", Nothing, Nothing))
    BY <1>7, <1>app, <2>1, PlainFollows DEF ReadFails
  <2>4. Contract!Fail(c)
    BY <2>2, <2>3 DEF Contract!Fail
  <2> QED BY <1>call, <2>1, <2>4 DEF Contract!CallStep
<1>8. CASE ReadObject(c)
  <2> DEFINE o == bucket[Path(c)]
  <2>1. call[c] # NoCall /\ ~Malformed(c) /\ call[c].key # BadKey /\ UNCHANGED <<bucket, late>>
    BY <1>8, <1>inv DEF ReadObject, Pending, Malformed
  <2>2. Path(c) \in Paths /\ o \in Object \cup {Nothing}
    BY <1>inv, <2>1, PathOfCall DEF TypeOK
  <2>3. VersionOf(o) \in seen[c] /\ PathAttempts' = PathAttempts
    BY <1>inv, <2>1, NothingFollows DEF Current
  <2>4. CASE o = Nothing
    <3>1. Contract!Return(c, Contract!Reply("notfound", Nothing, Nothing))
      BY <1>8, <1>app, <2>1, <2>4, PlainFollows DEF ReadObject
    <3>2. call[c].op \in {"get", "stat"} \/ (call[c].op = "put" /\ applied[c])
      BY <1>8, <1>inv DEF ReadObject, Pending, Current
    <3>3. Nothing \in seen[c]
      BY <2>3, <2>4 DEF VersionOf
    <3>4. Contract!NotFound(c)
      BY <1>call, <2>1, <2>3, <3>1, <3>2, <3>3 DEF Contract!NotFound
    <3> QED BY <1>call, <2>1, <3>4 DEF Contract!CallStep
  <2>5. CASE o # Nothing /\ pc[c] = "describe"
    <3>1. Return(c, Described(c, o))
      BY <1>8, <2>5 DEF ReadObject
    <3>2. call[c].op = "put" /\ applied[c] /\ tag[c] # Nothing /\ tag[c] = call[c].version
      BY <1>inv, <2>5 DEF Pending, Current
    <3>3. /\ Described(c, o).kind = "ok" /\ Described(c, o).etag = PathCalls[c].version
          /\ VersionOf(Described(c, o).body) = Nothing
      BY <1>call, <2>1, <3>2 DEF Described, VersionOf
    <3>4. Contract!Return(c, [kind |-> Described(c, o).kind, size |-> Described(c, o).etag,
                              body |-> VersionOf(Described(c, o).body)])
      BY <1>app, <2>1, <3>1, ReturnFollows
    <3>5. Contract!Succeed(c)
      BY <2>3, <3>2, <3>3, <3>4 DEF Contract!Succeed, Contract!Reply
    <3> QED BY <1>call, <2>1, <3>5 DEF Contract!CallStep
  <2>6. CASE o # Nothing /\ pc[c] # "describe"
    <3> DEFINE r == [kind |-> "ok", size |-> o.version, etag |-> o.version,
                     body |-> IF pc[c] = "get" THEN o ELSE Nothing, url |-> Nothing]
    <3>1. Return(c, r)
      BY <1>8, <2>6 DEF ReadObject
    <3>2. VersionOf(o) = o.version /\ o.version \in seen[c] \ {Nothing}
      <4>1. VersionOf(o) = o.version
        BY <2>6 DEF VersionOf
      <4>2. VersionOf(o) # Nothing
        BY <2>2, <2>6, VersionType
      <4> QED BY <2>3, <4>1, <4>2
    <3>3. Contract!Return(c, [kind |-> r.kind, size |-> r.etag, body |-> VersionOf(r.body)])
      <4> HIDE DEF r
      <4> QED BY <1>app, <2>1, <3>1, ReturnFollows
    <3>4. r.kind = "ok" /\ r.etag = o.version
      OBVIOUS
    <3>5. CASE pc[c] = "get"
      <4>1. call[c].op = "get" /\ VersionOf(r.body) = o.version
        BY <1>inv, <3>2, <3>5 DEF Pending
      <4>2. Contract!Return(c, Contract!Reply("ok", o.version, o.version))
        BY <3>3, <3>4, <4>1 DEF Contract!Reply
      <4>3. Contract!Found(c)
        BY <1>call, <2>1, <2>3, <3>2, <4>1, <4>2 DEF Contract!Found
      <4> QED BY <1>call, <2>1, <4>3 DEF Contract!CallStep
    <3>6. CASE pc[c] = "stat"
      <4>1. call[c].op = "stat" /\ VersionOf(r.body) = Nothing
        BY <1>inv, <3>6 DEF Pending, VersionOf
      <4>2. Contract!Return(c, Contract!Reply("ok", o.version, Nothing))
        BY <3>3, <3>4, <4>1 DEF Contract!Reply
      <4>3. Contract!Found(c)
        BY <1>call, <2>1, <2>3, <3>2, <4>1, <4>2 DEF Contract!Found
      <4> QED BY <1>call, <2>1, <4>3 DEF Contract!CallStep
    <3> QED BY <1>8, <2>6, <3>5, <3>6 DEF ReadObject
  <2> QED BY <2>4, <2>5, <2>6
<1>9. CASE Presign(c)
  <2> DEFINE r == [Plain("ok") EXCEPT !.url = Path(c)]
  <2>1. call[c] # NoCall /\ call[c].op = "presign"
    BY <1>9, <1>inv DEF Presign, Pending
  <2>2. r.kind = "ok" /\ r.etag = Nothing /\ VersionOf(r.body) = Nothing
    BY DEF Plain, VersionOf
  <2>3. Contract!Return(c, [kind |-> r.kind, size |-> r.etag, body |-> VersionOf(r.body)])
    BY <1>9, <1>app, <2>1, ReturnFollows DEF Presign
  <2>4. Contract!Sign(c)
    BY <1>9, <1>call, <2>1, <2>2, <2>3, NothingFollows DEF Presign, Contract!Sign, Contract!Reply
  <2> QED BY <1>call, <2>1, <2>4 DEF Contract!CallStep
<1> QED BY <1>1, <1>2, <1>3, <1>4, <1>5, <1>6, <1>7, <1>8, <1>9 DEF StepH, Step

-----------------------------------------------------------------------------
\* The history variables never fall behind.
THEOREM HistoryInvariant == SpecH => []HistoryInv
<1>1. InitH => HistoryInv
  <2> SUFFICES ASSUME InitH PROVE HistoryInv
    OBVIOUS
  <2>1. S3Inv
    BY InitInv DEF InitH
  <2> QED BY <2>1 DEF InitH, Init, HistoryInv, Current
<1>2. HistoryInv /\ [NextH]_varsH => HistoryInv'
  <2>1. ASSUME HistoryInv, UNCHANGED varsH PROVE HistoryInv'
    <3>1. S3Inv'
      BY <2>1, StepKeepsInv DEF HistoryInv, vars, varsH
    <3> QED BY <2>1, <3>1 DEF HistoryInv, Current, Path, VersionOf, varsH
  <2> QED BY <2>1, HistoryKept
<1> QED BY <1>1, <1>2, PTL DEF SpecH

\* A bucket whose service answers every PutObject with an ETag, as S3 does, implements
\* the contract of blobx.Store path by path, for any number of callers, stores and
\* attempts lost, repeated or late (s3.go, Put, Get, Stat, Delete and PresignGet).
THEOREM S3ImplementsObjectStore ==
    ASSUME ETags = {TRUE}
    PROVE  SpecH => ImplementsObjectStore
<1>1. InitH => Contract!Init
  <2> SUFFICES ASSUME InitH PROVE Contract!Init
    OBVIOUS
  <2>1. PathObjects = [p \in Paths |-> Nothing]
    BY DEF InitH, Init, PathObjects, VersionOf
  <2>2. PathAttempts = {}
    BY DEF InitH, Init, PathAttempts
  <2>3. PathCalls = [c \in Callers |-> NoCall]
    BY DEF InitH, Init, PathCalls
  <2>4. PathAnswers = [c \in Callers |-> Contract!Reply("none", Nothing, Nothing)]
    BY DEF InitH, Init, PathAnswers, Plain, VersionOf, Contract!Reply
  <2> QED BY <2>1, <2>2, <2>3, <2>4 DEF InitH, Contract!Init
<1>2. HistoryInv /\ HistoryInv' /\ [NextH]_varsH => [Contract!Next]_(Contract!vars)
  <2> SUFFICES ASSUME HistoryInv, HistoryInv', [NextH]_varsH
               PROVE  [Contract!Next]_(Contract!vars)
    OBVIOUS
  <2>1. CASE UNCHANGED varsH
    BY <2>1, NothingFollows DEF varsH, Contract!vars
  <2>2. CASE ArriveH
    BY <2>2, ArriveFollows, ObserveFollows DEF ArriveH, HistoryInv, S3Inv, Contract!Next
  <2>3. ASSUME NEW c \in Callers, StepH(c) PROVE [Contract!Next]_(Contract!vars)
    BY <2>3, StepFollows, ObserveFollows DEF StepH, HistoryInv, S3Inv, Contract!Next
  <2> QED BY <2>1, <2>2, <2>3 DEF NextH
<1> QED BY <1>1, <1>2, HistoryInvariant, PTL DEF SpecH, ImplementsObjectStore, Contract!Spec
============================================================================
