------------------------------ MODULE S3Store ------------------------------
(***************************************************************************)
(* blobx.S3Store (blobx/s3.go): callers of stores with different key       *)
(* prefixes over one bucket.  The service and the SDK's client are         *)
(* external: a request takes effect in the bucket at one instant, its      *)
(* answer may be lost, a request that is given up may still arrive, and    *)
(* the client may send a write again.                                      *)
(*                                                                         *)
(* Keys and prefixes are sequences of path segments.  A version stands for *)
(* a body with its size, content type and ETag.                            *)
(***************************************************************************)
EXTENDS Naturals, Sequences, FiniteSets

CONSTANTS
    Callers,    \* goroutines, each with a store
    StoreOf,    \* StoreOf[c]: the store of caller c
    Prefix,     \* Prefix[s]: the key prefix of store s
    Segments,   \* path segments
    Keys,       \* keys that NormalizeKey accepts
    BadKey,     \* a key that NormalizeKey rejects
    Versions,   \* what callers put
    CallsOf,    \* CallsOf[c]: the calls that caller c makes
    ETags,      \* whether the answer to PutObject may, or may not, have an ETag
    MaxLate,    \* bound on the writes that may still arrive after they are given up
    Nothing,    \* no object
    NoCall      \* the caller is outside the store

VARIABLES
    bucket,     \* what is stored at each path, with the store and key of its Put
    late,       \* writes given up by their caller that may still arrive
    pc,         \* where each caller is
    call,       \* the arguments of its call
    tag,        \* the ETag that PutObject answered
    answer      \* what its last call returned; none while pending

vars == <<bucket, late, pc, call, tag, answer>>

\* Mutant: the prefix is left out.
ProviderKeyBare(s, k) == k

\* providerKey.
ProviderKey(s, k) == Prefix[s] \o k

Stores == {StoreOf[c] : c \in Callers}
Paths == {ProviderKey(s, k) : s \in Stores, k \in Keys}

Object == [version : Versions, store : Stores, key : Keys]
Write == [path : Paths, object : Object \cup {Nothing}]
CallOn(K) == [op : {"put", "get", "stat", "delete", "presign"}, key : K \cup {BadKey},
              version : Versions \cup {Nothing}]
Call == CallOn(Keys)
Answer == [kind : {"none", "ok", "notfound", "error", "refused"},
           size : Versions \cup {Nothing}, etag : Versions \cup {Nothing},
           body : Object \cup {Nothing}, url : Paths \cup {Nothing}]

ASSUME StoreAssumption ==
    /\ Keys \subseteq Seq(Segments) /\ \A s \in Stores : Prefix[s] \in Seq(Segments)
    /\ BadKey \notin Keys \cup Paths
ASSUME CallAssumption ==
    /\ CallsOf \in [Callers -> SUBSET Call]
    /\ \A c \in Callers : \A a \in CallsOf[c] : a.op = "delete" => a.version = Nothing
ASSUME ServiceAssumption == ETags \subseteq BOOLEAN /\ MaxLate \in Nat
ASSUME MarkAssumption ==
    /\ Nothing \notin Versions \cup Object \cup Paths
    /\ NoCall \notin CallOn(Keys \cup Paths)

Plain(kind) == [kind |-> kind, size |-> Nothing, etag |-> Nothing,
                body |-> Nothing, url |-> Nothing]

TypeOK ==
    /\ bucket \in [Paths -> Object \cup {Nothing}]
    /\ late \subseteq Write
    /\ pc \in [Callers -> {"idle", "put", "stat", "get", "delete", "presign",
                           "written", "describe"}]
    /\ call \in [Callers -> Call \cup {NoCall}]
    /\ tag \in [Callers -> Versions \cup {Nothing}]
    /\ answer \in [Callers -> Answer]

Init ==
    /\ bucket = [p \in Paths |-> Nothing]
    /\ late = {}
    /\ pc = [c \in Callers |-> "idle"]
    /\ call = [c \in Callers |-> NoCall]
    /\ tag = [c \in Callers |-> Nothing]
    /\ answer = [c \in Callers |-> Plain("none")]

Path(c) == ProviderKey(StoreOf[c], call[c].key)

\* What the pending Put (or Delete, for which it is Nothing) leaves at its path.
Content(c) ==
    IF call[c].op = "delete" THEN Nothing
    ELSE [version |-> call[c].version, store |-> StoreOf[c], key |-> call[c].key]

----------------------------------------------------------------------------
Invoke(c) ==
    /\ pc[c] = "idle"
    /\ \E a \in CallsOf[c] :
          /\ call' = [call EXCEPT ![c] = a]
          /\ pc' = [pc EXCEPT ![c] = a.op]
    /\ answer' = [answer EXCEPT ![c] = Plain("none")]
    /\ UNCHANGED <<bucket, late, tag>>

Return(c, r) ==
    /\ pc' = [pc EXCEPT ![c] = "idle"]
    /\ call' = [call EXCEPT ![c] = NoCall]
    /\ tag' = [tag EXCEPT ![c] = Nothing]
    /\ answer' = [answer EXCEPT ![c] = r]

\* NormalizeKey rejects the key, Put's body is nil, or the expiry of a
\* presigned URL is not positive (both shown by version = Nothing).
Malformed(c) ==
    \/ call[c].key = BadKey
    \/ call[c].op \in {"put", "presign"} /\ call[c].version = Nothing

Refused(c) ==
    /\ pc[c] \in {"put", "stat", "get", "delete", "presign"}
    /\ Malformed(c)
    /\ Return(c, Plain("refused"))
    /\ UNCHANGED <<bucket, late>>

\* The service carries out PutObject or DeleteObject.
WriteObject(c) ==
    /\ pc[c] \in {"put", "delete"}
    /\ ~Malformed(c)
    /\ bucket' = [bucket EXCEPT ![Path(c)] = Content(c)]
    /\ pc' = [pc EXCEPT ![c] = "written"]
    /\ UNCHANGED <<late, call, tag, answer>>

\* Its answer arrives: Delete returns, Put goes on to Stat.
WriteAnswered(c) ==
    /\ pc[c] = "written"
    /\ \/ /\ call[c].op = "delete"
          /\ Return(c, Plain("ok"))
       \/ /\ call[c].op = "put"
          /\ pc' = [pc EXCEPT ![c] = "describe"]
          /\ \E tagged \in ETags :
                tag' = [tag EXCEPT ![c] = IF tagged THEN call[c].version ELSE Nothing]
          /\ UNCHANGED <<call, answer>>
    /\ UNCHANGED <<bucket, late>>

\* A write is given up: it is lost, or it has been carried out, or it is
\* still on its way.
GiveUp(c) ==
    \/ UNCHANGED late
    \/ /\ pc[c] # "written"
       /\ Cardinality(late) < MaxLate
       /\ late' = late \cup {[path |-> Path(c), object |-> Content(c)]}

\* The client gives up an attempt and makes another.
Resend(c) ==
    /\ pc[c] \in {"put", "delete", "written"}
    /\ ~Malformed(c)
    /\ GiveUp(c)
    /\ pc' = [pc EXCEPT ![c] = call[c].op]
    /\ UNCHANGED <<bucket, call, tag, answer>>

\* A request fails for its caller: the service refuses it, or the connection
\* breaks or the context ends with the request under way.
WriteFails(c) ==
    /\ pc[c] \in {"put", "delete", "written"}
    /\ ~Malformed(c)
    /\ GiveUp(c)
    /\ Return(c, Plain("error"))
    /\ UNCHANGED bucket

ReadFails(c) ==
    /\ pc[c] \in {"stat", "get", "presign", "describe"}
    /\ ~Malformed(c)
    /\ Return(c, Plain("error"))
    /\ UNCHANGED <<bucket, late>>

\* Mutant: Put returns the ETag that Stat found.
DescribedOnly(c, o) ==
    [kind |-> "ok", size |-> o.version, etag |-> o.version, body |-> Nothing, url |-> Nothing]

\* Put's result: Stat's, but with the ETag of the write where there is one.
Described(c, o) ==
    [kind |-> "ok", size |-> o.version,
     etag |-> IF tag[c] = Nothing THEN o.version ELSE tag[c],
     body |-> Nothing, url |-> Nothing]

\* HeadObject, for Stat and for the Stat at the end of Put, and GetObject;
\* mapError makes ErrNotFound of a missing object.
ReadObject(c) ==
    LET o == bucket[Path(c)] IN
    /\ pc[c] \in {"stat", "get", "describe"}
    /\ ~Malformed(c)
    /\ Return(c, CASE o = Nothing -> Plain("notfound")
                   [] o # Nothing /\ pc[c] = "describe" -> Described(c, o)
                   [] OTHER -> [kind |-> "ok", size |-> o.version, etag |-> o.version,
                                body |-> IF pc[c] = "get" THEN o ELSE Nothing,
                                url |-> Nothing])
    /\ UNCHANGED <<bucket, late>>

\* PresignGet signs the path; the service is not asked.
Presign(c) ==
    /\ pc[c] = "presign"
    /\ ~Malformed(c)
    /\ Return(c, [Plain("ok") EXCEPT !.url = Path(c)])
    /\ UNCHANGED <<bucket, late>>

\* A request that was given up arrives; another attempt that was equal to it may
\* still be on its way.
Arrive ==
    \E w \in late :
       /\ bucket' = [bucket EXCEPT ![w.path] = w.object]
       /\ late' \in {late, late \ {w}}
       /\ UNCHANGED <<pc, call, tag, answer>>

Step(c) ==
    \/ Invoke(c) \/ Refused(c) \/ WriteObject(c) \/ WriteAnswered(c) \/ Resend(c)
    \/ WriteFails(c) \/ ReadFails(c) \/ ReadObject(c) \/ Presign(c)

Next == Arrive \/ \E c \in Callers : Step(c)

Spec == Init /\ [][Next]_vars

----------------------------------------------------------------------------
Within(p, q) == Len(q) <= Len(p) /\ SubSeq(p, 1, Len(q)) = q

\* Stores over one bucket do not see each other's objects, as long as neither
\* prefix lies within the other, and a store's keys do not run into each other
\* (s3.go:69-74 and 202-207): a Get returns what a Put stored under that key
\* of that store, however late it arrived.
ReadsOwnPuts ==
    [][\A c \in Callers :
          call[c] # NoCall /\ answer'[c].body # Nothing =>
             LET o == answer'[c].body
                 mine == Prefix[StoreOf[c]]
                 other == Prefix[o.store]
             IN IF o.store = StoreOf[c] THEN o.key = call[c].key
                ELSE Within(mine, other) \/ Within(other, mine)]_vars
============================================================================
