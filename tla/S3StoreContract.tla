-------------------------- MODULE S3StoreContract --------------------------
(***************************************************************************)
(* blobx.S3Store against the promise of blobx.Store, path by path of the   *)
(* bucket.  Two history variables record whether the present attempt of    *)
(* each call has taken effect and what the call overlapped.                *)
(***************************************************************************)
EXTENDS S3Store

VARIABLES
    applied,   \* the present attempt of the pending call has been carried out
    seen       \* the objects at its path at the instants of the call

varsH == <<bucket, late, pc, call, tag, answer, applied, seen>>

VersionOf(o) == IF o = Nothing THEN Nothing ELSE o.version

AtPath(s, a) == IF a.key = BadKey THEN a ELSE [a EXCEPT !.key = ProviderKey(s, @)]

\* The state as the contract sees it.
PathObjects == [p \in Paths |-> VersionOf(bucket[p])]
PathAttempts == {[key |-> w.path, version |-> VersionOf(w.object)] : w \in late}
PathCalls == [c \in Callers |-> IF call[c] = NoCall THEN NoCall ELSE AtPath(StoreOf[c], call[c])]
PathAnswers == [c \in Callers |-> [kind |-> answer[c].kind, size |-> answer[c].etag,
                                   body |-> VersionOf(answer[c].body)]]

Contract ==
    INSTANCE ObjectStore WITH
       Keys <- Paths,
       CallsOf <- [c \in Callers |-> {AtPath(StoreOf[c], a) : a \in CallsOf[c]}],
       objects <- PathObjects,
       late <- PathAttempts,
       call <- PathCalls,
       answer <- PathAnswers

Observe ==
    seen' = [c \in Callers |->
                IF call'[c] = NoCall THEN {}
                ELSE IF call'[c].key = BadKey THEN {}
                ELSE seen[c] \cup
                     {VersionOf(bucket'[ProviderKey(StoreOf[c], call'[c].key)])}]

InitH ==
    /\ Init
    /\ applied = [c \in Callers |-> FALSE]
    /\ seen = [c \in Callers |-> {}]

StepH(c) ==
    /\ Step(c)
    /\ applied' = [applied EXCEPT ![c] = pc'[c] \in {"written", "describe"}]
    /\ Observe

ArriveH == Arrive /\ UNCHANGED applied /\ Observe

NextH == ArriveH \/ \E c \in Callers : StepH(c)

SpecH == InitH /\ [][NextH]_varsH

----------------------------------------------------------------------------
\* Objects behave as in a map of whole objects (blob.go:31-37) and the ETag a
\* Put returns is that of what it stored (s3.go:108-110), with answers lost,
\* requests sent again and requests that arrive after their call.
ImplementsObjectStore == Contract!Spec
============================================================================
