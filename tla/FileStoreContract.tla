------------------------- MODULE FileStoreContract -------------------------
(***************************************************************************)
(* blobx.FileStore against the promise of blobx.Store.  The history        *)
(* variables record what each call overlapped, whether it has taken effect *)
(* and what was last stored without competition; they never constrain the  *)
(* steps.                                                                  *)
(***************************************************************************)
EXTENDS FileStore

VARIABLES
    applied,   \* the pending call has replaced or removed its object
    seen,      \* the objects under its key at the instants of the call
    alone,     \* no other Put or Delete of its key overlaps the pending call
    fresh      \* what a Put without competition stored, until the next writer

varsH == <<node, meta, temp, litter, fd, pc, call, info, tag, ret, answer,
           crashes, applied, seen, alone, fresh>>

Objects == [k \in Keys |-> ObjectAt(k)]

BodyOf(b) == IF b \in {Nothing, Dir} THEN b ELSE b.version

\* The answers without the content types, of which the contract says nothing.
Answers == [t \in Threads |->
    [kind |-> answer[t].kind, size |-> answer[t].size, body |-> BodyOf(answer[t].body)]]

Contract ==
    INSTANCE ObjectStore WITH
       Callers <- Threads, objects <- Objects, late <- {}, answer <- Answers

Observe ==
    seen' = [t \in Threads |->
                IF call'[t] = NoCall \/ call'[t].key = BadKey THEN {}
                ELSE seen[t] \cup {Objects'[call'[t].key]}]

Writing(a, k) == a # NoCall /\ a.op \in {"put", "delete"} /\ a.key = k

\* A write of k without competition returns success in this step.
Succeeds(t, k) == Writing(call[t], k) /\ alone[t] /\ answer'[t].kind = "ok"

Compete ==
    /\ alone' = [t \in Threads |->
          call'[t] = NoCall \/
             (alone[t] /\ \A u \in Threads \ {t} : ~Writing(call'[u], call'[t].key))]
    /\ fresh' = [k \in Keys |->
          IF \E t \in Threads : Writing(call'[t], k) THEN Nothing
          ELSE IF \E t \in Threads : Succeeds(t, k)
             THEN call[CHOOSE t \in Threads : Succeeds(t, k)].version
          ELSE fresh[k]]

InitH ==
    /\ Init
    /\ applied = [t \in Threads |-> FALSE]
    /\ seen = [t \in Threads |-> {}]
    /\ alone = [t \in Threads |-> TRUE]
    /\ fresh = [k \in Keys |-> Nothing]

StepH(t) ==
    /\ Step(t)
    /\ applied' = [applied EXCEPT ![t] =
          \/ pc[t] = "rename" /\ pc'[t] = "statWritten"
          \/ pc[t] = "removeObject" /\ pc'[t] = "removeMeta"
          \/ @ /\ pc'[t] # "idle"]
    /\ Observe /\ Compete

CrashH == Crash /\ applied' = [t \in Threads |-> FALSE] /\ Observe /\ Compete

NextH == CrashH \/ \E t \in Threads : StepH(t)

SpecH == InitH /\ [][NextH]_varsH

----------------------------------------------------------------------------
\* Bodies behave as in a map of whole objects (blob.go:31-37), under
\* concurrent calls, failures and crashes.
ImplementsObjectStore == Contract!Spec

\* A Put that no other Put or Delete of its key overlaps, and that succeeds,
\* leaves its own metadata with its object, whatever failures, crashes and
\* races before it left there (file.go:75-92).
UncontendedPutSettles ==
    \A k \in Keys : fresh[k] # Nothing => ObjectAt(k) = fresh[k] /\ meta[k] = fresh[k]
============================================================================
