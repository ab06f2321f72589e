-------------------------- MODULE FileStoreProofs --------------------------
(***************************************************************************)
(* Proofs about blobx.FileStore for any set of goroutines, keys, versions  *)
(* and calls, with failing system calls and any number of crashes: no      *)
(* reader meets part of a body, the tree under .blobx/objects stays a      *)
(* tree, temporary files belong to running Puts, a Put that has its key    *)
(* for itself leaves its object and its metadata, and the whole implements *)
(* the contract of blobx.Store.  So does blobx.MemoryStore, at the end.    *)
(***************************************************************************)
EXTENDS FileStoreContract, TLAPS

\* The marks are none of the files, versions and calls.
LEMMA Distinct ==
    /\ Nothing \notin File /\ Dir \notin File /\ Nothing # Dir
    /\ Nothing \notin Versions /\ Empty \notin Versions /\ Corrupt \notin Versions
    /\ NoCall \notin Call
BY MarkAssumption, CallsAssumption DEF Marks

\* A pending call is well formed.
LEMMA PendingCall ==
    ASSUME FileInv, NEW t \in Threads, pc[t] # "idle"
    PROVE  call[t] \in Call /\ call[t] # NoCall
BY DEF FileInv, TypeOK, Carried

\* Where Carried says so, the key is a valid one and the body is a body.
LEMMA Arguments ==
    ASSUME FileInv, NEW t \in Threads
    PROVE  /\ pc[t] \in {"mkdir", "stat", "removeObject"} /\ call[t].key # BadKey
                => call[t].key \in Keys
           /\ pc[t] = "mkdir" /\ call[t].version # Nothing => call[t].version \in Versions
BY PendingCall DEF Call

\* The actions of goroutine t leave the registers of the others alone.
LEMMA Others ==
    ASSUME FileInv, NEW t \in Threads, Step(t), NEW u \in Threads, u # t
    PROVE  /\ pc'[u] = pc[u] /\ call'[u] = call[u] /\ temp'[u] = temp[u]
           /\ info'[u] = info[u] /\ ret'[u] = ret[u] /\ answer'[u] = answer[u]
<1>type. TypeOK
  BY DEF FileInv
<1>return. \A r : Return(t, r) => /\ pc'[u] = pc[u] /\ call'[u] = call[u] /\ info'[u] = info[u]
                                  /\ ret'[u] = ret[u] /\ answer'[u] = answer[u]
  BY <1>type DEF Return, Goto, TypeOK
<1>locals. \A label : Locals(t, label) => /\ pc'[u] = pc[u] /\ call'[u] = call[u] /\ info'[u] = info[u]
                                          /\ ret'[u] = ret[u] /\ answer'[u] = answer[u]
  BY <1>type DEF Locals, Goto, TypeOK
<1>finish. \A result : Finish(t, result) => /\ pc'[u] = pc[u] /\ call'[u] = call[u] /\ info'[u] = info[u]
                                            /\ ret'[u] = ret[u] /\ answer'[u] = answer[u]
  BY <1>type DEF Finish, Goto, TypeOK
<1>1. CASE Invoke(t)
  BY <1>1, <1>type DEF Invoke, Goto, TypeOK, disk
<1>2. CASE Refused(t) \/ Canceled(t) \/ IOError(t) \/ GetOpen(t) \/ DeleteMeta(t)
  BY <1>2, <1>return DEF Refused, Canceled, IOError, GetOpen, DeleteMeta, disk
<1>3. CASE PutMkdir(t) \/ PutCopyDone(t) \/ PutCopyStops(t) \/ DeleteObject(t)
  BY <1>3, <1>return, <1>locals, <1>finish DEF PutMkdir, PutCopyDone, PutCopyStops, DeleteObject, disk
<1>4. CASE PutCreateTemp(t) \/ PutCopyChunk(t) \/ PutRename(t) \/ PutCleanup(t)
  <2>1. temp'[u] = temp[u]
    BY <1>4, <1>type DEF PutCreateTemp, PutCopyChunk, PutRename, PutCleanup, TypeOK, disk
  <2> QED BY <1>4, <2>1, <1>return, <1>locals, <1>finish
          DEF PutCreateTemp, PutCopyChunk, PutRename, PutCleanup
<1>5. CASE PutStatWritten(t) \/ PutOpenMeta(t) \/ PutWriteMeta(t)
  BY <1>5, <1>locals, <1>finish DEF PutStatWritten, PutOpenMeta, PutWriteMeta, disk
<1>6. CASE StatObject(t)
  BY <1>6, <1>type, <1>return DEF StatObject, Goto, TypeOK, disk
<1>7. CASE ReadMeta(t)
  BY <1>7, <1>type, <1>return DEF ReadMeta, Goto, TypeOK, disk
<1> QED BY <1>1, <1>2, <1>3, <1>4, <1>5, <1>6, <1>7 DEF Step, PutStep

\* Return and the other ways to leave a step keep the types of the locals.
LEMMA LocalTypes ==
    ASSUME TypeOK, NEW t \in Threads
    PROVE  /\ \A r \in Answer : Return(t, r) =>
                /\ pc' \in [Threads -> PC]
                /\ call' \in [Threads -> Call \cup {NoCall}]
                /\ info' \in [Threads -> Versions \cup {Nothing}]
                /\ tag' \in [Threads -> Versions \cup {Nothing}]
                /\ ret' \in [Threads -> {"none", "ok", "error", "canceled"}]
                /\ answer' \in [Threads -> Answer]
                /\ crashes' \in 0 .. MaxCrashes
           /\ \A label \in PC : Locals(t, label) =>
                /\ pc' \in [Threads -> PC]
                /\ UNCHANGED <<call, info, tag, ret, answer, crashes>>
           /\ \A result \in {"ok", "error", "canceled"} : Finish(t, result) =>
                /\ pc' \in [Threads -> PC]
                /\ ret' \in [Threads -> {"none", "ok", "error", "canceled"}]
                /\ UNCHANGED <<call, info, tag, answer, crashes>>
BY DEF TypeOK, Return, Locals, Finish, Goto, PC

\* Every step keeps TypeOK.
LEMMA TypeStep ==
    ASSUME FileInv, NEW t \in Threads, Step(t)
    PROVE  TypeOK'
<1> USE LocalTypes, Distinct
<1>plain. \A k \in {"none", "ok", "notfound", "error", "canceled", "refused"} :
             Plain(k) \in Answer
  BY DEF Plain, Answer
<1>type. TypeOK
  BY DEF FileInv
<1>1. CASE Invoke(t)
  <2>1. PICK c \in CallsOf[t] :
           /\ call' = [call EXCEPT ![t] = c]
           /\ Goto(t, CASE c.op = "put" -> "mkdir"
                        [] c.op = "delete" -> "removeObject"
                        [] OTHER -> "stat")
    BY <1>1 DEF Invoke
  <2>2. c \in Call
    BY CallsAssumption
  <2>3. pc' \in [Threads -> PC]
    BY <2>1, <1>type DEF Goto, TypeOK, PC
  <2> QED BY <1>1, <2>1, <2>2, <2>3, <1>plain, <1>type DEF Invoke, TypeOK, disk
<1>2. CASE Refused(t)
  BY <1>2, <1>plain, <1>type DEF Refused, TypeOK, PC, disk
<1>3. CASE Canceled(t)
  BY <1>3, <1>plain, <1>type DEF Canceled, TypeOK, PC, disk
<1>4. CASE IOError(t)
  BY <1>4, <1>plain, <1>type DEF IOError, TypeOK, PC, disk
<1>5. CASE PutMkdir(t)
  BY <1>5, <1>plain, <1>type DEF PutMkdir, TypeOK, PC, disk
<1>6. CASE PutCreateTemp(t)
  <2>1. [version |-> call[t].version, chunks |-> 0] \in File
    BY <1>6 DEF PutCreateTemp, FileInv, Carried, File
  <2> QED BY <1>6, <2>1, <1>plain, <1>type DEF PutCreateTemp, TypeOK, PC, disk
<1>7. CASE PutCopyChunk(t)
  <2>1. temp[t] \in File
    BY <1>7, <1>type DEF PutCopyChunk, FileInv, Carried, TypeOK
  <2>2. temp' = [temp EXCEPT ![t] = [temp[t] EXCEPT !.chunks = @ + 1]]
    BY <1>7 DEF PutCopyChunk
  <2>3. [temp[t] EXCEPT !.chunks = @ + 1] \in File
    BY <2>1 DEF File
  <2> QED BY <1>7, <2>2, <2>3, <1>type DEF PutCopyChunk, TypeOK, PC
<1>8. CASE PutCopyDone(t)
  BY <1>8, <1>plain, <1>type DEF PutCopyDone, TypeOK, PC, disk
<1>9. CASE PutCopyStops(t)
  BY <1>9, <1>plain, <1>type DEF PutCopyStops, TypeOK, PC, disk
<1>10. CASE PutRename(t)
  BY <1>10, <1>plain, <1>type DEF PutRename, TypeOK, PC, disk
<1>11. CASE PutStatWritten(t)
  BY <1>11, <1>plain, <1>type DEF PutStatWritten, TypeOK, PC, disk
<1>12. CASE PutOpenMeta(t)
  BY <1>12, <1>plain, <1>type DEF PutOpenMeta, TypeOK, PC, disk
<1>13. CASE PutWriteMeta(t)
  <2>1. call[t].key \in Keys /\ call[t].version \in Versions
    BY <1>13 DEF PutWriteMeta, FileInv, Carried
  <2>2. meta' \in [Keys -> Versions \cup {Nothing, Empty, Corrupt}]
    BY <1>13, <2>1, <1>type DEF PutWriteMeta, Overwritten, TypeOK
  <2>3. fd' \in [Threads -> {"none", "linked", "orphan"}]
    BY <1>13, <1>type DEF PutWriteMeta, TypeOK
  <2>4. \E result \in {"ok", "error"} : Finish(t, result)
    BY <1>13 DEF PutWriteMeta
  <2> QED BY <1>13, <2>2, <2>3, <2>4, <1>type DEF PutWriteMeta, TypeOK
<1>14. CASE PutCleanup(t)
  <2>1. call[t].key \in Keys /\ call[t].version \in Versions
    BY <1>14 DEF PutCleanup, FileInv, Carried
  <2>2. litter' \subseteq Keys
    BY <1>14, <2>1, <1>type, AboveAssumption DEF PutCleanup, TypeOK
  <2>3. [kind |-> "ok", size |-> call[t].version,
         tag |-> call[t].version, body |-> Nothing] \in Answer
    BY <2>1 DEF Answer
  <2>4. ret[t] \in {"none", "ok", "error", "canceled"}
    BY <1>type DEF TypeOK
  <2>5. \E r \in Answer : Return(t, r)
    BY <1>14, <2>3, <2>4, <1>plain DEF PutCleanup
  <2>6. temp' \in [Threads -> File \cup {Nothing}]
    BY <1>14, <1>type DEF PutCleanup, TypeOK
  <2> QED BY <1>14, <2>2, <2>5, <2>6, <1>type DEF PutCleanup, TypeOK
<1>15. CASE StatObject(t)
  <2>1. call[t].key \in Keys
    BY <1>15, Arguments DEF StatObject
  <2>2. CASE NotDirectory(call[t].key) \/ ~IsFile(call[t].key)
    BY <1>15, <2>2, <1>plain, <1>type DEF StatObject, TypeOK, disk
  <2>3. CASE ~NotDirectory(call[t].key) /\ IsFile(call[t].key)
    <3>1. node[call[t].key].version \in Versions
      BY <2>1, <2>3, <1>type DEF TypeOK, IsFile, File
    <3> QED BY <1>15, <2>3, <3>1, <1>type DEF StatObject, Goto, TypeOK, PC, disk
  <2> QED BY <2>2, <2>3
<1>16. CASE ReadMeta(t)
  <2>1. PICK m \in Versions \cup {Nothing} :
          \/ /\ call[t].op = "stat"
             /\ Return(t, [kind |-> "ok", size |-> info[t], tag |-> m, body |-> Nothing])
          \/ /\ call[t].op = "get"
             /\ Goto(t, "open")
             /\ tag' = [tag EXCEPT ![t] = m]
             /\ UNCHANGED <<call, info, ret, answer, crashes>>
    BY <1>16 DEF ReadMeta
  <2>2. [kind |-> "ok", size |-> info[t], tag |-> m, body |-> Nothing] \in Answer
    BY <1>type DEF Answer, TypeOK
  <2>3. UNCHANGED disk
    BY <1>16 DEF ReadMeta
  <2>4. CASE Return(t, [kind |-> "ok", size |-> info[t], tag |-> m, body |-> Nothing])
    BY <2>2, <2>3, <2>4, <1>type DEF TypeOK, disk
  <2>5. CASE Goto(t, "open") /\ tag' = [tag EXCEPT ![t] = m]
             /\ UNCHANGED <<call, info, ret, answer, crashes>>
    BY <2>3, <2>5, <1>type DEF Goto, TypeOK, PC, disk
  <2> QED BY <2>1, <2>4, <2>5
<1>17. CASE GetOpen(t)
  <2>1. call[t].key \in Keys
    BY <1>17 DEF GetOpen, FileInv, Carried
  <2>2. [kind |-> "ok", size |-> info[t], tag |-> tag[t], body |-> node[call[t].key]]
           \in Answer
    BY <2>1, <1>type DEF Answer, TypeOK
  <2>3. \E r \in Answer : Return(t, r)
    BY <1>17, <2>2, <1>plain DEF GetOpen
  <2> QED BY <1>17, <2>3, <1>type DEF GetOpen, TypeOK, disk
<1>18. CASE DeleteObject(t)
  BY <1>18, <1>plain, <1>type DEF DeleteObject, TypeOK, PC, disk
<1>19. CASE DeleteMeta(t)
  BY <1>19, <1>plain, <1>type DEF DeleteMeta, TypeOK, PC, disk
<1> QED BY <1>1, <1>2, <1>3, <1>4, <1>5, <1>6, <1>7, <1>8, <1>9, <1>10, <1>11, <1>12, <1>13, <1>14, <1>15, <1>16, <1>17, <1>18, <1>19 DEF Step, PutStep

\* A goroutine that has returned carries nothing.
LEMMA ReturnCarries ==
    ASSUME TypeOK, NEW t \in Threads, NEW r, Return(t, r)
    PROVE  pc'[t] = "idle" /\ call'[t] = NoCall /\ Carried(t)'
BY DEF TypeOK, Return, Goto, Carried

\* The step of goroutine t keeps what it carries.
LEMMA CarriedOwn ==
    ASSUME FileInv, TypeOK', NEW t \in Threads, Step(t)
    PROVE  Carried(t)'
<1> USE ReturnCarries, Distinct, Arguments
<1>type. TypeOK
  BY DEF FileInv
<1>1. CASE Invoke(t)
  <2>1. PICK c \in CallsOf[t] :
           /\ call' = [call EXCEPT ![t] = c]
           /\ Goto(t, CASE c.op = "put" -> "mkdir"
                        [] c.op = "delete" -> "removeObject"
                        [] OTHER -> "stat")
    BY <1>1 DEF Invoke
  <2>2. c \in Call /\ c # NoCall
    BY CallsAssumption
  <2>3. call'[t] = c /\ pc'[t] \in {"mkdir", "removeObject", "stat"}
        /\ (pc'[t] = "mkdir" => c.op = "put")
    BY <2>1, <1>type DEF Goto, TypeOK
  <2> QED BY <2>2, <2>3 DEF Carried
<1>2. CASE Refused(t)
  BY <1>2, <1>type DEF Refused, TypeOK, FileInv, Carried, Complete, Locals, Finish, Goto, disk
<1>3. CASE Canceled(t)
  BY <1>3, <1>type DEF Canceled, TypeOK, FileInv, Carried, Complete, Locals, Finish, Goto, disk
<1>4. CASE IOError(t)
  BY <1>4, <1>type DEF IOError, TypeOK, FileInv, Carried, Complete, Locals, Finish, Goto, disk
<1>5. CASE PutMkdir(t)
  BY <1>5, <1>type DEF PutMkdir, TypeOK, FileInv, Carried, Complete, Locals, Finish, Goto, disk
<1>6. CASE PutCreateTemp(t)
  <2>1. CASE ~InDirectory(call[t].key)
    BY <1>6, <2>1, <1>type DEF PutCreateTemp
  <2>2. CASE InDirectory(call[t].key)
    <3>1. /\ pc'[t] = "copy" /\ call'[t] = call[t]
          /\ temp'[t] = [version |-> call[t].version, chunks |-> 0]
      BY <1>6, <2>2, <1>type DEF PutCreateTemp, Locals, Goto, TypeOK
    <3>2. call[t].key \in Keys /\ call[t].version \in Versions /\ call[t] # NoCall
      BY <1>6, PendingCall DEF PutCreateTemp, FileInv, Carried
    <3>3. temp'[t] # Nothing
      BY <3>1, <3>2 DEF File
    <3> QED BY <3>1, <3>2, <3>3 DEF Carried
  <2> QED BY <2>1, <2>2
<1>7. CASE PutCopyChunk(t)
  <2>1. temp[t] \in File /\ temp[t].version = call[t].version
    BY <1>7, <1>type DEF PutCopyChunk, FileInv, Carried, TypeOK
  <2>2. /\ pc'[t] = "copy" /\ call'[t] = call[t]
        /\ temp'[t] = [temp[t] EXCEPT !.chunks = @ + 1]
    BY <1>7, <1>type DEF PutCopyChunk, Locals, Goto, TypeOK
  <2>3. temp'[t] \in File /\ temp'[t].version = call'[t].version
    BY <2>1, <2>2 DEF File
  <2>4. call[t].key \in Keys /\ call[t].version \in Versions /\ call[t] # NoCall
    BY <1>7, PendingCall DEF PutCopyChunk, FileInv, Carried
  <2> QED BY <2>2, <2>3, <2>4 DEF Carried
<1>8. CASE PutCopyDone(t)
  BY <1>8, <1>type DEF PutCopyDone, TypeOK, FileInv, Carried, Complete, Locals, Finish, Goto, disk
<1>9. CASE PutCopyStops(t)
  BY <1>9, <1>type DEF PutCopyStops, TypeOK, FileInv, Carried, Complete, Locals, Finish, Goto, disk
<1>10. CASE PutRename(t)
  BY <1>10, <1>type DEF PutRename, TypeOK, FileInv, Carried, Complete, Locals, Finish, Goto, disk
<1>11. CASE PutStatWritten(t)
  BY <1>11, <1>type DEF PutStatWritten, TypeOK, FileInv, Carried, Complete, Locals, Finish, Goto, disk
<1>12. CASE PutOpenMeta(t)
  BY <1>12, <1>type DEF PutOpenMeta, TypeOK, FileInv, Carried, Complete, Locals, Finish, Goto, disk
<1>13. CASE PutWriteMeta(t)
  BY <1>13, <1>type DEF PutWriteMeta, TypeOK, FileInv, Carried, Complete, Locals, Finish, Goto, disk
<1>14. CASE PutCleanup(t)
  BY <1>14, <1>type DEF PutCleanup, TypeOK, FileInv, Carried, Complete, Locals, Finish, Goto, disk
<1>15. CASE StatObject(t)
  <2>1. call[t].key \in Keys /\ call[t] # NoCall
    BY <1>15, PendingCall DEF StatObject
  <2>2. CASE NotDirectory(call[t].key) \/ ~IsFile(call[t].key)
    BY <1>15, <2>2, <1>type DEF StatObject
  <2>3. CASE ~NotDirectory(call[t].key) /\ IsFile(call[t].key)
    <3>1. node[call[t].key].version \in Versions
      BY <2>1, <2>3, <1>type DEF TypeOK, IsFile, File
    <3>2. /\ pc'[t] = "readMeta" /\ call'[t] = call[t]
          /\ info'[t] = node[call[t].key].version
      BY <1>15, <2>3, <1>type DEF StatObject, Goto, TypeOK
    <3> QED BY <2>1, <3>1, <3>2 DEF Carried
  <2> QED BY <2>2, <2>3
<1>16. CASE ReadMeta(t)
  BY <1>16, <1>type DEF ReadMeta, TypeOK, FileInv, Carried, Complete, Locals, Finish, Goto, disk
<1>17. CASE GetOpen(t)
  BY <1>17, <1>type DEF GetOpen, TypeOK, FileInv, Carried, Complete, Locals, Finish, Goto, disk
<1>18. CASE DeleteObject(t)
  BY <1>18, <1>type DEF DeleteObject, TypeOK, FileInv, Carried, Complete, Locals, Finish, Goto, disk
<1>19. CASE DeleteMeta(t)
  BY <1>19, <1>type DEF DeleteMeta, TypeOK, FileInv, Carried, Complete, Locals, Finish, Goto, disk
<1> QED BY <1>1, <1>2, <1>3, <1>4, <1>5, <1>6, <1>7, <1>8, <1>9, <1>10, <1>11, <1>12, <1>13, <1>14, <1>15, <1>16, <1>17, <1>18, <1>19 DEF Step, PutStep

\* Every goroutine still carries what it did after a step of another.
LEMMA CarriedStep ==
    ASSUME FileInv, TypeOK', NEW t \in Threads, Step(t), NEW u \in Threads
    PROVE  Carried(u)'
<1>1. CASE u = t
  BY <1>1, CarriedOwn
<1>2. CASE u # t
  BY <1>2, Others DEF FileInv, Carried, Complete
<1> QED BY <1>1, <1>2

\* The file system changes only at the calls that are meant to change it.
LEMMA NodeChange ==
    ASSUME FileInv, NEW t \in Threads, Step(t)
    PROVE  \/ node' = node
           \/ PutMkdir(t) \/ PutRename(t) \/ DeleteObject(t)
BY DEF Step, PutStep, Invoke, Refused, Canceled, IOError, PutCreateTemp, PutCopyChunk,
       PutCopyDone, PutCopyStops, PutStatWritten, PutOpenMeta, PutWriteMeta, PutCleanup,
       StatObject, ReadMeta, GetOpen, DeleteMeta, disk

\* A step keeps every stored object, and every body handed out, whole.
LEMMA TornStep ==
    ASSUME FileInv, TypeOK', NEW t \in Threads, Step(t)
    PROVE  NoTornObject'
<1>type. TypeOK
  BY DEF FileInv
<1>1. \A k \in Keys : IsFile(k)' => Complete(node[k])'
  <2>1. CASE node' = node
    BY <2>1 DEF FileInv, NoTornObject, IsFile, Complete
  <2>2. CASE PutMkdir(t)
    BY <2>2, <1>type DEF PutMkdir, FileInv, NoTornObject, IsFile, Complete, disk, TypeOK
  <2>3. CASE PutRename(t)
    BY <2>3, <1>type DEF PutRename, FileInv, NoTornObject, IsFile, Complete, Carried,
                         disk, TypeOK
  <2>4. CASE DeleteObject(t)
    BY <2>4, <1>type DEF DeleteObject, FileInv, NoTornObject, IsFile, Complete, disk, TypeOK
  <2> QED BY <2>1, <2>2, <2>3, <2>4, NodeChange
<1>2. ASSUME NEW u \in Threads, answer'[u].body \notin {Nothing, Dir}
      PROVE  Complete(answer[u].body)'
  <2>1. CASE answer'[u] = answer[u]
    BY <1>2, <2>1 DEF FileInv, NoTornObject, Complete
  <2>2. CASE answer'[u] # answer[u]
    <3>1. u = t
      BY <2>2, Others
    <3>2. CASE GetOpen(t)
      <4>1. call[t].key \in Keys
        BY <3>2 DEF GetOpen, FileInv, Carried
      <4>2. answer'[t].body = node[call[t].key]
        BY <1>2, <3>1, <3>2, <1>type DEF GetOpen, Return, TypeOK, Plain
      <4>3. IsFile(call[t].key)
        BY <1>2, <3>1, <4>2 DEF IsFile
      <4> QED BY <3>1, <4>1, <4>2, <4>3 DEF FileInv, NoTornObject, Complete
    <3>3. CASE ~GetOpen(t)
      <4>1. answer'[t].body = Nothing
        <5>return. \A r : Return(t, r) => answer'[t] = r
          BY <1>type DEF Return, TypeOK
        <5>plain. \A k : Plain(k).body = Nothing
          BY DEF Plain
        <5>1. CASE Invoke(t)
          BY <5>1, <5>plain, <1>type DEF Invoke, TypeOK
        <5>2. CASE \/ Refused(t) \/ Canceled(t) \/ IOError(t) \/ PutMkdir(t) \/ PutCreateTemp(t)
                   \/ StatObject(t) \/ DeleteObject(t) \/ DeleteMeta(t)
          BY <2>2, <3>1, <5>2, <5>return, <5>plain DEF Refused, Canceled, IOError, PutMkdir,
             PutCreateTemp, StatObject, DeleteObject, DeleteMeta, Locals
        <5>3. CASE \/ PutCopyChunk(t) \/ PutCopyDone(t) \/ PutCopyStops(t) \/ PutRename(t)
                   \/ PutStatWritten(t) \/ PutOpenMeta(t) \/ PutWriteMeta(t)
          BY <2>2, <3>1, <5>3 DEF PutCopyChunk, PutCopyDone, PutCopyStops, PutRename,
             PutStatWritten, PutOpenMeta, PutWriteMeta, Locals, Finish
        <5>4. CASE PutCleanup(t)
          BY <5>4, <5>return, <5>plain DEF PutCleanup
        <5>5. CASE ReadMeta(t)
          <6>1. CASE answer' = answer
            BY <2>2, <3>1, <6>1
          <6>2. CASE answer' # answer
            <7>1. PICK m : Return(t, [kind |-> "ok", size |-> info[t], tag |-> m, body |-> Nothing])
              BY <5>5, <6>2 DEF ReadMeta
            <7> QED BY <7>1, <5>return
          <6> QED BY <6>1, <6>2
        <5> QED BY <3>3, <5>1, <5>2, <5>3, <5>4, <5>5 DEF Step, PutStep
      <4> QED BY <1>2, <3>1, <4>1
    <3> QED BY <3>2, <3>3
  <2> QED BY <2>1, <2>2
<1> QED BY <1>1, <1>2 DEF NoTornObject

\* A step leaves temporary files to the Puts that write them.
LEMMA TempsStep ==
    ASSUME FileInv, TypeOK', NEW t \in Threads, Step(t)
    PROVE  TempsOwned'
<1>type. TypeOK
  BY DEF FileInv
<1>1. ~Faults /\ crashes' = 0 => litter' = {}
  <2>1. crashes' = crashes /\ (litter' = litter \/ Faults)
    BY DEF Step, PutStep, Invoke, Refused, Canceled, IOError, PutMkdir, PutCreateTemp,
           PutCopyChunk, PutCopyDone, PutCopyStops, PutRename, PutStatWritten,
           PutOpenMeta, PutWriteMeta, PutCleanup, StatObject, ReadMeta, GetOpen,
           DeleteObject, DeleteMeta, Return, Locals, Finish, disk
  <2> QED BY <2>1 DEF FileInv, TempsOwned
<1>2. ASSUME NEW u \in Threads, temp'[u] # Nothing
      PROVE  pc'[u] \in {"copy", "rename", "cleanup"}
  <2>1. CASE u # t
    BY <1>2, <2>1, Others DEF FileInv, TempsOwned
  <2>2. CASE u = t
    <3>1. CASE \/ Invoke(t) \/ Refused(t) \/ Canceled(t) \/ IOError(t) \/ PutMkdir(t)
               \/ PutStatWritten(t) \/ PutOpenMeta(t) \/ PutWriteMeta(t)
               \/ StatObject(t) \/ ReadMeta(t) \/ GetOpen(t) \/ DeleteObject(t) \/ DeleteMeta(t)
      <4>1. temp' = temp
        BY <3>1 DEF Invoke, Refused, Canceled, IOError, PutMkdir, PutStatWritten, PutOpenMeta,
                    PutWriteMeta, StatObject, ReadMeta, GetOpen, DeleteObject, DeleteMeta, disk
      <4>2. pc[t] \notin {"copy", "rename", "cleanup"}
        BY <3>1 DEF Invoke, Refused, Canceled, IOError, PutMkdir, PutStatWritten, PutOpenMeta,
                    PutWriteMeta, StatObject, ReadMeta, GetOpen, DeleteObject, DeleteMeta
      <4> QED BY <1>2, <2>2, <4>1, <4>2 DEF FileInv, TempsOwned
    <3>2. CASE PutCreateTemp(t)
      <4>1. CASE ~InDirectory(call[t].key)
        BY <1>2, <2>2, <3>2, <4>1 DEF PutCreateTemp, FileInv, TempsOwned, disk
      <4>2. CASE InDirectory(call[t].key)
        BY <1>type, <2>2, <3>2, <4>2 DEF PutCreateTemp, Locals, Goto, TypeOK
      <4> QED BY <4>1, <4>2
    <3>3. CASE PutCopyChunk(t) \/ PutCopyDone(t) \/ PutCopyStops(t)
      BY <1>type, <2>2, <3>3 DEF PutCopyChunk, PutCopyDone, PutCopyStops, Locals, Finish, Goto, TypeOK
    <3>4. CASE PutRename(t)
      BY <1>type, <1>2, <2>2, <3>4 DEF PutRename, Finish, Goto, TypeOK
    <3>5. CASE PutCleanup(t)
      BY <1>type, <1>2, <2>2, <3>5 DEF PutCleanup, TypeOK
    <3> QED BY <3>1, <3>2, <3>3, <3>4, <3>5 DEF Step, PutStep
  <2> QED BY <2>1, <2>2
<1> QED BY <1>1, <1>2 DEF TempsOwned

\* A Put has its temporary file only where its target's directory exists.
LEMMA TempPlace ==
    ASSUME FileInv, NEW t \in Threads, NEW u \in Threads, Step(t), temp'[u] # Nothing
    PROVE  /\ call'[u] = call[u]
           /\ call[u].key \in Keys
           /\ InDirectory(call[u].key)
<1>type. TypeOK
  BY DEF FileInv
<1>1. CASE u # t
  <2>1. temp[u] # Nothing /\ call'[u] = call[u]
    BY <1>1, Others
  <2>2. call[u].key \in Keys
    BY <2>1 DEF FileInv, TempsOwned, Carried
  <2> QED BY <2>1, <2>2 DEF FileInv, TreeShape
<1>2. CASE u = t
  <2>1. CASE PutCreateTemp(t)
    BY <1>2, <2>1, <1>type DEF PutCreateTemp, FileInv, Carried, TempsOwned, disk, Locals
  <2>2. CASE ~PutCreateTemp(t)
    <3>1. temp[t] # Nothing /\ call'[t] = call[t]
      BY <1>2, <2>2, <1>type
         DEF FileInv, TempsOwned, Carried, Step, PutStep, Invoke, Refused, Canceled,
             IOError, PutMkdir, PutCopyChunk, PutCopyDone, PutCopyStops, PutRename,
             PutStatWritten, PutOpenMeta, PutWriteMeta, PutCleanup, StatObject,
             ReadMeta, GetOpen, DeleteObject, DeleteMeta, Return, Locals, Finish, Goto,
             disk, TypeOK
    <3>2. call[t].key \in Keys
      BY <3>1 DEF FileInv, TempsOwned, Carried
    <3> QED BY <1>2, <3>1, <3>2 DEF FileInv, TreeShape
  <2> QED BY <2>1, <2>2
<1> QED BY <1>1, <1>2

\* A step keeps the tree a tree.
LEMMA TreeStep ==
    ASSUME FileInv, TypeOK', NEW t \in Threads, Step(t)
    PROVE  TreeShape'
<1>type. TypeOK
  BY DEF FileInv
\* It suffices that no directory on the way to a stored or temporary file goes.
<1>1. ASSUME \A k \in Keys : node'[k] # Nothing =>
                 \A d \in Above[k] : node'[d] = Dir,
             \A u \in Threads : temp'[u] # Nothing =>
                 \A d \in Above[call[u].key] : node[d] = Dir => node'[d] = Dir
      PROVE  TreeShape'
  BY <1>1, TempPlace DEF TreeShape, InDirectory
<1>2. CASE node' = node
  BY <1>1, <1>2 DEF FileInv, TreeShape, InDirectory
<1>3. CASE PutMkdir(t)
  <2>1. call[t].key \in Keys
    BY <1>3, Arguments DEF PutMkdir
  <2>2. CASE NotDirectory(call[t].key)
    BY <1>2, <1>3, <2>2 DEF PutMkdir, disk
  <2>3. CASE ~NotDirectory(call[t].key)
    <3>1. node' = [d \in Keys |-> IF d \in Above[call[t].key] THEN Dir ELSE node[d]]
      BY <1>3, <2>3 DEF PutMkdir
    <3>2. \A d \in Keys : node[d] = Dir => node'[d] = Dir
      BY <3>1
    <3>3. ASSUME NEW k \in Keys, node'[k] # Nothing, NEW d \in Above[k]
          PROVE  node'[d] = Dir
      <4>1. d \in Keys
        BY AboveAssumption
      <4>2. CASE k \in Above[call[t].key]
        BY <2>1, <3>1, <4>1, <4>2, AboveAssumption
      <4>3. CASE k \notin Above[call[t].key]
        BY <3>1, <3>2, <3>3, <4>1, <4>3 DEF FileInv, TreeShape, InDirectory
      <4> QED BY <4>2, <4>3
    <3>4. ASSUME NEW u \in Threads, temp'[u] # Nothing, NEW d \in Above[call[u].key],
                 node[d] = Dir
          PROVE  node'[d] = Dir
      BY <3>2, <3>4, TempPlace, AboveAssumption
    <3> QED BY <1>1, <3>3, <3>4
  <2> QED BY <2>2, <2>3
<1>4. CASE PutRename(t)
  <2> DEFINE k0 == call[t].key
  <2>1. k0 \in Keys /\ temp[t] # Nothing /\ InDirectory(k0)
    BY <1>4 DEF PutRename, FileInv, Carried, TreeShape
  <2>2. CASE node[k0] = Dir
    BY <1>2, <1>4, <2>2 DEF PutRename, disk
  <2>3. CASE node[k0] # Dir
    <3>1. \A d \in Keys : node'[d] = node[d] \/ d = k0
      BY <1>4, <1>type DEF PutRename, disk, TypeOK
    <3>2. ASSUME NEW k \in Keys, node'[k] # Nothing, NEW d \in Above[k]
          PROVE  node'[d] = Dir
      <4>1. d \in Keys
        BY AboveAssumption
      <4>2. node[d] = Dir
        BY <2>1, <3>1, <3>2 DEF FileInv, TreeShape, InDirectory
      <4> QED BY <2>3, <3>1, <4>1, <4>2
    <3>3. ASSUME NEW u \in Threads, temp'[u] # Nothing, NEW d \in Above[call[u].key],
                 node[d] = Dir
          PROVE  node'[d] = Dir
      BY <2>3, <3>1, <3>3, TempPlace, AboveAssumption
    <3> QED BY <1>1, <3>2, <3>3
  <2> QED BY <2>2, <2>3
<1>5. CASE DeleteObject(t)
  <2> DEFINE k0 == call[t].key
  <2>1. k0 \in Keys
    BY <1>5, Arguments DEF DeleteObject
  <2>2. CASE node' # node
    <3>1. node' = [node EXCEPT ![k0] = Nothing] /\ (node[k0] = Dir => ~Occupied(k0))
          /\ temp' = temp
      BY <1>5, <2>2 DEF DeleteObject, disk
    <3>2. ASSUME NEW k \in Keys, node'[k] # Nothing, NEW d \in Above[k]
          PROVE  node'[d] = Dir
      <4>1. d \in Keys /\ node[k] # Nothing
        BY <2>1, <3>1, <3>2, <1>type, AboveAssumption DEF TypeOK
      <4>2. node[d] = Dir
        BY <4>1 DEF FileInv, TreeShape, InDirectory
      <4>3. d # k0
        BY <2>1, <3>1, <3>2, <4>1, <4>2 DEF Occupied
      <4> QED BY <3>1, <4>1, <4>2, <4>3, <1>type DEF TypeOK
    <3>3. ASSUME NEW u \in Threads, temp'[u] # Nothing, NEW d \in Above[call[u].key],
                 node[d] = Dir
          PROVE  node'[d] = Dir
      <4>1. d \in Keys
        BY <3>3, TempPlace, AboveAssumption
      <4>2. d # k0
        BY <3>1, <3>3 DEF Occupied
      <4> QED BY <3>1, <3>3, <4>1, <4>2, <1>type DEF TypeOK
    <3> QED BY <1>1, <3>2, <3>3
  <2> QED BY <1>2, <2>2
<1> QED BY <1>2, <1>3, <1>4, <1>5, NodeChange

\* A crash keeps the inductive invariant.
LEMMA CrashStep == ASSUME FileInv, Crash PROVE FileInv'
<1>type. TypeOK
  BY DEF FileInv
<1>keys. \A t \in Threads : temp[t] # Nothing => call[t].key \in Keys
  BY DEF FileInv, TempsOwned, Carried
<1>1. litter' \subseteq Keys
  BY <1>type, <1>keys, AboveAssumption DEF Crash, TypeOK
<1>plain. Plain("none") \in Answer
  BY DEF Plain, Answer
<1>2. TypeOK'
  BY <1>type, <1>1, <1>plain, BoundAssumption DEF Crash, TypeOK, PC
<1>3. NoTornObject'
  BY DEF Crash, FileInv, NoTornObject, IsFile, Complete, Plain
<1>4. TreeShape'
  BY DEF Crash, FileInv, TreeShape, InDirectory
<1>5. TempsOwned'
  BY <1>type DEF Crash, TempsOwned, TypeOK
<1>6. \A t \in Threads : Carried(t)'
  BY DEF Crash, Carried
<1> QED BY <1>2, <1>3, <1>4, <1>5, <1>6 DEF FileInv

\* The inductive invariant holds at the start,
LEMMA FileStart == Init => FileInv
<1> SUFFICES ASSUME Init PROVE FileInv
  OBVIOUS
<1>1. TypeOK
  BY BoundAssumption DEF Init, TypeOK, PC, Plain, Answer
<1>2. NoTornObject /\ TreeShape /\ TempsOwned
  BY DEF Init, NoTornObject, IsFile, TreeShape, TempsOwned, Plain
<1>3. \A t \in Threads : Carried(t)
  BY DEF Init, Carried
<1> QED BY <1>1, <1>2, <1>3 DEF FileInv

\* and survives every step.
LEMMA FileStep == ASSUME FileInv, [Next]_vars PROVE FileInv'
<1>1. ASSUME NEW t \in Threads, Step(t) PROVE FileInv'
  BY <1>1, TypeStep, TornStep, TreeStep, TempsStep, CarriedStep DEF FileInv
<1>2. CASE UNCHANGED vars
  BY <1>2 DEF vars, FileInv, TypeOK, NoTornObject, IsFile, Complete, TreeShape,
              InDirectory, TempsOwned, Carried
<1> QED BY <1>1, <1>2, CrashStep DEF Next

\* So it is an invariant.
LEMMA FileInvariant == Spec => []FileInv
<1>1. FileInv /\ [Next]_vars => FileInv'
  BY FileStep
<1> QED BY <1>1, FileStart, PTL DEF Spec

\* Type correctness of the file system and of the registers of Put, Get, Stat
\* and Delete (file.go:42-158).
THEOREM FileTypeCorrect == Spec => []TypeOK
<1>1. FileInv => TypeOK
  BY DEF FileInv
<1> QED BY <1>1, FileInvariant, PTL

\* No stored object and no body handed out by Get is ever part of a body,
\* whatever is cancelled, fails or crashes on the way (file.go:59-77).
THEOREM ObjectsWhole == Spec => []NoTornObject
<1>1. FileInv => NoTornObject
  BY DEF FileInv
<1> QED BY <1>1, FileInvariant, PTL

\* Temporary files belong to running Puts, and are abandoned only by a crash
\* or a failing os.Remove (file.go:64).
THEOREM TempsAreOwned == Spec => []TempsOwned
<1>1. FileInv => TempsOwned
  BY DEF FileInv
<1> QED BY <1>1, FileInvariant, PTL

-----------------------------------------------------------------------------
(* What a Put without competition leaves.                                    *)

\* The call that a goroutine is in, by its program counter, has no answer yet.
Engaged(t) ==
    /\ pc[t] \in {"mkdir", "createTemp", "copy", "rename", "statWritten", "openMeta",
                  "writeMeta", "cleanup"} => call[t].op = "put"
    /\ pc[t] \in {"stat", "readMeta", "open"} => call[t].op \in {"get", "stat"}
    /\ pc[t] \in {"removeObject", "removeMeta"} => call[t].op = "delete" /\ call[t].version = Nothing
    /\ call[t] # NoCall => answer[t].kind = "none"

\* A call that is alone is the only one that writes its key,
Alone(t) ==
    alone[t] /\ call[t] # NoCall =>
       \A u \in Threads \ {t} : ~Writing(call[u], call[t].key)

\* so that a Put finds at each step what it has left at the one before.
Settling(t) ==
    alone[t] =>
       /\ pc[t] \in {"statWritten", "openMeta", "writeMeta"} =>
             ObjectAt(call[t].key) = call[t].version
       /\ pc[t] = "writeMeta" => fd[t] = "linked" /\ meta[call[t].key] = Empty
       /\ pc[t] = "cleanup" /\ ret[t] = "ok" =>
             ObjectAt(call[t].key) = call[t].version /\ meta[call[t].key] = call[t].version

\* What was stored without competition is there until the next writer comes.
Settled(k) ==
    fresh[k] # Nothing =>
       /\ \A t \in Threads : ~Writing(call[t], k)
       /\ ObjectAt(k) = fresh[k] /\ meta[k] = fresh[k]

SettleInv ==
    /\ FileInv
    /\ \A t \in Threads : Engaged(t) /\ Alone(t) /\ Settling(t)
    /\ \A k \in Keys : Settled(k)

\* The metadata files and their descriptors change only at the calls that are meant to
\* change them.
LEMMA MetaChange ==
    ASSUME FileInv, NEW t \in Threads, Step(t)
    PROVE  \/ meta' = meta /\ fd' = fd
           \/ PutOpenMeta(t) \/ PutWriteMeta(t) \/ DeleteMeta(t)
BY DEF Step, PutStep, Invoke, Refused, Canceled, IOError, PutMkdir, PutCreateTemp,
       PutCopyChunk, PutCopyDone, PutCopyStops, PutRename, PutStatWritten, PutCleanup,
       StatObject, ReadMeta, GetOpen, DeleteObject, disk

\* A goroutine that does not write k leaves an object that k holds, its metadata and
\* the descriptors open on them alone.
LEMMA Untouched ==
    ASSUME FileInv, NEW u \in Threads, Engaged(u), Step(u), NEW k \in Keys,
           ~Writing(call[u], k)
    PROVE  /\ ObjectAt(k) # Nothing => ObjectAt(k)' = ObjectAt(k)
           /\ meta'[k] = meta[k]
           /\ \A t \in Threads \ {u} : call[t].key = k => fd'[t] = fd[t]
<1>type. TypeOK
  BY DEF FileInv
<1>1. ASSUME IsFile(k) PROVE node'[k] = node[k]
  <2>1. CASE PutMkdir(u)
    <3>1. CASE k \in Above[call[u].key]
      BY <1>1, <2>1, <3>1 DEF PutMkdir, NotDirectory, disk
    <3>2. CASE k \notin Above[call[u].key]
      BY <2>1, <3>2 DEF PutMkdir, disk
    <3> QED BY <3>1, <3>2
  <2>2. CASE PutRename(u)
    <3>1. call[u].key # k
      BY <2>2, PendingCall DEF PutRename, Engaged, Writing
    <3> QED BY <1>type, <2>2, <3>1 DEF PutRename, TypeOK, disk
  <2>3. CASE DeleteObject(u)
    <3>1. call[u].key # k
      BY <2>3, PendingCall DEF DeleteObject, Engaged, Writing
    <3> QED BY <1>type, <2>3, <3>1 DEF DeleteObject, TypeOK, disk
  <2> QED BY <2>1, <2>2, <2>3, NodeChange
<1>2. ObjectAt(k) # Nothing => ObjectAt(k)' = ObjectAt(k)
  BY <1>1 DEF ObjectAt, IsFile
<1>3. meta'[k] = meta[k] /\ \A t \in Threads \ {u} : call[t].key = k => fd'[t] = fd[t]
  <2>1. CASE PutOpenMeta(u)
    <3>1. call[u].key # k
      BY <2>1, PendingCall DEF PutOpenMeta, Engaged, Writing
    <3> QED BY <1>type, <2>1, <3>1 DEF PutOpenMeta, TypeOK, disk
  <2>2. CASE PutWriteMeta(u)
    <3>1. call[u].key # k
      BY <2>2, PendingCall DEF PutWriteMeta, Engaged, Writing
    <3> QED BY <1>type, <2>2, <3>1 DEF PutWriteMeta, TypeOK
  <2>3. CASE DeleteMeta(u)
    <3>1. call[u].key # k
      BY <2>3, PendingCall DEF DeleteMeta, Engaged, Writing
    <3> QED BY <1>type, <2>3, <3>1 DEF DeleteMeta, TypeOK
  <2> QED BY <2>1, <2>2, <2>3, MetaChange
<1> QED BY <1>2, <1>3

\* A step keeps the program counter and the call in step.
LEMMA EngagedStep ==
    ASSUME FileInv, NEW t \in Threads, Engaged(t), Step(t)
    PROVE  Engaged(t)'
<1>type. TypeOK
  BY DEF FileInv
<1>return. ASSUME NEW r, Return(t, r) PROVE Engaged(t)'
  BY <1>type, <1>return DEF Return, Goto, TypeOK, Engaged
<1>pending. pc[t] # "idle" => call[t] # NoCall /\ answer[t].kind = "none"
  BY PendingCall DEF Engaged
<1>1. CASE Invoke(t)
  <2>1. PICK c \in CallsOf[t] :
           /\ call' = [call EXCEPT ![t] = c]
           /\ Goto(t, CASE c.op = "put" -> "mkdir"
                        [] c.op = "delete" -> "removeObject"
                        [] OTHER -> "stat")
    BY <1>1 DEF Invoke
  <2>2. c \in Call /\ (c.op = "delete" => c.version = Nothing)
    BY CallsAssumption
  <2>3. c.op \in {"put", "get", "stat", "delete"}
    BY <2>2 DEF Call
  <2>4. /\ call'[t] = c /\ answer'[t] = Plain("none")
        /\ pc'[t] = CASE c.op = "put" -> "mkdir"
                      [] c.op = "delete" -> "removeObject"
                      [] OTHER -> "stat"
    BY <1>1, <1>type, <2>1 DEF Invoke, Goto, TypeOK
  <2>5. \/ pc'[t] = "mkdir" /\ c.op = "put"
        \/ pc'[t] = "removeObject" /\ c.op = "delete"
        \/ pc'[t] = "stat" /\ c.op \in {"get", "stat"}
    BY <2>3, <2>4
  <2> QED BY <2>2, <2>4, <2>5 DEF Engaged, Plain
<1>2. CASE Refused(t) \/ Canceled(t) \/ IOError(t) \/ PutCleanup(t) \/ GetOpen(t) \/ DeleteMeta(t)
  BY <1>2, <1>return DEF Refused, Canceled, IOError, PutCleanup, GetOpen, DeleteMeta
<1>3. CASE \/ PutMkdir(t) \/ PutCreateTemp(t) \/ PutCopyChunk(t) \/ PutCopyDone(t) \/ PutCopyStops(t)
           \/ PutRename(t) \/ PutStatWritten(t) \/ PutOpenMeta(t) \/ PutWriteMeta(t)
  <2>1. pc[t] \in {"mkdir", "createTemp", "copy", "rename", "statWritten", "openMeta", "writeMeta"}
    BY <1>3 DEF PutMkdir, PutCreateTemp, PutCopyChunk, PutCopyDone, PutCopyStops, PutRename,
                PutStatWritten, PutOpenMeta, PutWriteMeta
  <2>2. \/ \E r : Return(t, r)
        \/ \E label \in {"createTemp", "copy", "rename", "statWritten", "openMeta", "writeMeta"} : Locals(t, label)
        \/ \E result \in {"ok", "error", "canceled"} : Finish(t, result)
    BY <1>3 DEF PutMkdir, PutCreateTemp, PutCopyChunk, PutCopyDone, PutCopyStops, PutRename,
                PutStatWritten, PutOpenMeta, PutWriteMeta
  <2> QED BY <1>type, <1>return, <1>pending, <2>1, <2>2 DEF Locals, Finish, Goto, TypeOK, Engaged
<1>4. CASE StatObject(t)
  BY <1>4, <1>type, <1>return, <1>pending DEF StatObject, Goto, TypeOK, Engaged
<1>5. CASE ReadMeta(t)
  BY <1>5, <1>type, <1>return, <1>pending DEF ReadMeta, Goto, TypeOK, Engaged
<1>6. CASE DeleteObject(t)
  BY <1>6, <1>type, <1>return, <1>pending DEF DeleteObject, Locals, Goto, TypeOK, Engaged
<1> QED BY <1>1, <1>2, <1>3, <1>4, <1>5, <1>6 DEF Step, PutStep

\* A Put that is alone finds what it left.
LEMMA SettlingOwn ==
    ASSUME FileInv, NEW t \in Threads, Settling(t), Step(t), call'[t] # NoCall => alone[t]
    PROVE  Settling(t)'
<1>type. TypeOK /\ Carried(t)
  BY DEF FileInv
<1> DEFINE k == call[t].key
           v == call[t].version
<1>1. CASE pc'[t] \notin {"statWritten", "openMeta", "writeMeta", "cleanup"}
  BY <1>1 DEF Settling
<1>2. CASE pc'[t] \in {"statWritten", "openMeta", "writeMeta", "cleanup"}
  <2>1. \/ PutCopyStops(t) \/ PutRename(t) \/ PutStatWritten(t) \/ PutOpenMeta(t) \/ PutWriteMeta(t)
    BY <1>type, <1>2 DEF Step, PutStep, Invoke, Refused, Canceled, IOError, PutMkdir, PutCreateTemp,
         PutCopyChunk, PutCopyDone, PutCleanup, StatObject, ReadMeta, GetOpen, DeleteObject,
         DeleteMeta, Return, Locals, Goto, TypeOK
  <2>2. call' = call /\ k \in Keys /\ v \in Versions /\ alone[t]
    <3>1. call' = call /\ k \in Keys /\ v \in Versions /\ call[t] # NoCall
      BY <1>type, <2>1 DEF PutCopyStops, PutRename, PutStatWritten, PutOpenMeta, PutWriteMeta,
                           Locals, Finish, Carried
    <3> QED BY <3>1
  <2>3. CASE PutCopyStops(t)
    BY <1>type, <2>2, <2>3 DEF PutCopyStops, Finish, Goto, TypeOK, Settling
  <2>4. CASE PutRename(t)
    <3>1. CASE Finish(t, "error")
      BY <1>type, <2>2, <3>1 DEF Finish, Goto, TypeOK, Settling
    <3>2. CASE node' = [node EXCEPT ![k] = temp[t]] /\ Locals(t, "statWritten")
      <4>1. temp[t] \in File /\ temp[t].version = v
        BY <1>type, <2>4 DEF PutRename, Carried, TypeOK
      <4>2. node'[k] = temp[t] /\ pc'[t] = "statWritten"
        BY <1>type, <2>2, <3>2 DEF Locals, Goto, TypeOK
      <4>3. ObjectAt(k)' = v
        BY <2>2, <4>1, <4>2, Distinct DEF ObjectAt, IsFile
      <4> QED BY <2>2, <4>2, <4>3 DEF Settling
    <3> QED BY <2>4, <3>1, <3>2 DEF PutRename
  <2>5. CASE PutStatWritten(t)
    <3>1. CASE Finish(t, "error")
      BY <1>type, <2>2, <3>1 DEF Finish, Goto, TypeOK, Settling
    <3>2. CASE Locals(t, "openMeta")
      BY <1>type, <2>2, <2>5, <3>2 DEF PutStatWritten, Locals, Goto, TypeOK, Settling, ObjectAt, IsFile, disk
    <3> QED BY <2>5, <3>1, <3>2 DEF PutStatWritten
  <2>6. CASE PutOpenMeta(t)
    <3>1. CASE Finish(t, "error")
      BY <1>type, <2>2, <3>1 DEF Finish, Goto, TypeOK, Settling
    <3>2. CASE /\ meta' = [meta EXCEPT ![k] = Empty] /\ fd' = [fd EXCEPT ![t] = "linked"]
               /\ Locals(t, "writeMeta") /\ node' = node
      BY <1>type, <2>2, <2>6, <3>2 DEF PutOpenMeta, Locals, Goto, TypeOK, Settling, ObjectAt, IsFile
    <3> QED BY <2>6, <3>1, <3>2 DEF PutOpenMeta
  <2>7. CASE PutWriteMeta(t)
    <3>1. CASE Finish(t, "error")
      BY <1>type, <2>2, <3>1 DEF Finish, Goto, TypeOK, Settling
    <3>2. CASE /\ Finish(t, "ok")
               /\ \/ fd[t] = "orphan" /\ UNCHANGED meta
                  \/ /\ fd[t] = "linked"
                     /\ \E m \in Overwritten(meta[k], v) : meta' = [meta EXCEPT ![k] = m]
      <4>1. fd[t] = "linked" /\ meta[k] = Empty /\ ObjectAt(k) = v
        BY <2>2, <2>7 DEF PutWriteMeta, Settling
      <4>2. meta'[k] = v
        BY <1>type, <2>2, <3>2, <4>1 DEF Overwritten, TypeOK
      <4>3. ObjectAt(k)' = v
        BY <2>2, <2>7, <4>1 DEF PutWriteMeta, ObjectAt, IsFile
      <4>4. pc'[t] = "cleanup"
        BY <1>type, <3>2 DEF Finish, Goto, TypeOK
      <4> QED BY <2>2, <4>2, <4>3, <4>4 DEF Settling
    <3> QED BY <2>7, <3>1, <3>2 DEF PutWriteMeta
  <2> QED BY <2>1, <2>3, <2>4, <2>5, <2>6, <2>7
<1> QED BY <1>1, <1>2

\* A step of another goroutine does not get in the way of a Put that is alone.
LEMMA SettlingOther ==
    ASSUME FileInv, NEW t \in Threads, Settling(t), Alone(t),
           NEW u \in Threads \ {t}, Engaged(u), Step(u), alone'[t] => alone[t]
    PROVE  Settling(t)'
<1>1. /\ pc'[t] = pc[t] /\ call'[t] = call[t] /\ ret'[t] = ret[t]
  BY Others
<1> SUFFICES ASSUME alone[t], pc[t] \in {"statWritten", "openMeta", "writeMeta", "cleanup"}
             PROVE  /\ ObjectAt(call[t].key) = call[t].version => ObjectAt(call[t].key)' = call[t].version
                    /\ meta'[call[t].key] = meta[call[t].key] /\ fd'[t] = fd[t]
  BY <1>1 DEF Settling
<1>2. call[t] # NoCall /\ call[t].key \in Keys /\ call[t].version # Nothing
  BY PendingCall, Distinct DEF FileInv, Carried
<1>3. ~Writing(call[u], call[t].key)
  BY <1>2 DEF Alone
<1> QED BY <1>1, <1>2, <1>3, Untouched

\* Only a call that returns answers, and only a Put or a Delete at its end answers "ok"
\* to a writer.
LEMMA SuccessIsOwn ==
    ASSUME FileInv, \A t \in Threads : Engaged(t), NEW u \in Threads, Step(u),
           NEW t \in Threads, NEW k \in Keys, Succeeds(t, k)
    PROVE  t = u /\ (DeleteMeta(t) \/ (PutCleanup(t) /\ ret[t] = "ok"))
<1>type. TypeOK
  BY DEF FileInv
<1>1. call[t] # NoCall /\ call[t].op \in {"put", "delete"} /\ answer'[t].kind = "ok"
  BY DEF Succeeds, Writing
<1>2. answer[t].kind = "none"
  BY <1>1 DEF Engaged
<1>3. t = u
  BY <1>1, <1>2, Others
<1>4. ASSUME NEW r, Return(t, r) PROVE answer'[t] = r
  BY <1>type, <1>4 DEF Return, TypeOK
<1>5. answer' # answer
  BY <1>1, <1>2
<1>6. CASE Invoke(t)
  BY <1>type, <1>1, <1>6 DEF Invoke, Plain, TypeOK
<1>7. CASE Refused(t) \/ Canceled(t) \/ IOError(t)
  BY <1>1, <1>4, <1>7 DEF Refused, Canceled, IOError, Plain
<1>8. CASE PutMkdir(t) \/ PutCreateTemp(t)
  BY <1>1, <1>4, <1>5, <1>8 DEF PutMkdir, PutCreateTemp, Plain, Locals
<1>9. CASE \/ PutCopyChunk(t) \/ PutCopyDone(t) \/ PutCopyStops(t)
           \/ PutRename(t) \/ PutStatWritten(t) \/ PutOpenMeta(t) \/ PutWriteMeta(t)
  BY <1>5, <1>9 DEF PutCopyChunk, PutCopyDone, PutCopyStops, PutRename, PutStatWritten,
                    PutOpenMeta, PutWriteMeta, Locals, Finish
<1>10. CASE StatObject(t) \/ ReadMeta(t) \/ GetOpen(t)
  BY <1>1, <1>10 DEF StatObject, ReadMeta, GetOpen, Engaged
<1>11. CASE DeleteObject(t)
  BY <1>1, <1>4, <1>5, <1>11 DEF DeleteObject, Plain, Locals
<1>12. CASE PutCleanup(t)
  BY <1>1, <1>3, <1>4, <1>12 DEF PutCleanup, Plain
<1> QED BY <1>3, <1>6, <1>7, <1>8, <1>9, <1>10, <1>11, <1>12 DEF Step, PutStep

\* The history of competition.
LEMMA AloneStep ==
    ASSUME Compete, NEW t \in Threads
    PROVE  Alone(t)' /\ (call'[t] # NoCall /\ alone'[t] => alone[t])
BY DEF Compete, Alone, Writing

\* What has settled stays, unless a writer of the key begins.
LEMMA SettledStep ==
    ASSUME SettleInv, NEW u \in Threads, Step(u), Compete, NEW k \in Keys
    PROVE  Settled(k)'
<1> SUFFICES ASSUME fresh'[k] # Nothing
             PROVE  /\ \A t \in Threads : ~Writing(call'[t], k)
                    /\ ObjectAt(k)' = fresh'[k] /\ meta'[k] = fresh'[k]
  BY DEF Settled, Writing
<1>1. /\ \A t \in Threads : ~Writing(call'[t], k)
      /\ fresh'[k] = IF \E t \in Threads : Succeeds(t, k)
                     THEN call[CHOOSE t \in Threads : Succeeds(t, k)].version
                     ELSE fresh[k]
  BY DEF Compete
<1>2. CASE \E t \in Threads : Succeeds(t, k)
  <2>1. PICK t \in Threads : t = (CHOOSE x \in Threads : Succeeds(x, k)) /\ Succeeds(t, k)
    BY <1>2
  <2>2. fresh'[k] = call[t].version
    BY <1>1, <1>2, <2>1
  <2>3. t = u /\ (DeleteMeta(t) \/ (PutCleanup(t) /\ ret[t] = "ok"))
    BY <2>1, SuccessIsOwn DEF SettleInv
  <2>4. ~DeleteMeta(t)
    BY <2>2 DEF DeleteMeta, SettleInv, Engaged
  <2>5. ObjectAt(k) = call[t].version /\ meta[k] = call[t].version
    BY <2>1, <2>3, <2>4 DEF PutCleanup, SettleInv, Settling, Succeeds, Writing
  <2> QED BY <1>1, <2>2, <2>3, <2>4, <2>5 DEF PutCleanup, ObjectAt, IsFile
<1>3. CASE ~\E t \in Threads : Succeeds(t, k)
  <2>1. fresh'[k] = fresh[k] /\ Settled(k)
    BY <1>1, <1>3 DEF SettleInv
  <2>2. ObjectAt(k)' = ObjectAt(k) /\ meta'[k] = meta[k]
    BY <2>1, Untouched DEF Settled, SettleInv
  <2> QED BY <1>1, <2>1, <2>2 DEF Settled
<1> QED BY <1>2, <1>3

\* Every step of the store with its history keeps the invariant.
LEMMA SettleStep ==
    ASSUME SettleInv, [NextH]_varsH
    PROVE  SettleInv'
<1>1. [Next]_vars
  BY DEF NextH, StepH, CrashH, Next, varsH, vars
<1>2. FileInv'
  BY <1>1, FileStep DEF SettleInv
<1>3. ASSUME NEW u \in Threads, StepH(u) PROVE SettleInv'
  <2>1. Step(u) /\ Compete
    BY <1>3 DEF StepH
  <2>2. ASSUME NEW t \in Threads PROVE Engaged(t)' /\ Alone(t)' /\ Settling(t)'
    <3>1. Engaged(t)'
      <4>1. CASE t = u
        BY <2>1, <4>1, EngagedStep DEF SettleInv
      <4>2. CASE t # u
        BY <2>1, <4>2, Others DEF SettleInv, Engaged
      <4> QED BY <4>1, <4>2
    <3>2. Alone(t)' /\ (call'[t] # NoCall /\ alone'[t] => alone[t])
      BY <2>1, AloneStep
    <3>3. Settling(t)'
      <4>1. CASE call'[t] = NoCall
        <5>1. Carried(t)'
          BY <1>2 DEF FileInv
        <5> QED BY <4>1, <5>1 DEF Carried, Settling
      <4>2. CASE ~alone'[t]
        BY <4>2 DEF Settling
      <4>3. CASE call'[t] # NoCall /\ alone'[t] /\ t = u
        BY <2>1, <3>2, <4>3, SettlingOwn DEF SettleInv
      <4>4. CASE call'[t] # NoCall /\ alone'[t] /\ t # u
        BY <2>1, <3>2, <4>4, SettlingOther DEF SettleInv
      <4> QED BY <4>1, <4>2, <4>3, <4>4
    <3> QED BY <3>1, <3>2, <3>3
  <2>3. \A k \in Keys : Settled(k)'
    BY <2>1, SettledStep
  <2> QED BY <1>2, <2>2, <2>3 DEF SettleInv
<1>4. CASE CrashH
  <2>1. \A t \in Threads : /\ pc'[t] = "idle" /\ call'[t] = NoCall /\ ret'[t] = "none"
                           /\ answer'[t] = Plain("none")
    BY <1>4 DEF CrashH, Crash
  <2>2. \A t \in Threads : Engaged(t)' /\ Alone(t)' /\ Settling(t)'
    BY <2>1 DEF Engaged, Alone, Settling
  <2>3. \A k \in Keys : Settled(k)'
    <3>1. \A t \in Threads, k \in Keys : ~Succeeds(t, k)
      BY <2>1 DEF Succeeds, Plain
    <3>2. \A k \in Keys : \A t \in Threads : ~Writing(call'[t], k)
      BY <2>1 DEF Writing
    <3>3. \A k \in Keys : fresh'[k] = fresh[k]
      BY <1>4, <3>1, <3>2 DEF CrashH, Compete
    <3>4. node' = node /\ meta' = meta
      BY <1>4 DEF CrashH, Crash
    <3> QED BY <3>2, <3>3, <3>4 DEF SettleInv, Settled, ObjectAt, IsFile, Writing
  <2> QED BY <1>2, <2>2, <2>3 DEF SettleInv
<1>5. CASE UNCHANGED varsH
  BY <1>2, <1>5 DEF varsH, SettleInv, Engaged, Alone, Settling, Settled, ObjectAt, IsFile, Writing
<1> QED BY <1>3, <1>4, <1>5 DEF NextH

\* A Put that no other Put or Delete of its key overlaps leaves its own metadata with its
\* object, for any goroutines and keys, nested or not, and whatever failures, crashes
\* and races came before (file.go:75-92).
THEOREM PutsSettle == SpecH => []UncontendedPutSettles
<1>1. InitH => SettleInv
  <2> SUFFICES ASSUME InitH PROVE SettleInv
    OBVIOUS
  <2>1. FileInv
    BY FileStart DEF InitH
  <2>2. \A t \in Threads : Engaged(t) /\ Alone(t) /\ Settling(t)
    BY DEF InitH, Init, Engaged, Alone, Settling
  <2>3. \A k \in Keys : Settled(k)
    BY DEF InitH, Settled
  <2> QED BY <2>1, <2>2, <2>3 DEF SettleInv
<1>2. SettleInv /\ [NextH]_varsH => SettleInv'
  BY SettleStep
<1>3. SettleInv => UncontendedPutSettles
  BY DEF SettleInv, Settled, UncontendedPutSettles
<1> QED BY <1>1, <1>2, <1>3, PTL DEF SpecH

-----------------------------------------------------------------------------
(* The file store implements the contract.                                  *)

\* No Get asks for a key that is a directory on the way to another key.  (os.Open
\* opens a directory as well, and Get then hands it out as a body.)
GetsOnlyLeaves ==
    \A t \in Threads : \A a \in CallsOf[t] :
       a.op = "get" => \A k \in Keys : a.key \notin Above[k]

\* The history variables: where a Put or a Delete has taken effect, and what a call
\* has seen, the object whose size it remembers included.
Current(t) ==
    /\ applied[t] => pc[t] \in {"statWritten", "openMeta", "writeMeta", "cleanup", "removeMeta"}
    /\ pc[t] \in {"statWritten", "openMeta", "writeMeta", "removeMeta"} => applied[t]
    /\ pc[t] = "cleanup" => ret[t] # "none" /\ (ret[t] = "ok" => applied[t])
    /\ call[t] = NoCall \/ call[t].key = BadKey => seen[t] = {}
    /\ call[t] # NoCall /\ call[t].key # BadKey => ObjectAt(call[t].key) \in seen[t]
    /\ pc[t] \in {"readMeta", "open"} => info[t] \in seen[t]
    /\ pc[t] = "open" => call[t].op = "get"
    /\ call[t] # NoCall => call[t] \in CallsOf[t]

HistoryInv ==
    /\ FileInv
    /\ applied \in [Threads -> BOOLEAN]
    /\ seen \in [Threads -> SUBSET (Versions \cup {Nothing})]
    /\ \A t \in Threads : Engaged(t) /\ Current(t)
    /\ \A k \in Keys : node[k] = Dir => \E below \in Keys : k \in Above[below]

\* What a key holds is a version or nothing.
LEMMA ObjectType ==
    ASSUME FileInv, NEW k \in Keys
    PROVE  ObjectAt(k) \in Versions \cup {Nothing} /\ (ObjectAt(k) = Nothing <=> ~IsFile(k))
BY Distinct DEF FileInv, TypeOK, ObjectAt, IsFile, File

\* The objects change only by the Put that renames and the Delete that removes.
LEMMA ObjectsChange ==
    ASSUME FileInv, NEW t \in Threads, Step(t)
    PROVE  \/ Objects' = Objects
           \/ PutRename(t) /\ node[call[t].key] # Dir /\ node' = [node EXCEPT ![call[t].key] = temp[t]]
                /\ Locals(t, "statWritten")
           \/ DeleteObject(t) /\ node' = [node EXCEPT ![call[t].key] = Nothing]
                /\ Locals(t, "removeMeta")
<1>1. CASE node' = node
  BY <1>1 DEF Objects, ObjectAt, IsFile
<1>2. CASE PutMkdir(t) /\ node' # node
  <2>1. /\ \A a \in Above[call[t].key] : ~IsFile(a)
        /\ node' = [a \in Keys |-> IF a \in Above[call[t].key] THEN Dir ELSE node[a]]
    BY <1>2 DEF PutMkdir, NotDirectory, disk
  <2>2. ASSUME NEW k \in Keys PROVE ObjectAt(k)' = ObjectAt(k)
    <3>1. CASE k \in Above[call[t].key]
      BY <2>1, <3>1 DEF ObjectAt, IsFile
    <3>2. CASE k \notin Above[call[t].key]
      BY <2>1, <3>2 DEF ObjectAt, IsFile
    <3> QED BY <3>1, <3>2
  <2> QED BY <2>2 DEF Objects
<1>3. CASE PutRename(t)
  BY <1>1, <1>3 DEF PutRename, disk
<1>4. CASE DeleteObject(t)
  BY <1>1, <1>4 DEF DeleteObject, disk
<1> QED BY <1>1, <1>2, <1>3, <1>4, NodeChange

\* A step of a goroutine moves its program counter, but for the next chunk of a body.
LEMMA CounterMoves ==
    ASSUME FileInv, NEW t \in Threads,
           \/ PutRename(t) \/ PutOpenMeta(t) \/ PutWriteMeta(t) \/ PutCleanup(t)
           \/ DeleteObject(t) \/ DeleteMeta(t)
    PROVE  pc'[t] # pc[t]
<1>type. pc \in [Threads -> PC]
  BY DEF FileInv, TypeOK
<1>1. pc[t] \in {"rename", "openMeta", "writeMeta", "cleanup", "removeObject", "removeMeta"}
  BY DEF PutRename, PutOpenMeta, PutWriteMeta, PutCleanup, DeleteObject, DeleteMeta
<1>2. CASE PutRename(t) \/ PutOpenMeta(t) \/ PutWriteMeta(t)
  BY <1>2, <1>type DEF PutRename, PutOpenMeta, PutWriteMeta, Locals, Finish, Goto
<1>3. CASE PutCleanup(t) \/ DeleteObject(t) \/ DeleteMeta(t)
  BY <1>3, <1>type DEF PutCleanup, DeleteObject, DeleteMeta, Locals, Return, Goto
<1> QED BY <1>2, <1>3

\* The object of a key changes by its own Puts and Deletes,
LEMMA ObjectChanges ==
    ASSUME FileInv, NEW t \in Threads, Engaged(t), Step(t), NEW k \in Keys, ObjectAt(k)' # ObjectAt(k)
    PROVE  pc'[t] # pc[t] /\ Writes(t, k, ObjectAt(k), ObjectAt(k)')
<1>type. TypeOK /\ Carried(t)
  BY DEF FileInv
<1>1. Objects' # Objects
  BY DEF Objects
<1>2. CASE PutRename(t) /\ node' = [node EXCEPT ![call[t].key] = temp[t]]
  <2>1. /\ call[t] # NoCall /\ call[t].op = "put" /\ call[t].key \in Keys
        /\ temp[t] \in File /\ temp[t].version = call[t].version
    BY <1>2, <1>type, PendingCall DEF PutRename, Engaged, Carried, TypeOK
  <2>2. call[t].key = k
    BY <1>2, <1>type, <2>1 DEF TypeOK, ObjectAt, IsFile
  <2>3. node'[k] = temp[t]
    BY <1>2, <1>type, <2>2 DEF TypeOK
  <2>4. ObjectAt(k)' = call[t].version
    BY <2>1, <2>3, Distinct DEF ObjectAt, IsFile
  <2> QED BY <1>2, <2>1, <2>2, <2>4, CounterMoves DEF Writes
<1>3. CASE DeleteObject(t) /\ node' = [node EXCEPT ![call[t].key] = Nothing]
  <2>1. call[t] # NoCall /\ call[t].op = "delete"
    BY <1>3, PendingCall DEF DeleteObject, Engaged
  <2>2. call[t].key = k
    BY <1>3, <1>type DEF TypeOK, ObjectAt, IsFile
  <2>3. ObjectAt(k)' = Nothing
    BY <1>3, <1>type, <2>2 DEF TypeOK, ObjectAt, IsFile
  <2> QED BY <1>3, <2>1, <2>2, <2>3, CounterMoves DEF Writes
<1> QED BY <1>1, <1>2, <1>3, ObjectsChange

\* and so do its metadata.
LEMMA MetadataChanges ==
    ASSUME FileInv, NEW t \in Threads, Engaged(t), Step(t), NEW k \in Keys, meta'[k] # meta[k]
    PROVE  pc'[t] # pc[t] /\ Writes(t, k, ObjectAt(k), ObjectAt(k)')
<1>type. TypeOK
  BY DEF FileInv
<1>1. PutOpenMeta(t) \/ PutWriteMeta(t) \/ DeleteMeta(t)
  BY MetaChange
<1>2. pc[t] \in {"openMeta", "writeMeta", "removeMeta"} /\ node' = node
  BY <1>1 DEF PutOpenMeta, PutWriteMeta, DeleteMeta, disk
<1>3. call[t] # NoCall /\ call[t].op \in {"put", "delete"}
  BY <1>2, PendingCall DEF Engaged
<1>4. call[t].key = k
  BY <1>1, <1>type DEF PutOpenMeta, PutWriteMeta, DeleteMeta, TypeOK, disk
<1>5. ObjectAt(k)' = ObjectAt(k)
  BY <1>2 DEF ObjectAt, IsFile
<1> QED BY <1>1, <1>3, <1>4, <1>5, CounterMoves DEF Writes

\* A temporary file goes by the rename or the clean-up of its own Put.
LEMMA TempGoes ==
    ASSUME FileInv, NEW t \in Threads, Step(t), NEW u \in Threads,
           temp[u] # Nothing, temp'[u] = Nothing
    PROVE  pc'[u] # pc[u]
<1>type. TypeOK
  BY DEF FileInv
<1>1. u = t
  BY Others
<1>2. temp' = temp \/ PutCreateTemp(t) \/ PutCopyChunk(t) \/ PutRename(t) \/ PutCleanup(t)
  BY DEF Step, PutStep, Invoke, Refused, Canceled, IOError, PutMkdir, PutCopyDone, PutCopyStops,
         PutStatWritten, PutOpenMeta, PutWriteMeta, StatObject, ReadMeta, GetOpen, DeleteObject,
         DeleteMeta, disk
<1>3. ~PutCreateTemp(t)
  <2> SUFFICES ASSUME PutCreateTemp(t) PROVE FALSE
    OBVIOUS
  <2> DEFINE start == [version |-> call[t].version, chunks |-> 0]
  <2>1. start \in File
    BY DEF PutCreateTemp, FileInv, Carried, File
  <2>2. temp' = temp \/ temp' = [temp EXCEPT ![t] = start]
    BY DEF PutCreateTemp, disk
  <2> HIDE DEF start
  <2> QED BY <1>type, <1>1, <2>1, <2>2, Distinct DEF TypeOK
<1>4. ~PutCopyChunk(t)
  BY <1>type, <1>1, Distinct DEF PutCopyChunk, TypeOK, File
<1> QED BY <1>1, <1>2, <1>3, <1>4, CounterMoves

\* The program counters and the calls stay in step.
LEMMA EngagedKept ==
    ASSUME FileInv, \A t \in Threads : Engaged(t), [Next]_vars
    PROVE  \A t \in Threads : Engaged(t)'
<1>1. ASSUME NEW u \in Threads, Step(u), NEW t \in Threads PROVE Engaged(t)'
  <2>1. CASE t = u
    BY <1>1, <2>1, EngagedStep
  <2>2. CASE t # u
    BY <1>1, <2>2, Others DEF Engaged
  <2> QED BY <2>1, <2>2
<1>2. CASE Crash
  BY <1>2 DEF Crash, Engaged
<1>3. CASE UNCHANGED vars
  BY <1>3 DEF vars, Engaged
<1> QED BY <1>1, <1>2, <1>3 DEF Next

\* No step touches the key of another call.
LEMMA OwnKeyStep ==
    ASSUME FileInv, \A t \in Threads : Engaged(t), Next
    PROVE  ChangesOwnKey
<1>1. ASSUME NEW t \in Threads, Step(t) PROVE ChangesOwnKey
  BY <1>1, ObjectChanges, MetadataChanges, TempGoes DEF ChangesOwnKey
<1>2. CASE Crash
  <2>1. node' = node /\ meta' = meta /\ \A t \in Threads : pc'[t] = "idle"
    BY <1>2 DEF Crash
  <2>2. \A k \in Keys : ObjectAt(k)' = ObjectAt(k)
    BY <2>1 DEF ObjectAt, IsFile
  <2>3. \A t \in Threads : temp[t] # Nothing => pc[t] # "idle"
    BY DEF FileInv, TempsOwned
  <2> QED BY <2>1, <2>2, <2>3 DEF ChangesOwnKey
<1> QED BY <1>1, <1>2 DEF Next

\* For any goroutines and any hierarchy of keys, with failures and crashes: an object
\* and its metadata change only by a Put or a Delete of their own key, and no Delete
\* of a directory's key takes the temporary file of a Put below it (file.go:56-77, 89,
\* 151-154).
THEOREM KeysDoNotInterfere == Spec => OnlyOwnKeyChanges
<1> DEFINE InStep == \A t \in Threads : Engaged(t)
<1>1. Init => InStep
  BY DEF Init, Engaged
<1>2. FileInv /\ InStep /\ [Next]_vars => InStep'
  BY EngagedKept
<1>3. FileInv /\ InStep /\ [Next]_vars => [ChangesOwnKey]_vars
  BY OwnKeyStep
<1> HIDE DEF InStep
<1> QED BY <1>1, <1>2, <1>3, FileInvariant, PTL DEF Spec, OnlyOwnKeyChanges

\* Every directory is one on the way to a key.
LEMMA DirsLead ==
    ASSUME FileInv, \A k \in Keys : node[k] = Dir => \E below \in Keys : k \in Above[below],
           NEW t \in Threads, Step(t), NEW k \in Keys, node'[k] = Dir
    PROVE  \E below \in Keys : k \in Above[below]
<1>type. TypeOK
  BY DEF FileInv
<1>1. CASE node'[k] = node[k]
  BY <1>1
<1>2. CASE PutMkdir(t) /\ node'[k] # node[k]
  <2>1. call[t].key \in Keys /\ k \in Above[call[t].key]
    BY <1>2, Arguments DEF PutMkdir, disk
  <2> QED BY <2>1
<1>3. CASE PutRename(t) /\ node'[k] # node[k]
  <2>1. temp[t] \in File /\ node'[k] = temp[t]
    BY <1>type, <1>3 DEF PutRename, disk, TypeOK, FileInv, Carried
  <2> QED BY <2>1, Distinct
<1>4. CASE DeleteObject(t) /\ node'[k] # node[k]
  BY <1>type, <1>4, Distinct DEF DeleteObject, disk, TypeOK
<1> QED BY <1>1, <1>2, <1>3, <1>4, NodeChange

\* How the step of a goroutine moves the mark that its call has taken effect.
LEMMA AppliedStep ==
    ASSUME applied \in [Threads -> BOOLEAN], NEW t \in Threads, StepH(t)
    PROVE  /\ applied' \in [Threads -> BOOLEAN]
           /\ \A u \in Threads \ {t} : applied'[u] = applied[u]
           /\ (pc[t] = "rename" /\ pc'[t] = "statWritten") \/ (pc[t] = "removeObject" /\ pc'[t] = "removeMeta")
                => applied' = [applied EXCEPT ![t] = TRUE]
           /\ pc'[t] = "idle" => applied' = [applied EXCEPT ![t] = FALSE]
           /\ pc[t] \notin {"rename", "removeObject"} /\ pc'[t] # "idle" => applied' = applied
           /\ pc'[t] \notin {"statWritten", "removeMeta", "idle"} => applied' = applied
<1> DEFINE b == \/ pc[t] = "rename" /\ pc'[t] = "statWritten"
                \/ pc[t] = "removeObject" /\ pc'[t] = "removeMeta"
                \/ applied[t] /\ pc'[t] # "idle"
<1>1. applied' = [applied EXCEPT ![t] = b] /\ b \in BOOLEAN
  BY DEF StepH
<1>2. /\ (pc[t] = "rename" /\ pc'[t] = "statWritten") \/ (pc[t] = "removeObject" /\ pc'[t] = "removeMeta")
           => b = TRUE
      /\ pc'[t] = "idle" => b = FALSE
      /\ pc[t] \notin {"rename", "removeObject"} /\ pc'[t] # "idle" => b = applied[t]
      /\ pc'[t] \notin {"statWritten", "removeMeta", "idle"} => b = applied[t]
  OBVIOUS
<1> HIDE DEF b
<1> QED BY <1>1, <1>2

\* The ways of a goroutine through Put, Get, Stat and Delete.
LEMMA Ways ==
    ASSUME FileInv, NEW t \in Threads, Step(t)
    PROVE  \/ pc[t] = "idle" /\ pc'[t] \in {"mkdir", "removeObject", "stat"} /\ call'[t] \in CallsOf[t]
           \/ pc'[t] = "idle" /\ call'[t] = NoCall
           \/ /\ pc[t] # "idle" /\ call'[t] = call[t] /\ answer' = answer
              /\ \/ pc[t] \in {"mkdir", "createTemp", "copy"} /\ pc'[t] \in {"createTemp", "copy", "rename"}
                 \/ pc[t] \in {"copy", "rename"} /\ pc'[t] = "cleanup" /\ ret'[t] \in {"error", "canceled"}
                 \/ pc[t] = "rename" /\ pc'[t] = "statWritten"
                 \/ pc[t] \in {"statWritten", "openMeta"} /\ pc'[t] \in {"openMeta", "writeMeta"}
                 \/ /\ pc[t] \in {"statWritten", "openMeta", "writeMeta"}
                    /\ pc'[t] = "cleanup" /\ ret'[t] \in {"ok", "error"}
                 \/ pc[t] = "stat" /\ pc'[t] = "readMeta" /\ IsFile(call[t].key)
                      /\ info'[t] = node[call[t].key].version
                 \/ pc[t] = "readMeta" /\ pc'[t] = "open" /\ info'[t] = info[t] /\ call[t].op = "get"
                 \/ pc[t] = "removeObject" /\ pc'[t] = "removeMeta"
<1>type. TypeOK
  BY DEF FileInv
<1>return. ASSUME NEW r, Return(t, r) PROVE pc'[t] = "idle" /\ call'[t] = NoCall
  BY <1>type, <1>return DEF Return, Goto, TypeOK
<1>locals. ASSUME NEW label, Locals(t, label)
           PROVE  pc'[t] = label /\ call'[t] = call[t] /\ answer' = answer
  BY <1>type, <1>locals DEF Locals, Goto, TypeOK
<1>finish. ASSUME NEW result, Finish(t, result)
           PROVE  pc'[t] = "cleanup" /\ ret'[t] = result /\ call'[t] = call[t] /\ answer' = answer
  BY <1>type, <1>finish DEF Finish, Goto, TypeOK
<1>1. CASE Invoke(t)
  BY <1>type, <1>1 DEF Invoke, Goto, TypeOK
<1>2. CASE Refused(t) \/ Canceled(t) \/ IOError(t) \/ PutCleanup(t) \/ GetOpen(t) \/ DeleteMeta(t)
  BY <1>2, <1>return DEF Refused, Canceled, IOError, PutCleanup, GetOpen, DeleteMeta
<1>3. CASE PutMkdir(t) \/ PutCreateTemp(t) \/ PutCopyChunk(t) \/ PutCopyDone(t) \/ DeleteObject(t)
  BY <1>3, <1>return, <1>locals DEF PutMkdir, PutCreateTemp, PutCopyChunk, PutCopyDone, DeleteObject
<1>4. CASE PutCopyStops(t) \/ PutRename(t)
  BY <1>4, <1>locals, <1>finish DEF PutCopyStops, PutRename
<1>5. CASE PutStatWritten(t) \/ PutOpenMeta(t) \/ PutWriteMeta(t)
  BY <1>5, <1>locals, <1>finish DEF PutStatWritten, PutOpenMeta, PutWriteMeta
<1>6. CASE StatObject(t)
  BY <1>type, <1>6, <1>return DEF StatObject, Goto, TypeOK
<1>7. CASE ReadMeta(t)
  BY <1>type, <1>7, <1>return DEF ReadMeta, Goto, TypeOK
<1> QED BY <1>1, <1>2, <1>3, <1>4, <1>5, <1>6, <1>7 DEF Step, PutStep

\* A call keeps what it has seen until it returns, and sees what is stored now.
LEMMA Seeing ==
    ASSUME HistoryInv, FileInv', Observe, NEW u \in Threads
    PROVE  /\ seen'[u] \in SUBSET (Versions \cup {Nothing})
           /\ call'[u] = NoCall \/ call'[u].key = BadKey => seen'[u] = {}
           /\ call'[u] # NoCall /\ call'[u].key # BadKey =>
                seen[u] \subseteq seen'[u] /\ ObjectAt(call[u].key)' \in seen'[u]
<1>1. CASE call'[u] = NoCall \/ call'[u].key = BadKey
  BY <1>1 DEF Observe
<1>2. CASE call'[u] # NoCall /\ call'[u].key # BadKey
  <2>1. call'[u].key \in Keys
    BY <1>2 DEF FileInv, TypeOK, Call
  <2>2. seen'[u] = seen[u] \cup {Objects'[call'[u].key]}
    BY <1>2 DEF Observe
  <2>3. Objects'[call'[u].key] = ObjectAt(call[u].key)'
    BY <2>1 DEF Objects, ObjectAt, IsFile
  <2>4. ObjectAt(call[u].key)' \in Versions \cup {Nothing}
    BY <2>1 DEF FileInv, TypeOK, ObjectAt, IsFile, File
  <2>5. seen[u] \in SUBSET (Versions \cup {Nothing})
    BY DEF HistoryInv
  <2> QED BY <1>2, <2>2, <2>3, <2>4, <2>5
<1> QED BY <1>1, <1>2

\* A step keeps the history of the goroutine that makes it,
LEMMA CurrentOwn ==
    ASSUME HistoryInv, FileInv', NEW t \in Threads, StepH(t)
    PROVE  Current(t)'
<1>1. FileInv /\ Current(t) /\ Step(t) /\ Observe /\ Carried(t) /\ Carried(t)'
  BY DEF HistoryInv, FileInv, StepH
<1>2. /\ applied'[t] => pc'[t] \in {"statWritten", "openMeta", "writeMeta", "cleanup", "removeMeta"}
      /\ pc'[t] \in {"statWritten", "openMeta", "writeMeta", "removeMeta"} => applied'[t]
      /\ pc'[t] = "cleanup" => ret'[t] # "none" /\ (ret'[t] = "ok" => applied'[t])
  <2>1. /\ (pc[t] = "rename" /\ pc'[t] = "statWritten") \/ (pc[t] = "removeObject" /\ pc'[t] = "removeMeta")
             => applied'[t]
        /\ pc'[t] = "idle" => ~applied'[t]
        /\ pc[t] \notin {"rename", "removeObject"} /\ pc'[t] # "idle" => applied'[t] = applied[t]
        /\ pc'[t] \notin {"statWritten", "removeMeta", "idle"} => applied'[t] = applied[t]
    BY AppliedStep DEF HistoryInv
  <2> QED BY <1>1, <2>1, Ways DEF Current
<1>3. pc'[t] \in {"readMeta", "open"} => info'[t] \in seen'[t]
  <2> SUFFICES ASSUME pc'[t] \in {"readMeta", "open"} PROVE info'[t] \in seen'[t]
    OBVIOUS
  <2>1. /\ pc[t] # "idle" /\ call'[t] = call[t]
        /\ \/ pc[t] = "stat" /\ IsFile(call[t].key) /\ info'[t] = node[call[t].key].version
           \/ pc[t] = "readMeta" /\ info'[t] = info[t]
    BY <1>1, Ways
  <2>2. call'[t] # NoCall /\ call'[t].key \in Keys /\ call'[t].key # BadKey
    BY <1>1, AboveAssumption DEF Carried
  <2>3. info'[t] \in seen[t]
    BY <1>1, <2>1, <2>2 DEF Current, ObjectAt
  <2> QED BY <1>1, <2>2, <2>3, Seeing
<1>4. /\ call'[t] # NoCall => call'[t] \in CallsOf[t]
      /\ pc'[t] = "open" => call'[t].op = "get"
  BY <1>1, Ways DEF Current
<1> QED BY <1>1, <1>2, <1>3, <1>4, Seeing DEF Current, ObjectAt, IsFile

\* and of the others.
LEMMA CurrentOther ==
    ASSUME HistoryInv, FileInv', NEW t \in Threads, StepH(t), NEW u \in Threads, u # t
    PROVE  Current(u)'
<1>1. FileInv /\ Current(u) /\ Step(t) /\ Observe /\ Carried(u)
  BY DEF HistoryInv, FileInv, StepH
<1>2. /\ pc'[u] = pc[u] /\ call'[u] = call[u] /\ info'[u] = info[u] /\ ret'[u] = ret[u]
  BY <1>1, Others
<1>3. applied'[u] = applied[u]
  BY AppliedStep DEF HistoryInv
<1>4. pc[u] \in {"readMeta", "open"} => call[u] # NoCall /\ call[u].key # BadKey
  BY <1>1, AboveAssumption DEF Carried
<1> QED BY <1>1, <1>2, <1>3, <1>4, Seeing DEF Current, ObjectAt, IsFile

\* The invariant of the history variables is kept.
LEMMA HistoryKept ==
    ASSUME HistoryInv, [NextH]_varsH
    PROVE  HistoryInv'
<1>1. FileInv /\ FileInv'
  <2>1. [Next]_vars
    BY DEF NextH, StepH, CrashH, Next, varsH, vars
  <2> QED BY <2>1, FileStep DEF HistoryInv
<1>2. ASSUME NEW t \in Threads, StepH(t) PROVE HistoryInv'
  <2>1. Step(t) /\ Observe
    BY <1>2 DEF StepH
  <2>2. applied' \in [Threads -> BOOLEAN]
    BY <1>2, AppliedStep DEF HistoryInv
  <2>3. seen' \in [Threads -> SUBSET (Versions \cup {Nothing})]
    BY <1>1, <2>1, Seeing DEF Observe
  <2>4. ASSUME NEW u \in Threads PROVE Engaged(u)' /\ Current(u)'
    <3>1. CASE u = t
      BY <1>1, <1>2, <2>1, <3>1, EngagedStep, CurrentOwn DEF HistoryInv
    <3>2. CASE u # t
      BY <1>1, <1>2, <2>1, <3>2, Others, CurrentOther DEF HistoryInv, Engaged
    <3> QED BY <3>1, <3>2
  <2>5. \A k \in Keys : node'[k] = Dir => \E below \in Keys : k \in Above[below]
    BY <1>1, <2>1, DirsLead DEF HistoryInv
  <2> QED BY <1>1, <2>2, <2>3, <2>4, <2>5 DEF HistoryInv
<1>3. CASE CrashH
  <2>1. /\ \A t \in Threads : pc'[t] = "idle" /\ call'[t] = NoCall
        /\ applied' = [t \in Threads |-> FALSE] /\ node' = node /\ Observe
    BY <1>3 DEF CrashH, Crash
  <2>2. seen' = [t \in Threads |-> {}]
    BY <2>1 DEF Observe
  <2> QED BY <1>1, <2>1, <2>2 DEF HistoryInv, Engaged, Current
<1>4. CASE UNCHANGED varsH
  BY <1>1, <1>4 DEF varsH, HistoryInv, Engaged, Current, ObjectAt, IsFile
<1> QED BY <1>2, <1>3, <1>4 DEF NextH

\* The history variables never fall behind.
LEMMA HistoryInvariant == SpecH => []HistoryInv
<1>1. InitH => HistoryInv
  <2> SUFFICES ASSUME InitH PROVE HistoryInv
    OBVIOUS
  <2>1. FileInv
    BY FileStart DEF InitH
  <2>2. \A t \in Threads : Engaged(t) /\ Current(t)
    BY DEF InitH, Init, Engaged, Current
  <2>3. \A k \in Keys : node[k] # Dir
    BY Distinct DEF InitH, Init
  <2> QED BY <2>1, <2>2, <2>3 DEF InitH, HistoryInv
<1>2. HistoryInv /\ [NextH]_varsH => HistoryInv'
  BY HistoryKept
<1> QED BY <1>1, <1>2, PTL DEF SpecH

\* A step that moves neither objects nor calls is none of the contract.
LEMMA NothingFollows ==
    ASSUME HistoryInv, HistoryInv', Observe, call' = call, answer' = answer, Objects' = Objects,
           applied' = applied
    PROVE  UNCHANGED Contract!vars
<1>1. Answers' = Answers
  BY DEF Answers, BodyOf
<1>2. ASSUME NEW u \in Threads PROVE seen'[u] = seen[u]
  <2>1. CASE call[u] = NoCall \/ call[u].key = BadKey
    BY <2>1 DEF HistoryInv, Current
  <2>2. CASE call[u] # NoCall /\ call[u].key # BadKey
    <3>1. call[u].key \in Keys
      BY <2>2 DEF HistoryInv, FileInv, TypeOK, Call
    <3>2. Objects[call[u].key] = ObjectAt(call[u].key)
      BY <3>1 DEF Objects
    <3>3. Objects[call[u].key] \in seen[u]
      BY <2>2, <3>2 DEF HistoryInv, Current
    <3> QED BY <2>2, <3>3 DEF Observe
  <2> QED BY <2>1, <2>2
<1>3. seen' = seen
  BY <1>2 DEF HistoryInv
<1> QED BY <1>1, <1>3 DEF Contract!vars

\* A call that returns does so in the contract.
LEMMA ReturnFollows ==
    ASSUME HistoryInv, NEW t \in Threads, StepH(t), NEW r, Return(t, r), Objects' = Objects,
           pc[t] # "idle"
    PROVE  Contract!Return(t, Contract!Reply(r.kind, r.size, BodyOf(r.body)))
<1>1. TypeOK /\ call[t] # NoCall
  BY PendingCall DEF HistoryInv, FileInv
<1>2. applied' = [applied EXCEPT ![t] = FALSE]
  <2>1. pc'[t] = "idle"
    BY <1>1 DEF Return, Goto, TypeOK
  <2> QED BY <2>1, AppliedStep DEF HistoryInv
<1>3. Answers' = [Answers EXCEPT ![t] = Contract!Reply(r.kind, r.size, BodyOf(r.body))]
  <2>1. answer' = [answer EXCEPT ![t] = r]
    BY DEF Return
  <2> QED BY <1>1, <2>1 DEF Answers, BodyOf, TypeOK, Contract!Reply
<1> QED BY <1>1, <1>2, <1>3 DEF Return, Contract!Return

\* So does one that returns without an object.
LEMMA PlainFollows ==
    ASSUME HistoryInv, NEW t \in Threads, StepH(t), NEW k, Return(t, Plain(k)), Objects' = Objects,
           pc[t] # "idle"
    PROVE  Contract!Return(t, Contract!Reply(k, Nothing, Nothing))
<1> DEFINE r == Plain(k)
<1>1. r.kind = k /\ r.size = Nothing /\ BodyOf(r.body) = Nothing
  BY DEF Plain, BodyOf
<1>2. Contract!Return(t, Contract!Reply(r.kind, r.size, BodyOf(r.body)))
  BY ReturnFollows
<1> QED BY <1>1, <1>2

\* An error, or the end of the context, is a failure that leaves nothing behind.
LEMMA FailFollows ==
    ASSUME HistoryInv, NEW t \in Threads, StepH(t), NEW k \in {"error", "canceled"},
           Return(t, Plain(k)), Objects' = Objects, pc[t] # "idle"
    PROVE  Contract!CallStep(t)
<1>1. Contract!Return(t, Contract!Reply(k, Nothing, Nothing))
  BY PlainFollows
<1>2. call[t] # NoCall
  BY PendingCall DEF HistoryInv
<1>3. Contract!Fail(t)
  BY <1>1 DEF Contract!Fail, Contract!LeftBehind
<1> QED BY <1>2, <1>3 DEF Contract!CallStep

\* An object that is written, or taken away, changes in the contract at that instant.
LEMMA ApplyFollows ==
    ASSUME HistoryInv, NEW t \in Threads, StepH(t), call' = call, answer' = answer,
           \/ pc[t] = "rename" /\ pc'[t] = "statWritten"
           \/ pc[t] = "removeObject" /\ pc'[t] = "removeMeta",
           call[t].key \in Keys, Objects' = [Objects EXCEPT ![call[t].key] = call[t].version]
    PROVE  Contract!CallStep(t)
<1>1. FileInv /\ Current(t) /\ Engaged(t) /\ Carried(t)
  BY DEF HistoryInv, FileInv
<1>2. call[t] # NoCall
  BY <1>1, PendingCall
<1>3. ~applied[t]
  BY <1>1 DEF Current
<1>4. Contract!Writes(t)
  BY <1>1, <1>2, Distinct DEF Engaged, Carried, Contract!Writes
<1>5. applied' = [applied EXCEPT ![t] = TRUE]
  BY AppliedStep DEF HistoryInv
<1>6. Answers' = Answers
  BY DEF Answers, BodyOf
<1>7. Contract!Apply(t)
  BY <1>3, <1>4, <1>5, <1>6 DEF Contract!Apply
<1> QED BY <1>7 DEF Contract!CallStep

\* Put's steps: the rename is its instant, its end a success or a failure.
LEMMA PutFollows ==
    ASSUME HistoryInv, HistoryInv', NEW t \in Threads, StepH(t), PutStep(t)
    PROVE  Contract!CallStep(t) \/ UNCHANGED Contract!vars
<1>inv. /\ FileInv /\ TypeOK /\ TypeOK' /\ Carried(t) /\ Engaged(t) /\ Current(t)
        /\ Step(t) /\ Observe
  BY DEF HistoryInv, FileInv, StepH
<1>objects. Objects' = Objects \/ (PutRename(t) /\ node[call[t].key] # Dir
              /\ node' = [node EXCEPT ![call[t].key] = temp[t]] /\ Locals(t, "statWritten"))
  <2>1. ~DeleteObject(t)
    BY DEF PutStep, PutMkdir, PutCreateTemp, PutCopyChunk, PutCopyDone, PutCopyStops, PutRename,
           PutStatWritten, PutOpenMeta, PutWriteMeta, PutCleanup, DeleteObject
  <2> QED BY <1>inv, <2>1, ObjectsChange
<1>quiet. ASSUME call' = call, answer' = answer, Objects' = Objects,
                 pc[t] # "rename", pc'[t] # "idle", pc[t] # "removeObject"
          PROVE  UNCHANGED Contract!vars
  <2>1. applied' = applied
    BY <1>quiet, AppliedStep DEF HistoryInv
  <2> QED BY <1>inv, <1>quiet, <2>1, NothingFollows
<1>locals. ASSUME NEW label \in {"createTemp", "copy", "rename", "openMeta", "writeMeta"},
                  Locals(t, label)
           PROVE  call' = call /\ answer' = answer /\ pc'[t] = label
  BY <1>inv, <1>locals DEF Locals, Goto, TypeOK
<1>finish. ASSUME NEW result, Finish(t, result)
           PROVE  call' = call /\ answer' = answer /\ pc'[t] = "cleanup"
  BY <1>inv, <1>finish DEF Finish, Goto, TypeOK
<1>1. CASE PutMkdir(t) \/ PutCreateTemp(t)
  <2>1. Objects' = Objects /\ pc[t] \in {"mkdir", "createTemp"}
    BY <1>1, <1>objects DEF PutMkdir, PutCreateTemp, PutRename
  <2>2. CASE Return(t, Plain("error"))
    BY <2>1, <2>2, FailFollows
  <2>3. CASE Locals(t, "createTemp") \/ Locals(t, "copy")
    BY <1>quiet, <1>locals, <2>1, <2>3
  <2> QED BY <1>1, <2>2, <2>3 DEF PutMkdir, PutCreateTemp
<1>2. CASE PutCopyChunk(t) \/ PutCopyDone(t) \/ PutCopyStops(t)
  <2>1. Objects' = Objects /\ pc[t] = "copy"
    BY <1>2, <1>objects DEF PutCopyChunk, PutCopyDone, PutCopyStops, PutRename
  <2>2. \/ Locals(t, "copy") \/ Locals(t, "rename")
        \/ \E result : Finish(t, result)
    BY <1>2 DEF PutCopyChunk, PutCopyDone, PutCopyStops
  <2> QED BY <1>quiet, <1>locals, <1>finish, <2>1, <2>2
<1>3. CASE PutRename(t)
  <2>1. pc[t] = "rename" /\ call[t].key \in Keys /\ call[t].version \in Versions
        /\ temp[t] \in File /\ temp[t].version = call[t].version
    BY <1>inv, <1>3 DEF PutRename, Carried, TypeOK
  <2>2. CASE Locals(t, "statWritten") /\ node' = [node EXCEPT ![call[t].key] = temp[t]]
    <3>1. pc'[t] = "statWritten" /\ call' = call /\ answer' = answer
      BY <1>inv, <2>2 DEF Locals, Goto, TypeOK
    <3>2. Objects' = [Objects EXCEPT ![call[t].key] = call[t].version]
      <4>1. \A k \in Keys : ObjectAt(k)' = IF k = call[t].key THEN call[t].version ELSE ObjectAt(k)
        BY <1>inv, <2>1, <2>2, Distinct DEF ObjectAt, IsFile, TypeOK
      <4> QED BY <2>1, <4>1 DEF Objects
    <3> QED BY <2>1, <3>1, <3>2, ApplyFollows
  <2>3. CASE Finish(t, "error") /\ UNCHANGED disk
    <3>1. call' = call /\ answer' = answer /\ pc'[t] = "cleanup"
      BY <1>finish, <2>3
    <3>2. Objects' = Objects
      BY <2>3 DEF disk, Objects, ObjectAt, IsFile
    <3>3. applied' = applied
      BY <3>1, AppliedStep DEF HistoryInv
    <3> QED BY <1>inv, <3>1, <3>2, <3>3, NothingFollows
  <2> QED BY <1>3, <2>2, <2>3 DEF PutRename
<1>4. CASE PutStatWritten(t) \/ PutOpenMeta(t) \/ PutWriteMeta(t)
  <2>1. Objects' = Objects /\ pc[t] \in {"statWritten", "openMeta", "writeMeta"}
    BY <1>4, <1>objects DEF PutStatWritten, PutOpenMeta, PutWriteMeta, PutRename
  <2>2. \/ Locals(t, "openMeta") \/ Locals(t, "writeMeta")
        \/ \E result : Finish(t, result)
    BY <1>4 DEF PutStatWritten, PutOpenMeta, PutWriteMeta
  <2> QED BY <1>quiet, <1>locals, <1>finish, <2>1, <2>2
<1>5. CASE PutCleanup(t)
  <2>1. Objects' = Objects /\ pc[t] = "cleanup" /\ call[t] # NoCall
    BY <1>5, <1>inv, <1>objects, PendingCall DEF PutCleanup, PutRename
  <2>2. CASE ret[t] = "ok"
    <3> DEFINE r == [kind |-> "ok", size |-> call[t].version, tag |-> call[t].version, body |-> Nothing]
    <3>1. Return(t, r)
      BY <1>5, <2>2 DEF PutCleanup
    <3>2. r.kind = "ok" /\ r.size = call[t].version /\ BodyOf(r.body) = Nothing
      BY DEF BodyOf
    <3>3. Contract!Return(t, Contract!Reply(r.kind, r.size, BodyOf(r.body)))
      BY <2>1, <3>1, ReturnFollows
    <3>4. applied[t]
      BY <1>inv, <2>1, <2>2 DEF Current
    <3>5. Contract!Succeed(t)
      BY <3>2, <3>3, <3>4 DEF Contract!Succeed
    <3> QED BY <2>1, <3>5 DEF Contract!CallStep
  <2>3. CASE ret[t] # "ok"
    <3>1. ret[t] \in {"error", "canceled"}
      BY <1>inv, <2>1, <2>3 DEF TypeOK, Current
    <3>2. Return(t, Plain(ret[t]))
      BY <1>5, <2>3 DEF PutCleanup
    <3> QED BY <2>1, <3>1, <3>2, FailFollows
  <2> QED BY <2>2, <2>3
<1> QED BY <1>1, <1>2, <1>3, <1>4, <1>5 DEF PutStep

\* The steps of Get and Stat: an answer is made of what the call has seen.
LEMMA ReadFollows ==
    ASSUME HistoryInv, HistoryInv', GetsOnlyLeaves, NEW t \in Threads, StepH(t),
           StatObject(t) \/ ReadMeta(t) \/ GetOpen(t)
    PROVE  Contract!CallStep(t) \/ UNCHANGED Contract!vars
<1>inv. /\ FileInv /\ TypeOK /\ TypeOK' /\ Carried(t) /\ Engaged(t) /\ Current(t)
        /\ Step(t) /\ Observe
  BY DEF HistoryInv, FileInv, StepH
<1>1. pc[t] \in {"stat", "readMeta", "open"} /\ call[t].key \in Keys /\ call[t].key # BadKey
  BY <1>inv, Arguments, AboveAssumption DEF StatObject, ReadMeta, GetOpen, Carried
<1>2. call[t] # NoCall /\ call[t].op \in {"get", "stat"} /\ call[t] \in CallsOf[t]
  BY <1>inv, <1>1, PendingCall DEF Engaged, Current
<1>3. Objects' = Objects
  BY DEF StatObject, ReadMeta, GetOpen, disk, Objects, ObjectAt, IsFile
<1>4. ObjectAt(call[t].key) \in seen[t]
  BY <1>inv, <1>1, <1>2 DEF Current
<1>notfound. ASSUME Return(t, Plain("notfound")), ObjectAt(call[t].key) = Nothing
             PROVE  Contract!CallStep(t)
  <2>1. Contract!Return(t, Contract!Reply("notfound", Nothing, Nothing))
    BY <1>1, <1>3, <1>notfound, PlainFollows
  <2>2. Contract!NotFound(t)
    BY <1>2, <1>4, <1>notfound, <2>1 DEF Contract!NotFound
  <2> QED BY <1>2, <2>2 DEF Contract!CallStep
<1>quiet. ASSUME Goto(t, "readMeta") \/ Goto(t, "open"), UNCHANGED <<call, answer>>
          PROVE  UNCHANGED Contract!vars
  <2>1. pc'[t] \in {"readMeta", "open"}
    BY <1>inv, <1>quiet DEF Goto, TypeOK
  <2>2. applied' = applied
    BY <2>1, AppliedStep DEF HistoryInv
  <2> QED BY <1>inv, <1>3, <1>quiet, <2>2, NothingFollows
<1>5. CASE StatObject(t)
  <2>1. CASE Return(t, Plain("error"))
    BY <1>1, <1>3, <2>1, FailFollows
  <2>2. CASE Return(t, Plain("notfound")) /\ ~IsFile(call[t].key)
    BY <1>notfound, <2>2 DEF ObjectAt
  <2>3. CASE Goto(t, "readMeta") /\ UNCHANGED <<call, answer>>
    BY <1>quiet, <2>3
  <2> QED BY <1>5, <2>1, <2>2, <2>3 DEF StatObject
<1>6. CASE ReadMeta(t)
  <2>0. pc[t] = "readMeta" /\ info[t] \in seen[t] \ {Nothing}
    BY <1>6, <1>inv, Distinct DEF ReadMeta, Carried, Current
  <2>1. PICK m : \/ /\ call[t].op = "stat"
                    /\ Return(t, [kind |-> "ok", size |-> info[t], tag |-> m, body |-> Nothing])
                 \/ Goto(t, "open") /\ UNCHANGED <<call, answer>>
    BY <1>6 DEF ReadMeta
  <2>2. CASE call[t].op = "stat" /\
             Return(t, [kind |-> "ok", size |-> info[t], tag |-> m, body |-> Nothing])
    <3> DEFINE r == [kind |-> "ok", size |-> info[t], tag |-> m, body |-> Nothing]
    <3>1. r.kind = "ok" /\ r.size = info[t] /\ BodyOf(r.body) = Nothing
      BY DEF BodyOf
    <3>2. Contract!Return(t, Contract!Reply(r.kind, r.size, BodyOf(r.body)))
      BY <1>3, <2>0, <2>2, ReturnFollows
    <3>3. Contract!Found(t)
      BY <2>0, <2>2, <3>1, <3>2 DEF Contract!Found
    <3> QED BY <1>2, <3>3 DEF Contract!CallStep
  <2>3. CASE Goto(t, "open") /\ UNCHANGED <<call, answer>>
    BY <1>quiet, <2>3
  <2> QED BY <2>1, <2>2, <2>3
<1>7. CASE GetOpen(t)
  <2> DEFINE k == call[t].key
             r == [kind |-> "ok", size |-> info[t], tag |-> tag[t], body |-> node[k]]
  <2>0. pc[t] = "open" /\ info[t] \in seen[t] \ {Nothing}
    BY <1>7, <1>inv, Distinct DEF GetOpen, Carried, Current
  <2>1. CASE NotDirectory(k)
    <3>1. Return(t, Plain("error"))
      BY <1>7, <2>1 DEF GetOpen
    <3> QED BY <1>1, <1>3, <3>1, FailFollows
  <2>2. CASE ~NotDirectory(k) /\ Missing(k)
    <3>1. Return(t, Plain("notfound"))
      BY <1>7, <2>2 DEF GetOpen
    <3>2. node[k] = Nothing
      BY <1>inv, <1>1, <2>2 DEF Missing, FileInv, TreeShape, InDirectory
    <3> QED BY <1>notfound, <3>1, <3>2 DEF ObjectAt, IsFile
  <2>3. CASE ~NotDirectory(k) /\ ~Missing(k)
    <3>1. Return(t, r)
      BY <1>7, <2>3 DEF GetOpen
    <3>2. call[t].op = "get"
      BY <1>inv, <2>0 DEF Current
    <3>3. node[k] \notin {Nothing, Dir}
      <4>1. node[k] # Nothing
        BY <2>3 DEF Missing
      <4>2. node[k] # Dir
        BY <1>1, <1>2, <3>2 DEF HistoryInv, GetsOnlyLeaves
      <4> QED BY <4>1, <4>2
    <3>4. node[k].version \in seen[t] \ {Nothing}
      BY <1>1, <1>4, <1>inv, <3>3, ObjectType DEF ObjectAt, IsFile
    <3>5. r.kind = "ok" /\ r.size = info[t] /\ BodyOf(r.body) = node[k].version
      BY <3>3 DEF BodyOf
    <3>6. Contract!Return(t, Contract!Reply(r.kind, r.size, BodyOf(r.body)))
      BY <1>3, <2>0, <3>1, ReturnFollows
    <3>7. Contract!Found(t)
      BY <2>0, <3>2, <3>4, <3>5, <3>6 DEF Contract!Found
    <3> QED BY <1>2, <3>7 DEF Contract!CallStep
  <2> QED BY <2>1, <2>2, <2>3
<1> QED BY <1>5, <1>6, <1>7

\* Every step of a goroutine is one of its call in the contract, or none.
LEMMA StepFollows ==
    ASSUME HistoryInv, HistoryInv', GetsOnlyLeaves, NEW t \in Threads, StepH(t)
    PROVE  Contract!CallStep(t) \/ UNCHANGED Contract!vars
<1>inv. /\ FileInv /\ TypeOK /\ Carried(t) /\ Engaged(t) /\ Current(t) /\ Step(t)
  BY DEF HistoryInv, FileInv, StepH
<1>same. UNCHANGED disk => Objects' = Objects
  BY DEF disk, Objects, ObjectAt, IsFile
<1>1. CASE Invoke(t)
  <2>1. PICK a \in CallsOf[t] : call' = [call EXCEPT ![t] = a]
    BY <1>1 DEF Invoke
  <2>2. call[t] = NoCall /\ pc[t] = "idle"
    BY <1>1, <1>inv DEF Invoke, Carried
  <2>3. pc'[t] # "idle"
    BY <1>1, <1>inv DEF Invoke, Goto, TypeOK
  <2>4. applied' = applied
    BY <2>2, <2>3, AppliedStep DEF HistoryInv
  <2>5. Objects' = Objects
    BY <1>1, <1>same DEF Invoke
  <2>6. Answers' = [Answers EXCEPT ![t] = Contract!Reply("none", Nothing, Nothing)]
    <3>1. answer' = [answer EXCEPT ![t] = Plain("none")]
      BY <1>1 DEF Invoke
    <3> QED BY <1>inv, <3>1 DEF Answers, BodyOf, TypeOK, Plain, Contract!Reply
  <2>7. Contract!Begin(t)
    BY <2>1, <2>2, <2>4, <2>5, <2>6 DEF Contract!Begin
  <2> QED BY <2>7 DEF Contract!CallStep
<1>2. CASE Refused(t)
  <2>1. pc[t] # "idle" /\ call[t] # NoCall /\ Objects' = Objects
    BY <1>2, <1>inv, <1>same, PendingCall DEF Refused
  <2>2. Contract!Return(t, Contract!Reply("refused", Nothing, Nothing))
    BY <1>2, <2>1, PlainFollows DEF Refused
  <2>3. Contract!Refuse(t)
    BY <1>2, <2>2 DEF Refused, Contract!Refuse
  <2> QED BY <2>1, <2>3 DEF Contract!CallStep
<1>3. CASE Canceled(t) \/ IOError(t)
  <2>1. pc[t] # "idle" /\ Objects' = Objects
    BY <1>3, <1>same DEF Canceled, IOError
  <2> QED BY <1>3, <2>1, FailFollows DEF Canceled, IOError
<1>4. CASE DeleteObject(t)
  <2>1. pc[t] = "removeObject" /\ call[t].key \in Keys /\ call[t].version = Nothing
    BY <1>4, <1>inv, Arguments DEF DeleteObject, Engaged
  <2>2. CASE Return(t, Plain("error")) /\ UNCHANGED disk
    BY <1>same, <2>1, <2>2, FailFollows
  <2>3. CASE node' = [node EXCEPT ![call[t].key] = Nothing] /\ Locals(t, "removeMeta")
    <3>1. call' = call /\ answer' = answer /\ pc'[t] = "removeMeta"
      BY <1>inv, <2>3 DEF Locals, Goto, TypeOK
    <3>2. \A k \in Keys : ObjectAt(k)' = IF k = call[t].key THEN Nothing ELSE ObjectAt(k)
      BY <1>inv, <2>1, <2>3 DEF ObjectAt, IsFile, TypeOK
    <3>3. Objects' = [Objects EXCEPT ![call[t].key] = call[t].version]
      BY <2>1, <3>2 DEF Objects
    <3> QED BY <2>1, <3>1, <3>3, ApplyFollows
  <2> QED BY <1>4, <2>2, <2>3 DEF DeleteObject
<1>5. CASE DeleteMeta(t)
  <2>1. /\ pc[t] = "removeMeta" /\ Return(t, Plain("ok")) /\ node' = node
    BY <1>5 DEF DeleteMeta
  <2>2. call[t] # NoCall /\ call[t].version = Nothing /\ applied[t]
    BY <1>inv, <2>1, PendingCall DEF Engaged, Current
  <2>3. Objects' = Objects
    BY <2>1 DEF Objects, ObjectAt, IsFile
  <2>4. Contract!Return(t, Contract!Reply("ok", Nothing, Nothing))
    BY <2>1, <2>3, PlainFollows
  <2>5. Contract!Succeed(t)
    BY <2>2, <2>4 DEF Contract!Succeed
  <2> QED BY <2>2, <2>5 DEF Contract!CallStep
<1> QED BY <1>inv, <1>1, <1>2, <1>3, <1>4, <1>5, PutFollows, ReadFollows DEF Step

\* A crash is one of the contract: what was stored stays.
LEMMA CrashFollows == ASSUME CrashH PROVE Contract!Crash
<1>1. Objects' = Objects
  BY DEF CrashH, Crash, Objects, ObjectAt, IsFile
<1>2. Answers' = [t \in Threads |-> Contract!Reply("none", Nothing, Nothing)]
  BY DEF CrashH, Crash, Answers, BodyOf, Plain, Contract!Reply
<1> QED BY <1>1, <1>2 DEF CrashH, Crash, Contract!Crash

\* The file store implements the contract of blobx.Store, under concurrent calls, failing
\* system calls and crashes, for any goroutines and any tree of keys, if no Get asks for
\* a key that is a directory (file.go, Put, Get, Stat and Delete; blob.go:31-37).
THEOREM FileImplementsObjectStore ==
    ASSUME GetsOnlyLeaves
    PROVE  SpecH => ImplementsObjectStore
<1>1. InitH => Contract!Init
  <2> SUFFICES ASSUME InitH PROVE Contract!Init
    OBVIOUS
  <2>1. Objects = [k \in Keys |-> Nothing]
    BY DEF InitH, Init, Objects, ObjectAt, IsFile
  <2>2. Answers = [t \in Threads |-> Contract!Reply("none", Nothing, Nothing)]
    BY DEF InitH, Init, Answers, BodyOf, Plain, Contract!Reply
  <2> QED BY <2>1, <2>2 DEF InitH, Init, Contract!Init
<1>2. HistoryInv /\ HistoryInv' /\ [NextH]_varsH => [Contract!Next]_(Contract!vars)
  <2> SUFFICES ASSUME HistoryInv, HistoryInv', [NextH]_varsH
               PROVE  [Contract!Next]_(Contract!vars)
    OBVIOUS
  <2>1. Observe => Contract!Observe
    BY DEF Observe, Contract!Observe
  <2>2. CASE UNCHANGED varsH
    BY <2>2 DEF varsH, Contract!vars, Objects, ObjectAt, IsFile, Answers, BodyOf
  <2>3. CASE CrashH
    BY <2>1, <2>3, CrashFollows DEF CrashH, Contract!Next
  <2>4. ASSUME NEW t \in Threads, StepH(t) PROVE [Contract!Next]_(Contract!vars)
    BY <2>1, <2>4, StepFollows DEF StepH, Contract!Next
  <2> QED BY <2>2, <2>3, <2>4 DEF NextH
<1> QED BY <1>1, <1>2, HistoryInvariant, PTL DEF SpecH, ImplementsObjectStore, Contract!Spec

-----------------------------------------------------------------------------
(* The store that tests use in its place, with its own map and buffers, and  *)
(* for the rest variables of the same names.                                 *)

VARIABLES objects, buffer

Memory == INSTANCE MemoryStore

\* What the memory store assumes of its callers.
MemoryUse == Memory!BodyAssumption /\ Memory!CallAssumption /\ Memory!MarkAssumption

\* The actions of goroutine t leave the registers of the others alone.
LEMMA MemoryOthers ==
    ASSUME Memory!TypeOK, NEW t \in Threads, Memory!Step(t), NEW u \in Threads, u # t
    PROVE  /\ pc'[u] = pc[u] /\ call'[u] = call[u] /\ buffer'[u] = buffer[u]
           /\ applied'[u] = applied[u]
<1>return. \A r : Memory!Return(t, r) => /\ pc'[u] = pc[u] /\ call'[u] = call[u]
                                         /\ buffer'[u] = buffer[u] /\ applied'[u] = applied[u]
  BY DEF Memory!TypeOK, Memory!Return, Memory!Goto
<1>1. CASE Memory!Invoke(t)
  BY <1>1 DEF Memory!TypeOK, Memory!Invoke, Memory!Goto
<1>2. CASE \/ Memory!Stopped(t) \/ Memory!Refused(t) \/ Memory!PutPanics(t) \/ Memory!Written(t)
           \/ Memory!Read(t)
  BY <1>2, <1>return DEF Memory!Stopped, Memory!Refused, Memory!PutPanics, Memory!Written, Memory!Read
<1>3. CASE \/ Memory!PutCopyChunk(t) \/ Memory!PutCopyDone(t) \/ Memory!PutStore(t)
           \/ Memory!DeleteRemove(t)
  BY <1>3 DEF Memory!TypeOK, Memory!PutCopyChunk, Memory!PutCopyDone, Memory!PutStore,
              Memory!DeleteRemove, Memory!Goto
<1> QED BY <1>1, <1>2, <1>3 DEF Memory!Step

\* Returning keeps types and leaves nothing in hand.
LEMMA MemoryReturns ==
    ASSUME Memory!TypeOK, NEW t \in Threads, NEW r \in Memory!Answer, Memory!Return(t, r)
    PROVE  /\ pc' \in [Threads -> {"idle", "put", "get", "stat", "delete", "lock", "unlocked"}]
           /\ call' \in [Threads -> Memory!Call \cup {NoCall}]
           /\ buffer' \in [Threads -> Nat]
           /\ answer' \in [Threads -> Memory!Answer]
           /\ applied' \in [Threads -> BOOLEAN]
           /\ pc'[t] = "idle" /\ call'[t] = NoCall /\ applied'[t] = FALSE
BY DEF Memory!TypeOK, Memory!Return, Memory!Goto

\* A call in hand is well formed.
LEMMA MemoryPending ==
    ASSUME MemoryUse, Memory!MemoryInv, NEW t \in Threads, pc[t] # "idle"
    PROVE  /\ call[t] \in Memory!Call /\ call[t] # NoCall
           /\ call[t].key # BadKey => call[t].key \in Keys
           /\ call[t].version # Nothing => call[t].version \in Versions
BY DEF MemoryUse, Memory!MemoryInv, Memory!TypeOK, Memory!InHand, Memory!Call

\* The answers are answers.
LEMMA MemoryAnswers ==
    ASSUME NEW size \in Versions \cup {Nothing}, NEW body \in Versions \cup {Nothing}
    PROVE  /\ Memory!Reply("ok", size, body) \in Memory!Answer
           /\ \A k \in {"none", "notfound", "error", "canceled", "refused", "panic"} :
                Memory!Plain(k) \in Memory!Answer
BY DEF Memory!Reply, Memory!Plain, Memory!Answer

\* What the contract sees of a whole object is its version.
LEMMA MemoryStored ==
    ASSUME MemoryUse, Memory!TypeOK, \A k \in Keys : objects[k] # Nothing => Memory!Whole(objects[k]),
           NEW k \in Keys
    PROVE  /\ Memory!Stored[k] \in Versions \cup {Nothing}
           /\ Memory!Stored[k] = IF objects[k] = Nothing THEN Nothing ELSE objects[k].data
BY DEF MemoryUse, Memory!MarkAssumption, Memory!TypeOK, Memory!Stored, Memory!Object

\* A step keeps the types, except of what Observe keeps, and every object whole.
LEMMA MemoryTypes ==
    ASSUME MemoryUse, Memory!MemoryInv, NEW t \in Threads, Memory!Step(t)
    PROVE  /\ objects' \in [Keys -> Memory!Object \cup {Nothing}]
           /\ pc' \in [Threads -> {"idle", "put", "get", "stat", "delete", "lock", "unlocked"}]
           /\ call' \in [Threads -> Memory!Call \cup {NoCall}]
           /\ buffer' \in [Threads -> Nat]
           /\ answer' \in [Threads -> Memory!Answer]
           /\ applied' \in [Threads -> BOOLEAN]
           /\ \A k \in Keys : objects'[k] # Nothing => Memory!Whole(objects[k])'
<1>inv. /\ Memory!TypeOK /\ Memory!InHand(t)
        /\ \A k \in Keys : objects[k] # Nothing => Memory!Whole(objects[k])
  BY DEF Memory!MemoryInv
<1>same. ASSUME objects' = objects
         PROVE  /\ objects' \in [Keys -> Memory!Object \cup {Nothing}]
                /\ \A k \in Keys : objects'[k] # Nothing => Memory!Whole(objects[k])'
  BY <1>inv, <1>same DEF Memory!TypeOK, Memory!Whole
<1>1. CASE Memory!Invoke(t)
  <2>1. PICK a \in CallsOf[t] : call' = [call EXCEPT ![t] = a] /\ Memory!Goto(t, a.op)
    BY <1>1 DEF Memory!Invoke
  <2>2. a \in Memory!Call /\ a.op \in {"put", "get", "stat", "delete"}
    BY DEF MemoryUse, Memory!CallAssumption, Memory!Call
  <2> QED BY <1>inv, <1>same, <1>1, <2>1, <2>2, MemoryAnswers
          DEF Memory!Invoke, Memory!Goto, Memory!TypeOK
<1>2. CASE Memory!Stopped(t) \/ Memory!Refused(t) \/ Memory!PutPanics(t)
  <2>1. \E k \in {"canceled", "error", "refused", "panic"} : Memory!Return(t, Memory!Plain(k))
    BY <1>2 DEF Memory!Stopped, Memory!Refused, Memory!PutPanics
  <2>2. objects' = objects
    BY <1>2 DEF Memory!Stopped, Memory!Refused, Memory!PutPanics
  <2> QED BY <1>inv, <1>same, <2>1, <2>2, MemoryReturns, MemoryAnswers
<1>3. CASE Memory!PutCopyChunk(t) \/ Memory!PutCopyDone(t)
  BY <1>inv, <1>same, <1>3 DEF Memory!PutCopyChunk, Memory!PutCopyDone, Memory!Goto, Memory!TypeOK
<1>4. CASE Memory!PutStore(t)
  <2> DEFINE o == [data |-> call[t].version, chunks |-> buffer[t], info |-> call[t].version]
  <2>1. call[t].key \in Keys /\ call[t].version \in Versions /\ buffer[t] = Chunks[call[t].version]
    BY <1>inv, <1>4 DEF Memory!PutStore, Memory!InHand
  <2>2. o \in Memory!Object /\ o.chunks = Chunks[o.data] /\ o.info = o.data
    BY <1>inv, <2>1 DEF Memory!Object, Memory!TypeOK
  <2>3. objects' = [objects EXCEPT ![call[t].key] = o]
    BY <1>4 DEF Memory!PutStore
  <2>4. \A k \in Keys : objects'[k] # Nothing => Memory!Whole(objects[k])'
    BY <1>inv, <2>1, <2>2, <2>3 DEF Memory!Whole, Memory!TypeOK
  <2>5. objects' \in [Keys -> Memory!Object \cup {Nothing}]
    BY <1>inv, <2>2, <2>3 DEF Memory!TypeOK
  <2> QED BY <1>inv, <1>4, <2>4, <2>5 DEF Memory!PutStore, Memory!Goto, Memory!TypeOK
<1>5. CASE Memory!DeleteRemove(t)
  <2>1. /\ objects' \in [Keys -> Memory!Object \cup {Nothing}]
        /\ \A k \in Keys : objects'[k] # Nothing => Memory!Whole(objects[k])'
    BY <1>inv, <1>5 DEF Memory!DeleteRemove, Memory!TypeOK, Memory!Whole
  <2> QED BY <1>inv, <1>5, <2>1 DEF Memory!DeleteRemove, Memory!Goto, Memory!TypeOK
<1>6. CASE Memory!Written(t) \/ Memory!Read(t)
  <2>1. pc[t] # "idle" /\ objects' = objects
    BY <1>6 DEF Memory!Written, Memory!Read
  <2>2. \E r \in Memory!Answer : Memory!Return(t, r)
    <3>1. CASE Memory!Written(t)
      <4>1. call[t].version \in Versions \cup {Nothing}
        BY <2>1, MemoryPending
      <4> QED BY <3>1, <4>1, MemoryAnswers DEF Memory!Written
    <3>2. CASE Memory!Read(t)
      <4> DEFINE o == objects[call[t].key]
      <4>1. call[t].key \in Keys
        BY <2>1, <3>2, MemoryPending DEF Memory!Read
      <4>2. o # Nothing => o.info \in Versions /\ o.data \in Versions
        BY <1>inv, <4>1 DEF Memory!TypeOK, Memory!Object
      <4> QED BY <3>2, <4>2, MemoryAnswers DEF Memory!Read
    <3> QED BY <1>6, <3>1, <3>2
  <2> QED BY <1>inv, <1>same, <2>1, <2>2, MemoryReturns
<1> QED BY <1>1, <1>2, <1>3, <1>4, <1>5, <1>6 DEF Memory!Step

\* What a step takes in hand.
LEMMA MemoryHand ==
    ASSUME MemoryUse, Memory!MemoryInv, NEW t \in Threads, Memory!Step(t)
    PROVE  /\ pc'[t] = "idle" <=> call'[t] = NoCall
           /\ pc'[t] \in {"put", "get", "stat", "delete"} => call'[t].op = pc'[t]
           /\ pc'[t] = "lock" =>
                 /\ call'[t].op = "put" /\ call'[t].key \in Keys /\ call'[t].version \in Versions
                 /\ buffer'[t] = Chunks[call'[t].version]
           /\ pc'[t] = "unlocked" <=> applied'[t]
           /\ call'[t] # NoCall /\ call'[t].op = "delete" => call'[t].version = Nothing
<1>inv. Memory!TypeOK /\ Memory!InHand(t)
  BY DEF Memory!MemoryInv
<1>1. CASE Memory!Invoke(t)
  <2>1. PICK a \in CallsOf[t] : call' = [call EXCEPT ![t] = a] /\ Memory!Goto(t, a.op)
    BY <1>1 DEF Memory!Invoke
  <2>2. /\ a \in Memory!Call /\ a.op \in {"put", "get", "stat", "delete"} /\ a # NoCall
        /\ a.op = "delete" => a.version = Nothing
    BY DEF MemoryUse, Memory!CallAssumption, Memory!MarkAssumption, Memory!Call
  <2>3. call'[t] = a /\ pc'[t] = a.op /\ applied' = applied /\ pc[t] = "idle"
    BY <1>inv, <1>1, <2>1 DEF Memory!Invoke, Memory!Goto, Memory!TypeOK
  <2> QED BY <1>inv, <2>2, <2>3 DEF Memory!InHand
<1>2. CASE \/ Memory!Stopped(t) \/ Memory!Refused(t) \/ Memory!PutPanics(t) \/ Memory!Written(t)
           \/ Memory!Read(t)
  <2>1. \E r : Memory!Return(t, r)
    BY <1>2 DEF Memory!Stopped, Memory!Refused, Memory!PutPanics, Memory!Written, Memory!Read
  <2>2. pc'[t] = "idle" /\ call'[t] = NoCall /\ applied'[t] = FALSE
    BY <1>inv, <2>1 DEF Memory!Return, Memory!Goto, Memory!TypeOK
  <2> QED BY <2>2
<1>3. CASE Memory!PutCopyChunk(t)
  BY <1>inv, <1>3 DEF Memory!PutCopyChunk, Memory!InHand
<1>4. CASE Memory!PutCopyDone(t)
  <2>1. pc[t] = "put" /\ call[t].key \in Keys /\ call[t].version \in Versions
    BY <1>4, MemoryPending DEF Memory!PutCopyDone
  <2>2. pc'[t] = "lock" /\ call' = call /\ buffer' = buffer /\ applied' = applied
    BY <1>inv, <1>4 DEF Memory!PutCopyDone, Memory!Goto, Memory!TypeOK
  <2> QED BY <1>inv, <1>4, <2>1, <2>2 DEF Memory!PutCopyDone, Memory!InHand
<1>5. CASE Memory!PutStore(t) \/ Memory!DeleteRemove(t)
  <2>1. pc'[t] = "unlocked" /\ applied'[t] = TRUE /\ call' = call /\ pc[t] # "idle"
    BY <1>inv, <1>5 DEF Memory!PutStore, Memory!DeleteRemove, Memory!Goto, Memory!TypeOK
  <2> QED BY <1>inv, <2>1 DEF Memory!InHand
<1> QED BY <1>1, <1>2, <1>3, <1>4, <1>5 DEF Memory!Step

\* Every step keeps the invariant.
LEMMA MemoryKept ==
    ASSUME MemoryUse, Memory!MemoryInv, [Memory!Next]_(Memory!vars)
    PROVE  Memory!MemoryInv'
<1>1. ASSUME NEW t \in Threads, Memory!Step(t), Memory!Observe PROVE Memory!MemoryInv'
  <2>1. /\ objects' \in [Keys -> Memory!Object \cup {Nothing}]
        /\ call' \in [Threads -> Memory!Call \cup {NoCall}]
        /\ \A k \in Keys : objects'[k] # Nothing => Memory!Whole(objects[k])'
    BY <1>1, MemoryTypes
  <2>2. ASSUME NEW u \in Threads, call'[u] # NoCall, call'[u].key # BadKey
        PROVE  Memory!Stored'[call'[u].key] \in Versions \cup {Nothing}
    <3>1. call'[u].key \in Keys
      BY <2>1, <2>2 DEF Memory!Call
    <3> QED BY <2>1, <3>1 DEF Memory!Stored, Memory!Object, Memory!Whole
  <2>3. /\ seen' \in [Threads -> SUBSET (Versions \cup {Nothing})]
        /\ \A u \in Threads :
             /\ call'[u] = NoCall \/ call'[u].key = BadKey => seen'[u] = {}
             /\ call'[u] # NoCall /\ call'[u].key # BadKey => Memory!Stored'[call'[u].key] \in seen'[u]
    BY <1>1, <2>2 DEF Memory!Observe, Memory!MemoryInv, Memory!TypeOK
  <2>4. Memory!TypeOK'
    BY <1>1, <2>3, MemoryTypes DEF Memory!TypeOK
  <2>5. ASSUME NEW u \in Threads PROVE Memory!InHand(u)'
    <3>1. CASE u = t
      BY <1>1, <2>3, <3>1, MemoryHand DEF Memory!InHand
    <3>2. CASE u # t
      <4>1. Memory!InHand(u) /\ Memory!TypeOK
        BY DEF Memory!MemoryInv
      <4>2. /\ pc'[u] = pc[u] /\ call'[u] = call[u] /\ buffer'[u] = buffer[u]
            /\ applied'[u] = applied[u]
        BY <1>1, <3>2, <4>1, MemoryOthers
      <4> QED BY <2>3, <4>1, <4>2 DEF Memory!InHand
    <3> QED BY <3>1, <3>2
  <2> QED BY <2>1, <2>4, <2>5 DEF Memory!MemoryInv
<1>2. CASE UNCHANGED Memory!vars
  BY <1>2 DEF Memory!vars, Memory!MemoryInv, Memory!TypeOK, Memory!InHand, Memory!Whole, Memory!Stored
<1> QED BY <1>1, <1>2 DEF Memory!Next

\* A call that returns does so in the contract, a panic as a refusal.
LEMMA MemoryReturnFollows ==
    ASSUME MemoryUse, Memory!MemoryInv, NEW t \in Threads, pc[t] # "idle", objects' = objects,
           NEW kind, NEW size, NEW body, Memory!Return(t, Memory!Reply(kind, size, body))
    PROVE  Memory!Contract!Return(t,
              Memory!Contract!Reply(IF kind = "panic" THEN "refused" ELSE kind, size, body))
<1>1. Memory!TypeOK /\ call[t] # NoCall
  BY MemoryPending DEF Memory!MemoryInv
<1> DEFINE r == Memory!Contract!Reply(IF kind = "panic" THEN "refused" ELSE kind, size, body)
<1>2. Memory!Answers' = [Memory!Answers EXCEPT ![t] = r]
  <2>1. answer' = [answer EXCEPT ![t] = Memory!Reply(kind, size, body)]
    BY DEF Memory!Return
  <2>2. [Memory!Reply(kind, size, body) EXCEPT !.kind = IF @ = "panic" THEN "refused" ELSE @] = r
    BY DEF Memory!Reply, Memory!Contract!Reply
  <2>3. \A u \in Threads : answer'[u] = IF u = t THEN Memory!Reply(kind, size, body) ELSE answer[u]
    BY <1>1, <2>1 DEF Memory!TypeOK
  <2> HIDE DEF r
  <2> QED BY <2>2, <2>3 DEF Memory!Answers
<1>3. Memory!Stored' = Memory!Stored
  BY DEF Memory!Stored, Memory!Whole
<1> HIDE DEF r
<1>4. Memory!Contract!Return(t, r)
  BY <1>1, <1>2, <1>3 DEF Memory!Return, Memory!Contract!Return
<1> QED BY <1>4 DEF r

\* The instant of a Put or a Delete is its section under the lock.
LEMMA MemoryApplyFollows ==
    ASSUME MemoryUse, Memory!MemoryInv, NEW t \in Threads,
           Memory!PutStore(t) \/ Memory!DeleteRemove(t)
    PROVE  Memory!Contract!CallStep(t)
<1>inv. /\ Memory!TypeOK /\ Memory!InHand(t)
        /\ \A k \in Keys : objects[k] # Nothing => Memory!Whole(objects[k])
  BY DEF Memory!MemoryInv
<1>1. /\ pc[t] \in {"lock", "delete"} /\ UNCHANGED <<call, answer>>
      /\ applied' = [applied EXCEPT ![t] = TRUE]
  BY DEF Memory!PutStore, Memory!DeleteRemove
<1>2. call[t] # NoCall /\ ~applied[t] /\ call[t].key \in Keys
  BY <1>inv, <1>1, MemoryPending DEF Memory!PutStore, Memory!DeleteRemove, Memory!InHand
<1>3. Memory!Stored' = [Memory!Stored EXCEPT ![call[t].key] = call[t].version]
  <2>1. CASE Memory!PutStore(t)
    <3> DEFINE o == [data |-> call[t].version, chunks |-> buffer[t], info |-> call[t].version]
    <3>1. call[t].version \in Versions /\ buffer[t] = Chunks[call[t].version]
      BY <1>inv, <2>1 DEF Memory!PutStore, Memory!InHand
    <3>2. o \in Memory!Object /\ o # Nothing /\ o.chunks = Chunks[o.data] /\ o.info = o.data
          /\ o.data = call[t].version
      BY <1>inv, <3>1 DEF Memory!Object, Memory!TypeOK, MemoryUse, Memory!MarkAssumption
    <3>3. objects' = [objects EXCEPT ![call[t].key] = o]
      BY <2>1 DEF Memory!PutStore
    <3> HIDE DEF o
    <3>4. \A k \in Keys : objects'[k] = IF k = call[t].key THEN o ELSE objects[k]
      BY <1>inv, <3>3 DEF Memory!TypeOK
    <3>5. ASSUME NEW k \in Keys
          PROVE  Memory!Stored'[k] = IF k = call[t].key THEN call[t].version ELSE Memory!Stored[k]
      <4>1. CASE k = call[t].key
        BY <3>2, <3>4, <3>5, <4>1 DEF Memory!Stored, Memory!Whole
      <4>2. CASE k # call[t].key
        BY <3>4, <3>5, <4>2 DEF Memory!Stored, Memory!Whole
      <4> QED BY <4>1, <4>2
    <3>6. /\ Memory!Stored' = [k \in Keys |-> Memory!Stored'[k]]
          /\ Memory!Stored = [k \in Keys |-> Memory!Stored[k]]
      BY DEF Memory!Stored
    <3> QED BY <1>2, <3>5, <3>6
  <2>2. CASE Memory!DeleteRemove(t)
    <3>1. call[t].version = Nothing
      BY <1>inv, <1>2, <2>2 DEF Memory!DeleteRemove, Memory!InHand
    <3>2. \A k \in Keys : objects'[k] = IF k = call[t].key THEN Nothing ELSE objects[k]
      BY <1>inv, <2>2 DEF Memory!DeleteRemove, Memory!TypeOK
    <3> QED BY <1>2, <3>1, <3>2 DEF Memory!Stored, Memory!Whole
  <2> QED BY <2>1, <2>2
<1>4. Memory!Contract!Writes(t)
  BY <1>inv, <1>1, <1>2 DEF Memory!Contract!Writes, Memory!PutStore, Memory!DeleteRemove,
                            Memory!InHand, MemoryUse, Memory!MarkAssumption
<1>5. Memory!Answers' = Memory!Answers
  BY <1>1 DEF Memory!Answers
<1>6. Memory!Contract!Apply(t)
  BY <1>1, <1>2, <1>3, <1>4, <1>5 DEF Memory!Contract!Apply
<1> QED BY <1>6 DEF Memory!Contract!CallStep

\* Every step of a goroutine is one of its call in the contract, or none.
LEMMA MemoryStepFollows ==
    ASSUME MemoryUse, Memory!MemoryInv, NEW t \in Threads, Memory!Step(t), Memory!Observe
    PROVE  Memory!Contract!CallStep(t) \/ UNCHANGED Memory!Contract!vars
<1>inv. /\ Memory!TypeOK /\ Memory!InHand(t)
        /\ \A k \in Keys : objects[k] # Nothing => Memory!Whole(objects[k])
  BY DEF Memory!MemoryInv
<1>1. CASE Memory!Invoke(t)
  <2>1. Memory!Answers' = [Memory!Answers EXCEPT ![t] = Memory!Contract!Reply("none", Nothing, Nothing)]
    <3>1. \A u \in Threads : answer'[u] = IF u = t THEN Memory!Plain("none") ELSE answer[u]
      BY <1>inv, <1>1 DEF Memory!Invoke, Memory!TypeOK
    <3>2. [Memory!Plain("none") EXCEPT !.kind = IF @ = "panic" THEN "refused" ELSE @]
            = Memory!Contract!Reply("none", Nothing, Nothing)
      BY DEF Memory!Plain, Memory!Reply, Memory!Contract!Reply
    <3> QED BY <3>1, <3>2 DEF Memory!Answers
  <2>2. Memory!Stored' = Memory!Stored
    BY <1>1 DEF Memory!Invoke, Memory!Stored, Memory!Whole
  <2>3. Memory!Contract!Begin(t)
    BY <1>inv, <1>1, <2>1, <2>2 DEF Memory!Invoke, Memory!InHand, Memory!Contract!Begin
  <2> QED BY <2>3 DEF Memory!Contract!CallStep
<1>2. CASE Memory!Stopped(t)
  <2>1. PICK k \in {"canceled", "error"} : Memory!Return(t, Memory!Plain(k))
    BY <1>2 DEF Memory!Stopped
  <2>2. pc[t] # "idle" /\ objects' = objects /\ k # "panic"
    BY <1>2, <2>1 DEF Memory!Stopped
  <2>3. Memory!Contract!Return(t, Memory!Contract!Reply(k, Nothing, Nothing))
    BY <2>1, <2>2, MemoryReturnFollows DEF Memory!Plain
  <2>4. Memory!Contract!Fail(t)
    BY <2>3 DEF Memory!Contract!Fail, Memory!Contract!LeftBehind
  <2> QED BY <2>2, <2>4, MemoryPending DEF Memory!Contract!CallStep
<1>3. CASE Memory!Refused(t) \/ Memory!PutPanics(t)
  <2>1. /\ pc[t] # "idle" /\ objects' = objects
        /\ Memory!Return(t, Memory!Plain("refused")) \/ Memory!Return(t, Memory!Plain("panic"))
        /\ call[t].key = BadKey \/ (call[t].op = "put" /\ call[t].version = Nothing)
    BY <1>inv, <1>3 DEF Memory!Refused, Memory!PutPanics, Memory!InHand
  <2>2. Memory!Contract!Return(t, Memory!Contract!Reply("refused", Nothing, Nothing))
    <3>1. CASE Memory!Return(t, Memory!Plain("refused"))
      BY <2>1, <3>1, MemoryReturnFollows DEF Memory!Plain
    <3>2. CASE Memory!Return(t, Memory!Plain("panic"))
      BY <2>1, <3>2, MemoryReturnFollows DEF Memory!Plain
    <3> QED BY <2>1, <3>1, <3>2
  <2>3. Memory!Contract!Refuse(t)
    BY <2>1, <2>2 DEF Memory!Contract!Refuse
  <2> QED BY <2>1, <2>3, MemoryPending DEF Memory!Contract!CallStep
<1>4. CASE Memory!PutCopyChunk(t) \/ Memory!PutCopyDone(t)
  <2>1. UNCHANGED <<objects, call, answer, applied>>
    BY <1>4 DEF Memory!PutCopyChunk, Memory!PutCopyDone
  <2>2. Memory!Stored' = Memory!Stored /\ Memory!Answers' = Memory!Answers
    BY <2>1 DEF Memory!Stored, Memory!Whole, Memory!Answers
  <2>3. \A u \in Threads : seen'[u] = seen[u]
    BY <2>1, <2>2 DEF Memory!Observe, Memory!MemoryInv, Memory!InHand
  <2>4. seen' = seen
    BY <1>inv, <2>3 DEF Memory!TypeOK, Memory!Observe
  <2> QED BY <2>1, <2>2, <2>4 DEF Memory!Contract!vars
<1>5. CASE Memory!PutStore(t) \/ Memory!DeleteRemove(t)
  BY <1>5, MemoryApplyFollows
<1>6. CASE Memory!Written(t)
  <2>1. pc[t] # "idle" /\ objects' = objects /\ applied[t]
        /\ Memory!Return(t, Memory!Reply("ok", call[t].version, Nothing))
    BY <1>inv, <1>6 DEF Memory!Written, Memory!InHand
  <2>2. Memory!Contract!Return(t, Memory!Contract!Reply("ok", call[t].version, Nothing))
    BY <2>1, MemoryReturnFollows
  <2>3. Memory!Contract!Succeed(t)
    BY <2>1, <2>2 DEF Memory!Contract!Succeed
  <2> QED BY <2>1, <2>3, MemoryPending DEF Memory!Contract!CallStep
<1>7. CASE Memory!Read(t)
  <2> DEFINE o == objects[call[t].key]
  <2>1. /\ pc[t] \in {"get", "stat"} /\ call[t].op = pc[t] /\ objects' = objects
        /\ call[t].key \in Keys /\ call[t] # NoCall
    BY <1>inv, <1>7, MemoryPending DEF Memory!Read, Memory!InHand
  <2>2. /\ Memory!Stored[call[t].key] \in seen[t]
        /\ Memory!Stored[call[t].key] \in Versions \cup {Nothing}
        /\ Memory!Stored[call[t].key] = IF o = Nothing THEN Nothing ELSE o.data
    BY <1>inv, <1>7, <2>1, MemoryStored DEF Memory!InHand, Memory!Read
  <2>3. CASE o = Nothing
    <3>1. Memory!Return(t, Memory!Plain("notfound"))
      BY <1>7, <2>3 DEF Memory!Read
    <3>2. Memory!Contract!Return(t, Memory!Contract!Reply("notfound", Nothing, Nothing))
      BY <2>1, <3>1, MemoryReturnFollows DEF Memory!Plain
    <3>3. Memory!Contract!NotFound(t)
      BY <2>1, <2>2, <2>3, <3>2 DEF Memory!Contract!NotFound
    <3> QED BY <2>1, <3>3 DEF Memory!Contract!CallStep
  <2>4. CASE o # Nothing
    <3>1. /\ Memory!Return(t, Memory!Reply("ok", o.info, IF pc[t] = "get" THEN o.data ELSE Nothing))
      BY <1>7, <2>4 DEF Memory!Read
    <3>2. o.info = o.data /\ o.data \in seen[t] \ {Nothing}
      BY <1>inv, <2>1, <2>2, <2>4
         DEF Memory!Whole, Memory!TypeOK, Memory!Object, MemoryUse, Memory!MarkAssumption
    <3>3. Memory!Contract!Return(t,
             Memory!Contract!Reply("ok", o.info, IF pc[t] = "get" THEN o.data ELSE Nothing))
      BY <2>1, <3>1, MemoryReturnFollows
    <3>4. Memory!Contract!Found(t)
      BY <2>1, <3>2, <3>3 DEF Memory!Contract!Found
    <3> QED BY <2>1, <3>4 DEF Memory!Contract!CallStep
  <2> QED BY <2>3, <2>4
<1> QED BY <1>1, <1>2, <1>3, <1>4, <1>5, <1>6, <1>7 DEF Memory!Step

\* The memory store, the double that tests use for the others, implements the same
\* contract, with any number of goroutines (testing.go, MemoryStore; blob.go:31-37).
THEOREM MemoryImplementsObjectStore ==
    ASSUME MemoryUse
    PROVE  Memory!Spec => Memory!ImplementsObjectStore
<1>1. Memory!Init => Memory!MemoryInv /\ Memory!Contract!Init
  <2> SUFFICES ASSUME Memory!Init PROVE Memory!MemoryInv /\ Memory!Contract!Init
    OBVIOUS
  <2>1. Memory!TypeOK
    BY MemoryAnswers DEF Memory!Init, Memory!TypeOK
  <2>2. Memory!MemoryInv
    BY <2>1 DEF Memory!Init, Memory!MemoryInv, Memory!InHand
  <2>3. Memory!Stored = [k \in Keys |-> Nothing]
    BY DEF Memory!Init, Memory!Stored
  <2>4. Memory!Answers = [t \in Threads |-> Memory!Contract!Reply("none", Nothing, Nothing)]
    BY DEF Memory!Init, Memory!Answers, Memory!Plain, Memory!Reply, Memory!Contract!Reply
  <2> QED BY <2>2, <2>3, <2>4 DEF Memory!Init, Memory!Contract!Init
<1>2. Memory!MemoryInv /\ [Memory!Next]_(Memory!vars) => Memory!MemoryInv'
  BY MemoryKept
<1>3. Memory!MemoryInv /\ [Memory!Next]_(Memory!vars)
        => [Memory!Contract!Next]_(Memory!Contract!vars)
  <2> SUFFICES ASSUME Memory!MemoryInv, [Memory!Next]_(Memory!vars)
               PROVE  [Memory!Contract!Next]_(Memory!Contract!vars)
    OBVIOUS
  <2>1. CASE UNCHANGED Memory!vars
    BY <2>1 DEF Memory!vars, Memory!Contract!vars, Memory!Stored, Memory!Whole, Memory!Answers
  <2>2. ASSUME NEW t \in Threads, Memory!Step(t), Memory!Observe
        PROVE  [Memory!Contract!Next]_(Memory!Contract!vars)
    <3>1. Memory!Contract!Observe
      BY <2>2 DEF Memory!Observe, Memory!Contract!Observe
    <3> QED BY <2>2, <3>1, MemoryStepFollows DEF Memory!Contract!Next
  <2> QED BY <2>1, <2>2 DEF Memory!Next
<1> QED BY <1>1, <1>2, <1>3, PTL DEF Memory!Spec, Memory!ImplementsObjectStore, Memory!Contract!Spec
=============================================================================
