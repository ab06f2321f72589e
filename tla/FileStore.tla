----------------------------- MODULE FileStore -----------------------------
(***************************************************************************)
(* blobx.FileStore (blobx/file.go) over a file system, used by concurrent  *)
(* goroutines of a process that may crash.  Each action is one system call *)
(* of Put, Get, Stat or Delete with the code up to the next one.           *)
(*                                                                         *)
(* A version stands for one body with its content type and its SHA-256     *)
(* ETag; its size is counted in the 32 KiB chunks of copyContext.  Key "a" *)
(* is also the directory that holds key "a/b": Above[k] are the keys that  *)
(* name the directories on the way to k.                                   *)
(***************************************************************************)
EXTENDS Naturals

CONSTANTS
    Threads,    \* goroutines that use the store
    Keys,       \* keys that NormalizeKey accepts
    BadKey,     \* a key that NormalizeKey rejects
    Above,      \* Above[k]: the proper prefixes of k
    Versions,   \* what callers store
    Chunks,     \* Chunks[v]: the length of the body of v
    CallsOf,    \* CallsOf[t]: the calls that goroutine t makes
    Faults,     \* whether system calls and body readers may fail
    MaxCrashes, \* bound on the number of crashes
    Nothing,    \* no file, no result
    Dir,        \* a directory
    Empty,      \* a metadata file of length 0
    Corrupt,    \* a metadata file that is not one JSON value
    NoCall      \* the goroutine is outside the store

VARIABLES
    node,       \* what each path under .blobx/objects is
    meta,       \* the metadata file of each key, under .blobx/metadata
    temp,       \* the temporary file of each Put
    litter,     \* directories that hold an abandoned temporary file
    fd,         \* each Put's descriptor of its metadata file
    pc,         \* the next system call of each goroutine
    call,       \* the arguments of its call
    info,       \* the version whose size its os.Stat returned
    tag,        \* the version whose metadata it read
    ret,        \* the result that waits for Put's deferred clean-up
    answer,     \* what its last call returned; none while pending
    crashes     \* how often the process has crashed

vars == <<node, meta, temp, litter, fd, pc, call, info, tag, ret, answer, crashes>>
disk == <<node, meta, temp, litter, fd>>

File == [version : Versions, chunks : Nat]
Call == [op : {"put", "get", "stat", "delete"}, key : Keys \cup {BadKey},
         version : Versions \cup {Nothing}]
Answer == [kind : {"none", "ok", "notfound", "error", "canceled", "refused"},
           size : Versions \cup {Nothing}, tag : Versions \cup {Nothing},
           body : File \cup {Nothing, Dir}]
PC == {"idle", "mkdir", "createTemp", "copy", "rename", "statWritten",
       "openMeta", "writeMeta", "cleanup", "stat", "readMeta", "open",
       "removeObject", "removeMeta"}

Marks == {Nothing, Dir, Empty, Corrupt}

ASSUME AboveAssumption ==
    /\ Above \in [Keys -> SUBSET Keys]
    /\ \A k \in Keys : k \notin Above[k]
    /\ \A k \in Keys : \A a \in Above[k] : Above[a] \subseteq Above[k]
    /\ BadKey \notin Keys
ASSUME VersionAssumption == Chunks \in [Versions -> Nat]
ASSUME CallsAssumption ==
    /\ CallsOf \in [Threads -> SUBSET Call]
    /\ \A t \in Threads : \A a \in CallsOf[t] : a.op = "delete" => a.version = Nothing
    /\ NoCall \notin Call
ASSUME BoundAssumption == Faults \in BOOLEAN /\ MaxCrashes \in Nat
ASSUME MarkAssumption ==
    /\ Marks \cap (File \cup Versions) = {}
    /\ Nothing # Dir /\ Nothing # Empty /\ Nothing # Corrupt

Plain(kind) == [kind |-> kind, size |-> Nothing, tag |-> Nothing, body |-> Nothing]

TypeOK ==
    /\ node \in [Keys -> File \cup {Nothing, Dir}]
    /\ meta \in [Keys -> Versions \cup {Nothing, Empty, Corrupt}]
    /\ temp \in [Threads -> File \cup {Nothing}]
    /\ litter \subseteq Keys
    /\ fd \in [Threads -> {"none", "linked", "orphan"}]
    /\ pc \in [Threads -> PC]
    /\ call \in [Threads -> Call \cup {NoCall}]
    /\ info \in [Threads -> Versions \cup {Nothing}]
    /\ tag \in [Threads -> Versions \cup {Nothing}]
    /\ ret \in [Threads -> {"none", "ok", "error", "canceled"}]
    /\ answer \in [Threads -> Answer]
    /\ crashes \in 0 .. MaxCrashes

Init ==
    /\ node = [k \in Keys |-> Nothing]
    /\ meta = [k \in Keys |-> Nothing]
    /\ temp = [t \in Threads |-> Nothing]
    /\ litter = {}
    /\ fd = [t \in Threads |-> "none"]
    /\ pc = [t \in Threads |-> "idle"]
    /\ call = [t \in Threads |-> NoCall]
    /\ info = [t \in Threads |-> Nothing]
    /\ tag = [t \in Threads |-> Nothing]
    /\ ret = [t \in Threads |-> "none"]
    /\ answer = [t \in Threads |-> Plain("none")]
    /\ crashes = 0

----------------------------------------------------------------------------
\* The file system: how the path of a key resolves.
IsFile(k) == node[k] \notin {Nothing, Dir}
NotDirectory(k) == \E a \in Above[k] : IsFile(a)         \* ENOTDIR
Missing(k) == /\ ~NotDirectory(k)                        \* ENOENT
              /\ node[k] = Nothing \/ \E a \in Above[k] : node[a] # Dir
InDirectory(k) == \A a \in Above[k] : node[a] = Dir      \* the parent exists
Occupied(d) ==                                           \* ENOTEMPTY
    \/ \E k \in Keys : d \in Above[k] /\ node[k] # Nothing
    \/ \E t \in Threads : temp[t] # Nothing /\ d \in Above[call[t].key]
    \/ d \in litter

----------------------------------------------------------------------------
Goto(t, label) == pc' = [pc EXCEPT ![t] = label]

Invoke(t) ==
    /\ pc[t] = "idle"
    /\ \E a \in CallsOf[t] :
          /\ call' = [call EXCEPT ![t] = a]
          /\ Goto(t, CASE a.op = "put" -> "mkdir"
                       [] a.op = "delete" -> "removeObject"
                       [] OTHER -> "stat")
    /\ answer' = [answer EXCEPT ![t] = Plain("none")]
    /\ UNCHANGED <<disk, info, tag, ret, crashes>>

Return(t, r) ==
    /\ Goto(t, "idle")
    /\ call' = [call EXCEPT ![t] = NoCall]
    /\ info' = [info EXCEPT ![t] = Nothing]
    /\ tag' = [tag EXCEPT ![t] = Nothing]
    /\ ret' = [ret EXCEPT ![t] = "none"]
    /\ answer' = [answer EXCEPT ![t] = r]
    /\ UNCHANGED crashes

\* The step changes no local but the program counter.
Locals(t, label) ==
    /\ Goto(t, label)
    /\ UNCHANGED <<call, info, tag, ret, answer, crashes>>

\* Mutant: Put has no deferred clean-up.
FinishAtOnce(t, result) == Return(t, Plain(result))

\* Put returns: the deferred os.Remove of the temporary file comes first.
Finish(t, result) ==
    /\ Goto(t, "cleanup")
    /\ ret' = [ret EXCEPT ![t] = result]
    /\ UNCHANGED <<call, info, tag, answer, crashes>>

----------------------------------------------------------------------------
\* NormalizeKey rejects the key, or Put's body is nil.
Refused(t) ==
    /\ pc[t] \in {"mkdir", "stat", "removeObject"}
    /\ \/ call[t].key = BadKey
       \/ call[t].op = "put" /\ call[t].version = Nothing
    /\ Return(t, Plain("refused"))
    /\ UNCHANGED disk

\* ctx.Err() # nil at the head of Get, Stat or Delete; Put has no such check.
Canceled(t) ==
    /\ pc[t] \in {"stat", "removeObject"}
    /\ Return(t, Plain("canceled"))
    /\ UNCHANGED disk

\* A system call fails for a reason of its own (EIO, EACCES, ENOSPC).
IOError(t) ==
    /\ Faults
    /\ pc[t] \in {"mkdir", "createTemp", "stat", "open", "removeObject", "removeMeta"}
    /\ call[t].key # BadKey
    /\ call[t].op = "put" => call[t].version # Nothing
    /\ Return(t, Plain("error"))
    /\ UNCHANGED disk

\* os.MkdirAll(filepath.Dir(target)).
PutMkdir(t) ==
    LET k == call[t].key IN
    /\ pc[t] = "mkdir"
    /\ k # BadKey
    /\ call[t].version # Nothing
    /\ \/ /\ NotDirectory(k)
          /\ Return(t, Plain("error"))
          /\ UNCHANGED disk
       \/ /\ ~NotDirectory(k)
          /\ node' = [a \in Keys |-> IF a \in Above[k] THEN Dir ELSE node[a]]
          /\ Locals(t, "createTemp")
          /\ UNCHANGED <<meta, temp, litter, fd>>

\* os.CreateTemp in the directory of the target, which a Delete of the key
\* that names the directory may have removed again.
PutCreateTemp(t) ==
    /\ pc[t] = "createTemp"
    /\ \/ /\ ~InDirectory(call[t].key)
          /\ Return(t, Plain("error"))
          /\ UNCHANGED disk
       \/ /\ InDirectory(call[t].key)
          /\ temp' = [temp EXCEPT ![t] = [version |-> call[t].version, chunks |-> 0]]
          /\ Locals(t, "copy")
          /\ UNCHANGED <<node, meta, litter, fd>>

\* One round of copyContext that reads and writes a chunk.
PutCopyChunk(t) ==
    /\ pc[t] = "copy"
    /\ temp[t].chunks < Chunks[call[t].version]
    /\ temp' = [temp EXCEPT ![t].chunks = @ + 1]
    /\ Locals(t, "copy")
    /\ UNCHANGED <<node, meta, litter, fd>>

\* Mutant: the copy is taken for complete after a short read.
PutCopyDoneEarly(t) ==
    /\ pc[t] = "copy"
    /\ temp[t].chunks <= Chunks[call[t].version]
    /\ Locals(t, "rename")
    /\ UNCHANGED disk

\* The round of copyContext that meets io.EOF, and temp.Close().
PutCopyDone(t) ==
    /\ pc[t] = "copy"
    /\ temp[t].chunks = Chunks[call[t].version]
    /\ Locals(t, "rename")
    /\ UNCHANGED disk

\* copyContext stops: the context is done, the reader or the write fails.
PutCopyStops(t) ==
    /\ pc[t] = "copy"
    /\ \E result \in {"canceled"} \cup (IF Faults THEN {"error"} ELSE {}) :
          Finish(t, result)
    /\ UNCHANGED disk

\* os.Rename(tempName, target): replaces a file, fails on a directory.
PutRename(t) ==
    LET k == call[t].key IN
    /\ pc[t] = "rename"
    /\ \/ /\ node[k] # Dir
          /\ node' = [node EXCEPT ![k] = temp[t]]
          /\ temp' = [temp EXCEPT ![t] = Nothing]
          /\ Locals(t, "statWritten")
          /\ UNCHANGED <<meta, litter, fd>>
       \/ /\ node[k] = Dir \/ Faults
          /\ Finish(t, "error")
          /\ UNCHANGED disk

\* os.Stat(target), for LastModified only.
PutStatWritten(t) ==
    LET k == call[t].key IN
    /\ pc[t] = "statWritten"
    /\ \/ /\ ~Missing(k) /\ ~NotDirectory(k)
          /\ Locals(t, "openMeta")
       \/ /\ Missing(k) \/ NotDirectory(k) \/ Faults
          /\ Finish(t, "error")
    /\ UNCHANGED disk

\* Mutant: the metadata file is opened without O_TRUNC.
PutOpenMetaKeeps(t) ==
    /\ pc[t] = "openMeta"
    /\ meta' = [meta EXCEPT ![call[t].key] = IF @ = Nothing THEN Empty ELSE @]
    /\ fd' = [fd EXCEPT ![t] = "linked"]
    /\ Locals(t, "writeMeta")
    /\ UNCHANGED <<node, temp, litter>>

\* writeMetadata up to the open of os.WriteFile, which truncates.
PutOpenMeta(t) ==
    /\ pc[t] = "openMeta"
    /\ \/ /\ meta' = [meta EXCEPT ![call[t].key] = Empty]
          /\ fd' = [fd EXCEPT ![t] = "linked"]
          /\ Locals(t, "writeMeta")
          /\ UNCHANGED <<node, temp, litter>>
       \/ /\ Faults
          /\ Finish(t, "error")
          /\ UNCHANGED disk

\* What a metadata file holds after v is written over content m from offset
\* 0: the tail of a longer m stays behind v's JSON.  (Lengths differ with the
\* size, the content type and the time stamp.)
Overwritten(m, v) == IF m = Empty THEN {v} ELSE {v, Corrupt}

\* The write of os.WriteFile; it reaches nobody if the file was unlinked.
PutWriteMeta(t) ==
    LET k == call[t].key
        v == call[t].version
    IN
    /\ pc[t] = "writeMeta"
    /\ fd' = [fd EXCEPT ![t] = "none"]
    /\ \/ /\ \/ fd[t] = "orphan" /\ UNCHANGED meta
             \/ /\ fd[t] = "linked"
                /\ \E m \in Overwritten(meta[k], v) : meta' = [meta EXCEPT ![k] = m]
          /\ Finish(t, "ok")
       \/ /\ Faults
          /\ \/ UNCHANGED meta
             \/ fd[t] = "linked" /\ meta' = [meta EXCEPT ![k] = Corrupt]
          /\ Finish(t, "error")
    /\ UNCHANGED <<node, temp, litter>>

\* The deferred os.Remove(tempName); its error is dropped.
PutCleanup(t) ==
    /\ pc[t] = "cleanup"
    /\ temp' = [temp EXCEPT ![t] = Nothing]
    /\ \/ UNCHANGED litter
       \/ /\ Faults /\ temp[t] # Nothing
          /\ litter' = litter \cup Above[call[t].key]
    /\ Return(t, IF ret[t] = "ok"
                    THEN [kind |-> "ok", size |-> call[t].version,
                          tag |-> call[t].version, body |-> Nothing]
                    ELSE Plain(ret[t]))
    /\ UNCHANGED <<node, meta, fd>>

----------------------------------------------------------------------------
\* Stat, and Get's call of it: os.Stat(objectPath).
StatObject(t) ==
    LET k == call[t].key IN
    /\ pc[t] = "stat"
    /\ k # BadKey
    /\ \/ /\ NotDirectory(k)
          /\ Return(t, Plain("error"))
       \/ /\ ~NotDirectory(k)
          /\ ~IsFile(k)
          /\ Return(t, Plain("notfound"))
       \/ /\ ~NotDirectory(k)
          /\ IsFile(k)
          /\ Goto(t, "readMeta")
          /\ info' = [info EXCEPT ![t] = node[k].version]
          /\ UNCHANGED <<call, tag, ret, answer, crashes>>
    /\ UNCHANGED disk

\* Mutant: metadata that does not decode is reported all the same.
ReadMetaUnchecked(t) ==
    /\ pc[t] = "readMeta"
    /\ Goto(t, "open")
    /\ tag' = [tag EXCEPT ![t] = meta[call[t].key]]
    /\ UNCHANGED <<call, info, ret, answer, crashes>>
    /\ UNCHANGED disk

\* readMetadata; whatever goes wrong with it is ignored.
ReadMeta(t) ==
    LET found == IF meta[call[t].key] \in Versions THEN {meta[call[t].key]} ELSE {Nothing}
    IN
    /\ pc[t] = "readMeta"
    /\ \E m \in found \cup (IF Faults THEN {Nothing} ELSE {}) :
          \/ /\ call[t].op = "stat"
             /\ Return(t, [kind |-> "ok", size |-> info[t], tag |-> m, body |-> Nothing])
          \/ /\ call[t].op = "get"
             /\ Goto(t, "open")
             /\ tag' = [tag EXCEPT ![t] = m]
             /\ UNCHANGED <<call, info, ret, answer, crashes>>
    /\ UNCHANGED disk

\* Get's os.Open(objectPath), which also opens a directory.
GetOpen(t) ==
    LET k == call[t].key IN
    /\ pc[t] = "open"
    /\ Return(t, IF NotDirectory(k) THEN Plain("error")
                 ELSE IF Missing(k) THEN Plain("notfound")
                 ELSE [kind |-> "ok", size |-> info[t], tag |-> tag[t], body |-> node[k]])
    /\ UNCHANGED disk

\* Mutant: os.RemoveAll in place of os.Remove takes what is below the key along.
DeleteObjectAll(t) ==
    LET k == call[t].key
        Gone(j) == j = k \/ k \in Above[j] IN
    /\ pc[t] = "removeObject"
    /\ k # BadKey
    /\ \/ /\ NotDirectory(k)
          /\ Return(t, Plain("error"))
          /\ UNCHANGED disk
       \/ /\ ~NotDirectory(k)
          /\ node' = [j \in Keys |-> IF Gone(j) THEN Nothing ELSE node[j]]
          /\ temp' = [u \in Threads |->
                IF temp[u] # Nothing /\ k \in Above[call[u].key] THEN Nothing ELSE temp[u]]
          /\ litter' = {j \in litter : ~Gone(j)}
          /\ Locals(t, "removeMeta")
          /\ UNCHANGED <<meta, fd>>

\* Mutant: errors of os.Remove other than "not found" are dropped too.
DeleteObjectErrorDropped(t) ==
    LET k == call[t].key IN
    /\ pc[t] = "removeObject"
    /\ k # BadKey
    /\ \/ UNCHANGED node
       \/ /\ ~NotDirectory(k)
          /\ node[k] = Dir => ~Occupied(k)
          /\ node' = [node EXCEPT ![k] = Nothing]
    /\ Locals(t, "removeMeta")
    /\ UNCHANGED <<meta, temp, litter, fd>>

\* Delete's os.Remove(objectPath): unlinks a file, removes an empty directory.
DeleteObject(t) ==
    LET k == call[t].key IN
    /\ pc[t] = "removeObject"
    /\ k # BadKey
    /\ \/ /\ NotDirectory(k) \/ (~Missing(k) /\ node[k] = Dir /\ Occupied(k))
          /\ Return(t, Plain("error"))
          /\ UNCHANGED disk
       \/ /\ ~NotDirectory(k)
          /\ node[k] = Dir => ~Occupied(k)
          /\ node' = [node EXCEPT ![k] = Nothing]
          /\ Locals(t, "removeMeta")
          /\ UNCHANGED <<meta, temp, litter, fd>>

\* Delete's os.Remove(metadataPath); open descriptors keep the old file.
DeleteMeta(t) ==
    LET k == call[t].key IN
    /\ pc[t] = "removeMeta"
    /\ meta' = [meta EXCEPT ![k] = Nothing]
    /\ fd' = [u \in Threads |->
                 IF fd[u] = "linked" /\ call[u].key = k THEN "orphan" ELSE fd[u]]
    /\ Return(t, Plain("ok"))
    /\ UNCHANGED <<node, temp, litter>>

----------------------------------------------------------------------------
\* The process dies and NewFileStore opens the same root again.
Crash ==
    /\ crashes < MaxCrashes
    /\ crashes' = crashes + 1
    /\ litter' = litter \cup
          UNION {Above[call[t].key] : t \in {u \in Threads : temp[u] # Nothing}}
    /\ temp' = [t \in Threads |-> Nothing]
    /\ fd' = [t \in Threads |-> "none"]
    /\ pc' = [t \in Threads |-> "idle"]
    /\ call' = [t \in Threads |-> NoCall]
    /\ info' = [t \in Threads |-> Nothing]
    /\ tag' = [t \in Threads |-> Nothing]
    /\ ret' = [t \in Threads |-> "none"]
    /\ answer' = [t \in Threads |-> Plain("none")]
    /\ UNCHANGED <<node, meta>>

PutStep(t) ==
    \/ PutMkdir(t) \/ PutCreateTemp(t) \/ PutCopyChunk(t) \/ PutCopyDone(t)
    \/ PutCopyStops(t) \/ PutRename(t) \/ PutStatWritten(t) \/ PutOpenMeta(t)
    \/ PutWriteMeta(t) \/ PutCleanup(t)

Step(t) ==
    \/ Invoke(t) \/ Refused(t) \/ Canceled(t) \/ IOError(t)
    \/ PutStep(t)
    \/ StatObject(t) \/ ReadMeta(t) \/ GetOpen(t)
    \/ DeleteObject(t) \/ DeleteMeta(t)

Next == Crash \/ \E t \in Threads : Step(t)

Spec == Init /\ [][Next]_vars

----------------------------------------------------------------------------
\* The object a key holds: what a complete file of that name stores.
ObjectAt(k) == IF IsFile(k) THEN node[k].version ELSE Nothing

Complete(f) == f.chunks = Chunks[f.version]

\* No reader is ever given part of a body: every file at an object's path,
\* and every body a Get hands out, is the whole body of one Put, whatever is
\* interrupted, fails or crashes (file.go:59-77 writes aside and renames).
NoTornObject ==
    /\ \A k \in Keys : IsFile(k) => Complete(node[k])
    /\ \A t \in Threads :
          answer[t].body \notin {Nothing, Dir} => Complete(answer[t].body)

\* A temporary file outlives its Put only through a crash or a failed
\* os.Remove (file.go:64): otherwise exactly the Puts between CreateTemp and
\* Rename, or about to clean up, own one.
TempsOwned ==
    /\ ~Faults /\ crashes = 0 => litter = {}
    /\ \A t \in Threads : temp[t] # Nothing => pc[t] \in {"copy", "rename", "cleanup"}

\* The path of everything stored, and of every temporary file being written, leads
\* through directories: what a file system guarantees, and the proofs rely on.
TreeShape ==
    /\ \A k \in Keys : node[k] # Nothing => InDirectory(k)
    /\ \A t \in Threads : temp[t] # Nothing => InDirectory(call[t].key)

\* What each goroutine carries from one system call to the next: the
\* strengthening that makes the properties above inductive.
Carried(t) ==
    /\ pc[t] = "idle" <=> call[t] = NoCall
    /\ pc[t] = "mkdir" => call[t].op = "put"
    /\ pc[t] \in {"createTemp", "copy", "rename", "statWritten", "openMeta",
                  "writeMeta", "cleanup"} =>
          call[t].key \in Keys /\ call[t].version \in Versions
    /\ pc[t] \in {"readMeta", "open", "removeMeta"} => call[t].key \in Keys
    /\ pc[t] \in {"readMeta", "open"} => info[t] \in Versions
    /\ pc[t] \in {"copy", "rename"} =>
          temp[t] # Nothing /\ temp[t].version = call[t].version
    /\ pc[t] = "rename" => Complete(temp[t])

FileInv ==
    TypeOK /\ NoTornObject /\ TreeShape /\ TempsOwned /\ \A t \in Threads : Carried(t)

\* A call that is under way can change k: a Put to its version, a Delete to nothing.
Writes(t, k, before, after) ==
    /\ call[t] # NoCall /\ call[t].key = k
    /\ \/ call[t].op = "put" /\ after \in {before, call[t].version}
       \/ call[t].op = "delete" /\ after \in {before, Nothing}

ChangesOwnKey ==
    /\ \A k \in Keys :
          ObjectAt(k)' # ObjectAt(k) \/ meta'[k] # meta[k] =>
             \E t \in Threads : pc'[t] # pc[t] /\ Writes(t, k, ObjectAt(k), ObjectAt(k)')
    /\ \A t \in Threads : temp[t] # Nothing /\ temp'[t] = Nothing => pc'[t] # pc[t]

\* Keys share one tree and yet do not interfere: the object and the metadata of a key
\* change only by a step of a Put or a Delete of this very key, although a Delete of
\* the key that names its directory, and Puts below it, come in between; and a Put
\* keeps the temporary file that it writes until its own rename or clean-up, or the
\* crash of the process (file.go:56-77, 89, 151-154).
OnlyOwnKeyChanges == [][ChangesOwnKey]_vars

\* "Deleting a missing object succeeds" (file.go:142): Delete of a key that
\* holds no object reports no error, system calls being sound.
DeletingMissingSucceeds ==
    [][\A t \in Threads :
          pc[t] = "removeObject" /\ pc'[t] = "idle" /\ answer'[t].kind = "error"
             => ObjectAt(call[t].key) # Nothing]_vars
============================================================================
