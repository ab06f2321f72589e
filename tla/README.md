# A TLA+ verification of gox

gox is a Go toolkit of small packages: caching, blob storage, email, HTTP
helpers and middleware, authentication, PostgreSQL helpers, validation and
configuration. It has no process of its own. Its state lives in the values that
applications share between goroutines, and in what those values talk to: a file
system, an S3 bucket, an SMTP server, a Redis server, a database. This project
models the parts that keep state or talk to something that fails, checks them
with TLC on small instances, and proves all but one of its invariants, and the four
refinements, with TLAPS for every value of the constants.

## Inventory

| Component | State | Operations | Interacts with | What is hard | What makes it correct |
|---|---|---|---|---|---|
| `cachex.Memory` | map of entries with deadlines, guarded by a RWMutex | Get, Set, Delete | the clock, concurrent callers | Get drops the lock between reading, checking and evicting; Set reads the clock before the lock | answers that a map with exact deadlines could have given; eviction takes no live entry |
| `cachex.RedisCache`, JSON helpers | a Redis server | Get, Set, Delete, GetJSON, SetJSON | Redis | lost, repeated and late commands; an error must not look like a miss; prefixes without a separator | answers of the call, success means done, keys apart |
| `blobx.FileStore` | object files, metadata files, temporary files | Put, Get, Stat, Delete | the file system, body readers | no lock at all: every call is several system calls; crashes; keys share a tree with directories | whole objects, matching metadata, no debris |
| `blobx.S3Store` | a bucket | Put, Get, Stat, Delete, PresignGet | S3 and the SDK's retries | Put is a write and a read; lost and late requests; nested prefixes | the same contract; isolation by prefix |
| `blobx.MemoryStore` | map under a RWMutex | Put, Get, Stat, Delete | body readers | bodies are read outside the lock | the same contract |
| `emailx.SMTPSender` | none between calls; one session in a call | Send | SMTP server, attachments' callbacks, a goroutine that watches the context | partial failure, cancellation at any point, deferred clean-up order | no clear text, all-or-nothing delivery, release, return after cancellation |
| `emailx.Recorder`, `TemplateRenderer` | recorded messages; immutable templates | Send, Messages, SetError, Reset; Render | | little: one critical section per method | copies are isolated |
| `httpx`, `httpx/middleware`, `authx` middleware | per-request response state | handler adapter, error writer, recovery, logger, CORS, request ID, RequireAuth, RequireRole | `net/http`, each other, in the order the application picks | errors and panics after the header is written; middleware order | one final status, logged as sent; no unauthenticated handler call |
| `httpx/page`, `authx` hashing, `retryx`, `fieldx`, `blobx.NormalizeKey` | none | pure functions | | numeric edges, parsing limits | agreement with a reference definition |
| `pgxutil`, `testx` | pool and transaction | TxValue, OpenPool; test clean-ups | PostgreSQL | ambiguous commit, rollback under a dead context, clean-up order | a transaction ends and its connection returns |
| `validx.Validator` | registered types under a mutex | Struct, RegisterValidation | callbacks | callbacks run under the mutex; types are registered as they are met | verdicts by value; no deadlock without a circle of callbacks |
| `configx`, `envx`, `logx` | none | reading the environment, building a logger | | | |

The hazards behind the properties are listed, line by line, in `PROJECT.json`.

## Modules

| Module | Models |
|---|---|
| `CacheContract` | what `cachex.Cache` promises: a map whose entries vanish at their deadline, with answers drawn from the instants of a call |
| `MemoryCache` | `cachex/memory.go`, one action per lock section or clock reading |
| `MemoryCacheContract` | history variables (`since`, `seen`), the refinement of `CacheContract`, the properties |
| `MemoryCacheProofs` | the proofs about it |
| `ObjectStore` | what `blobx.Store` promises of objects: a map from keys to whole objects, with failed and late writes |
| `FileStore` | `blobx/file.go`, one action per system call, and its properties |
| `FileStoreContract` | history variables (`applied`, `seen`, `alone`, `fresh`), the refinement of `ObjectStore` and what an uncontended Put leaves |
| `FileStoreProofs` | the proofs about both, and about `MemoryStore` |
| `S3Store`, `S3StoreContract` | `blobx/s3.go` over an external bucket, and its refinement of `ObjectStore` |
| `S3StoreProofs` | the proofs about both |
| `MemoryStore` | `blobx/testing.go` and its refinement of `ObjectStore` |
| `SMTPSender` | `emailx/smtp.go` with `validateMessage` of `emailx/email.go` |
| `SMTPSenderProofs` | the proofs about it |
| `RedisCache` | `cachex/redis.go` and `cachex/encoding.go` over an external Redis server |
| `RedisCacheProofs` | the proofs about it |
| `Transactions` | `TxValue` and `Tx` of `pgxutil/pgxutil.go` over an external pool and server |
| `PostgresTest` | extends it: the PostgreSQL helpers of `testx/testx.go` and the order of their clean-ups |
| `PostgresTestProofs` | the proofs about both |
| `Validator` | `validx/validx.go`: the mutex, the registration of field types, the skipping rule, custom rules |
| `RetryDelay`, `Argon2id`, `ObjectKeys`, `Page` | `retryx.Delay`, `authx.Argon2idHasher`, `blobx.NormalizeKey`, `httpx/page.Parse` as operators |
| `FieldValue` | `fieldx.Field`, and the nullable converters of `pgxutil` |
| `MailRecorder` | `emailx.Recorder` and `emailx.TemplateRenderer` over a heap |
| `Helpers` | a program that uses these small packages |
| `HelpersProofs` | the proofs about it, about the operators and the state it is made of, and about `Validator` |
| `HTTPPipeline` | one request through `httpx/middleware`, the guards of `authx` and the handler adapter of `httpx` |
| `HTTPPipelineProofs` | the proofs about it |
| `MC...` | the constants of the runs |

A definition whose comment begins with "Mutant:" is a deliberate fault. No
specification uses it: putting it in the place of the definition it is named
after must make TLC report the property that `PROJECT.json` pairs it with.

### How state and actions correspond to the code

`MemoryCache`. `entries` is `c.entries`, `now` is what `c.now()` returns, `item`
the local variable of Get or Set. Get is `GetRead` (under RLock), `GetCheck` (no
lock, reads the clock) and `GetEvict` (under Lock, compares deadlines, as
`Equal` does); Set is `SetBuild` (clock) and `SetStore` (Lock), or `SetBuild`
and `DeleteRemove` for a negative TTL; Delete is `DeleteRemove`. `Canceled` and
`EmptyKeyError` are the early returns: Get looks the empty key up, Set and
Delete refuse it. Time 0 is Go's zero time, so the clock starts at 1.

`FileStore`. `node[k]` is what the path of key `k` under `.blobx/objects` is: a
file (whose version, and how many chunks of it), a directory or nothing;
`Above[k]` are the keys that name directories on the way to `k`. `meta[k]` is the
metadata file, whose name is a hash of the key, so metadata files never nest.
`temp[t]` is the file of CreateTemp, `litter` the directories in which an
abandoned one lies. Put runs `PutMkdir`, `PutCreateTemp`, `PutCopyChunk`*,
`PutCopyDone`, `PutRename`, `PutStatWritten`, `PutOpenMeta`, `PutWriteMeta` and
`PutCleanup` (the deferred Remove); every error path goes through `PutCleanup`
from CreateTemp on. `os.WriteFile` is an open that truncates and a write, since
two of them may interleave (`Overwritten`), and a descriptor opened before a
Delete writes to an unlinked file (`fd = "orphan"`). Get is Stat followed by
`GetOpen`. `Crash` ends every goroutine and reopens the same root.

`S3Store`. `bucket` maps provider paths to objects; each object remembers the
store and key of its Put, which only `ReadsOwnPuts` looks at. Put is
`WriteObject` (the service's instant), `WriteAnswered` and `ReadObject`
(the HeadObject of the trailing Stat). `Resend`, `late` and `Arrive` are the
SDK's retries and requests that outlive their call. For a Put a version
`Nothing` is a nil body; for PresignGet it is an expiry that is not positive.

`MemoryStore`. `buffer` is how far Put has read its body; `PutStore`,
`DeleteRemove` and `Read` are the lock sections. A nil body panics here.

`SMTPSender`. One Send, since Sends share nothing. `pc` walks through Send and
writeMIME, then through the deferred calls in their order (`closeClient`,
`stopWatcher`, `closeConnection`). `watcher` is the goroutine of
closeOnCancellation. Writes of writeMIME go through buffers and may succeed on a
broken connection; commands need an answer. `Broken` includes an expired
context, because closeOnCancellation gives its deadline to the connection.
`PlainAuth`'s refusal to authenticate in the clear is net/smtp's own.

`HTTPPipeline`. One request, since requests share nothing. `chain` is the nesting
that the application chose, `depth` the layer that control is in, and `pc` says
whether calls go down, return or unwind a panic. `ctx[i]` is the context of the
request that layer `i` received: `r.WithContext` makes a new one for the layers
inside. `out` holds the writers: `rec[i]` the statusWriter of a RequestLogger at
`i`, and the server's header map, status and body. A call from layer `d` passes the
recorders outside it, innermost first (`WriteHeader`, `Write`). The application
handler writes, binds, returns an error or panics as it likes, and so may the
functions it configures (parse, Generate, Enrich). `faults` is a history variable:
what failed, at which layer, and whether the response had started. net/http's rules
(first final status counts, informational codes, refused codes, no body for 204,
a dropped connection after a panic) are external.

`RedisCache`. A path is a sequence of characters, because `key()` concatenates.
A call is `Begin`, an early return (`EncodeFails` of SetJSON, `EmptyKey`), and
else `Send`, up to `MaxSends` times, until an answer is in `inbox` or
`ProviderFails` gives up, which it may at any time. `wire` holds the commands on
their way; `Execute` is the server's instant for one of them and `Lose` drops
one. Copies of a write whose call has returned stay on the wire without an
addressee. `clock` counts parts of a millisecond (`Ms` of them), since Redis keeps
deadlines in milliseconds and go-redis rounds. `seen` and `applied` are history.

`Transactions`, `PostgresTest`. `pc[t]` is where call `t` of TxValue is: `begin`
waits for the pool, `fn` runs the callback, `deferred` is the deferred Rollback.
`conn[t]` is its pool connection, `srv[t]` its transaction at the server. A
callback may run statements that fail or lose the connection, commit by itself,
call TxValue again (`Parent`), fail, or panic. Commit has every outcome that pgx
has: done, done with the answer lost, refused, never sent. `stage` and `cleanups`
are the testing package's: clean-ups run last registered first, also after
Fatalf. `Truncate` stands for an application's clean-up that empties tables.

`Validator`. `owner` is `v.mu` (both methods lock it for writing), `types` is
`fieldxFieldTypes`, `stack[g]` the calls that goroutine `g` is in: a custom rule
that validates pushes another. `StructStarts` is the lock with the walk over the
value, which changes nothing but `types` and the local set of fields to skip.
`Visited` says which Fields that walk finds: direct members (validx.go:96) of the
value or of structs that it reaches through structs, pointers, slices and arrays.
`SkipField`, `CheckField` and `RunCustom` are the library's walk. `Panics` unwinds
through the deferred unlocks. What the library does with a Field whose type was
not registered is open: it passes the field over, or the rule panics. So is whether
it comes to a Field within a Field's value (`Inside`).

`Helpers`. Pure functions are called with each argument from the given sets and
their results judged by the properties. In `RetryDelay` a float has `Mantissa` bits
and a duration `Width`, so that float64 and int64 appear in small: `Float(MaxDuration)`
rounds to 2^Width as float64(MaxInt64) does to 2^63. In `Argon2id` a PHC string is
the record of its parts. `FieldValue` keeps the last document as history.
`MailRecorder` has a heap in which messages are records of references; `CallerWrites`
lets everybody write through the references they hold.

## Runs

| Run | Shows | Distinct states |
|---|---|---|
| `memory_cache` | 2 goroutines, a key and the empty key, 2 values, TTLs -1, 0, 1, clock up to 3: types, the window invariant, safe eviction, the contract | 883,356 |
| `file_store_tree` | 2 goroutines on `a` and `a/b`, bodies of 1 and 2 chunks, any system call may fail, one crash: whole objects, owned temporary files, no call changes another key | 1,904,788 |
| `file_store_contract` | 2 goroutines on one key, faults and a crash: the map of whole objects; a Put that has the key for itself leaves its own metadata | 483,574 |
| `file_store_delete_missing` | violation: Delete fails on a key without an object | |
| `s3_store` | 3 stores (`p`, `q`, whole bucket), retries, lost answers, one late write at a time: reads see only puts of the same store and key, unless prefixes nest; each path is a map of whole objects | 84,140 |
| `memory_store` | 2 goroutines, bodies of 0 and 2 chunks, a nil body: whole objects and the contract | 3,415 |
| `smtp_sender` | 16 option combinations, 8 messages (5 of them invalid), context live, canceled or expired at any time, server gone at any time | 40,620 |
| `http_pipeline` | all 259 chains of up to 3 layers and two of 6, 3 configurations, 6 requests, up to 2 direct writes, a client that may go: who answers, what is logged, what survives | 6,478,861 |
| `redis_cache` | 2 callers on 3 caches (two of them with prefixes that run into each other), TTLs -1, 0 and positive, 2 copies of a command, late writes, clock up to 4: answers of the call, success means done, keys apart, lifetimes | 769,428 |
| `postgres_test` | the test's transaction, a call of TxValue and one inside its callback, pools of 1, 2 and 3: what is committed and given back, and that the test ends | 160,172 |
| `validator` | 2 goroutines, 2 validators, 4 relations of who calls whom: Fields that Struct finds and four kinds that it does not: verdicts by value, every call returns | 180,052 |
| `helpers` | arguments around every limit of the pure functions, a Field over all documents of 2 members, 2 recorded messages in 10 heap cells | 54,787 |

Why the bounds are enough. Two goroutines are what each race of these modules
needs: one between two of its steps, one that changes what it saw. A clock of 3
with TTL 1 lets an entry be stored, expire, be replaced and expire again within
one pending Get. Two keys with one above the other give every combination of
file and directory; two bodies of different length tell sizes apart; two chunks
are one partial copy. One crash at any point is enough for what survives it,
because a crash resets everything but the disk. In `s3_store` the store of the
whole bucket and the store under `p` write the same path, so two writers and a
late write compete for it; `MaxLate` = 1 keeps one given-up write at a time. The `file_store_contract` run
uses one flat key: with nested keys a Get may be handed a directory, the one deviation
from the contract, as the proof shows (`GetsOnlyLeaves` below); what a Delete leaves
there is the violation run's. The messages of `smtp_sender` have one and three recipients, text
alone and both bodies, and two attachments, one of them empty. In `http_pipeline`
three layers give every pair in both orders with a third outside, between or
inside, and two of a kind; the chains of six are the README's order extended by the
guards, and one with the logger outside the recovery. Two direct writes are an
informational status with a final one, or a status with a body.

In `redis_cache` two copies are one retry, and one given-up write at a time can
overtake a later call. A clock of 4 at 2 parts to the millisecond shows both
roundings. In `postgres_test` a pool of 1 is exhausted by the test's transaction
or a nested call alone, a pool of 2 by both, and a pool of 3 by neither. In `helpers` the arguments
lie on, below and above each limit; 9 bits of duration with 7 of mantissa make
rounding happen, and two messages, one of them handed out, make any shared cell
visible.

Symmetry is used only over goroutines and values that the constants treat alike,
and in no run with a liveness property. `CHECK_DEADLOCK` is on but in two runs:
`postgres_test`, where a test may hang in the two ways that `TestEnds` names, and
`validator`, where rules that go in a circle hang; `CallsReturn` excludes only those.

A type invariant is checked where a theorem is only about it (`MemoryCache`,
`FileStore`). In the other modules `TypeOK` is a conjunct of the proved inductive
invariant; the runs check what is less obvious.

Fairness. `SMTPSender`: weak fairness of the steps that need
nobody else (`Local`) and of the watcher goroutine, which Go's scheduler
provides. It includes the end of a dial, which DialTimeout bounds, and the
attachments' Open and Read, which Send cannot interrupt. Nothing is assumed of
the server or of the context, so `CancelReturns` says that cancellation alone
gets Send to return. `PostgresTest`: weak fairness of every step of the helpers
and of TxValue, of callbacks that return, of a server that notices lost
connections, and of contexts that have a deadline (`timed`); a call without one may
wait for ever. `Validator`: weak fairness of the steps under the lock and strong
fairness of taking it, because sync.RWMutex queues writers and does not starve
them.

## What the violation run says, and what properties state by their limit

`file_store_delete_missing` checks a sentence of the repository ("Deleting a
missing object succeeds.", `blobx/file.go:142`): Delete fails on keys that are
directories or lie below an object. The following deviations show in how a
property or a contract is stated.

* `Memory.Get` may answer ErrMiss for a key that was live at every instant of the
  call, when its copy expires after a Set has replaced the entry. `CacheContract`
  allows a miss for an entry that was seen and has expired by the end of the call.
* `FileStore.Get` takes the size from Stat and the body from a later Open: another
  Put between them pairs one's size with the other's body, and a Delete with a
  Put below makes the body a directory. `ObjectStore` lets size and body come from
  different instants of the call.
* Two overlapping Puts of a key in a `FileStore` may leave the object of one with the metadata
  of the other, or with an unreadable metadata file, until the key is written
  again. `UncontendedPutSettles` shows that the next Put that has the key for
  itself puts this right.
* `S3Store.Put` describes its result by a HeadObject, which may meet another
  Put's object; only the ETag is its own, if the service returns one with
  PutObject (`ETags`).
* `SMTPSender.Send` ends the data even when an attachment fails, so a truncated
  message may be delivered; `DeliveryIsTotal` says that Send then reports failure.
* statusWriter marks itself written at its first WriteHeader, whatever the code
  is. After an informational status (103) the final one is dropped, so the client
  gets 200 and the log says 103; after the zero Status of an `Error` literal,
  which net/http refuses with a panic, a Recovery inside the logger cannot set its
  500. `LoggedStatusSent` and `FailuresReported` except exactly these (`Misled`).
  An `*Error` that itself has an informational status is sent ahead of a 200;
  `FailuresReported` claims nothing for it.
* Redis prefixes and keys are joined without a separator: `KeysKeptApart` excepts
  caches of which one prefix extends the other. An entry may outlive its TTL by
  less than two milliseconds, or fall short of it by less than one (`Lifetimes`).
* A commit whose answer is lost is reported as an error although it happened;
  `TxOutcome` claims nothing for an error of Commit.
* A test hangs when callbacks without a deadline hold every connection and wait
  for another (`Exhausted`), or when a truncation registered after PostgresTx waits for its
  transaction (`TruncatesTooEarly`). `TestEnds` excepts these two.
* Struct does not find every Field. It knows one only as a direct member of a struct,
  so it misses a Field that is the target of a pointer (`*fieldx.Field[T]`, which
  `fieldx/field.go:12-13` recommends for omitempty) or the element of a slice or
  array, and it does not look into interfaces, maps and the values of Fields. The
  verdict on such a Field depends on whether its type has been met before: the
  library passes over it, rejects it although it is unset and optional, or
  panics. Of a value with such Fields `VerdictByValue` claims only that it is not
  accepted when another field, one that was found, must be rejected.
* In `retryx.Delay` NaN (a base of 0 times an infinite power) and 2^63 pass the
  comparisons and meet a conversion that Go leaves open (`SlipsThrough`).
* An infinite `pgtype.Date` or `Timestamptz` becomes a finite time in its pointer
  (`NullsSurvive`); a `MaxLimit` below 20 without a `DefaultLimit` refuses every
  page query (`PageWithinLimits`).

## Proofs

Assumptions are the named ASSUMEs of the modules, which TLC evaluates in the runs:

* markers (`Nothing`, `NoCall`, `Nobody`, `BadKey`, `Absent`, `Junk`, ...) differ from the
  data they stand beside;
* the calls, messages, options, chains, configurations and requests that a program
  makes are of the types that Go's declarations give them (`CallAssumption`,
  `MessageAssumption`, `OptionAssumption`, `LayerAssumption`, `ArgumentAssumption`);
* numbers are numbers: TTLs are integers, sizes and bounds naturals, a millisecond has
  at least one part, statuses given to WriteHeader have three digits, uint32 holds
  more than the limits of the hasher;
* structure: `Above` is irreflexive and transitive, `Parent` leads to calls or to
  `Root`, prefixes and keys are sequences, a key for NormalizeKey has at least one
  segment and its names are none of the special ones (`NameAssumption`), a message has
  finitely many parts.

Nothing is assumed of the number of goroutines, keys, values, retries, layers or
attachments, nor of the bounds that the runs use.

* `MemoryCacheProofs`. `TypeCorrect` is inductive alone. `WindowCorrect` proves
  `WindowInv` with the type: the program counter agrees with the call, a copied
  entry was seen during the call (or was expired when the key was absent), the
  present view has been seen, and a built entry has a deadline of the call. Each
  conjunct is preserved action by action; the clock's tick needs that an entry
  which expires makes the key absent at that instant. `EvictionSafe` follows for
  GetEvict: a copy past the check is expired, so an entry with the same deadline
  is too. `MemoryImplementsContract` maps `view` to the live part of the map and
  shows that each step is a step of `CacheContract` or a stutter; `WindowInv` is
  what makes hits, misses and stored deadlines legal there.
* `FileStoreProofs`. One inductive invariant, `FileInv`: the type, `NoTornObject`,
  `TreeShape`, `TempsOwned` and `Carried`, which says what a goroutine may rely on
  between two system calls (a Put at `rename` has a complete temporary file of
  its own version). `NoTornObject` needs it at the rename. `TreeShape` (what is
  stored lies in directories) is the file system's own guarantee and serves the
  other proofs. `FileTypeCorrect`, `ObjectsWhole` and `TempsAreOwned` read
  the parts off. `KeysDoNotInterfere` is the action property `OnlyOwnKeyChanges`, from
  `FileInv` and `Engaged`, which ties the program counter to the operation: MkdirAll
  turns no object into a directory, Rename and Remove act on the key of their call,
  and a directory in which a Put keeps its temporary file is not empty (`Occupied`). `PutsSettle` adds the history of `FileStoreContract`: `Alone` (a call
  that is alone is the only writer of its key), `Settling` (such a Put finds its
  object, its linked and empty metadata file, and its metadata where its last step
  left them) and `Settled`. Its lemma `Untouched` is where nested keys matter: neither
  MkdirAll nor the Remove of another key touches an object that is there. The run
  checks the property on a flat key, the theorem has it for every tree of keys.
  `FileImplementsObjectStore` is the refinement, with the history invariant
  `HistoryInv`: a Put counts as applied from its rename on, a call has seen what its
  key holds now, and what Stat found was there during the call. `ObjectsChange` shows
  that only the rename and the Delete touch the mapped objects. Its hypothesis
  `GetsOnlyLeaves` says that no Get asks for a key that is a directory on the way to
  another key: `os.Open` opens a directory too, and Get then hands out a body that was never
  put. Puts, Stats and Deletes of such keys are allowed, and flat keys satisfy it.
  TLC checked `HistoryInv` on flat keys with a crash, and on nested keys whose Gets
  ask for leaves. The same module proves `MemoryImplementsObjectStore`, through a
  named instance of `MemoryStore` and under that module's own assumptions
  (`MemoryUse`). There `MemoryInv` says that stored objects are whole, that
  a Put which waits for the lock has its whole body in its buffer, and that a call
  has seen what its key holds.
* `S3StoreProofs`. `S3Inv` has the type, `Pending` (a call between two requests keeps
  well-formed arguments, and an ETag only of its own body) and `Provenance` (what
  lies, or may still arrive, at a path was put under that path). `StoresKeptApart`
  then rests on two lemmas about sequences: equal paths with the same prefix have
  the same key, and of two prefixes of one path one begins with the other.
  `S3ImplementsObjectStore` adds the history invariant `Current` and maps paths to
  the contract's keys, action by action, for a service that returns ETags: without
  one, Put describes whatever object HeadObject meets, which the contract does not
  allow (TLC shows the step when `ETags` has FALSE). The attempt to prove it showed that two equal late attempts
  are one element of the set `late`, so that `Arrive` must be able to leave it there;
  both modules now say so.
* `SMTPSenderProofs`. `SendInv` divides Send by its program counter: `Verdict` (nothing
  is accepted before the verdict, success needs a whole message), `Secured` (where
  encryption has been decided it is on or not required), `Enveloped` (all recipients
  are named when the data begin), `InTurn` (attachments are opened and closed in
  order, one at a time) and `Connected`. `NeverCleartext` reads
  `Secured` off, `AllOrNothing` `Verdict` and `Enveloped`, `EverythingReleased` `InTurn` and
  `Connected`: no property is inductive by itself, because each speaks of a past that
  only `pc` remembers.
* `RedisCacheProofs`. `RedisInv`: `OnTheWire` (a command with an addressee is that of
  its pending call), `Watched` (a pending Get has noted what its path shows, also
  when the clock makes an entry invisible), `Justified` (an answer in the inbox was
  seen, or done, during the call) and `Entries` (what is stored at a path came from
  a Set for this path, with a deadline of its TTL). `GetAnswersFromCall` and
  `WritesReallyDone` need `Justified` where a call returns, `PrefixesSeparate` follows
  from `Entries` with the lemmas about prefixes, and `EntriesLiveForTTL` from the
  division by which go-redis and Redis round.
* `PostgresTestProofs`. `TestInv`: `Reported` (a result exists once the callback is
  over, and tells of the commit), `Held` (a connection is out only while a callback
  or its clean-up runs), `TestTxApart` and `CleanupsCover` (whatever is open has its
  clean-up registered, and outside the body no call is under way). The last is what
  `TestReleasesAll` needs: a test may end at any point of the body, and only the
  registered clean-ups run then. `TxReportsOutcome` reads `Reported` off.
* `HTTPPipelineProofs`. Everything depends on what calls of the ResponseWriter do
  through any number of statusWriters, so `WriteHeaderWorks`, `WriteWorks` and
  `RespondWorks` come first: a response only moves forward (`Moves`), and the
  recorders that a call passes stay equal to each other (`Consistent`). The invariant
  `HTTPInv` then follows a request in and out. `Placed` and `Passed` say which layers
  have got the request and what each context holds, `Headed` what the header map
  holds, `Clean` that nothing is written on the way in, `Turned` why control turned,
  `Lined` and `Unwound` which lines are logged and where panics are, `Reported` that
  an early failure has been told or its panic is under way. Six theorems read the six
  properties off at the end of the request.
* `HelpersProofs`. The pure functions have lemmas for all arguments
  (`PagesStayWithinLimits`, `HashIsVerified`, `StringIsVerified`, `ConvertersKeep`,
  `KeyIsInside`). The last needs induction, because path.Clean walks over the segments
  of a key: the prefixes of a key of names solve the recursive equation of
  `CleanPrefixes`, and a shortest prefix on which another solution differs cannot
  exist (`LeastNumber`, from the well-foundedness of the naturals).
  `FieldInv` says that a field is the reading of its last document, whatever it was
  before. `MailInv` is the separation that `MessagesKept` rests on: what callers hold
  and what the keepers keep share no cell, and all of it lies within the heap, so
  that a copy (`CopyIsApart`) is apart from both. The last part is about
  `Validator`, with any goroutines, validators and values and any relation of custom
  rules to validators: `VerdictsByValue`, from `CallAssumption`. `VerdictInv`,
  which TLC checked on the instance of the run, adds `CallsNest`: a call under the lock has
  its types known and its fields to skip chosen, has collected the failures of the
  fields behind it that were found (and no others, in an ordinary value), and a call that waits for an inner one is at a custom
  rule. Types known to a validator only grow (`NestKeeps`), so no other goroutine can
  disturb this; a panic starts at, or below, a custom rule or a field that was not
  visited, which an ordinary value does not have.

Only model-checked:

* Liveness (`CancelReturns`, `WatcherEnds`, `NothingLeftOpen`, `TestEnds`, `CallsReturn`):
  the prover handles neither fairness nor ENABLED.
* `DelaysAsDocumented` is about powers, products and quotients of variables,
  which the solver does not decide, and `Round` bounds its search for an exponent as
  the numbers of the run allow.

## Not modelled

* Power failures: nothing is synced to disk, so an operating-system crash may lose
  or tear what the model keeps. Temporary file names as keys: they are random, but
  valid keys. `os.MkdirAll` step by step.
* The text of MIME messages, TLS itself, the execution of templates, the texts of
  validation messages: conversions that no property is about.
* BearerToken, SignJWT and ParseJWT, and the bcrypt hasher: stateless calls of
  their libraries with an error passed on.
* The HTTP helpers of `testx`, `cachex.Fake` (Memory under another name), and the
  option checks of constructors.
* `configx`, `envx`, `logx`: they read the environment or build a logger once, and
  have no state that a step could find changed.
* Memory never removes an entry whose key is not read again; the code promises no
  bound, so there is nothing to check.

## Plan

The plan is done as far as the tools reach: every invariant that the runs check has
its theorem, except the one named above. What could follow is a model of power
failures for `FileStore`, once the code syncs what it writes.
