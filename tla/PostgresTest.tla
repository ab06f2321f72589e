---------------------------- MODULE PostgresTest ----------------------------
(***************************************************************************)
(* The PostgreSQL helpers of testx (testx/testx.go) in a test that also    *)
(* calls pgxutil.TxValue on the same pool.  The test opens a pool, may     *)
(* register a clean-up of the database and may start a transaction of its  *)
(* own, in either order; when it ends, however it ends, the testing        *)
(* package runs the registered clean-ups, the last one first.  All of them *)
(* use a background context, so that nothing but the pool and the locks of *)
(* the database decides how long they wait.                                *)
(***************************************************************************)
EXTENDS Transactions, Sequences

CONSTANT TestTx     \* the transaction of PostgresTx

VARIABLES
    stage,     \* of the test: opening, body, cleanup or over
    cleanups,  \* what t.Cleanup has registered
    pool       \* none, open or closed

testVars == <<stage, cleanups, pool>>
vars == <<size, timed, pc, ended, conn, srv, committed, own, result,
          stage, cleanups, pool>>

ASSUME TestAssumption == TestTx \in Txs /\ \A t \in Txs : Parent[t] # TestTx
ASSUME RootAssumption == Parent[TestTx] = Root

Calls == Txs \ {TestTx}

TypeOK ==
    /\ TxTypeOK
    /\ stage \in {"opening", "body", "cleanup", "over"}
    /\ cleanups \in Seq({"close", "truncate", "rollback"})
    /\ pool \in {"none", "open", "closed"}

Init ==
    /\ TxInit /\ TestTx \notin timed
    /\ stage = "opening" /\ cleanups = <<>> /\ pool = "none"

----------------------------------------------------------------------------
\* OpenPostgres, and OpenPostgresEnv and PreparePostgres over it.
Open ==
    /\ stage = "opening"
    /\ stage' = "body" /\ pool' = "open" /\ cleanups' = <<"close">>
    /\ UNCHANGED txVars

\* Mutant: the pool stays open when Ping fails.
OpenStopsOpen ==
    /\ stage = "opening"
    /\ stage' = "cleanup" /\ pool' \in {"none", "open"}
    /\ UNCHANGED <<txVars, cleanups>>

\* The variable is not set, or New or Ping fails: the test stops at once.
OpenStops ==
    /\ stage = "opening"
    /\ stage' = "cleanup" /\ pool' \in {"none", "closed"}
    /\ UNCHANGED <<txVars, cleanups>>

\* PreparePostgres: the migration fails, which is Fatalf after the registration.
MigrationFails ==
    /\ stage = "opening"
    /\ stage' = "cleanup" /\ pool' = "open" /\ cleanups' = <<"close">>
    /\ UNCHANGED txVars

CleanupPostgres ==
    /\ stage = "body" /\ \A i \in DOMAIN cleanups : cleanups[i] # "truncate"
    /\ \A t \in Calls : pc[t] \in {"idle", "done"}
    /\ cleanups' = Append(cleanups, "truncate")
    /\ UNCHANGED <<txVars, stage, pool>>

\* Mutant: PostgresTx leaves the rollback to the closing of the pool.
PostgresTxUnregistered ==
    /\ stage = "body" /\ pc[TestTx] = "idle"
    /\ \A t \in Calls : pc[t] \in {"idle", "done"}
    /\ Begun(TestTx)
    /\ pc' = [pc EXCEPT ![TestTx] = "fn"]
    /\ UNCHANGED <<result, testVars>>

PostgresTx ==
    /\ stage = "body" /\ pc[TestTx] = "idle"
    /\ \A t \in Calls : pc[t] \in {"idle", "done"}
    /\ Begun(TestTx)
    /\ pc' = [pc EXCEPT ![TestTx] = "fn"]
    /\ cleanups' = Append(cleanups, "rollback")
    /\ UNCHANGED <<result, stage, pool>>

PostgresTxFails ==
    /\ stage = "body" /\ pc[TestTx] = "idle" /\ Free
    /\ \A t \in Calls : pc[t] \in {"idle", "done"}
    /\ stage' = "cleanup"
    /\ UNCHANGED <<txVars, cleanups, pool>>

\* The test is over for a failed call of TxValue too: callers use Fatalf.
BodyEnds ==
    /\ stage = "body" /\ \A t \in Calls : pc[t] \in {"idle", "done"}
    /\ stage' = "cleanup"
    /\ UNCHANGED <<txVars, cleanups, pool>>

Pop(name) ==
    /\ stage = "cleanup" /\ cleanups # <<>>
    /\ cleanups[Len(cleanups)] = name
    /\ cleanups' = SubSeq(cleanups, 1, Len(cleanups) - 1)
    /\ UNCHANGED stage

\* The clean-up of PostgresTx; ErrTxClosed is no failure, and no other error
\* keeps the transaction open.
RollbackTestTx ==
    /\ Pop("rollback")
    /\ Rollback(TestTx)
    /\ pc' = [pc EXCEPT ![TestTx] = "done"]
    /\ UNCHANGED <<size, timed, ended, committed, own, result, pool>>

\* The application's clean-up empties the tables: it takes a connection and
\* waits for every transaction that has written.
Locked == \E t \in Txs : srv[t] \in {"dirty", "aborted", "orphaned"}
Truncate ==
    /\ Pop("truncate")
    /\ Free /\ ~Locked
    /\ UNCHANGED <<txVars, pool>>

\* Pool.Close waits until every connection has been given back.
ClosePool ==
    /\ Pop("close")
    /\ Out = {}
    /\ pool' = "closed"
    /\ UNCHANGED txVars

End ==
    /\ stage = "cleanup" /\ cleanups = <<>>
    /\ stage' = "over"
    /\ UNCHANGED <<txVars, cleanups, pool>>

TxStep(t) ==
    \/ Begin(t) \/ BeginFails(t) \/ FnFails(t) \/ FnSucceeds(t) \/ DeferredRollback(t)

\* The body calls TxValue, also from several goroutines at once.
TestCalls(t) ==
    /\ stage = "body"
    /\ Call(t)
    /\ UNCHANGED testVars

Next ==
    \/ \E t \in Calls : \/ TestCalls(t)
                        \/ TxStep(t) /\ UNCHANGED testVars
                        \/ ContextEnds(t) /\ UNCHANGED testVars
    \/ \E t \in Txs : \/ Statement(t) /\ stage = "body" /\ UNCHANGED testVars
                      \/ FnCommits(t) /\ stage = "body" /\ UNCHANGED testVars
                      \/ ServerNotices(t) /\ UNCHANGED testVars
    \/ Open \/ OpenStops \/ MigrationFails \/ CleanupPostgres \/ PostgresTx
    \/ PostgresTxFails \/ BodyEnds \/ RollbackTestTx \/ Truncate \/ ClosePool \/ End

\* The steps of the code and of the server are taken sooner or later, and a
\* context with a deadline ends; callbacks return.
Fairness ==
    /\ WF_vars(Open) /\ WF_vars(BodyEnds) /\ WF_vars(RollbackTestTx) /\ WF_vars(Truncate)
    /\ WF_vars(ClosePool) /\ WF_vars(End)
    /\ \A t \in Calls : /\ WF_vars(TxStep(t) /\ UNCHANGED testVars)
                        /\ WF_vars(ContextEnds(t) /\ UNCHANGED testVars)
    /\ \A t \in Txs : WF_vars(ServerNotices(t) /\ UNCHANGED testVars)

Spec == Init /\ [][Next]_vars /\ Fairness
----------------------------------------------------------------------------
\* TxValue always says how it ended.  It reports success only for a committed
\* transaction, and a callback that fails or panics has committed nothing that it
\* did not commit by itself; only an error of Commit says nothing, for its answer
\* may be lost (pgxutil.go:39-57).
TxOutcome ==
    \A t \in Calls :
       /\ pc[t] = "done" => result[t] # "none"
       /\ result[t] = "ok" => committed[t]
       /\ result[t] = "failed" /\ committed[t] => own[t]

\* However TxValue ends, and with a context that is done, its connection has been
\* given back and the server rolls back what was open (pgxutil.go:46-56).
NothingLeftOpen ==
    \A t \in Txs : pc[t] = "done" ~> conn[t] = "none" /\ srv[t] = "none"

\* A test that is over has closed its pool with every connection back, and its
\* transaction is committed only if the test did so (testx.go:71-144).
TestLeavesNothing ==
    stage = "over" =>
       /\ Out = {} /\ pool # "open"
       /\ committed[TestTx] => own[TestTx]

\* Every connection is held by the test's transaction or by a call whose callback
\* waits, without a deadline, for a connection.
Exhausted ==
    /\ ~Free /\ \E t \in Calls \ timed : pc[t] = "begin"
    /\ \A u \in Out : \/ u = TestTx
                       \/ \E v \in Calls : /\ Parent[v] = u /\ pc[v] = "begin"
                                           /\ v \notin timed

\* A truncation that was registered after PostgresTx, and so runs before its
\* rollback, waits for the transaction's locks or its connection.
TruncatesTooEarly ==
    /\ stage = "cleanup" /\ cleanups # <<>> /\ cleanups[Len(cleanups)] = "truncate"
    /\ conn[TestTx] # "none" /\ (~Free \/ srv[TestTx] \in {"dirty", "aborted"})

\* Every test ends, its clean-ups included, unless it runs into one of the two
\* waits that the helpers do not exclude (testx.go:97-144, pgxutil.go:42).
TestEnds == <>(stage = "over" \/ Exhausted \/ TruncatesTooEarly)
=============================================================================
