------------------------- MODULE PostgresTestProofs -------------------------
(***************************************************************************)
(* Proofs about pgxutil.TxValue and the PostgreSQL helpers of testx, for   *)
(* any set of transactions, nested in any way, and any size of the pool:   *)
(* what a call reports is what happened, and a test that is over has given *)
(* everything back.  Fairness plays no part in them.                       *)
(***************************************************************************)
EXTENDS PostgresTest, SequenceTheorems, TLAPS

\* A call has a result once its callback is over; what is committed without the
\* callback's doing is reported as the outcome of Commit.
Reported(t) ==
    /\ pc[t] \in {"idle", "begin", "fn"} => result[t] = "none"
    /\ t # TestTx /\ pc[t] \in {"deferred", "done"} => result[t] # "none"
    /\ result[t] = "ok" => committed[t]
    /\ result[t] \in {"none", "failed"} /\ committed[t] => own[t]

\* The test's own transaction is no call of TxValue.
TestTxApart == result[TestTx] = "none" /\ pc[TestTx] \in {"idle", "fn", "done"}

\* A connection is out only while a callback or its clean-up runs.
Held(t) == conn[t] # "none" => pc[t] \in {"fn", "deferred"}

Registered(name) == \E i \in DOMAIN cleanups : cleanups[i] = name

\* Outside the body no call is under way, and what is open has its clean-up.
CleanupsCover ==
    /\ stage # "body" => \A t \in Calls : pc[t] \in {"idle", "done"}
    /\ stage \in {"opening", "over"} => cleanups = <<>>
    /\ pool = "open" => Registered("close")
    /\ conn[TestTx] # "none" => Registered("rollback")

\* The inductive invariant.
TestInv ==
    /\ TypeOK
    /\ \A t \in Txs : Reported(t) /\ Held(t)
    /\ TestTxApart
    /\ CleanupsCover

-----------------------------------------------------------------------------
\* A registered clean-up stays registered when another one is registered or run.
LEMMA Registration ==
    ASSUME NEW name, NEW other, Registered(name),
           cleanups \in Seq({"close", "truncate", "rollback"})
    PROVE  /\ cleanups' = Append(cleanups, other) => Registered(name)'
           /\ Pop(other) /\ name # other => Registered(name)'
<1>1. PICK i \in DOMAIN cleanups : cleanups[i] = name
  BY DEF Registered
<1>2. ASSUME cleanups' = Append(cleanups, other) PROVE Registered(name)'
  <2>1. i \in DOMAIN cleanups' /\ cleanups'[i] = name
    BY <1>1, <1>2
  <2> QED BY <2>1 DEF Registered
<1>3. ASSUME Pop(other), name # other PROVE Registered(name)'
  <2>1. i # Len(cleanups) /\ i \in 1 .. Len(cleanups)
    BY <1>1, <1>3 DEF Pop
  <2>2. i \in DOMAIN cleanups' /\ cleanups'[i] = name
    BY <1>1, <1>3, <2>1 DEF Pop
  <2> QED BY <2>2 DEF Registered
<1> QED BY <1>2, <1>3

\* Commit and Rollback give the connection back and keep the types.
LEMMA Closing ==
    ASSUME TypeOK, NEW t \in Txs
    PROVE  /\ \A o \in {"ok", "error"} : Commit(t, o) =>
                /\ conn' = [conn EXCEPT ![t] = "none"]
                /\ srv' \in [Txs -> {"none", "clean", "dirty", "aborted", "orphaned"}]
                /\ committed' \in [Txs -> BOOLEAN]
                /\ \A u \in Txs : u # t => committed'[u] = committed[u]
                /\ committed[t] => committed'[t]
                /\ o = "ok" => committed'[t]
           /\ Rollback(t) =>
                /\ conn' = [conn EXCEPT ![t] = "none"]
                /\ srv' \in [Txs -> {"none", "clean", "dirty", "aborted", "orphaned"}]
BY DEF TypeOK, TxTypeOK, Commit, Rollback, Orphan

\* Every step of a transaction, or of the server for it, keeps the invariant.
LEMMA TransactionStep ==
    ASSUME TestInv, NEW t \in Txs, UNCHANGED testVars,
           \/ t \in Calls /\ (TestCalls(t) \/ TxStep(t) \/ ContextEnds(t))
           \/ stage = "body" /\ (Statement(t) \/ FnCommits(t))
           \/ ServerNotices(t)
    PROVE  TestInv'
<1> USE DEF TestInv, TypeOK, TxTypeOK, Reported, Held, TestTxApart, CleanupsCover,
            Registered, testVars, Calls
<1>t. TestTx \in Txs
  BY TestAssumption
<1>1. CASE t \in Calls /\ TestCalls(t)
  BY <1>1 DEF TestCalls, Call
<1>2. CASE t \in Calls /\ Begin(t)
  BY <1>2 DEF Begin, Begun
<1>3. CASE t \in Calls /\ BeginFails(t)
  BY <1>3 DEF BeginFails
<1>4. CASE t \in Calls /\ FnFails(t)
  BY <1>4 DEF FnFails, InFn
<1>5. CASE t \in Calls /\ FnSucceeds(t)
  <2>1. PICK o \in {"ok", "error"} : Commit(t, o) /\ result' = [result EXCEPT ![t] = o]
    BY <1>5 DEF FnSucceeds
  <2>2. TypeOK'
    BY <1>5, <2>1, Closing DEF FnSucceeds
  <2>3. \A u \in Txs : Reported(u)' /\ Held(u)'
    BY <1>5, <2>1, Closing DEF FnSucceeds, InFn
  <2> QED BY <1>5, <1>t, <2>1, <2>2, <2>3, Closing DEF FnSucceeds, InFn
<1>6. CASE t \in Calls /\ DeferredRollback(t)
  <2>1. TypeOK'
    BY <1>6, Closing DEF DeferredRollback
  <2>2. \A u \in Txs : Reported(u)' /\ Held(u)'
    BY <1>6, Closing DEF DeferredRollback
  <2> QED BY <1>6, <1>t, <2>1, <2>2, Closing DEF DeferredRollback
<1>7. CASE t \in Calls /\ ContextEnds(t)
  BY <1>7 DEF ContextEnds
<1>8. CASE stage = "body" /\ Statement(t)
  <2>1. /\ srv' \in [Txs -> {"none", "clean", "dirty", "aborted", "orphaned"}]
        /\ conn' \in [Txs -> {"none", "live", "dead"}]
        /\ \A u \in Txs : conn'[u] # "none" => conn[u] # "none"
    BY <1>8 DEF Statement, Reached, Orphan
  <2> QED BY <1>8, <1>t, <2>1 DEF Statement
<1>9. CASE stage = "body" /\ FnCommits(t)
  <2>1. PICK o \in {"ok", "error"} : Commit(t, o)
    BY <1>9 DEF FnCommits
  <2>2. TypeOK'
    BY <1>9, <2>1, Closing DEF FnCommits
  <2>3. \A u \in Txs : Reported(u)' /\ Held(u)'
    BY <1>9, <2>1, Closing DEF FnCommits, InFn
  <2> QED BY <1>9, <1>t, <2>1, <2>2, <2>3, Closing DEF FnCommits, InFn
<1>10. CASE ServerNotices(t)
  BY <1>10 DEF ServerNotices
<1> QED BY <1>1, <1>2, <1>3, <1>4, <1>5, <1>6, <1>7, <1>8, <1>9, <1>10 DEF TxStep

\* Every step of the test itself keeps the invariant.
LEMMA HelperStep ==
    ASSUME TestInv,
           \/ Open \/ OpenStops \/ MigrationFails \/ CleanupPostgres \/ PostgresTx
           \/ PostgresTxFails \/ BodyEnds \/ RollbackTestTx \/ Truncate \/ ClosePool \/ End
    PROVE  TestInv'
<1> USE DEF TestInv, TypeOK, TxTypeOK, Reported, Held, TestTxApart, CleanupsCover,
            testVars, txVars, Calls
<1>t. TestTx \in Txs
  BY TestAssumption
<1>r. cleanups' = Append(cleanups, "rollback") => Registered("rollback")'
  BY AppendProperties DEF Registered
<1>c. cleanups' = <<"close">> => Registered("close")'
  BY DEF Registered
<1>e. Registered("close") \/ Registered("rollback") => cleanups # <<>>
  BY DEF Registered
<1>p. ASSUME NEW name, Pop(name)
      PROVE  /\ cleanups' \in Seq({"close", "truncate", "rollback"})
             /\ stage = "cleanup" /\ stage' = "cleanup"
             /\ \A other \in {"close", "rollback"} :
                   other # name /\ Registered(other) => Registered(other)'
  <2>1. cleanups' \in Seq({"close", "truncate", "rollback"})
    BY <1>p DEF Pop
  <2>2. stage = "cleanup" /\ stage' = "cleanup"
    BY <1>p DEF Pop
  <2>3. cleanups \in Seq({"close", "truncate", "rollback"})
    OBVIOUS
  <2>4. \A other \in {"close", "rollback"} :
           other # name /\ Registered(other) => Registered(other)'
    BY <1>p, <2>3, Registration
  <2> QED BY <2>1, <2>2, <2>4
<1>1. CASE Open \/ MigrationFails
  <2>1. stage = "opening" /\ cleanups' = <<"close">> /\ stage' \in {"body", "cleanup"}
        /\ pool' = "open" /\ UNCHANGED txVars
    BY <1>1 DEF Open, MigrationFails
  <2>2. conn[TestTx] = "none" /\ Registered("close")'
    BY <2>1, <1>c, <1>e
  <2>3. cleanups' \in Seq({"close", "truncate", "rollback"})
    BY <2>1
  <2> QED BY <2>1, <2>2, <2>3, <1>t
<1>2. CASE OpenStops
  BY <1>2, <1>t, <1>e DEF OpenStops, Registered
<1>3. CASE CleanupPostgres
  BY <1>3, <1>t, Registration, AppendProperties DEF CleanupPostgres
<1>4. CASE PostgresTx
  BY <1>4, <1>t, <1>r, Registration, AppendProperties, SMTT(30) DEF PostgresTx, Begun
<1>5. CASE PostgresTxFails \/ BodyEnds
  BY <1>5 DEF PostgresTxFails, BodyEnds, Registered
<1>6. CASE RollbackTestTx
  <2>1. TypeOK'
    BY <1>6, <1>t, <1>p, Closing DEF RollbackTestTx
  <2>2. \A u \in Txs : Reported(u)' /\ Held(u)'
    BY <1>6, <1>t, Closing DEF RollbackTestTx
  <2> QED BY <1>6, <1>t, <1>p, <2>1, <2>2, Closing DEF RollbackTestTx
<1>7. CASE Truncate
  BY <1>7, <1>p DEF Truncate
<1>8. CASE ClosePool
  BY <1>8, <1>p DEF ClosePool
<1>9. CASE End
  BY <1>9 DEF End, Registered
<1> QED BY <1>1, <1>2, <1>3, <1>4, <1>5, <1>6, <1>7, <1>8, <1>9

\* The invariant holds throughout every test.
THEOREM TestInvariant == Spec => []TestInv
<1>1. Init => TestInv
  BY TestAssumption DEF Init, TxInit, TestInv, TypeOK, TxTypeOK, Reported, Held, TestTxApart,
     CleanupsCover, Calls
<1>2. TestInv /\ [Next]_vars => TestInv'
  <2> SUFFICES ASSUME TestInv, [Next]_vars PROVE TestInv'
    OBVIOUS
  <2>1. CASE UNCHANGED vars
    BY <2>1 DEF vars, TestInv, TypeOK, TxTypeOK, Reported, Held, TestTxApart, CleanupsCover,
       Registered, Calls
  <2>2. ASSUME NEW t \in Calls, TestCalls(t) \/ (TxStep(t) /\ UNCHANGED testVars)
                                \/ (ContextEnds(t) /\ UNCHANGED testVars)
        PROVE  TestInv'
    BY <2>2, TransactionStep DEF Calls, TestCalls
  <2>3. ASSUME NEW t \in Txs, UNCHANGED testVars,
               (Statement(t) /\ stage = "body") \/ (FnCommits(t) /\ stage = "body")
                  \/ ServerNotices(t)
        PROVE  TestInv'
    BY <2>3, TransactionStep
  <2> QED BY <2>1, <2>2, <2>3, HelperStep DEF Next
<1> QED BY <1>1, <1>2, PTL DEF Spec

\* The pool, the transactions and the clean-ups keep their types, for any nesting of
\* calls and any size of the pool (pgxutil.go, testx.go).
THEOREM PostgresTypeCorrect == Spec => []TypeOK
BY TestInvariant, PTL DEF TestInv

\* TxValue reports what happened, whatever fails: success only for a committed
\* transaction, and after a failed callback nothing is committed that the callback did
\* not commit itself, for any number of nested and concurrent calls (pgxutil.go, TxValue).
THEOREM TxReportsOutcome == Spec => []TxOutcome
<1>1. TestInv => TxOutcome
  BY DEF TestInv, Reported, TxOutcome, Calls
<1> QED BY <1>1, TestInvariant, PTL

\* A test that is over holds no connection, its pool is closed, and its transaction was
\* not committed behind its back, in whatever order the clean-ups were registered
\* (testx.go, OpenPostgres and PostgresTx).
THEOREM TestReleasesAll == Spec => []TestLeavesNothing
<1>1. ASSUME TestInv PROVE TestLeavesNothing
  <2> SUFFICES ASSUME stage = "over"
               PROVE  Out = {} /\ pool # "open" /\ (committed[TestTx] => own[TestTx])
    BY DEF TestLeavesNothing
  <2>1. ~Registered("close") /\ ~Registered("rollback")
    BY <1>1 DEF TestInv, CleanupsCover, Registered
  <2>2. conn[TestTx] = "none" /\ pool # "open"
    BY <1>1, <2>1 DEF TestInv, CleanupsCover
  <2>3. \A t \in Calls : conn[t] = "none"
    BY <1>1 DEF TestInv, CleanupsCover, Held, Calls
  <2>4. committed[TestTx] => own[TestTx]
    BY <1>1, TestAssumption DEF TestInv, Reported, TestTxApart
  <2> QED BY <2>2, <2>3, <2>4 DEF Out, Calls
<1> QED BY <1>1, TestInvariant, PTL
=============================================================================
