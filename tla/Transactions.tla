---------------------------- MODULE Transactions ----------------------------
(***************************************************************************)
(* pgxutil.TxValue, and Tx through it (pgxutil/pgxutil.go): calls on one   *)
(* pgx pool, a call inside the callback of another included.  The pool,    *)
(* the connections and the server are external; they are modelled from how *)
(* pgx answers the calls that TxValue makes.  The callback may do what     *)
(* pgx.Tx offers: run statements, commit by itself, fail, panic.           *)
(***************************************************************************)
EXTENDS Naturals, FiniteSets

CONSTANTS
    Txs,       \* transactions, one call of TxValue each
    Parent,    \* Parent[t]: the transaction whose callback makes the call, or Root
    PoolSizes, \* the sizes of pool to consider
    Root

VARIABLES
    size,      \* MaxConns of the pool
    timed,     \* the calls whose context ends some day; a nested call shares it
    pc,        \* where each call is
    ended,     \* its context is done
    conn,      \* its connection: live, dead, or none before Begin and once the
               \* transaction is closed
    srv,       \* its transaction at the server: none, clean, dirty, aborted by a
               \* failed statement, or orphaned by a lost connection
    committed, \* history: the server has committed it
    own,       \* history: the callback called tx.Commit
    result     \* what the call returned

txVars == <<size, timed, pc, ended, conn, srv, committed, own, result>>

ASSUME ParentAssumption == Parent \in [Txs -> Txs \cup {Root}] /\ Root \notin Txs
ASSUME SizeAssumption == PoolSizes \subseteq Nat \ {0}

TxTypeOK ==
    /\ size \in PoolSizes /\ timed \in SUBSET Txs
    /\ pc \in [Txs -> {"idle", "begin", "fn", "deferred", "done"}]
    /\ conn \in [Txs -> {"none", "live", "dead"}]
    /\ srv \in [Txs -> {"none", "clean", "dirty", "aborted", "orphaned"}]
    /\ ended \in [Txs -> BOOLEAN]
    /\ committed \in [Txs -> BOOLEAN] /\ own \in [Txs -> BOOLEAN]
    /\ result \in [Txs -> {"none", "ok", "error", "failed"}]

TxInit ==
    /\ size \in PoolSizes
    /\ timed \in {s \in SUBSET Txs : \A t \in Txs : Parent[t] # Root => (t \in s <=> Parent[t] \in s)}
    /\ pc = [t \in Txs |-> "idle"]
    /\ ended = [t \in Txs |-> FALSE]
    /\ conn = [t \in Txs |-> "none"]
    /\ srv = [t \in Txs |-> "none"]
    /\ committed = [t \in Txs |-> FALSE]
    /\ own = [t \in Txs |-> FALSE]
    /\ result = [t \in Txs |-> "none"]

----------------------------------------------------------------------------
Out == {t \in Txs : conn[t] # "none"}
Free == Cardinality(Out) < size

\* The callback of t is running and does not wait for a call of its own.
InFn(t) == pc[t] = "fn" /\ \A u \in Txs : Parent[u] = t => pc[u] \in {"idle", "done"}

Reached(t) == conn[t] = "live" /\ ~ended[t]

Call(t) ==
    /\ pc[t] = "idle"
    /\ Parent[t] # Root => InFn(Parent[t])
    /\ pc' = [pc EXCEPT ![t] = "begin"]
    /\ UNCHANGED <<size, timed, ended, conn, srv, committed, own, result>>

\* pool.Begin: a free connection and BEGIN.
Begun(t) ==
    /\ Free /\ ~ended[t]
    /\ conn' = [conn EXCEPT ![t] = "live"]
    /\ srv' = [srv EXCEPT ![t] = "clean"]
    /\ UNCHANGED <<size, timed, ended, committed, own>>

Begin(t) ==
    /\ pc[t] = "begin"
    /\ Begun(t)
    /\ pc' = [pc EXCEPT ![t] = "fn"]
    /\ UNCHANGED result

\* pool.Begin gives up waiting, or dialling or BEGIN fails.
BeginFails(t) ==
    /\ pc[t] = "begin"
    /\ Free \/ ended[t]
    /\ pc' = [pc EXCEPT ![t] = "done"]
    /\ result' = [result EXCEPT ![t] = "error"]
    /\ UNCHANGED <<size, timed, ended, conn, srv, committed, own>>

\* The connection is destroyed: the server rolls back when it finds out.
Orphan(t) == srv' = [srv EXCEPT ![t] = IF @ = "none" THEN "none" ELSE "orphaned"]

\* A statement of the callback: it succeeds, it fails and aborts the transaction
\* at the server, or the connection is lost.  The callback need not care.
Statement(t) ==
    /\ InFn(t) /\ Reached(t)
    /\ \/ /\ srv[t] = "clean"
          /\ \E s \in {"dirty", "aborted"} : srv' = [srv EXCEPT ![t] = s]
          /\ UNCHANGED conn
       \/ conn' = [conn EXCEPT ![t] = "dead"] /\ Orphan(t)
    /\ UNCHANGED <<size, timed, pc, ended, committed, own, result>>

\* pgx.Tx.Commit with its outcome.  In every case the transaction is closed and
\* the connection given back, destroyed unless it is idle.
Commit(t, outcome) ==
    /\ conn' = [conn EXCEPT ![t] = "none"]
    /\ \/ \* committed; the answer may be lost
          /\ Reached(t) /\ srv[t] \in {"clean", "dirty"}
          /\ committed' = [committed EXCEPT ![t] = TRUE]
          /\ srv' = [srv EXCEPT ![t] = "none"]
       \/ \* rolled back instead: aborted before, or refused at the commit
          /\ Reached(t) /\ outcome = "error"
          /\ srv' = [srv EXCEPT ![t] = "none"]
          /\ UNCHANGED committed
       \/ \* never sent, or closed already
          /\ outcome = "error"
          /\ Orphan(t)
          /\ UNCHANGED committed

\* pgx.Tx.Rollback: done, or the connection is destroyed; a closed one is left.
Rollback(t) ==
    /\ conn' = [conn EXCEPT ![t] = "none"]
    /\ \/ Reached(t) /\ srv' = [srv EXCEPT ![t] = "none"]
       \/ Orphan(t)

FnCommits(t) ==
    /\ InFn(t) /\ conn[t] # "none"
    /\ \E o \in {"ok", "error"} : Commit(t, o)
    /\ own' = [own EXCEPT ![t] = TRUE]
    /\ UNCHANGED <<size, timed, pc, ended, result>>

\* Mutant: the rollback is not deferred, and a panic passes it by.
FnFailsUndeferred(t) ==
    /\ InFn(t)
    /\ \E label \in {"deferred", "done"} : pc' = [pc EXCEPT ![t] = label]
    /\ result' = [result EXCEPT ![t] = "failed"]
    /\ UNCHANGED <<size, timed, ended, conn, srv, committed, own>>

\* fn returns an error, panics or leaves by runtime.Goexit.
FnFails(t) ==
    /\ InFn(t)
    /\ pc' = [pc EXCEPT ![t] = "deferred"]
    /\ result' = [result EXCEPT ![t] = "failed"]
    /\ UNCHANGED <<size, timed, ended, conn, srv, committed, own>>

\* Mutant: the error of Commit is dropped.
FnSucceedsSilently(t) ==
    /\ InFn(t)
    /\ \E o \in {"ok", "error"} : Commit(t, o)
    /\ result' = [result EXCEPT ![t] = "ok"]
    /\ pc' = [pc EXCEPT ![t] = "deferred"]
    /\ UNCHANGED <<size, timed, ended, own>>

\* fn returns no error, and TxValue commits.
FnSucceeds(t) ==
    /\ InFn(t)
    /\ \E o \in {"ok", "error"} : Commit(t, o) /\ result' = [result EXCEPT ![t] = o]
    /\ pc' = [pc EXCEPT ![t] = "deferred"]
    /\ UNCHANGED <<size, timed, ended, own>>

\* The deferred Rollback, whose error is dropped.
DeferredRollback(t) ==
    /\ pc[t] = "deferred"
    /\ Rollback(t)
    /\ pc' = [pc EXCEPT ![t] = "done"]
    /\ UNCHANGED <<size, timed, ended, committed, own, result>>

\* The calls that callbacks of t make, directly or not; they pass t's context on.
Below(t) ==
    {u \in Txs : \A s \in SUBSET Txs :
        t \in s /\ (\A w \in Txs : Parent[w] \in s => w \in s) => u \in s}

ContextEnds(t) ==
    /\ t \in timed /\ ~ended[t] /\ Parent[t] = Root
    /\ ended' = [u \in Txs |-> ended[u] \/ u \in Below(t)]
    /\ UNCHANGED <<size, timed, pc, conn, srv, committed, own, result>>

\* The server finds out that a connection is gone.
ServerNotices(t) ==
    /\ srv[t] = "orphaned"
    /\ srv' = [srv EXCEPT ![t] = "none"]
    /\ UNCHANGED <<size, timed, pc, ended, conn, committed, own, result>>
=============================================================================
