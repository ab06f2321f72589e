SPECIFICATION Spec
\* A test may hang; TestEnds says when.
CHECK_DEADLOCK FALSE
CONSTANTS
    outer = outer
    inner = inner
    test = test
    Txs = {outer, inner, test}
    Parent <- MCParent
    PoolSizes = {1, 2, 3}
    Root = Root
    TestTx = test
INVARIANTS
    TxOutcome
    TestLeavesNothing
PROPERTIES
    NothingLeftOpen
    TestEnds
