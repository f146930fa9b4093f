SPECIFICATION FairSpec
CONSTANTS
    w1 = w1  w2 = w2
    Workers = {w1, w2}
    N = 6
INVARIANTS
    TypeOK
    NothingLeftBehind
    Complete
    PoolInv
PROPERTIES
    StopReturns
    CycleReturns
    ImplementsCycle
CHECK_DEADLOCK FALSE
