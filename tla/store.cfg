SPECIFICATION FairSpec
CONSTANTS
    p1 = p1
    p2 = p2
    st1 = st1
    st2 = st2
    t1 = t1
    t2 = t2
    t3 = t3
    Ids = {i1, i2}
    Verdicts = {"approved", "denied"}
    Free = Free
    Threads = {t1, t2, t3}
    Processes = {p1, p2}
    Stores = {st1, st2}
    ProcessOf <- TwoProcesses
    StoreOf <- ThreeThreads
    MaxOps = 4
    MaxCrashes = 1
CHECK_DEADLOCK FALSE
INVARIANTS
    PendingIsUndecided
    RemovedWereUnresolved
PROPERTIES
    KeepsDecisions
    LockComesFree
