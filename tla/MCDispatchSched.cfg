\* Three tasks, two of them of one priority, one block: who runs, and that
\* the kernel always comes back to running someone.
CONSTANTS
    hi = hi
    lo1 = lo1
    lo2 = lo2
    b1 = b1
    b2 = b2
    MaxPri = 2
    NONE = NONE
    Task <- MCTask
    Prio <- MCPrio
    InitRdq <- MCInitRdq
    SSB = {b1}
    MaxWup = 0
    MaxNest = 1
SPECIFICATION FairSpec
INVARIANTS
    HighestRuns
    LookupLock
PROPERTY PostsServed
