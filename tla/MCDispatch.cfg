\* Two tasks, two blocks, nested interrupts: the traffic of blocks.
CONSTANTS
    hi = hi
    lo1 = lo1
    lo2 = lo2
    b1 = b1
    b2 = b2
    MaxPri = 2
    NONE = NONE
    Task <- MCTaskTwo
    Prio <- MCPrioTwo
    InitRdq <- MCInitRdqTwo
    SSB <- MCSSB
    MaxWup = 1
    MaxNest = 2
SPECIFICATION Spec
SYMMETRY SSBSymmetry
INVARIANTS
    TypeOK
    SSBConserved
    PostsDrained
PROPERTY ServesInOrder
