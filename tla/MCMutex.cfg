\* Three tasks alike: with two mutexes locked in one order, chains of owners that
\* hand priorities on; with one mutex, waits with timeouts.
CONSTANTS
    high = high
    mid = mid
    low = low
    m1 = m1
    m2 = m2
    NONE = NONE
    FEVR = FEVR
    Task = {high, mid, low}
    Sem = {}
    Mtx = {m1, m2}
    MaxPri = 2
    TMAX_TPRI = 3
    Ipri <- MCIpriSame
    SemAttr <- MCNoSem
    IsemCnt <- MCNoSem
    MaxSem <- MCNoSem
    Attr <- MCMixed
    CeilPri <- MCCeil
    Rank <- MCOrdered
    MaxAct = 0
    MaxWup = 0
    MaxSus = 1
    Timeouts = {1}
    Word = 3
    Tick = 1
    MaxTime = 1
SPECIFICATION MSpec
SYMMETRY AllAlike
ACTION_CONSTRAINT ChainsOrTimeouts
INVARIANTS
    MTypeOK
    OwnersMatchChains
    WaitersMatchState
    NoInversion
    RunsMostUrgent
    PriorityRestored
