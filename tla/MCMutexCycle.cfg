\* Three tasks that lock two mutexes in either order: a deadlock, which rel_wai
\* is to resolve.
CONSTANTS
    high = high
    mid = mid
    low = low
    m1 = m1
    m2 = m2
    NONE = NONE
    FEVR = FEVR
    Task = {high, mid, low}
    Sem = {}
    Mtx = {m1, m2}
    MaxPri = 3
    TMAX_TPRI = 4
    Ipri <- MCIpri
    SemAttr <- MCNoSem
    IsemCnt <- MCNoSem
    MaxSem <- MCNoSem
    Attr <- MCInherit
    CeilPri <- MCCeil
    Rank <- MCAnyOrder
    MaxAct = 0
    MaxWup = 0
    MaxSus = 1
    Timeouts = {}
    Word = 3
    Tick = 1
    MaxTime = 0
SPECIFICATION MSpec
INVARIANT ReleasedFromWaiting
