\* Two tasks alike and a semaphore of FIFO order, with timeouts: every way out of
\* every wait, and the carry of the lower word of the system time.
CONSTANTS
    t1 = t1
    t2 = t2
    t3 = t3
    s1 = s1
    NONE = NONE
    FEVR = FEVR
    Task = {t1, t2}
    Sem = {s1}
    MaxPri = 2
    Ipri <- MCIpriSame
    SemAttr <- MCFifo
    IsemCnt <- MCNoCnt
    MaxSem <- MCMaxSem
    MaxAct = 0
    MaxWup = 1
    MaxSus = 1
    Timeouts = {1}
    Word = 3
    Tick = 1
    MaxTime = 2
SPECIFICATION Spec
SYMMETRY Alike
INVARIANTS
    TypeOK
    QueuesMatchState
    SuspensionCounted
PROPERTY TimeoutsExact
