\* Three tasks, two of equal priority, and a semaphore of priority order: who
\* runs, and who gets the resource, when priorities change and tasks come and go.
CONSTANTS
    t1 = t1
    t2 = t2
    t3 = t3
    s1 = s1
    NONE = NONE
    FEVR = FEVR
    Task = {t1, t2, t3}
    Sem = {s1}
    MaxPri = 2
    Ipri <- MCIpriEqual
    SemAttr <- MCTpri
    IsemCnt <- MCNoCnt
    MaxSem <- MCMaxSem
    MaxAct = 1
    MaxWup = 0
    MaxSus = 1
    Timeouts = {}
    Word = 3
    Tick = 1
    MaxTime = 0
SPECIFICATION Spec
INVARIANTS
    RunsMostUrgent
    NoIdleResource
