\* An alarm and two cyclic handlers, one with TA_PHS, and up to two ticks
\* waiting at a time.
CONSTANTS
    alm = alm
    cyc = cyc
    phs = phs
    NONE = NONE
    TICK = TICK
    Alm = {alm}
    Cyc = {cyc, phs}
    Oatr <- MCOatr
    Cyctim <- MCCyctim
    Cycphs <- MCCycphs
    AlmTime = {1, 2, 3}
    Word = 4
    Tick = 1
    MaxPost = 2
    MaxTime = 7
SPECIFICATION Spec
INVARIANTS
    TypeOK
    LinksMatchFlags
    Punctual
    AlarmNotLost
PROPERTY NotEarly
