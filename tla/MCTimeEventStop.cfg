\* The same instance, for the meaning of stopping an alarm: it may be set and
\* stopped while an earlier call of its handler is pending.
CONSTANTS
    alm = alm
    cyc = cyc
    phs = phs
    NONE = NONE
    TICK = TICK
    Alm = {alm}
    Cyc = {cyc, phs}
    Oatr <- MCOatr
    Cyctim <- MCCyctim
    Cycphs <- MCCycphs
    AlmTime = {1, 3}
    Word = 4
    Tick = 1
    MaxPost = 2
    MaxTime = 6
SPECIFICATION Spec
INVARIANT StopAlarmHandlerOperation
