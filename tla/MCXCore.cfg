\* Three cores and any three calls and posts between them: contention for a
\* table, calls that cross, a full ring, SGIs that merge.
CONSTANTS
    c1 = c1
    c2 = c2
    c3 = c3
    x = x
    y = y
    FREE = FREE
    NONE = NONE
    Core = {c1, c2, c3}
    SyncReq = {"vprcv_dtq"}
    AsyncReq = {x, y}
    InitObj <- MCEmpty
    Effect <- MCEffect
    Answer <- MCAnswer
    async_max = 2
    CallTo <- MCCallTo
    PostTo <- MCPostTo
    MaxWork = 3
SPECIFICATION XFairSpec
CHECK_DEADLOCK FALSE
INVARIANTS
    XTypeOK
    NoRequestForgotten
PROPERTIES
    IsRemoteService
    CallsReturn
