SPECIFICATION Spec
CONSTANTS
    Workers = {w1}
    Routers = {r1, r2, r3}
    v1 = v1
    v2 = v2
    v3 = v3
    Vnis = {v1, v2, v3}
    w1 = w1
    r1 = r1
    r2 = r2
    r3 = r3
    Free = Free
    NoVni = NoVni
    NoVrf = NoVrf
    NoRouter = NoRouter
    RangeChoices <- MovingRanges
    InUseDeletes = FALSE
    CrashPoints <- SafePoints
INVARIANT KeepsVni
PROPERTY PoolSpec
CHECK_DEADLOCK FALSE
