SPECIFICATION Spec
CONSTANTS
    Workers = {w1, w2}
    Routers = {r1, r2}
    v1 = v1
    v2 = v2
    v3 = v3
    Vnis = {v1, v2, v3}
    w1 = w1
    w2 = w2
    r1 = r1
    r2 = r2
    Free = Free
    NoVni = NoVni
    NoVrf = NoVrf
    NoRouter = NoRouter
    RangeChoices <- DisjointRanges
    InUseDeletes = TRUE
    CrashPoints <- AnyPoint
SYMMETRY Symmetry
INVARIANT TypeOK
INVARIANT ServedUnderOwn
 
PROPERTY RestartReclaims
 
CHECK_DEADLOCK FALSE
