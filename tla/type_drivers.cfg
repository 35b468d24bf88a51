SPECIFICATION Spec
CONSTANTS
    x1 = x1
    x2 = x2
    None = None
    Procs = {p1, p2}
    Networks = {n1, n2, n3}
    Vnis <- SmallVnis
    Physnets = {x1, x2}
    Configs <- SmallConfigs
    MaxTries = 1
SYMMETRY Symmetry
INVARIANT TypeOK
INVARIANT TableAgrees
INVARIANT TableConfigured
PROPERTY PoolSpec
