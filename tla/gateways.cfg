SPECIFICATION Spec
CONSTANTS
    e1 = e1
    e2 = e2
    e3 = e3
    e4 = e4
    b1 = b1
    b2 = b2
    i1 = i1
    v1 = v1
    Free = Free
    None = None
    Workers = {w1, w2}
    Routers = {r1, r2}
    Nets = {e1, e2, e3, e4}
    Foreign = {e3}
    Ipv6 = {e4}
    Leaves = {b1, b2}
    L2Vnis = {i1, i2}
    Vlans = {v1, v2}
    Setups <- AllSetups
SYMMETRY Symmetry
INVARIANT TypeOK
INVARIANT GatewayReady
INVARIANT RowsReleased
INVARIANT LeavesCleaned
INVARIANT NoSharedVlan
INVARIANT AtMostOneEach
 
PROPERTY PoolsSpec
CHECK_DEADLOCK FALSE
