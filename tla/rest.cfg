SPECIFICATION CommandSpec
CONSTANTS
    Callers = {u1, u2}
    Ids = {i1, i2, i3}
    Names = {n1, n2}
    Items = {x, y}
    None = None
    i1 = i1
    i2 = i2
    i3 = i3
    n1 = n1
    n2 = n2
    x = x
    y = y
    gone = gone
    Workloads <- AllWorkloads
    Setups <- AllSetups
SYMMETRY Symmetry
INVARIANT TypeOK
INVARIANT ReportsTrue
PROPERTY ChangesOnlyNamed
CHECK_DEADLOCK FALSE
