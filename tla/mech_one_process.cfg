SPECIFICATION Spec
CONSTANTS
    w1 = w1
    w2 = w2
    x1 = x1
    q1 = q1
    p1 = p1
    p2 = p2
    p3 = p3
    h1 = h1
    h2 = h2
    s1 = s1
    s2 = s2
    None = None
    PortWorkers = {w1, w2}
    RouterWorkers = {x1}
    Process <- OneProcess
    Ports = {p1, p2}
    DhcpPorts = {}
    Hosts = {h1, h2}
    Switches = {s1, s2}
    HostsOf <- TwoLeaves
    Physnet <- OnePhysnet
    Circumstances <- NothingFails
INVARIANT TypeOK
INVARIANT ActivePortConfigured
INVARIANT VrfServed
INVARIANT VrfOnlyWhereUsed
PROPERTY NeverPulledFromActive
SYMMETRY SymmetryTwo
