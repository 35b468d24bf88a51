SPECIFICATION Spec
CONSTANTS
    p1 = p1  p2 = p2  s1 = s1  s2 = s2
    Ports = {p1, p2}
    Slots = {s1, s2}
    Excluded = {}
    Limits <- MCLimits
    Setups <- AllSetups
    None = None
SYMMETRY Alike
INVARIANT TypeOK
INVARIANT EveryVfManaged
INVARIANT LimitsObeyed
