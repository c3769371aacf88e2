SPECIFICATION Spec
CONSTANTS
    s1 = s1  s2 = s2  ip1 = ip1  ip2 = ip2  m1 = m1  m2 = m2
    Segments = {s1}
    IPs = {ip1, ip2}
    Macs = {m1, m2}
    Rule <- RuleOfOne
    Window = 9
    Lookback = 9
    MaxClock = 1
    MaxFeed = 3
    MaxRuns = 2
    MaxKills = 1
SYMMETRY Alike
CHECK_DEADLOCK FALSE
INVARIANTS 
    NoDanglingEdge
    LosslessMerge
