SPECIFICATION Spec
CONSTANTS
    a = a  b = b  c = c
    IPs = {a, b, c}
    Versions = {1, 2}
    Digest <- Colliding
    BaseLength = 1
    BucketTicks = 2
    Lookback = 1
    TopN = 2
    Lateness = 1
    MaxClock = 2
    MaxEvents = 3
    MaxRuns = 3
    MaxFailures = 1
CHECK_DEADLOCK FALSE
INVARIANTS
    SharedOnlyWithinARun
    SeriesContinuous
    PublishedAreMapped
    NeverOverstated
PROPERTY TotalsGrow
