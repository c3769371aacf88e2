SPECIFICATION Spec
CONSTANTS
    Macs <- MacNames
    PrefixedMacs <- MacNames
    Rank <- MacFirst
    Enabled <- ThreeCollectors
    Answers <- ThreeAnswers
    Flows <- SomeFlows
    ShortHost <- FirstLabel
    Window = 1
    Staleness = 0
    LogWindow = 1
    Retention = 2
    MaxClock = 3
    MaxPasses = 2
INVARIANTS TypeOK FusionIsComponents SubgraphClosed FirewallsAccounted LocateIsCurrent
CHECK_DEADLOCK FALSE
