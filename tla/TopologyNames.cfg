SPECIFICATION Spec
CONSTANTS
    Macs <- MacNames
    PrefixedMacs <- MacNames
    Rank <- MacFirst
    Enabled <- FourCollectors
    Answers <- FourAnswers
    Flows <- SomeFlows
    ShortHost <- FirstLabel
    Window = 1
    Staleness = 0
    LogWindow = 1
    Retention = 2
    MaxClock = 3
    MaxPasses = 2
INVARIANT FoundByName
CHECK_DEADLOCK FALSE
