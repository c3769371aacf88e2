SPECIFICATION FairSpec
CONSTANTS
    s1 = s1
    s2 = s2
    None = None
    Servers = {s1, s2}
    Script = script
    Earlier <- TwoCalls
    MaxRuns <- Runs
    MaxSegments <- SegmentsPerRun
    MaxTimeouts = 2
CHECK_DEADLOCK FALSE
INVARIANTS
    OneChainPerWriter
    DeletedRunsSeen
    VerdictIsTheWindow
PROPERTY SegmentsLand
