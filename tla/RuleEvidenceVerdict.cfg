SPECIFICATION Spec
CONSTANTS
    r1 = r1  r2 = r2
    Rules = {r1, r2}
    HourTicks = 1
    RollupHours = 2
    MaxAge = 1
    Span = 3
    MaxClock = 3
    MaxMatches = 2
    MaxPasses = 2
    MaxCollections = 1
    MaxResets = 1
    MaxQuestions = 1
SYMMETRY Alike
CHECK_DEADLOCK FALSE
INVARIANTS
    UnusedBackedByLog
    UnusedBackedByCounter
