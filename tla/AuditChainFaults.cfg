SPECIFICATION Spec
CONSTANTS
    t1 = t1  t2 = t2  t3 = t3  b1 = b1  b2 = b2
    Threads = {t1, t2}
    Bodies = {b1}
    LegacyRows <- OneLegacy
    Seeding = {TRUE, FALSE}
    MaxClock = 2
    MaxCalls = 4
    MaxRaises = 2
    MaxCrashes = 2
CHECK_DEADLOCK FALSE
SYMMETRY ThreadSymmetry
INVARIANTS
    UntamperedVerifiesClean
    DeletionsDetected
    EditsDetected
    ForksAccounted
PROPERTY ImplementsLog
