SPECIFICATION FairSpec
CONSTANTS
    j1 = j1  j2 = j2  pa = pa
    Enabled <- DefaultCollectors
    JunosDevices <- TwoJunos
    PanosDevice = pa
    Policies <- SomePolicies
    Objects <- SomeObjects
    MaxEdits = 2
    MaxFailures = 2
INVARIANTS
    TypeOK
    HistoriesHoldChanges
    HistoryAgreesWithEntities
    BooksWhole
PROPERTY CatchesUp
