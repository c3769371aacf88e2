SPECIFICATION Spec
CONSTANTS
    j1 = j1  j2 = j2  pa = pa
    Enabled <- DefaultCollectors
    JunosDevices <- TwoJunos
    PanosDevice = pa
    Policies <- SomePolicies
    Objects <- SomeObjects
    MaxEdits = 2
    MaxFailures = 1
PROPERTY CollectedAreWritten
