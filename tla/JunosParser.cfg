SPECIFICATION ParserSpec
CONSTANTS
    PolicyLines <- SomePolicyLines
    HitRows <- SomeHitRows
    AddressLines <- SomeAddressLines
    ApplicationLines <- SomeApplicationLines
    MaxLines = 5
CHECK_DEADLOCK FALSE
INVARIANTS
    NoSilentWildcard
    CountsUnambiguous
    UnknownApplicationsStay
