SPECIFICATION FairValidatorSpec
CONSTANTS
    Calls = {r1, r2, r3}
    Exp = 9
    TTL = 3
    Timeout = 2
    LastInstant = 11
INVARIANTS
    AdmissionJustified
PROPERTIES
    Decided
