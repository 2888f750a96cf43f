\* Two requests at a time guess, reset and sign in.
CONSTANTS
    Calls = {c1, c2}
    Scenarios <- SomeScenarios
    MaxFailures = 2
    MaxTries = 2
    MaxRequests = 1
    MaxCodes = 3
    MaxEvents = 1
SPECIFICATION Spec
SYMMETRY CallSymmetry
CHECK_DEADLOCK FALSE
INVARIANTS
    TypeOK
    TriesAreCounted
    OneUseOfOneCode
    RowWritesStand
    OldPasswordsOpenNothing
    GuessesMeetTheLock
    CountersExpire
