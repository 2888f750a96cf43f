\* Two requests at a time, four in all, against sessions with two attempts.
CONSTANTS
    c1 = c1
    c2 = c2
    k1 = k1
    Calls = {c1, c2}
    Codes = {k1}
    Scenarios <- SomeScenarios
    MaxAttempts = 2
    MaxRows = 4
    MaxStarts = 4
    MaxEvents = 1
    LoginOrigins <- SomeOrigins
SPECIFICATION Spec
SYMMETRY CallSymmetry
CHECK_DEADLOCK FALSE
INVARIANTS
    TypeOK
    EveryFactorProven
    LateAnswersGetNothing
    OneOpenSessionUnlessRaced
    
    BackupCodesAreSingleUse
