\* Two requests at a time, three in all: a login is handed the session of another sign-in.
CONSTANTS
    c1 = c1
    c2 = c2
    k1 = k1
    Calls = {c1, c2}
    Codes = {k1}
    Scenarios <- SomeScenarios
    MaxAttempts = 2
    MaxRows = 4
    MaxStarts = 3
    MaxEvents = 1
    LoginOrigins <- SomeOrigins
SPECIFICATION Spec
SYMMETRY CallSymmetry
CHECK_DEADLOCK FALSE
INVARIANT LoginsOweTheirOwnFactors
