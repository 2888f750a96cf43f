\* Two logins of a user who has more sessions than the limit, one of them on the login's device.
CONSTANTS
    d1 = d1
    Logins = {l1, l2}
    Devices = {d1}
    NoDevice = NoDevice
    MaxConcurrent = 2
    Before <- ThreeOld
    MaxTouches = 1
    MaxDisables = 1
    Nobody = Nobody
SPECIFICATION Spec
SYMMETRY LoginSymmetry
CHECK_DEADLOCK FALSE
INVARIANTS
    TypeOK
    OnlyEarlierSignInsSurviveDisabling
PROPERTIES
    SoloLoginRestoresLimit
    SoloLoginReplacesDevice
    EvictsLeastRecentlyActive
