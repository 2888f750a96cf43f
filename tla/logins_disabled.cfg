\* An account is disabled while its user logs in.
CONSTANTS
    d1 = d1
    Logins = {l1, l2}
    Devices = {d1}
    NoDevice = NoDevice
    MaxConcurrent = 2
    Before <- ThreeOld
    MaxTouches = 1
    MaxDisables = 1
    Nobody = Nobody
SPECIFICATION Spec
CHECK_DEADLOCK FALSE
INVARIANT DisabledUserIsSignedOut
