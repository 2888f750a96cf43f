\* One request against a session and a key, every way the world can change around it.
CONSTANTS
    Requests = {r1}
    Sessions = {s1}
    Keys = {k1}
    AccessTtl = 2
    MaxLifetime = 1
    MaxTime = 3
    MaxChanges = 2
    NoCredential = NoCredential
SPECIFICATION FairSpec
INVARIANTS
    TypeOK
    DeadCredentialsAreRefused
    ProtectedNeedsOneCredential
    PublicRouteFailsOnlyUncaught
PROPERTIES
    UnchangedWhileChecked
    RequestsAreDecided
