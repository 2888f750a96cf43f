\* A used refresh token is presented to a session that is alive.
CONSTANTS
    Requests = {r1, r2}
    Sessions = {s1, s2}
    RefreshTtls <- OneLifetime
    LockTtls <- LongLock
    ReuseDetection = TRUE
    StorageFaults = FALSE
    MaxRequest = 1
    MaxStart = 2
    MaxTime = 3
    MaxVersion = 3
    NoToken = NoToken
SPECIFICATION Spec
INVARIANT ReuseInvalidatesSession
