\* Locks expire under their holders, storage fails silently, processes die.
CONSTANTS
    Requests = {r1, r2}
    Sessions = {s1}
    RefreshTtls <- OneLifetime
    LockTtls <- ShortLock
    ReuseDetection = TRUE
    StorageFaults = TRUE
    MaxRequest = 2
    MaxStart = 1
    MaxTime = 4
    MaxVersion = 2
    NoToken = NoToken
SPECIFICATION FairSpec
INVARIANTS
    SpentOnce
    MarkOutlivesToken
    RevokedBeforeLockYieldsNothing
PROPERTIES
    RequestsFinish
    AbandonedLockFrees
