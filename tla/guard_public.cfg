\* A public route is called with a key, and with or without an access token.
CONSTANTS
    Requests = {r1}
    Sessions = {s1}
    Keys = {k1}
    AccessTtl = 2
    MaxLifetime = 1
    MaxTime = 3
    MaxChanges = 2
    NoCredential = NoCredential
SPECIFICATION Spec
INVARIANT KeyIdentifiesOrIsIgnored
