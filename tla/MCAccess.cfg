SPECIFICATION Spec
CONSTANTS
    Requests = {r1, r2, r3}
    Issuers = {w1}
    Addrs = {i1}
    Codes = {c1, x1}
    Malformed = {x1}
    LockoutAfter = 2
    LockoutFor = 2
    PairCodeTTL = 1
    PurgeAfter = 1
    MaxTime = 3
    MaxAsks = 3
    MaxIssues = 2
    None = None
SYMMETRY RequestSymmetry
INVARIANTS
    OneDevicePerCode
    RecentFailuresLock
PROPERTIES
    LockIsKept
