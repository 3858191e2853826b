SPECIFICATION FairSpec
CONSTANTS
    Keys = {k1}
    Hooked = {k1}
    Consoles = {c1}
    MaxJobs = 1
    MaxRaise = 1
    MaxAsks = 0
    MaxFaults = 1
PROPERTIES
    PendingIsReported
CHECK_DEADLOCK FALSE
