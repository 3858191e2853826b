SPECIFICATION FairSpec
CONSTANTS
    Keys = {k1, k2}
    Calls = {c1, c2}
    Closers = {x1}
    None = None
    MaxDecides = 2
INVARIANTS
    PendingIsAttended
    VerdictIsDecision
    SoleWaiterIsWoken
PROPERTIES
    PendingIsSettled
    FirstAnswerStands
\* every call may be over and nothing left to close
CHECK_DEADLOCK FALSE
