SPECIFICATION FairSpec
CONSTANTS
    Clients = {p1}
    MaxSeq = 3
    Cap = 2
    SnapTail = 2
    MaxPayload = 1
    MaxConn = 2
    MaxDrops = 1
INVARIANTS
    TypeOK
    OutputNeverSkips
PROPERTIES
    EventuallyCaughtUp
\* the stream ends and nothing is left to do
CHECK_DEADLOCK FALSE
