SPECIFICATION Spec
CONSTANTS
    Clients = {p1, p2}
    MaxSeq = 2
    Cap = 2
    SnapTail = 2
    MaxPayload = 2
    MaxConn = 2
    MaxDrops = 0
INVARIANTS
    OutputNeverSkips
    PendingIsServed
\* the stream ends and nothing is left to do
CHECK_DEADLOCK FALSE
