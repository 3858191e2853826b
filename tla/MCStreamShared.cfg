SPECIFICATION Spec
CONSTANTS
    Clients = {p1, p2}
    MaxSeq = 2
    Cap = 2
    SnapTail = 1
    MaxPayload = 2
    MaxConn = 1
    MaxDrops = 1
INVARIANT DeltaContinues
\* the stream ends and nothing is left to do
CHECK_DEADLOCK FALSE
