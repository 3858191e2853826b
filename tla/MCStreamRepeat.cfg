SPECIFICATION Spec
CONSTANTS
    Clients = {p1}
    MaxSeq = 2
    Cap = 2
    SnapTail = 2
    MaxPayload = 2
    MaxConn = 1
    MaxDrops = 0
INVARIANT OutputNeverRepeats
CHECK_DEADLOCK FALSE
