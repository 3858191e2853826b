SPECIFICATION FairSpec
CONSTANTS
    Devices = {d1, d2}
    Sids = {s1}
    Clients = {c1}
    MaxConns = 2
    MaxOpens = 2
    MaxBox = 1
    MaxRevoked = 1
    None = None
INVARIANTS
    SidOwned
    AttachmentsAgree
    ServedIsRegistered
    RevokedIsGone
PROPERTIES
    SessionsFollow
CHECK_DEADLOCK FALSE
