SPECIFICATION PresenceFairSpec
CONSTANTS
    Devices = {d1}
    Sids = {s1}
    Clients = {c1}
    MaxConns = 2
    MaxOpens = 2
    MaxBox = 2
    MaxRevoked = 1
    None = None
PROPERTIES
    OnlineIsShown
    GoneIsShown
CHECK_DEADLOCK FALSE
