SPECIFICATION FairSpec
CONSTANTS
    Reporters = {g1}
    Signals = {"waiting"}
    Consoles = {c1}
    MaxChanges = 3
    MaxConns = 2
    MaxFaults = 1
PROPERTIES
    RelayShowsState
    CardsAgree
    ExitStands
CHECK_DEADLOCK FALSE
