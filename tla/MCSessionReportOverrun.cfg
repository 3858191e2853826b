SPECIFICATION Spec
CONSTANTS
    Reporters = {g1}
    Signals = {"waiting"}
    Consoles = {c1}
    MaxChanges = 4
    MaxConns = 1
    MaxFaults = 1
PROPERTY ExitStands
CHECK_DEADLOCK FALSE
