SPECIFICATION Spec
CONSTANTS
    Reporters = {g1, g2}
    Signals = {"waiting"}
    Consoles = {c1}
    MaxChanges = 3
    MaxConns = 2
    MaxFaults = 1
PROPERTY ExitIsNeverUndone
CHECK_DEADLOCK FALSE
