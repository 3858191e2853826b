SPECIFICATION Spec
CONSTANTS
    MaxGen = 2
    MaxLost = 0
    MaxRestarts = 0
    MaxFast = 0
INVARIANT NothingOutlivesClose
CHECK_DEADLOCK FALSE
