SPECIFICATION Spec
CONSTANTS
    Keys = {k1}
    Calls = {c1, c2}
    Closers = {x1}
    None = None
    MaxDecides = 1
INVARIANT NoPhantom
CHECK_DEADLOCK FALSE
