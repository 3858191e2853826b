SPECIFICATION Spec
CONSTANTS
    Hooks = {h1, h2}
    Lines = {l1, l2}
    Debounce = 2
    Suspicious = 2
    Fresh = 2
    Stale = 3
    MaxSignals = 2
    None = None
INVARIANTS
    NoPhantom
CHECK_DEADLOCK FALSE
