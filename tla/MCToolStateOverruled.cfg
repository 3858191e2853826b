SPECIFICATION Spec
CONSTANTS
    Hooks = {h1}
    Lines = {l1}
    Debounce = 2
    Suspicious = 2
    Fresh = 2
    Stale = 4
    MaxSignals = 1
    None = None
PROPERTIES
    SignalsComeFirst
CHECK_DEADLOCK FALSE
