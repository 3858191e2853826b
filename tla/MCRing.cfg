SPECIFICATION RingSpec
CONSTANTS
    Cap = 5
    Lens <- MCLens
    MaxSeq = 40
INVARIANTS
    HoldsTail
    DeltaExact
    TailExact
PROPERTY
    Implements
CHECK_DEADLOCK FALSE
