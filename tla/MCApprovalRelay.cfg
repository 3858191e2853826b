SPECIFICATION FairSpec
CONSTANTS
    Keys = {k1}
    Hooked = {k1}
    Consoles = {c1}
    MaxJobs = 2
    MaxRaise = 2
    MaxAsks = 2
    MaxFaults = 1
INVARIANTS
    DecidedOnce
    RowsMatch
    AnswerIsRecorded
PROPERTIES
    ConsoleFollows
    RelayFollows
\* the faults may be used up with nothing left to ask
CHECK_DEADLOCK FALSE
