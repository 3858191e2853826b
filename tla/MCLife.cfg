SPECIFICATION FairSpec
CONSTANTS
    MaxGen = 3
    MaxLost = 2
    MaxRestarts = 1
    MaxFast = 1
INVARIANTS
    OneShell
    AliveIsBacked
    RunningIsAlive
PROPERTIES
    KillResumeEnds
    ExitIsNoticed
\* a closed session, or one whose shell ended, stays as it is
CHECK_DEADLOCK FALSE
