\* Three windows on two process ids that end at any step, file system calls failing.
SPECIFICATION FairSpec
CONSTANTS
    Window = {w1, w2, w3}
    Pid = {1, 2}
    Lifetime = 2
    Budget = 1
    MayFail = TRUE
    NoRun = NoRun
    MaxTime = 2
    MaxRuns = 1
INVARIANTS OneRunUnlessRaced RefusedForAReason
PROPERTY LastWindowRuns
CHECK_DEADLOCK FALSE
