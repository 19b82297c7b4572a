\* Two windows that open, close, look and are told late of each other's plan; the
\* schedule is switched once, or the file of one claim may not be made.
SPECIFICATION FairScheduleSpec
CONSTANTS
    Window = {w1, w2}
    Due = {1, 2}
    LateAfter = 1
    Limit = 1
    NoPlan = NoPlan
    MaxTime = 2
    MaxRuns = 1
    MaxOpen = 1
    MaxTrouble = 1
INVARIANT SettledOnce
PROPERTY DueIsSettled
CHECK_DEADLOCK FALSE
