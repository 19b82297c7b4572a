\* Two processes of one machine and the lock a third one left, young.
SPECIFICATION FairSpec
CONSTANTS
    p1 = p1
    p2 = p2
    p3 = p3
    p4 = p4
    h1 = h1
    h2 = h2
    Proc = {p1, p2, p3}
    Host = {h1}
    HostOf <- OneHost
    Pid = {1, 2}
    Quiet = 2
    Leeway = 0
    MayFail = FALSE
    NoLock = NoLock
    MaxRunning = 2
    MaxTime = 1
    MaxTakes = 1
INVARIANTS TwoStayApart LockFileHasWorkWhileNobodyGone
PROPERTIES CallsReturn LastOneTakesOver
CHECK_DEADLOCK FALSE
