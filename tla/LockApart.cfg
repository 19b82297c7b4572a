\* Three processes of two machines; nobody is gone yet, file system calls fail.
SPECIFICATION Spec
CONSTANTS
    p1 = p1
    p2 = p2
    p3 = p3
    p4 = p4
    h1 = h1
    h2 = h2
    Proc = {p1, p2, p3}
    Host = {h1, h2}
    HostOf <- TwoHosts
    Pid = {1, 2}
    Quiet = 1
    Leeway = 0
    MayFail = TRUE
    NoLock = NoLock
    MaxRunning = 3
    MaxTime = 0
    MaxTakes = 2
INVARIANTS ExclusiveWhileNobodyGone HolderNamesWorker
PROPERTY ImplementsExclusiveLock
CHECK_DEADLOCK FALSE
