\* Two windows, three syncs and room for two in the queue; windows open, close and crash.
SPECIFICATION FairSpec
CONSTANTS
    Window = {w1, w2}
    Op = {o1, o2, o3}
    maxQueueSize = 2
    MaxOpens = 2
INVARIANTS NeverParked KeptUntilReplayed ReplayedOnceInOrder
PROPERTY DrainedOnceBack
CHECK_DEADLOCK FALSE
