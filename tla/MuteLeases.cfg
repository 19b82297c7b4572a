\* Two processes, three runs that need one set in common, an admin, two troubles.
SPECIFICATION Spec
CONSTANTS
    r1 = r1
    r2 = r2
    r3 = r3
    p1 = p1
    p2 = p2
    m1 = m1
    s1 = s1
    s2 = s2
    Run = {r1, r2, r3}
    Process = {p1, p2}
    Machine = {m1}
    ProcessOf <- TwoProcesses
    MachineOf <- OneMachine
    Recycled = {p2}
    Set = {s1, s2}
    NeedsOf <- SharedSets
    NoLine = NoLine
    Nobody = Nobody
    Admin = Admin
    MaxTrouble = 2
INVARIANTS QuietWhileWriting NothingForgotten AdminsKept
CHECK_DEADLOCK FALSE
