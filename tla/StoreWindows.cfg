\* Two windows over two keys, two writes each.
SPECIFICATION Spec
CONSTANTS
    w1 = w1
    w2 = w2
    k1 = k1
    k2 = k2
    Window = {w1, w2}
    Key = {k1, k2}
    Category <- OneCategory
    NoValue = NoValue
    NoWriter = NoWriter
    MaxWrites = 2
INVARIANTS SoleWriterKeepsAll WindowsAgree KeptUnlessRaced
CHECK_DEADLOCK FALSE
