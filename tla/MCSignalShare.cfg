CONSTANTS
    t1 = t1
    t2 = t2
    t3 = t3
    Tasks = {t1, t2, t3}
    First = t1
    Tables = {h1, h2, h3, h4}
    Signals = {10}
    ActArgs <- ShareActs
    KillArgs <- ShareKills
    MaskArgs = {}
    CloneKinds = {"fork", "thread", "vm"}
    MaxImage = 2
    MaxFrames <- ShareRoom
    NoTable = NoTable
SPECIFICATION Spec
INVARIANTS RefsExact HandlerOfImage
CHECK_DEADLOCK FALSE
SYMMETRY Symmetry
