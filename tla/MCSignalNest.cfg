CONSTANTS
    t1 = t1
    t2 = t2
    t3 = t3
    Tasks = {t1}
    First = t1
    Tables = {h1, h2}
    Signals = {9, 10, 12, 19}
    ActArgs <- NestActs
    KillArgs <- NestKills
    MaskArgs <- NestMasks
    CloneKinds = {}
    MaxImage = 2
    MaxFrames <- NestRoom
    NoTable = NoTable
SPECIFICATION FairSpec
INVARIANTS TypeOK Uncatchable NoReentry
PROPERTY KillEnds
CHECK_DEADLOCK FALSE
