CONSTANTS
    MaxPid = 3
    Codes = {3}
    KillArgs <- KillTwo
    CloneKinds = {}
    MayFork = TRUE
    MayGroupExit = {}
    WaitArgs <- AnyChild
    StoresInOrder = TRUE
SPECIFICATION Spec
INVARIANT SignalStatusTruth
CHECK_DEADLOCK FALSE
