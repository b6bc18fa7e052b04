CONSTANTS
    MaxPid = 2
    Codes = {3}
    KillArgs = {}
    CloneKinds = {}
    MayFork = TRUE
    MayGroupExit = {}
    WaitArgs <- AnyChild
    StoresInOrder = TRUE
SPECIFICATION FairSpec
PROPERTY NoSleepWithoutChild
CHECK_DEADLOCK FALSE
