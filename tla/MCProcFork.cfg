CONSTANTS
    MaxPid = 3
    Codes = {259}
    KillArgs = {}
    CloneKinds = {}
    MayFork = TRUE
    MayGroupExit = {"main"}
    WaitArgs <- SomeWaits
    StoresInOrder = TRUE
SPECIFICATION FairSpec
INVARIANTS TypeOK ListExact NoLostChildWake VforkExclusion StatusTruth  NoOrphan
PROPERTIES SleeperWoken ExitingFreed
CHECK_DEADLOCK FALSE
