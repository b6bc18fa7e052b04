CONSTANTS
    MaxPid = 3
    Codes = {3}
    KillArgs <- KillTwo
    CloneKinds = {"thread", "vm"}
    MayFork = TRUE
    MayGroupExit = {"main", "thread"}
    WaitArgs <- AnyChild
    StoresInOrder = FALSE
SPECIFICATION Spec
INVARIANTS ListExact NoLostChildWake 
CHECK_DEADLOCK FALSE
