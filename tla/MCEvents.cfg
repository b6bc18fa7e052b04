SPECIFICATION Spec
CONSTANTS
    Tasks = {t1, t2}
    MAX_FDS = 3
    MaxHost = 3
    Objects = {1, 2}
    MAX_EPOLL_ENTRIES = 2
    CAP = 1
    InitVals = {1}
    EventSets <- MCEventSets
    MaxEvents = {1}
    Timeouts = {"infinite"}
    PollSets <- MCPollSets
    MaxCalls = 7
    NoTask = NoTask
 
PROPERTIES ReportsReady CallsReturn
CHECK_DEADLOCK FALSE
