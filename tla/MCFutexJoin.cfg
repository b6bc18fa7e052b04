CONSTANTS
    e1 = e1
    e2 = e2
    e3 = e3
    Joiner = j
    Exiters = {e1, e2, e3}
    Threads = {j, e1, e2, e3}
    TidAddr <- TidAddrs
    Tid = 1
    Timed = FALSE
    Slots = {s1}
    Addrs = {4, 8, 12}
    FUTEX_HASH_SIZE = 2
    Vals = {0, 1}
    Bits = {b1}
    Counts = {1}
    RequeuePairs = {}
    NULL = NULL
SPECIFICATION JoinSpec
PROPERTY JoinReturns
CHECK_DEADLOCK FALSE
