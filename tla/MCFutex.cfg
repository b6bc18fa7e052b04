CONSTANTS
    Threads = {t1, t2, t3}
    Slots = {s1, s2, s3}
    Addrs = {4, 12}
    FUTEX_HASH_SIZE = 2
    Vals = {0, 1}
    Bits = {b1}
    Counts = {1, 2}
    RequeuePairs <- SameChainPairs
    NULL = NULL
SPECIFICATION Spec
SYMMETRY Symmetry
INVARIANTS TypeOK SleeperLinked 
PROPERTY WakeAllReachesAll
