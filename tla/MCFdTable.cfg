CONSTANTS
    Tasks = {t1, t2}
    Tables = {h1, h2}
    MAX_FDS = 2
    Std = 1
    MaxHost = 3
    Objects = {o1}
    OpenTypes = {"FILE"}
    PairTypes = {"SOCKET"}
    EventTypes = {"EVENT"}
    MinArgs = {0}
    CloexecArgs = {TRUE}
    NoTable = NoTable
    NoObject = NoObject
SPECIFICATION Spec
INVARIANTS TypeOK OneOwner ObjectOnce NoLeak KindAgrees Settled CountExact
CONSTRAINT Unraced
SYMMETRY Symmetry
CHECK_DEADLOCK FALSE
