CONSTANTS
    Conns = {c1}
    Sessions = {s1}
    Execs = {e1, e2}
    Ids = {i1, i2}
    NoConn = NoConn
    NoExec = NoExec
    NoKey = NoKey
    MaxActive = 2
    MaxEarly = 1
    MaxPerConn = 1
    MaxTotal = 2
    Lease = 2
SPECIFICATION Spec
SYMMETRY Symmetry
CHECK_DEADLOCK FALSE
INVARIANTS
    QueryInv
    NoOrphan
    LockExact
PROPERTIES
    CancelKept
