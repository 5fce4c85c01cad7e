CONSTANTS
    Conns = {c1}
    Sessions = {s1, s2}
    Execs = {e1}
    Ids = {i1}
    NoConn = NoConn
    NoExec = NoExec
    NoKey = NoKey
    MaxActive = 1
    MaxEarly = 1
    MaxPerConn = 1
    MaxTotal = 2
    Lease = 1
SPECIFICATION FairSpec
CHECK_DEADLOCK FALSE
INVARIANTS
    NoSessionAfterSweep
    Quotas
PROPERTIES
    DisconnectQuiesces
    LeaseReclaimed
