CONSTANTS
    t1 = t1
    t2 = t2
    close = close
    m1 = m1
    m2 = m2
    up = up
    f1 = f1
    f2 = f2
    Ops = {t1, t2, close, m1, m2, f1}
    Kind <- AllKinds
    Mixes <- TerminalsOrMonitors
    Disconnectors = {d1, d2}
    NoOne = NoOne
    Heads = {"desktop"}
    MaxConns = 2
SPECIFICATION Spec
CHECK_DEADLOCK FALSE
INVARIANTS
    SshInv
