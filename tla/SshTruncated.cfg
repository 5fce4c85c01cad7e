CONSTANTS
    t1 = t1
    t2 = t2
    close = close
    m1 = m1
    m2 = m2
    up = up
    f1 = f1
    f2 = f2
    Ops = {up, t1}
    Kind <- AllKinds
    Mixes <- TransferAndTerminal
    Disconnectors = {d1}
    NoOne = NoOne
    Heads = {"desktop"}
    MaxConns = 2
SPECIFICATION Spec
CHECK_DEADLOCK FALSE
PROPERTIES
    CompleteOnConnection
