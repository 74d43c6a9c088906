SPECIFICATION SpecC
CONSTANTS
    Threads = {t1, t2}
    Conns = {c1, c2}
    MaxSize = 1
    NoConn = NoConn
INVARIANT NothingInherited
