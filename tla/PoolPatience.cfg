SPECIFICATION FairSpec
CONSTANTS
    Threads = {t1, t2, t3}
    Conns = {c1, c2, c3, c4}
    MaxSize = 1
    NoConn = NoConn
PROPERTY WaitingEnds
