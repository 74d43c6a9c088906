\* Three threads, two slots.  Three names: a dropped one's is used again.
SPECIFICATION SpecC
CONSTANTS
    Threads = {t1, t2, t3}
    Conns = {c1, c2, c3}
    MaxSize = 2
    NoConn = NoConn
SYMMETRY Symmetry
INVARIANTS
    TypeOKC
    IdleOutsideTransactions
    NoHoldAndWait
    OneDoomedAttemptEach
    RefusalsSurface
