\* Four borrowers for two slots, so that two can sleep at once.  No more than
\* four connections are ever open together, discarded ones included.
SPECIFICATION SpecW
CONSTANTS
    Threads = {t1, t2, t3, t4}
    Conns = {c1, c2, c3, c4}
    MaxSize = 2
    NoConn = NoConn
INVARIANTS
    TypeOK
    SlotAccounting
    Exclusive
    NoLeak
    ClosedIsFinal
    WakeupsAccounted
PROPERTIES
    ImplementsLending
    ClosedPoolDrains
