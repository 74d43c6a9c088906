SPECIFICATION FairSpec
CONSTANTS
    MaxStatements = 3
    ProbeAnswers <- Uniform
INVARIANTS
    TypeOK
    ReadOnlyHolds
    AutoLeavesNothingOpen
PROPERTIES
    ManualGate
    ManualTransactionLasts
    AutoWritesLast
    OnlyCommitPoisons
    CancelStops
\* A session that is closed or refused has ended.
CHECK_DEADLOCK FALSE
