SPECIFICATION Spec
CONSTANTS
    MaxStatements = 2
    ProbeAnswers <- Varying
INVARIANT ReadOnlyHolds
CHECK_DEADLOCK FALSE
