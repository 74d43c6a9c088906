SPECIFICATION Spec
CONSTANTS
    MaxStatements = 2
    ProbeAnswers <- Uniform
PROPERTY CancelOnlyWhileRunning
CHECK_DEADLOCK FALSE
