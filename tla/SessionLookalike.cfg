SPECIFICATION Spec
CONSTANTS
    MaxStatements = 2
    ProbeAnswers <- Uniform
PROPERTY ErrorsReachTheUser
CHECK_DEADLOCK FALSE
