\* Eleven objects, and two changes by other sessions.
SPECIFICATION MCSpec
CONSTANTS
    Universe <- Objects
    Connected <- D
    TypedNames <- Spelt
    SystemSchemas <- System
    Terms <- Wildcards
    MaxChanges = 2
INVARIANTS
    TypeOK
    TreeShowsTheServer
    SearchIsHonest
