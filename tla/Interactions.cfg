SPECIFICATION MCSpec
CONSTANTS
    MaxStatements = 2
    ProbeAnswers <- Uniform
    Connected <- ConnectedName
    LargestTables = 1
    Universe <- Objects
    Hidden <- Routines
    Volatile <- Coming
    TypeOf <- Types
    TypedNames <- Spelt
    UserKinds = {"write"}
    MaxChanges = 1
    MaxMenus = 1
INVARIANTS
    TypeOKI
    ReportsMatchTheItem
PROPERTIES
    ActsOnTheItem
    UnaskedTakesOnlyTheUnseen
    AnnouncementsHold
    ReadOnlyDropsNothing
    ManualDropsWait
\* A session that is closed or refused has ended.
CHECK_DEADLOCK FALSE
