SPECIFICATION PartsSpec
CONSTANTS
    MaxEvents = 3
    Emitted <- MCEmitted
    MaxLog = 4
    MaxRuns = 2
    Limit <- MCLimit
    Amounts <- MCAmounts
CONSTRAINT WallBounded
INVARIANTS
    LogFirst
    NoneLostNoneTwice
    PriorityOrder
    FiredIffReached
    ToldOnceAscending
    OverrunBounded
PROPERTIES
    ImplementsQueue
CHECK_DEADLOCK FALSE
