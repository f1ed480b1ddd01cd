CONSTANTS
    Screens <- AllScreens
    Keys = {k1, k2}
    NoKey = NoKey
    MaxReads = 3
    MaxSubmits = 2
SPECIFICATION Spec
INVARIANTS
    TypeOK
    ShownFollowsSelection
    StaleRowsAreMarked
    OwnWriteShown
    OneSubmitAtATime
PROPERTIES
    ClosesItsOwnDialog
    ToldTheTruth
    NothingHangs
CHECK_DEADLOCK FALSE
