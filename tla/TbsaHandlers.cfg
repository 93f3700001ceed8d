SPECIFICATION FairSpec
CONSTANTS
    Suite <- Pool
    NullWorld = "s"
    Careless <- CarelessOfPool
    Overlooking <- OverlookingOfPool
    MaxFails = 1
    MaxRounds = 1
INVARIANTS
    TypeOK
    HandlerIsOwn
    LeavesAsFound
    StaleOnlyFromFailed
    FailureStands
PROPERTIES
    Reports
