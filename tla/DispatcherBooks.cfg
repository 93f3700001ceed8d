SPECIFICATION FairSpec
CONSTANTS
    NumTests = 6
    Checks <- AllKinds
    Unsupported = {1}
    LeftOver <- SomeCounts
    MaxFaults = 1
    MaxResets = 2
INVARIANTS TypeOK NvDescribesPrefix ReportComplete HangsAreWatched IInv
PROPERTIES BooksChangeOnlyWhileDisarmed ImplementsSuite EventuallyReports
CHECK_DEADLOCK FALSE
