SPECIFICATION FairSpec
CONSTANTS
    Tests <- Mixed
    LeftOver <- SomeCounts
    UnsetIds <- FirstId
    UnsetFlags <- NoFlags
    Flaky <- Handled
    MaxFaults = 1
    MaxResets = 2
INVARIANTS TypeOK SecondRunIsOwn ReportComplete
PROPERTIES ImplementsSuite ProvokedResetsResume Ends
CHECK_DEADLOCK FALSE
