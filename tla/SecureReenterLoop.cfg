SPECIFICATION FairSpec
CONSTANTS
    NumTests = 1
    Checks <- OneI084
    Unsupported = {}
    LeftOver <- SomeCounts
    MaxFaults = 0
    MaxResets = 0
PROPERTY EventuallyReports
CHECK_DEADLOCK FALSE
