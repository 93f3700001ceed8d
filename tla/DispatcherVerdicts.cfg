SPECIFICATION Spec
CONSTANTS
    NumTests = 5
    Checks <- Faulting
    Unsupported = {}
    LeftOver <- SomeCounts
    MaxFaults = 0
    MaxResets = 0
INVARIANTS VerdictJust
PROPERTIES ImplementsStraightSuite
CHECK_DEADLOCK FALSE
