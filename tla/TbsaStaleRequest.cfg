SPECIFICATION Spec
CONSTANTS
    Tests <- Surviving
    LeftOver <- SomeCounts
    UnsetIds <- FirstId
    UnsetFlags <- NoFlags
    Flaky <- NoFlags
    MaxFaults = 0
    MaxResets = 0
INVARIANTS SecondRunIsOwn
CHECK_DEADLOCK FALSE
