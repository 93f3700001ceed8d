SPECIFICATION Spec
CONSTANTS
    Tests <- OnlyData
    Verbose = {FALSE}
    Isolated = FALSE
    MaxFaults = 0
INVARIANTS OpenIsolationCaught
CHECK_DEADLOCK FALSE
