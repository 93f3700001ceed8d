SPECIFICATION FairSpec
CONSTANTS
    Tests <- Every
    Verbose = {FALSE, TRUE}
    Isolated = TRUE
    MaxFaults = 2
INVARIANTS TypeOK FaultIsAnnounced PassMeansTried ConformingPasses NoStrayReply
PROPERTIES Judged
CHECK_DEADLOCK FALSE
