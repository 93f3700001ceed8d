SPECIFICATION FairSpec
CONSTANTS
    Tests <- Lists
INVARIANTS TypeOK NeverStillBusy OneAtATime SuccessEarned UndisturbedPasses ForsakenOnlyWhenDisturbed
PROPERTIES Ends
CHECK_DEADLOCK FALSE
