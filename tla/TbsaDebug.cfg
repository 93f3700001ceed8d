SPECIFICATION FairSpec
CONSTANTS
    Suite <- AllTests
    Memories <- Targets
    Restricts = {FALSE, TRUE}
    Lone = {FALSE, TRUE}
INVARIANTS
    DebuggerIsUsed
PROPERTIES
    Concludes
