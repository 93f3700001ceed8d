SPECIFICATION FairSpec
CONSTANTS
    Order <- GroupOrder
    Layouts <- SmallTargets
    Calls <- AllCalls
    MinorMod = 4
    InstMod = 4
INVARIANTS
    LookupExact
    Served
PROPERTIES
    Returns
