SPECIFICATION Spec
CONSTANTS
    Suite <- OnlyD004
    Memories <- OneRegion
    Restricts = {FALSE}
    Lone = {FALSE}
INVARIANTS
    LockedCaught
