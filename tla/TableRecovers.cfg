CONSTANTS
    Users = {ana, ben, cen}
    NoUser = NoUser
    N = 3
    MaxMatches = 1
    MaxFaults = 1
SPECIFICATION FairSpec
INVARIANTS NobodyIsStranded
PROPERTIES PotsAreReleased
CHECK_DEADLOCK FALSE
