CONSTANTS
    Users = {ana, ben, cen}
    NoUser = NoUser
    N = 2
    MaxMatches = 2
    MaxFaults = 0
SYMMETRY Perms
SPECIFICATION Spec
INVARIANTS PlayersAreCharged LiveMatchKeepsItsPot WonMatchIsPaid
CHECK_DEADLOCK FALSE
