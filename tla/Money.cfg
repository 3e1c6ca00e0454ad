CONSTANTS
    Instances = {"p1"}
    Users = {"ana", "ben"}
    MatchIds = {1, 2}
    Rosters <- MCRosters
    Stakes = {0, 7}
    RakeBps = 1000
    Ceiling = 30
    Purse = 10
    Deposits <- MCDeposits
SPECIFICATION Spec
INVARIANTS
    Reconciled
    PotPaidOnce
    PaidOneWay
