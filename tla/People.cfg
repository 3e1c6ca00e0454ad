CONSTANTS
    Calls = {c1, c2}
    MaxFailures = 1
    States = {"active", "suspended"}
    MaxRows = 3
    MaxEras = 1
    MaxFaultsA = 1
    XpClaims = {"daily", "challenge"}
    MaxFaultsR = 1
    Owner = "own"
    Rosters <- MCRosters
    Scopes = {"manage_admins", "adjust_balance", "view_revenue"}
    Amounts <- MCAmounts
    Deposits = {"t"}
    Staged = {"k"}
    CallCap = 2
    DayCap = 3
    MaxBlind = 1
    Users = {c1, c2}
    MaxSeeds = 3
    MaxIds = 2
    Stake = 1
    LossLimit = 1
    Days = {1, 2}
    MaxDay = 2
    MaxLoss = 3
    Results <- MCResults
    Window = 3
    PairThreshold = 2
    DumpThreshold = 2
    MaxMatches = 4
    MaxBusy = 2
    MaxLost = 1
    Tickets = {"t1"}
    Texts = {"x"}
    Loads = {1}
    MaxPrompts = 2
    Messages = {1, 2}
    Keys = {1, 2}
    MaxPosts = 2
SYMMETRY Perms
SPECIFICATION PeopleSpec
CHECK_DEADLOCK FALSE
INVARIANTS
    SessionsAreSound
    RewardsAreExact
    AdminsAreBounded
    PlayIsFair
    DesksAreSound
