CONSTANTS
    Deck <- MCDeck
    MaxOffer = 6
    N = 4
    MatchType = "2v2"
    StartTarget = 7
    Deals <- MCDeals4
    MaxGames = 3
    BotSeats = {{}, {1, 2}}
    Strikes = 2
    MaxHands = 1
    MaxAsks = 2
    Queuers = {"ana", "ben", "cen"}
    Rating <- MCRating
    Needed <- MCNeeded
    Tolerance = 1
    Jobs = {"j1", "j2", "j3", "j4"}
    PoolSize = 2
    MaxRespawns = 1
SPECIFICATION RealtimeSpec
CHECK_DEADLOCK FALSE
INVARIANTS RunsAreConsecutive NobodyHoldsTheTable TeamsAreContested
PROPERTIES TrickEscalates EverythingMovesOn
