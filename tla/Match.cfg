CONSTANTS
    N = 3
    MatchType = "1v1v1"
    StartTarget = 3
    Deals <- MCDeals3
    MaxGames = 4
SPECIFICATION Spec
CHECK_DEADLOCK FALSE
INVARIANTS
    StillContested
    GoneFromTheGame
    NothingIsMadeUp
PROPERTIES
    QuittersNeverGain
    BegunGameIsLed
