CONSTANTS
    N = 4
    Deals <- MCDeals4
    MaxCandidates = 2
    Openings = {"none", "lowest"}
SPECIFICATION FairSpec
CHECK_DEADLOCK FALSE
INVARIANTS
    TurnIsOwed
    QuittersFinishLast
PROPERTIES
    NobodySkipped
    TrickIsContested
    KeepsPromise
    GameEnds
    BotsAreSound
