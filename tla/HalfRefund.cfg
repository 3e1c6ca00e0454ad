CONSTANTS
    Payers = {"ana", "ben"}
    Txs = {"t1"}
    Intents = {"i1"}
    PayerOf <- MCPayerOf
    CentsOf <- MCCentsOf
    MinDeposit = 2
    Limits = {0, 4}
    TransferCap = 3
    Gift = 3
    OpeningCents = 0
    MaxTroubles = 1
    Settings <- MCSettings
    Admins = {"x", "y"}
    Size = 2
    Stakes = {0, 5}
    RakeBps = 1000
    MaxTroublesW = 2
SPECIFICATION PoolsSpec
CHECK_DEADLOCK FALSE
INVARIANTS HalfRefundIsSafe
