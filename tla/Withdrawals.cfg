CONSTANTS
    Ids = {1, 2}
    Users = {"ana", "ben"}
    Owners <- MCOwners
    AmountOf <- MCAmountOf
    DestOf <- MCDestOf
    Purse = 6
    Deployments <- MCDeployments
    MaxFaults = 2
SPECIFICATION Spec
INVARIANTS
    PaidOnce
    RejectedIsRefunded
    CapsHold
PROPERTIES FailedComesBack
CHECK_DEADLOCK FALSE
