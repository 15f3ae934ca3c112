SPECIFICATION FairSpec
CONSTANTS
    v1 = v1
    v2 = v2
    Vaults = {v1, v2}
    Recipients = {"package"}
    ExecPrice = 1
    ExecTip = 1
    FinPrice = 1
    FinTip = 1
    StoragePrice <- Prices
    ExecLoan = 2
    ExecLimit = 5
    FinLimit = 1
    FreeCredits = {0, 5}
    MaxUnits = 2
    MaxSize = 1
    Deferred = {0, 3}
    Contents = {9}
    Amounts = {3, 9}
INVARIANTS
    ReserveBalanced
    ResultIsPaid
    RorkConserved
    FailureCostsOnlyFees
PROPERTIES
    Terminates
CHECK_DEADLOCK FALSE
