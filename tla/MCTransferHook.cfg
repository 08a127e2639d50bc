\* A whole of four basis points, so that every amount leaves remainders.
CONSTANTS
    router = router
    ann = ann
    ben = ben
    shop = shop
    NoAccount = NoAccount
    NoData = NoData
    Accounts <- MCAccounts
    Router = router
    WholeBips = 4
    MaxBips = 5
    Amounts = {0, 1, 3, 6}
    Calls <- MCCalls
SPECIFICATION Spec
CHECK_DEADLOCK FALSE
INVARIANTS
    DoneIffValid
    SharesAsPromised
