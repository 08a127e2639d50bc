\* Two accounts in the pool of one network.
CONSTANTS
    eip1 = eip1
    eip2 = eip2
    eip3 = eip3
    alias1 = alias1
    alias2 = alias2
    alias3 = alias3
    call1 = call1
    call2 = call2
    NoFilter = NoFilter
    Networks = {eip1, eip2, eip3}
    NetworkNames = {eip1, eip2, eip3, alias1, alias2, alias3}
    CanonicalOf <- MCCanonicalOf
    Pools <- MCPools
    Calls = {call1}
    ClaimRequests <- OfOneNetwork
    NumAccounts = 2
    MinClaim = 2
    MaxFees = 3
SPECIFICATION ClaimSpec
INVARIANTS
    ReportedWasPaid
CHECK_DEADLOCK FALSE
