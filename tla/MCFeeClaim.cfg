\* One account.  Two calls claim the fees of two networks by their aliases, or of one that
\* they name twice, beside a network unknown to the pools, or of all.
CONSTANTS
    eip1 = eip1
    eip2 = eip2
    eip3 = eip3
    alias1 = alias1
    alias2 = alias2
    alias3 = alias3
    call1 = call1
    call2 = call2
    NoFilter = NoFilter
    Networks = {eip1, eip2, eip3}
    NetworkNames = {eip1, eip2, eip3, alias1, alias2, alias3}
    CanonicalOf <- MCCanonicalOf
    Pools <- MCPools
    Calls = {call1, call2}
    ClaimRequests <- ManyFees
    NumAccounts = 1
    MinClaim = 2
    MaxFees = 3
SPECIFICATION ClaimSpec
INVARIANTS
    SuccessMoved
    ClaimsWorthwhile
    ClaimedOnce
PROPERTIES
    CallsAnswered
\* All calls may have been answered and all fees earned.
CHECK_DEADLOCK FALSE
