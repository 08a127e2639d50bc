\* An exchange and updates of the gas price and of the token price under
\* the network's CAIP-2 identifier; the token price rises by a ninth, which
\* is within the tolerance, and later the gas price doubles.
CONSTANTS
    x1 = x1
    u1 = u1
    u2 = u2
    alias = alias
    caip = caip
    gasKey = gasKey
    Exchanges = {x1}
    Updaters = {u1, u2}
    UpdaterKey <- MCUpdaterKey
    Names = {alias, caip}
    Alias = alias
    GasKey = gasKey
    TTL <- MCTTL
    Latency = 1
    MaxTime = 4
    Gas <- MCGas
    Token <- MCToken
    StaticGas = 3
    StaticToken = 10
    MinFee = 1
    Nothing = Nothing
    Whole = 10
    Tolerance = 1
SPECIFICATION QuoteSpec
CHECK_DEADLOCK FALSE
INVARIANTS
    PricesFresh
    QuoteHonoured
    FeeCovers
