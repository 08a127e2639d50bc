\* Two purchases of one payer through one client, the second possibly by another program,
\* with money for neither or (with the fee on top, as verification asks) both, and one
\* event outside the route.
CONSTANTS
    b1 = b1
    b2 = b2
    c = c
    alice = alice
    Requests = {b1, b2}
    ClientOf <- MCClientOf
    PayerOf <- MCPayerOf
    Price = 10
    Fees = {6}
    Balances = {6, 26}
    OtherProgram = {b2}
    OwnTerms <- MCOwnTerms
    MaxElsewhere = 1
    Timeout = 1
    MaxTime = 1
    NoFee = NoFee
    NoOffer = NoOffer
    Whole = 10
    Tolerance = 1
SPECIFICATION RouteSpec
CHECK_DEADLOCK FALSE
INVARIANTS
    ServedWasPaid
    ChargedAsOffered
    MixUpsFoundEarly
PROPERTIES
    VerifiedFailsForReason
