\* A payment, its retry and a second payment of the same payer, two accounts; the payer
\* spends elsewhere, and uses the authorization it retries.
CONSTANTS
    r1 = r1
    r2 = r2
    r3 = r3
    r4 = r4
    r5 = r5
    alice = alice
    bob = bob
    carol = carol
    FundsAlice = 4
    FundsBob = 0
    FundsCarol = 0
    NoPayer = NoPayer
    NoRequest = NoRequest
    Requests = {r1, r2, r3}
    PayerOf <- MCPayerOf
    PaymentOf <- MCPaymentOf
    Acceptable = {r1, r2, r3}
    InitialFunds <- MCInitialFunds
    Strays <- MCStrays
    MaxElsewhere = 3
    MaxTime = 1
    NumAccounts = 2
    RoundRobin = FALSE
    DefaultMaxQueueDepth = 2
SPECIFICATION ServiceSpec
CHECK_DEADLOCK FALSE
INVARIANTS
    ResponsesTrue
    ChargedOncePerPayment
    FundsStayChecked
PROPERTIES
    ImplementsOutcome
