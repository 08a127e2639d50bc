\* Two accounts in turn with a limit of two: three requests of one payer, two of them
\* the same payment, and one each of two others; all but one are refused by their jobs.
CONSTANTS
    r1 = r1
    r2 = r2
    r3 = r3
    r4 = r4
    r5 = r5
    alice = alice
    bob = bob
    carol = carol
    FundsAlice = 5
    FundsBob = 3
    FundsCarol = 0
    NoPayer = NoPayer
    NoRequest = NoRequest
    Requests = {r1, r2, r3, r4, r5}
    PayerOf <- MCPayerOf
    PaymentOf <- MCPaymentOf
    Acceptable = {r2}
    InitialFunds <- MCInitialFunds
    Strays <- NoStrays
    MaxElsewhere = 0
    MaxTime = 0
    NumAccounts = 2
    RoundRobin = TRUE
    DefaultMaxQueueDepth = 2
SPECIFICATION ServiceSpec
CHECK_DEADLOCK FALSE
INVARIANTS
    OneRequestPerPayer
    PendingPayersExact
    QueueWithinLimit
PROPERTIES
    AcceptedIsAnswered
