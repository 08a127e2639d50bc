\* Two payers, two facilitators, a token that delivers in full and one that withholds
\* a unit of every transfer; cancellations, direct transfers, donations, an operator
\* and claims over sets of tokens.
CONSTANTS
    router = router
    alice = alice
    bob = bob
    fac1 = fac1
    fac2 = fac2
    shop = shop
    hook = hook
    op = op
    usdc = usdc
    skim = skim
    n1 = n1
    n2 = n2
    n3 = n3
    n4 = n4
    n5 = n5
    NoHook = NoHook
    NoAccount = NoAccount
    PaymentIds = {1, 2, 3, 4, 5}
    SignedIds = {1, 2, 3, 5}
    CancellableIds = {1}
    ElsewhereIds = {1}
    PartIds = {2}
    Accounts <- MCAccounts
    Tokens = {usdc, skim}
    Nonces <- MCNonces
    Authorizations <- MCAuthorizations
    Cancellable <- MCCancellable
    InitialBalance <- MCInitialBalance
    Shortfall <- MCShortfall
    MaxTime = 1
    Router = router
    Facilitators = {fac1, fac2}
    Operators = {op}
    Recipients = {fac2}
    Donors = {op}
    MaxDonation = 1
    Merchants = {shop, hook}
    Payments <- MCPayments
    Commitment <- MCCommitment
SPECIFICATION Spec
INVARIANTS
    Solvency
    SettledMeansPaid
    ShortByRevivedOnly
PROPERTIES
    PayersChargedAsSigned
    FeesAsCommitted
    ClaimsPaidInFull
    ImplementsEscrow
