\* Ordinary payments, one of which its payer cancels before it is settled.
CONSTANTS
    router = router
    alice = alice
    bob = bob
    fac1 = fac1
    fac2 = fac2
    shop = shop
    hook = hook
    op = op
    usdc = usdc
    skim = skim
    n1 = n1
    n2 = n2
    n3 = n3
    n4 = n4
    n5 = n5
    NoHook = NoHook
    NoAccount = NoAccount
    PaymentIds = {1, 2, 3}
    SignedIds = {1, 2, 3}
    CancellableIds = {1}
    ElsewhereIds = {}
    PartIds = {}
    Accounts <- MCAccounts
    Tokens = {usdc}
    Nonces <- MCNonces
    Authorizations <- MCAuthorizations
    Cancellable <- MCCancellable
    InitialBalance <- MCInitialBalance
    Shortfall <- MCShortfall
    MaxTime = 2
    Router = router
    Facilitators = {fac1, fac2}
    Operators = {op}
    Recipients = {fac2, router}
    Donors = {}
    MaxDonation = 1
    Merchants = {shop, hook}
    Payments <- MCPayments
    Commitment <- MCCommitment
SPECIFICATION Spec
INVARIANTS
    PendingFeesConsistency
