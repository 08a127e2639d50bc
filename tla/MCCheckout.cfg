\* One component: two executions of one payer, one of them waiting for the receipt,
\* each with an allowed hook or with one that is not, or requests of other programs in
\* their place, whose extensions agree with their requirements or do not; two prices.
CONSTANTS
    e1 = e1
    e2 = e2
    alice = alice
    transfer = transfer
    custom = custom
    Requests = {e1, e2}
    PayerOf <- MCPayerOf
    Hooks = {transfer, custom}
    NoHook = NoHook
    NoTerms = NoTerms
    OtherPosts <- MCOtherPosts
    AllowedHooks = {transfer}
    Waits = {e1}
    Fees = {4, 6}
    NoFee = NoFee
    NoExecution = NoExecution
    Whole = 10
    Tolerance = 1
SPECIFICATION CheckoutSpec
CHECK_DEADLOCK FALSE
INVARIANTS
    SafeToRepeat
    ShownIsTrue
    PaidAsRequired
    BooksReal
PROPERTIES
    SignedEnds
