\* The curve is fine with the lower price; with the higher one a step costs up to two of
\* the smallest payments.  The rounds are the fewest that suffice for eight positions.
\* Payments go beyond what the rest of the curve costs, and the tokens can run out.
CONSTANTS
    Unit = 8
    PerUnit = 2
    Scale = 2
    K = 12
    Exp <- MCExp
    Left <- MCLeft
    StartPrices = {2, 4}
    Rounds = 4
    Admins = {a1, a2}
    Minted = 18
    Payments = {1, 2, 5}
    Lots = {3, 16}
    MaxCollected = 12
    NoPurchase = NoPurchase
SPECIFICATION Spec
CHECK_DEADLOCK FALSE
INVARIANTS
    RevenueCoversCurve
    SearchFindsBest
    QuoteLeavesNoGain
PROPERTIES
    PriceNeverFalls
