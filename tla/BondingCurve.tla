---------------------------- MODULE BondingCurve ----------------------------
(***************************************************************************)
(* The token sale of contracts/x402x-mint/src/BondingCurveHook.sol, a hook *)
(* of the settlement router: a payment buys tokens along an exponential    *)
(* price curve.  The position on the curve is counted in Unit steps (the   *)
(* UD60x18 numbers between 0 and 1), each standing for PerUnit of the      *)
(* token's smallest units; Exp[x] is exp(k * x) as the fixed point library *)
(* computes it.                                                            *)
(*                                                                         *)
(* A purchase is one transaction: while its binary search runs, one round  *)
(* per step, nothing else happens.  Its token is the right one; a call     *)
(* with another token reverts.                                             *)
(***************************************************************************)
EXTENDS Integers

CONSTANTS
    Unit,          \* 1.0 of the fixed point numbers (UNIT)
    PerUnit,       \* TOTAL_SALE_SUPPLY / UNIT
    Scale,         \* 10 ** (X402X_DECIMALS - USDC_DECIMALS)
    K,             \* k, unwrapped
    Exp,           \* [0 .. Unit -> Nat]: exp(k * x), unwrapped
    StartPrices,   \* values of P0, unwrapped, that the constructor may be given
    Rounds,        \* rounds of the search
    Left,          \* Left[r]: bound on the positions that r rounds leave in the search
    Admins,
    Minted,        \* tokens in existence
    Payments,      \* amounts that are paid
    Lots,          \* amounts that the admin moves
    MaxCollected,  \* bound on the payments together
    NoPurchase

Total == Unit * PerUnit

\* A call of execute in its binary search (low, high, best, and the number of rounds done),
\* or with the position found.
Purchases ==
    [phase: {"search", "found"}, amount: Payments, target: Nat,
     low: 0 .. Unit, high: 0 .. Unit, best: 0 .. Unit, round: 0 .. Rounds]

ASSUME CurveAssumption ==
    /\ Unit \in Nat \ {0} /\ PerUnit \in Nat \ {0} /\ Scale \in Nat \ {0}
    /\ K \in Nat \ {0} /\ Rounds \in Nat
    /\ StartPrices \subseteq Nat \ {0}
    /\ Minted \in Nat /\ MaxCollected \in Nat
    /\ Payments \subseteq Nat \ {0} /\ Lots \subseteq Nat \ {0}
    /\ NoPurchase \notin Purchases

\* The exponential of the fixed point library is exact at 0 and does not decrease.
ASSUME ExpAssumption ==
    /\ Exp \in [0 .. Unit -> Nat]
    /\ Exp[0] = Unit
    /\ \A x, y \in 0 .. Unit : x < y => Exp[x] <= Exp[y]

\* Halving as often as there are rounds leaves nothing (80 rounds, 10 ** 18 + 1 positions).
ASSUME RoundsAssumption ==
    /\ Left \in [0 .. Rounds -> Nat]
    /\ Left[0] = Unit + 1 /\ Left[Rounds] = 0
    /\ \A r \in 0 .. Rounds - 1 : Left[r + 1] = Left[r] \div 2

VARIABLES
    P0,                  \* price at the start
    admin,
    tokensSold,
    totalUsdcCollected,
    stock,               \* tokens that the hook holds
    outside,             \* tokens that the administration holds
    usdc,                \* payment tokens that the hook holds
    purchase             \* the purchase under way, see Purchases, or NoPurchase

saleVars == <<tokensSold, totalUsdcCollected, stock, usdc>>
vars == <<P0, admin, saleVars, outside, purchase>>

TypeOK ==
    /\ P0 \in StartPrices
    /\ admin \in Admins
    /\ tokensSold \in 0 .. Total
    /\ totalUsdcCollected \in Nat
    /\ stock \in Nat
    /\ outside \in Nat
    /\ usdc \in Nat
    /\ purchase \in Purchases \cup {NoPurchase}

\* The constructor; all tokens are with the administration.
Init ==
    /\ P0 \in StartPrices
    /\ admin \in Admins
    /\ tokensSold = 0 /\ totalUsdcCollected = 0
    /\ stock = 0 /\ outside = Minted /\ usdc = 0
    /\ purchase = NoPurchase

-----------------------------------------------------------------------------
(* The curve *)

\* Position of the sale on the curve.
Position == (tokensSold * Unit) \div Total

\* Mutant: the quotient is rounded up.
TermRoundedUp(amount) == (K * (amount * Scale) * Unit) \div (P0 * Total) + 1

\* How far a payment moves the exponential.
Term(amount) == (K * (amount * Scale) * Unit) \div (P0 * Total)

\* Mutant: a sale that is over has no price.
CurrentPriceWhileSelling ==
    IF tokensSold >= Total THEN 0 ELSE ((P0 * Exp[Position]) \div Unit) \div Scale

\* getCurrentPrice: the library's mul divides by Unit.
CurrentPrice ==
    IF tokensSold = 0 THEN P0 \div Scale
    ELSE IF tokensSold >= Total THEN ((P0 * Exp[Unit]) \div Unit) \div Scale
         ELSE ((P0 * Exp[Position]) \div Unit) \div Scale

\* Mutant: the cost is rounded up.
UsdcForTokensRoundedUp(amount) ==
    LET s1 == IF tokensSold + amount > Total THEN Total ELSE tokensSold + amount
    IN  (P0 * (Exp[(s1 * Unit) \div Total] - Exp[Position]) * Total) \div (Unit * K * Scale) + 1

\* calculateUsdcForTokens: the cost of amount tokens from here on.
UsdcForTokens(amount) ==
    LET s1 == IF tokensSold + amount > Total THEN Total ELSE tokensSold + amount
        expDiff == Exp[(s1 * Unit) \div Total] - Exp[Position]
    IN  IF amount = 0 \/ tokensSold >= Total THEN 0
        ELSE (((P0 * expDiff * Total) \div Unit) \div K) \div Scale

-----------------------------------------------------------------------------
(* execute *)

\* The checks, and calculateTokensForUsdc up to the search.
BeginPurchase(amount) ==
    /\ purchase = NoPurchase
    /\ tokensSold < Total
    /\ totalUsdcCollected + amount <= MaxCollected
    /\ purchase' = [phase |-> "search", amount |-> amount,
                    target |-> Exp[Position] + Term(amount),
                    low |-> Position, high |-> Unit, best |-> Position, round |-> 0]
    /\ UNCHANGED <<P0, admin, saleVars, outside>>

Searching == purchase # NoPurchase /\ purchase.phase = "search"

Mid == (purchase.low + purchase.high) \div 2

\* Mutant: a position that costs just what was paid is taken for one too far.
AffordableStrictly == Exp[Mid] < purchase.target

Affordable == Exp[Mid] <= purchase.target

\* A round of the search whose middle is affordable.
ProbeUp ==
    /\ Searching /\ purchase.round < Rounds
    /\ Affordable
    /\ purchase' =
          IF Mid + 1 > purchase.high
          THEN [purchase EXCEPT !.round = @ + 1, !.best = Mid, !.phase = "found"]
          ELSE [purchase EXCEPT !.round = @ + 1, !.best = Mid, !.low = Mid + 1]
    /\ UNCHANGED <<P0, admin, saleVars, outside>>

\* A round whose middle is not.
ProbeDown ==
    /\ Searching /\ purchase.round < Rounds
    /\ ~ Affordable
    /\ purchase' =
          IF Mid = 0
          THEN [purchase EXCEPT !.round = @ + 1, !.phase = "found"]
          ELSE [purchase EXCEPT !.round = @ + 1, !.high = Mid - 1]
    /\ UNCHANGED <<P0, admin, saleVars, outside>>

\* The rounds are used up.
StopSearch ==
    /\ Searching /\ purchase.round = Rounds
    /\ purchase' = [purchase EXCEPT !.phase = "found"]
    /\ UNCHANGED <<P0, admin, saleVars, outside>>

Found == purchase # NoPurchase /\ purchase.phase = "found"

\* The tokens that the position found stands for.
TokensFound ==
    LET s1 == (purchase.best * Total) \div Unit
        remaining == Total - tokensSold
    IN  IF s1 <= tokensSold THEN 0
        ELSE IF s1 - tokensSold > remaining THEN remaining ELSE s1 - tokensSold

StockSuffices == TokensFound <= stock

\* The rest of execute.
Deliver ==
    /\ Found
    /\ StockSuffices
    /\ tokensSold' = tokensSold + TokensFound
    /\ totalUsdcCollected' = totalUsdcCollected + purchase.amount
    /\ usdc' = usdc + purchase.amount
    /\ stock' = stock - TokensFound
    /\ purchase' = NoPurchase
    /\ UNCHANGED <<P0, admin, outside>>

\* InsufficientTokens: the settlement reverts, and the payment with it.
Refuse ==
    /\ Found
    /\ ~ StockSuffices
    /\ purchase' = NoPurchase
    /\ UNCHANGED <<P0, admin, saleVars, outside>>

-----------------------------------------------------------------------------
(* Administration *)

DepositTokens(amount) ==
    /\ purchase = NoPurchase
    /\ amount <= outside
    /\ stock' = stock + amount
    /\ outside' = outside - amount
    /\ UNCHANGED <<P0, admin, tokensSold, totalUsdcCollected, usdc, purchase>>

WithdrawTokens(amount) ==
    /\ purchase = NoPurchase
    /\ amount <= stock
    /\ stock' = stock - amount
    /\ outside' = outside + amount
    /\ UNCHANGED <<P0, admin, tokensSold, totalUsdcCollected, usdc, purchase>>

WithdrawUsdc(amount) ==
    /\ purchase = NoPurchase
    /\ amount <= usdc
    /\ usdc' = usdc - amount
    /\ UNCHANGED <<P0, admin, tokensSold, totalUsdcCollected, stock, outside, purchase>>

SetAdmin(a) ==
    /\ purchase = NoPurchase
    /\ admin' = a
    /\ UNCHANGED <<P0, saleVars, outside, purchase>>

Next ==
    \/ \E amount \in Payments : BeginPurchase(amount)
    \/ ProbeUp \/ ProbeDown \/ StopSearch \/ Deliver \/ Refuse
    \/ \E amount \in Lots :
          DepositTokens(amount) \/ WithdrawTokens(amount) \/ WithdrawUsdc(amount)
    \/ \E a \in Admins : SetAdmin(a)

Spec == Init /\ [][Next]_vars

-----------------------------------------------------------------------------
(* Properties *)

\* However payments are split and ordered, and whatever each rounding does, all of them
\* together have paid for the part of the curve that is sold: nobody buys below the curve
\* (calculateTokensForUsdc rounds against the buyer).
RevenueCoversCurve ==
    (Exp[Position] - Exp[0]) * (P0 * Total) <= K * Scale * Unit * totalUsdcCollected

\* The search of calculateTokensForUsdc, which never compares low with high after it has
\* moved high, ends within its rounds and with the furthest position that the payment
\* affords.
SearchFindsBest ==
    Found =>
        /\ purchase.best \in Position .. Unit /\ Exp[purchase.best] <= purchase.target
        /\ \A x \in purchase.best + 1 .. Unit : Exp[x] > purchase.target

\* A step of the curve costs at most the smallest payment, as it does by far with the
\* constructor's own parameters.
FineCurve ==
    \A x \in 0 .. Unit - 1 : (Exp[x + 1] - Exp[x]) * (P0 * Total) <= K * Scale * Unit

\* On a fine curve no payment is taken for nothing (execute does not ask for a minimum).
PaymentBuys == Found /\ FineCurve => TokensFound >= 1

\* Paying what calculateUsdcForTokens quotes for some tokens buys no more than these, or
\* more only where the curve is flat and the rest is free: the two views, one rounding the
\* cost and the other the tokens down, do not leave a gain.
QuoteLeavesNoGain ==
    \A n \in 1 .. Total - tokensSold :
        LET end == ((tokensSold + n) * Unit) \div Total
            affordable == {x \in Position .. Unit :
                              Exp[x] <= Exp[Position] + Term(UsdcForTokens(n))}
        IN  UsdcForTokens(n) > 0 =>
                \A x \in affordable : x * PerUnit - tokensSold <= n \/ Exp[x] = Exp[end]

\* The price that execute reports never falls, from the first purchase to the last.
PriceNeverFalls == [][CurrentPrice' >= CurrentPrice]_vars

=============================================================================
