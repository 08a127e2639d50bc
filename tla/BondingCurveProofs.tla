------------------------- MODULE BondingCurveProofs -------------------------
(***************************************************************************)
(* Proofs about BondingCurve, for every size of the curve, every table of  *)
(* its exponential and every price.                                        *)
(***************************************************************************)
EXTENDS BondingCurve, TLAPS

-----------------------------------------------------------------------------
(* Arithmetic *)

LEMMA DivOfProduct == \A a \in Nat, b \in Nat \ {0} : (a * b) \div b = a
BY Z3

LEMMA DivTyped == \A a \in Nat, b \in Nat \ {0} : a \div b \in Nat
BY Z3

LEMMA DivBelow == \A a \in Nat, b \in Nat \ {0} : b * (a \div b) <= a
BY Z3

LEMMA DivAtLeast == \A a, q \in Nat, b \in Nat \ {0} : q * b <= a => q <= a \div b
BY Z3

LEMMA ProductTyped == \A a, b \in Nat : a * b \in Nat
BY Z3

LEMMA ProductPositive == \A a, b \in Nat \ {0} : a * b \in Nat \ {0}
BY Z3

LEMMA ProductMonotone == \A a, b, c \in Nat : a <= b => a * c <= b * c
BY Z3

LEMMA Associate == \A a, b, c \in Nat : a * (b * c) = (a * c) * b /\ (a * c) * b = a * (b * c)
BY Z3

-----------------------------------------------------------------------------
(* The inductive invariant *)

OnGrid == Position \in 0 .. Unit /\ tokensSold = Position * PerUnit

BestAffordable ==
    purchase # NoPurchase =>
        /\ Position < Unit
        /\ purchase.target = Exp[Position] + Term(purchase.amount)
        /\ purchase.best \in Position .. Unit
        /\ Exp[purchase.best] <= purchase.target

\* Everything above high costs too much, everything below low is affordable, and the
\* rounds to come suffice for what is between them.
Narrowing ==
    Searching =>
        /\ Position <= purchase.low /\ purchase.low <= purchase.high + 1
        /\ \/ purchase.best = purchase.low - 1
           \/ purchase.best = Position /\ purchase.low = Position /\ purchase.low <= purchase.high
        /\ \A x \in purchase.high + 1 .. Unit : Exp[x] > purchase.target
        /\ purchase.high - purchase.low + 1 <= Left[purchase.round]

NothingBetter == Found => \A x \in purchase.best + 1 .. Unit : Exp[x] > purchase.target

IInv ==
    /\ TypeOK
    /\ OnGrid
    /\ BestAffordable
    /\ Narrowing
    /\ NothingBetter
    /\ RevenueCoversCurve

-----------------------------------------------------------------------------
(* Positions and amounts *)

LEMMA TotalTyped == Total \in Nat \ {0}
BY CurveAssumption, ProductPositive DEF Total

LEMMA PositionOf == ASSUME NEW x \in 0 .. Unit PROVE ((x * PerUnit) * Unit) \div Total = x
<1>1. x \in Nat /\ Unit \in Nat /\ PerUnit \in Nat
  BY CurveAssumption
<1>2. (x * PerUnit) * Unit = x * Total
  BY <1>1, Associate DEF Total
<1>. QED  BY <1>1, <1>2, TotalTyped, DivOfProduct

LEMMA TokensOf == ASSUME NEW x \in 0 .. Unit PROVE (x * Total) \div Unit = x * PerUnit
<1>1. x \in Nat /\ Unit \in Nat \ {0} /\ PerUnit \in Nat
  BY CurveAssumption
<1>2. x * Total = (x * PerUnit) * Unit
  BY <1>1, Associate DEF Total
<1>. QED  BY <1>1, <1>2, ProductTyped, DivOfProduct

LEMMA TermTyped == ASSUME P0 \in StartPrices, NEW amount \in Nat
                   PROVE  /\ Term(amount) \in Nat
                          /\ P0 * Total \in Nat \ {0}
                          /\ (P0 * Total) * Term(amount) <= K * (amount * Scale) * Unit
<1>1. P0 * Total \in Nat \ {0}
  BY CurveAssumption, TotalTyped, ProductPositive
<1>2. amount * Scale \in Nat
  BY CurveAssumption, ProductTyped
<1>3. K * (amount * Scale) \in Nat
  BY <1>2, CurveAssumption, ProductTyped
<1>4. K * (amount * Scale) * Unit \in Nat
  BY <1>3, CurveAssumption, ProductTyped
<1>. QED  BY <1>1, <1>4, DivTyped, DivBelow DEF Term

LEMMA InitIInv == ASSUME Init PROVE IInv
<1>1. TypeOK
  BY CurveAssumption, TotalTyped DEF Init, TypeOK
<1>2. 0 * PerUnit = 0 /\ 0 \in 0 .. Unit
  BY CurveAssumption
<1>3. Position = 0
  BY <1>2, PositionOf DEF Init, Position
<1>4. OnGrid
  BY <1>2, <1>3 DEF Init, OnGrid
<1>5. RevenueCoversCurve
  <2>1. Exp[0] - Exp[0] = 0
    BY ExpAssumption, CurveAssumption
  <2>2. P0 * Total \in Nat
    BY CurveAssumption, TotalTyped, ProductTyped DEF Init
  <2>3. K * Scale * Unit \in Nat
    BY CurveAssumption, ProductTyped
  <2>4. 0 * (P0 * Total) = 0 /\ K * Scale * Unit * 0 = 0
    BY <2>2, <2>3
  <2>. QED  BY <1>3, <2>1, <2>4 DEF Init, RevenueCoversCurve
<1>. QED  BY <1>1, <1>4, <1>5 DEF Init, IInv, BestAffordable, Narrowing, NothingBetter, Searching, Found

-----------------------------------------------------------------------------
(* The search *)

LEMMA SaleUnchanged ==
    ASSUME IInv, UNCHANGED <<P0, tokensSold, totalUsdcCollected>>
    PROVE  /\ Position' = Position /\ OnGrid' /\ RevenueCoversCurve'
           /\ \A amount \in Nat : Term(amount)' = Term(amount)
BY DEF IInv, OnGrid, RevenueCoversCurve, Position, Term

LEMMA BeginKeeps == ASSUME IInv, NEW amount \in Payments, BeginPurchase(amount) PROVE IInv'
<1>. USE DEF BeginPurchase
<1>1. Position' = Position /\ OnGrid' /\ RevenueCoversCurve' /\ Term(amount)' = Term(amount)
  BY SaleUnchanged, CurveAssumption DEF saleVars
<1>2. Position \in 0 .. Unit /\ Exp[Position] \in Nat /\ Term(amount) \in Nat
  BY TermTyped, ExpAssumption, CurveAssumption DEF IInv, OnGrid, TypeOK
<1>3. /\ purchase' \in Purchases
      /\ purchase' # NoPurchase
  BY <1>2, CurveAssumption DEF Purchases
<1>4. TypeOK'
  BY <1>3 DEF IInv, TypeOK, saleVars
<1>5. Position < Unit
  <2>1. tokensSold = Position * PerUnit /\ tokensSold < Unit * PerUnit
    BY DEF IInv, OnGrid, Total
  <2>2. Position # Unit
    BY <2>1, CurveAssumption, ProductTyped
  <2>. QED  BY <1>2, <2>2, CurveAssumption
<1>6. BestAffordable'
  BY <1>1, <1>2, <1>3, <1>5, CurveAssumption DEF BestAffordable
<1>7. Narrowing'
  BY <1>1, <1>2, <1>3, <1>5, CurveAssumption, RoundsAssumption DEF Narrowing, Searching
<1>8. NothingBetter'
  BY <1>3 DEF NothingBetter, Found
<1>. QED  BY <1>1, <1>4, <1>6, <1>7, <1>8 DEF IInv

LEMMA LeftHalves == \A r \in 0 .. Rounds - 1 :
                       r + 1 \in 0 .. Rounds /\ Left[r] \in Nat /\ Left[r + 1] = Left[r] \div 2
<1>1. Rounds \in Nat /\ Left \in [0 .. Rounds -> Nat]
  BY CurveAssumption, RoundsAssumption
<1>2. \A r \in 0 .. Rounds - 1 : Left[r + 1] = Left[r] \div 2
  BY RoundsAssumption
<1>3. \A r \in 0 .. Rounds - 1 : r \in 0 .. Rounds /\ r + 1 \in 0 .. Rounds
  BY <1>1
<1>. QED  BY <1>1, <1>2, <1>3

\* What both rounds of the search rely on.
LEMMA MidTyped ==
    ASSUME IInv, Searching, purchase.round < Rounds
    PROVE  /\ Mid \in 0 .. Unit /\ Mid <= purchase.high /\ purchase.low - 1 <= Mid
           /\ Exp[Mid] \in Nat
           /\ Affordable \/ purchase.low <= Mid
           /\ Position <= Mid
           /\ purchase.high - Mid <= Left[purchase.round + 1]
           /\ Mid - purchase.low <= Left[purchase.round + 1]
<1>1. /\ purchase \in Purchases
      /\ purchase.low \in 0 .. Unit /\ purchase.high \in 0 .. Unit
      /\ purchase.round \in 0 .. Rounds - 1
  BY CurveAssumption DEF IInv, TypeOK, Searching, Purchases
<1>2. /\ Position \in 0 .. Unit /\ Position <= purchase.low /\ purchase.low <= purchase.high + 1
      /\ \/ purchase.best = purchase.low - 1
         \/ purchase.best = Position /\ purchase.low = Position /\ purchase.low <= purchase.high
      /\ purchase.best \in Position .. Unit
      /\ purchase.high - purchase.low + 1 <= Left[purchase.round]
  BY DEF IInv, OnGrid, Searching, Narrowing, BestAffordable
<1>3. /\ Mid <= purchase.high /\ purchase.low - 1 <= Mid /\ Mid \in Int
      /\ purchase.low <= purchase.high => purchase.low <= Mid
  BY <1>1, <1>2, CurveAssumption DEF Mid
<1>4. Position <= Mid
  BY <1>1, <1>2, <1>3, CurveAssumption
<1>5. Mid \in 0 .. Unit
  BY <1>1, <1>2, <1>3, <1>4, CurveAssumption
<1>6. Affordable \/ purchase.low <= Mid
  <2>1. CASE purchase.low <= purchase.high
    BY <1>3, <2>1
  <2>2. CASE purchase.low > purchase.high
    <3>1. Mid = purchase.best
      BY <1>1, <1>2, <1>3, <2>2, CurveAssumption
    <3>. QED  BY <3>1 DEF IInv, BestAffordable, Searching, Affordable
  <2>. QED  BY <1>1, <2>1, <2>2, CurveAssumption
<1>7. /\ Left[purchase.round + 1] = Left[purchase.round] \div 2
      /\ Left[purchase.round] \in Nat
  BY <1>1, LeftHalves
<1>8. /\ purchase.high - Mid <= Left[purchase.round + 1]
      /\ Mid - purchase.low <= Left[purchase.round + 1]
  BY <1>1, <1>2, <1>7, CurveAssumption DEF Mid
<1>. QED  BY <1>3, <1>4, <1>5, <1>6, <1>8, ExpAssumption

LEMMA ProbeUpKeeps == ASSUME IInv, ProbeUp PROVE IInv'
<1>. USE DEF ProbeUp
<1>1. Position' = Position /\ OnGrid' /\ RevenueCoversCurve'
      /\ \A amount \in Nat : Term(amount)' = Term(amount)
  BY SaleUnchanged DEF saleVars
<1>2. /\ Mid \in 0 .. Unit /\ Mid <= purchase.high /\ purchase.low - 1 <= Mid
      /\ Position <= Mid /\ purchase.high - Mid <= Left[purchase.round + 1]
      /\ Exp[Mid] <= purchase.target
  BY MidTyped DEF Affordable
<1>3. /\ purchase \in Purchases /\ purchase # NoPurchase /\ purchase.phase = "search"
      /\ purchase.high \in 0 .. Unit /\ purchase.low \in 0 .. Unit
      /\ purchase.round \in 0 .. Rounds - 1 /\ purchase.amount \in Nat
  BY CurveAssumption DEF IInv, TypeOK, Searching, Purchases
<1>4. purchase' \in Purchases
  <2>1. purchase.round + 1 \in 0 .. Rounds
    BY <1>3, LeftHalves
  <2>2. CASE Mid + 1 > purchase.high
    <3>1. purchase' = [purchase EXCEPT !.round = @ + 1, !.best = Mid, !.phase = "found"]
      BY <2>2
    <3>. QED  BY <1>2, <1>3, <2>1, <3>1 DEF Purchases
  <2>3. CASE ~ (Mid + 1 > purchase.high)
    <3>1. purchase' = [purchase EXCEPT !.round = @ + 1, !.best = Mid, !.low = Mid + 1]
      BY <2>3
    <3>2. Mid + 1 \in 0 .. Unit
      BY <1>2, <1>3, <2>3, CurveAssumption
    <3>. QED  BY <1>2, <1>3, <2>1, <3>1, <3>2 DEF Purchases
  <2>. QED  BY <2>2, <2>3
<1>5. purchase' # NoPurchase
  BY <1>4, CurveAssumption
<1>6. TypeOK'
  BY <1>4 DEF IInv, TypeOK, saleVars
<1>7. /\ purchase'.best = Mid /\ purchase'.target = purchase.target
      /\ purchase'.amount = purchase.amount /\ purchase'.high = purchase.high
      /\ purchase'.round = purchase.round + 1
      /\ purchase'.phase = "found" => purchase.high <= Mid
      /\ purchase'.phase = "search" => purchase'.low = Mid + 1 /\ Mid + 1 <= purchase.high
  BY <1>2, <1>3, CurveAssumption DEF Purchases
<1>8. BestAffordable'
  BY <1>1, <1>2, <1>3, <1>5, <1>7 DEF IInv, BestAffordable
<1>9. \A x \in purchase.high + 1 .. Unit : Exp[x] > purchase.target
  BY DEF IInv, Narrowing
<1>10. Narrowing'
  <2>1. SUFFICES ASSUME Searching'
                 PROVE  /\ Position <= purchase'.low /\ purchase'.low <= purchase'.high + 1
                        /\ purchase'.best = purchase'.low - 1
                        /\ \A x \in purchase'.high + 1 .. Unit : Exp[x] > purchase'.target
                        /\ purchase'.high - purchase'.low + 1 <= Left[purchase'.round]
    BY <1>1 DEF Narrowing
  <2>2. purchase'.low = Mid + 1 /\ Mid + 1 <= purchase.high
    BY <1>7, <2>1 DEF Searching
  <2>3. Left[purchase.round + 1] \in Nat /\ Position \in 0 .. Unit
    BY <1>3, LeftHalves, RoundsAssumption DEF IInv, OnGrid
  <2>4. Position <= Mid + 1 /\ Mid + 1 <= purchase.high + 1 /\ Mid + 1 - 1 = Mid
    BY <1>2, <1>3, <2>2, <2>3, CurveAssumption
  <2>5. purchase.high - (Mid + 1) + 1 <= Left[purchase.round + 1]
    BY <1>2, <1>3, <2>3, CurveAssumption
  <2>. QED  BY <1>2, <1>7, <1>9, <2>2, <2>4, <2>5
<1>11. NothingBetter'
  BY <1>2, <1>3, <1>7, <1>9 DEF NothingBetter, Found
<1>. QED  BY <1>1, <1>6, <1>8, <1>10, <1>11 DEF IInv

LEMMA ProbeDownKeeps == ASSUME IInv, ProbeDown PROVE IInv'
<1>. USE DEF ProbeDown
<1>1. Position' = Position /\ OnGrid' /\ RevenueCoversCurve'
      /\ \A amount \in Nat : Term(amount)' = Term(amount)
  BY SaleUnchanged DEF saleVars
<1>2. /\ Mid \in 0 .. Unit /\ Mid <= purchase.high /\ purchase.low <= Mid
      /\ Position <= Mid /\ Mid - purchase.low <= Left[purchase.round + 1]
      /\ Exp[Mid] \in Nat
  BY MidTyped
<1>3. /\ purchase \in Purchases /\ purchase # NoPurchase /\ purchase.phase = "search"
      /\ purchase.high \in 0 .. Unit /\ purchase.low \in 0 .. Unit /\ purchase.target \in Nat
      /\ purchase.round \in 0 .. Rounds - 1 /\ purchase.amount \in Nat
      /\ purchase.best \in Position .. Unit /\ Exp[purchase.best] <= purchase.target
      /\ Position \in 0 .. Unit
  BY CurveAssumption DEF IInv, TypeOK, Searching, Purchases, BestAffordable, OnGrid
<1>4. Exp[Mid] > purchase.target
  BY <1>2, <1>3 DEF Affordable
<1>5. purchase.best < Mid
  <2>1. purchase.best \in 0 .. Unit /\ Exp[purchase.best] \in Nat
    BY <1>3, ExpAssumption, CurveAssumption
  <2>2. purchase.best # Mid
    BY <1>2, <1>3, <1>4, <2>1
  <2>3. ~ (Mid < purchase.best)
    BY <1>2, <1>3, <1>4, <2>1, ExpAssumption
  <2>. QED  BY <1>2, <2>1, <2>2, <2>3, CurveAssumption
<1>6. Mid # 0 /\ Position <= Mid - 1
  BY <1>2, <1>3, <1>5, CurveAssumption
<1>7. purchase' = [purchase EXCEPT !.round = @ + 1, !.high = Mid - 1]
  BY <1>6
<1>8. purchase' \in Purchases
  <2>1. purchase.round + 1 \in 0 .. Rounds
    BY <1>3, LeftHalves
  <2>2. Mid - 1 \in 0 .. Unit
    BY <1>2, <1>6, CurveAssumption
  <2>. QED  BY <1>3, <1>7, <2>1, <2>2 DEF Purchases
<1>9. purchase' # NoPurchase
  BY <1>8, CurveAssumption
<1>10. TypeOK'
  BY <1>8 DEF IInv, TypeOK, saleVars
<1>11. /\ purchase'.best = purchase.best /\ purchase'.target = purchase.target
       /\ purchase'.amount = purchase.amount /\ purchase'.low = purchase.low
       /\ purchase'.round = purchase.round + 1 /\ purchase'.high = Mid - 1
       /\ purchase'.phase = "search"
  BY <1>3, <1>7 DEF Purchases
<1>12. BestAffordable'
  BY <1>1, <1>3, <1>9, <1>11 DEF IInv, BestAffordable
<1>13. \A x \in Mid .. Unit : Exp[x] > purchase.target
  <2>1. SUFFICES ASSUME NEW x \in Mid .. Unit PROVE Exp[x] > purchase.target
    OBVIOUS
  <2>2. x \in 0 .. Unit /\ (x = Mid \/ Mid < x) /\ Exp[x] \in Nat
    BY <1>2, ExpAssumption, CurveAssumption
  <2>. QED  BY <1>2, <1>3, <1>4, <2>2, ExpAssumption
<1>14. /\ Position <= purchase.low
       /\ \/ purchase.best = purchase.low - 1
          \/ purchase.best = Position /\ purchase.low = Position
  BY <1>3 DEF IInv, Narrowing, Searching
<1>15. Narrowing'
  <2>1. Left[purchase.round + 1] \in Nat
    BY <1>3, LeftHalves, RoundsAssumption
  <2>2. /\ purchase.low <= Mid - 1 + 1 /\ Mid - 1 + 1 = Mid
        /\ Mid - 1 - purchase.low + 1 <= Left[purchase.round + 1]
        /\ purchase.low = Position => purchase.low <= Mid - 1
    BY <1>2, <1>3, <1>6, <2>1, CurveAssumption
  <2>. QED  BY <1>1, <1>11, <1>13, <1>14, <2>2 DEF Narrowing
<1>16. NothingBetter'
  BY <1>11 DEF NothingBetter, Found
<1>. QED  BY <1>1, <1>10, <1>12, <1>15, <1>16 DEF IInv

LEMMA StopKeeps == ASSUME IInv, StopSearch PROVE IInv'
<1>. USE DEF StopSearch
<1>1. Position' = Position /\ OnGrid' /\ RevenueCoversCurve'
      /\ \A amount \in Nat : Term(amount)' = Term(amount)
  BY SaleUnchanged DEF saleVars
<1>2. /\ purchase \in Purchases /\ purchase # NoPurchase
      /\ purchase.high \in 0 .. Unit /\ purchase.low \in 0 .. Unit /\ purchase.amount \in Nat
  BY CurveAssumption DEF IInv, TypeOK, Searching, Purchases
<1>3. purchase' \in Purchases
  BY <1>2 DEF Purchases
<1>4. purchase' # NoPurchase
  BY <1>3, CurveAssumption
<1>5. /\ purchase'.best = purchase.best /\ purchase'.target = purchase.target
      /\ purchase'.amount = purchase.amount /\ purchase'.phase = "found"
  BY <1>2 DEF Purchases
<1>6. TypeOK'
  BY <1>3 DEF IInv, TypeOK, saleVars
<1>7. BestAffordable'
  BY <1>1, <1>2, <1>4, <1>5 DEF IInv, BestAffordable
<1>8. Narrowing'
  BY <1>5 DEF Narrowing, Searching
<1>9. purchase.best + 1 = purchase.high + 1
  <2>1. /\ purchase.high - purchase.low + 1 <= 0 /\ purchase.low <= purchase.high + 1
        /\ \/ purchase.best = purchase.low - 1
           \/ purchase.best = Position /\ purchase.low = Position /\ purchase.low <= purchase.high
    BY RoundsAssumption DEF IInv, Narrowing
  <2>. QED  BY <1>2, <2>1, CurveAssumption
<1>10. NothingBetter'
  BY <1>5, <1>9 DEF IInv, NothingBetter, Narrowing
<1>. QED  BY <1>1, <1>6, <1>7, <1>8, <1>10 DEF IInv

-----------------------------------------------------------------------------
(* The end of a purchase *)

LEMMA TokensFoundExact ==
    ASSUME IInv, Found
    PROVE  /\ purchase.best \in 0 .. Unit /\ Position <= purchase.best
           /\ TokensFound \in Nat /\ tokensSold \in Nat
           /\ tokensSold + TokensFound = purchase.best * PerUnit
           /\ purchase.best * PerUnit <= Total
<1>1. /\ Position \in 0 .. Unit /\ tokensSold = Position * PerUnit
      /\ purchase.best \in Position .. Unit /\ Unit \in Nat /\ PerUnit \in Nat
  BY CurveAssumption DEF IInv, OnGrid, BestAffordable, Found
<1>2. purchase.best \in 0 .. Unit /\ Position <= purchase.best
  BY <1>1
<1>3. (purchase.best * Total) \div Unit = purchase.best * PerUnit
  BY <1>2, TokensOf
<1>4. /\ purchase.best * PerUnit \in Nat /\ tokensSold \in Nat
      /\ tokensSold <= purchase.best * PerUnit
      /\ purchase.best * PerUnit <= Total
  <2>1. purchase.best \in Nat /\ Position \in Nat /\ purchase.best <= Unit
    BY <1>1, <1>2
  <2>. QED  BY <1>1, <1>2, <2>1, ProductTyped, ProductMonotone DEF Total
<1>5. TokensFound = purchase.best * PerUnit - tokensSold
  BY <1>3, <1>4, TotalTyped DEF TokensFound
<1>. QED  BY <1>2, <1>4, <1>5

LEMMA RevenueStep ==
    \A e0, e, e1, t, d, c, u, r \in Nat :
        d * t <= c * u /\ (e - e0) * d <= c * r /\ e1 <= e + t => (e1 - e0) * d <= c * (r + u)
<1>1. SUFFICES ASSUME NEW e0 \in Nat, NEW e \in Nat, NEW e1 \in Nat, NEW t \in Nat, NEW d \in Nat,
                      NEW c \in Nat, NEW u \in Nat, NEW r \in Nat,
                      d * t <= c * u, (e - e0) * d <= c * r, e1 <= e + t
               PROVE  (e1 - e0) * d <= c * (r + u)
  OBVIOUS
<1>2. \A x, y \in Int, z \in Nat : x <= y => x * z <= y * z
  BY Z3
<1>3. (e1 - e0) * d <= (e + t - e0) * d
  BY <1>1, <1>2
<1>4. (e + t - e0) * d = (e - e0) * d + d * t
  BY <1>1, Z3
<1>5. c * (r + u) = c * r + c * u
  BY <1>1, Z3
<1>6. c * r \in Int /\ c * u \in Int /\ d * t \in Int /\ (e - e0) * d \in Int /\ (e1 - e0) * d \in Int
  BY <1>1, Z3
<1>. QED  BY <1>1, <1>3, <1>4, <1>5, <1>6

LEMMA DeliverKeeps == ASSUME IInv, Deliver PROVE IInv'
<1>. USE DEF Deliver
<1>1. /\ purchase.best \in 0 .. Unit /\ Position <= purchase.best
      /\ TokensFound \in Nat /\ tokensSold' = purchase.best * PerUnit /\ tokensSold' \in 0 .. Total
  BY TokensFoundExact, TotalTyped
<1>2. purchase \in Purchases /\ purchase.amount \in Nat
  BY CurveAssumption DEF IInv, TypeOK, Found, Purchases
<1>3. TypeOK'
  BY <1>1, <1>2 DEF IInv, TypeOK, StockSuffices
<1>4. Position' = purchase.best
  BY <1>1, PositionOf DEF Position
<1>5. OnGrid'
  BY <1>1, <1>4 DEF OnGrid
<1>6. RevenueCoversCurve'
  <2>1. P0 \in StartPrices /\ totalUsdcCollected \in Nat /\ Position \in 0 .. Unit
    BY DEF IInv, TypeOK, OnGrid
  <2>2. Exp[0] \in Nat /\ Exp[Position] \in Nat /\ Exp[purchase.best] \in Nat
    BY <1>1, <2>1, ExpAssumption, CurveAssumption
  <2>3. /\ Term(purchase.amount) \in Nat /\ P0 * Total \in Nat
        /\ (P0 * Total) * Term(purchase.amount) <= K * (purchase.amount * Scale) * Unit
    BY <1>2, <2>1, TermTyped
  <2>4. K \in Nat /\ Scale \in Nat /\ Unit \in Nat /\ K * Scale \in Nat /\ K * Scale * Unit \in Nat
    BY CurveAssumption, ProductTyped
  <2>5. \A k, a, s, n \in Nat : k * (a * s) * n = (k * s * n) * a
    BY Z3
  <2>6. (P0 * Total) * Term(purchase.amount) <= (K * Scale * Unit) * purchase.amount
    BY <1>2, <2>3, <2>4, <2>5
  <2>7. Exp[purchase.best] <= Exp[Position] + Term(purchase.amount)
    BY DEF IInv, BestAffordable, Found
  <2>8. (Exp[Position] - Exp[0]) * (P0 * Total) <= (K * Scale * Unit) * totalUsdcCollected
    BY DEF IInv, RevenueCoversCurve
  <2>9. (Exp[purchase.best] - Exp[0]) * (P0 * Total)
          <= (K * Scale * Unit) * (totalUsdcCollected + purchase.amount)
    BY <1>2, <2>1, <2>2, <2>3, <2>4, <2>6, <2>7, <2>8, RevenueStep
  <2>. QED  BY <1>4, <2>9 DEF RevenueCoversCurve
<1>. QED  BY <1>3, <1>5, <1>6 DEF IInv, BestAffordable, Narrowing, NothingBetter, Searching, Found

LEMMA RefuseKeeps == ASSUME IInv, Refuse PROVE IInv'
<1>1. OnGrid' /\ RevenueCoversCurve'
  BY SaleUnchanged DEF Refuse, saleVars
<1>. QED  BY <1>1 DEF IInv, TypeOK, BestAffordable, Narrowing, NothingBetter, Searching, Found, Refuse, saleVars

LEMMA AdminKeeps ==
    ASSUME IInv,
           \/ \E amount \in Lots :
                 DepositTokens(amount) \/ WithdrawTokens(amount) \/ WithdrawUsdc(amount)
           \/ \E a \in Admins : SetAdmin(a)
    PROVE  IInv'
<1>1. /\ UNCHANGED <<P0, tokensSold, totalUsdcCollected>>
      /\ purchase = NoPurchase /\ purchase' = NoPurchase
  BY DEF DepositTokens, WithdrawTokens, WithdrawUsdc, SetAdmin, saleVars
<1>2. OnGrid' /\ RevenueCoversCurve'
  BY <1>1, SaleUnchanged
<1>3. TypeOK'
  BY CurveAssumption DEF IInv, TypeOK, DepositTokens, WithdrawTokens, WithdrawUsdc, SetAdmin, saleVars
<1>. QED  BY <1>1, <1>2, <1>3 DEF IInv, BestAffordable, Narrowing, NothingBetter, Searching, Found

LEMMA StutterKeeps == ASSUME IInv, UNCHANGED vars PROVE IInv'
<1>1. Position' = Position /\ OnGrid' /\ RevenueCoversCurve'
      /\ \A amount \in Nat : Term(amount)' = Term(amount)
  BY SaleUnchanged DEF vars, saleVars
<1>2. purchase # NoPurchase => purchase.amount \in Nat
  BY CurveAssumption DEF IInv, TypeOK, Purchases
<1>. QED  BY <1>1, <1>2 DEF IInv, TypeOK, BestAffordable, Narrowing, NothingBetter, Searching, Found, vars, saleVars

LEMMA NextKeeps == ASSUME IInv, [Next]_vars PROVE IInv'
<1>1. CASE \E amount \in Payments : BeginPurchase(amount)
  BY <1>1, BeginKeeps
<1>2. CASE ProbeUp           BY <1>2, ProbeUpKeeps
<1>3. CASE ProbeDown         BY <1>3, ProbeDownKeeps
<1>4. CASE StopSearch        BY <1>4, StopKeeps
<1>5. CASE Deliver           BY <1>5, DeliverKeeps
<1>6. CASE Refuse            BY <1>6, RefuseKeeps
<1>7. CASE UNCHANGED vars    BY <1>7, StutterKeeps
<1>. QED  BY <1>1, <1>2, <1>3, <1>4, <1>5, <1>6, <1>7, AdminKeeps DEF Next

-----------------------------------------------------------------------------
(* The price *)

LEMMA DivMonotone == \A a, b \in Nat, c \in Nat \ {0} : a <= b => a \div c <= b \div c
BY Z3

PriceAt(x) == ((P0 * Exp[x]) \div Unit) \div Scale

\* The three branches of getCurrentPrice are one function of the position.
LEMMA PriceBranches ==
    ASSUME NEW p \in Nat, NEW x \in 0 .. Unit, NEW s, s = x * PerUnit
    PROVE  (IF s = 0 THEN p \div Scale
            ELSE IF s >= Total THEN ((p * Exp[Unit]) \div Unit) \div Scale
                 ELSE ((p * Exp[(s * Unit) \div Total]) \div Unit) \div Scale)
           = ((p * Exp[x]) \div Unit) \div Scale
<1>1. Unit \in Nat \ {0} /\ PerUnit \in Nat \ {0} /\ x \in Nat /\ s \in Nat
  BY CurveAssumption, ProductTyped
<1>2. (s * Unit) \div Total = x
  BY PositionOf
<1>3. CASE s = 0
  <2>1. x = 0
    BY <1>1, <1>3, ProductPositive
  <2>2. (p * Unit) \div Unit = p
    BY <1>1, DivOfProduct
  <2>. QED  BY <1>3, <2>1, <2>2, ExpAssumption
<1>4. CASE s # 0 /\ s >= Total
  <2>1. s <= Total
    BY <1>1, ProductMonotone DEF Total
  <2>2. s = Total
    BY <1>1, <1>4, <2>1, TotalTyped
  <2>3. x = Unit
    BY <1>1, <1>2, <2>2, TotalTyped, DivOfProduct
  <2>. QED  BY <1>4, <2>3
<1>5. CASE s # 0 /\ ~ s >= Total
  BY <1>2, <1>5
<1>. QED  BY <1>3, <1>4, <1>5

LEMMA PriceOfPosition ==
    ASSUME IInv
    PROVE  CurrentPrice = PriceAt(Position)
<1>1. P0 \in Nat /\ Position \in 0 .. Unit /\ tokensSold = Position * PerUnit
  BY CurveAssumption DEF IInv, TypeOK, OnGrid
<1>. QED  BY <1>1, PriceBranches DEF CurrentPrice, PriceAt, Position

LEMMA PriceMonotone ==
    ASSUME P0 \in Nat, NEW x \in 0 .. Unit, NEW y \in 0 .. Unit, x <= y
    PROVE  PriceAt(x) <= PriceAt(y)
<1>1. /\ Unit \in Nat \ {0} /\ Scale \in Nat \ {0}
      /\ Exp[x] \in Nat /\ Exp[y] \in Nat /\ Exp[x] <= Exp[y]
  BY CurveAssumption, ExpAssumption
<1>2. Exp[x] * P0 <= Exp[y] * P0 /\ Exp[x] * P0 \in Nat /\ Exp[y] * P0 \in Nat
  BY <1>1, ProductMonotone, ProductTyped
<1>3. P0 * Exp[x] = Exp[x] * P0 /\ P0 * Exp[y] = Exp[y] * P0
  BY <1>1
<1>4. /\ (P0 * Exp[x]) \div Unit <= (P0 * Exp[y]) \div Unit
      /\ (P0 * Exp[x]) \div Unit \in Nat /\ (P0 * Exp[y]) \div Unit \in Nat
  BY <1>1, <1>2, <1>3, DivMonotone, DivTyped
<1>. QED  BY <1>1, <1>4, DivMonotone DEF PriceAt

\* A step never takes tokens back.
LEMMA SoldGrows ==
    ASSUME IInv, [Next]_vars
    PROVE  P0' = P0 /\ tokensSold' >= tokensSold
<1>1. tokensSold \in Nat
  BY TotalTyped DEF IInv, TypeOK
<1>2. CASE Deliver
  <2>1. TokensFound \in Nat
    <3>1. purchase # NoPurchase /\ purchase.best \in 0 .. Unit
      BY <1>2, CurveAssumption DEF IInv, TypeOK, Purchases, Deliver, Found
    <3>2. (purchase.best * Total) \div Unit \in Nat
      BY <3>1, CurveAssumption, TotalTyped, ProductTyped, DivTyped
    <3>3. Total - tokensSold \in Nat
      BY TotalTyped DEF IInv, TypeOK
    <3>. QED  BY <1>1, <3>2, <3>3 DEF TokensFound
  <2>. QED  BY <1>1, <1>2, <2>1 DEF Deliver
<1>3. CASE UNCHANGED <<P0, tokensSold>>
  BY <1>1, <1>3
<1>4. CASE ~ Deliver
  BY <1>3, <1>4 DEF Next, vars, saleVars, BeginPurchase, ProbeUp, ProbeDown, StopSearch, Refuse,
        DepositTokens, WithdrawTokens, WithdrawUsdc, SetAdmin
<1>. QED  BY <1>2, <1>4

-----------------------------------------------------------------------------
(* The two views *)

\* Three roundings down and one: what comes back is no more than what was put in.
LEMMA ThereAndBack ==
    \A p, d \in Nat, t, u, k, s \in Nat \ {0} :
        (k * (((((p * d * t) \div u) \div k) \div s) * s)) * u <= d * (p * t)
<1>1. SUFFICES ASSUME NEW p \in Nat, NEW d \in Nat, NEW t \in Nat \ {0}, NEW u \in Nat \ {0},
                      NEW k \in Nat \ {0}, NEW s \in Nat \ {0}
               PROVE  (k * (((((p * d * t) \div u) \div k) \div s) * s)) * u <= d * (p * t)
  OBVIOUS
<1>. DEFINE whole == p * d * t
            a == whole \div u
            b == a \div k
            c == b \div s
<1>2. whole \in Nat /\ whole = d * (p * t)
  <2>1. \A e, f, g \in Nat : e * f * g \in Nat /\ e * f * g = f * (e * g)
    BY Z3
  <2>. QED  BY <2>1
<1>. HIDE DEF whole
<1>3. a \in Nat /\ u * a <= whole
  BY <1>2, DivTyped, DivBelow
<1>. HIDE DEF a
<1>4. b \in Nat /\ k * b <= a
  BY <1>3, DivTyped, DivBelow
<1>. HIDE DEF b
<1>5. c \in Nat /\ s * c <= b
  BY <1>4, DivTyped, DivBelow
<1>. HIDE DEF c
<1>6. (c * s) * k <= b * k /\ c * s \in Nat /\ c * s = s * c
  <2>1. c * s = s * c
    BY <1>5
  <2>. QED  BY <1>4, <1>5, <2>1, ProductTyped, ProductMonotone
<1>7. k * (c * s) <= a /\ k * (c * s) \in Nat
  <2>1. k * (c * s) = (c * s) * k /\ k * b = b * k
    BY <1>4, <1>6
  <2>. QED  BY <1>3, <1>4, <1>6, <2>1, ProductTyped
<1>8. (k * (c * s)) * u <= a * u
  BY <1>3, <1>7, ProductMonotone
<1>9. a * u = u * a
  BY <1>3
<1>10. (k * (c * s)) * u \in Nat /\ a * u \in Nat
  BY <1>3, <1>7, ProductTyped
<1>11. (k * (c * s)) * u <= d * (p * t)
  BY <1>2, <1>3, <1>8, <1>9, <1>10
<1>. QED  BY <1>11 DEF c, b, a, whole

LEMMA CancelFactor == \A q, d \in Nat, m \in Nat \ {0} : m * q <= d * m => q <= d
BY Z3

-----------------------------------------------------------------------------
(* Theorems *)

LEMMA Inductive == Spec => []IInv
<1>1. Init => IInv
  BY InitIInv
<1>2. IInv /\ [Next]_vars => IInv'
  BY NextKeeps
<1>. QED  BY <1>1, <1>2, PTL DEF Spec

\* Every reachable state of the sale is well typed; in particular never more than the
\* supply is sold, and neither the hook's tokens nor its payments become negative.
THEOREM SaleTypeCorrect == Spec => []TypeOK
<1>1. IInv => TypeOK
  BY DEF IInv
<1>. QED  BY <1>1, Inductive, PTL

\* No sequence of purchases, however it splits its payments, buys below the curve,
\* whatever the parameters and the table of the exponential (BondingCurveHook.sol:209).
THEOREM NobodyBuysBelowCurve == Spec => []RevenueCoversCurve
<1>1. IInv => RevenueCoversCurve
  BY DEF IInv
<1>. QED  BY <1>1, Inductive, PTL

\* The binary search finds the furthest position that is affordable, for every size of
\* the curve and every number of rounds that halves it to nothing.
THEOREM SearchExact == Spec => []SearchFindsBest
<1>1. IInv => SearchFindsBest
  BY DEF IInv, SearchFindsBest, BestAffordable, NothingBetter, Found
<1>. QED  BY <1>1, Inductive, PTL

\* No payment is taken for nothing if no step of the curve costs more than the smallest
\* payment.
THEOREM EveryPaymentBuys == Spec => []PaymentBuys
<1>1. ASSUME IInv PROVE PaymentBuys
  <2>1. SUFFICES ASSUME Found, FineCurve PROVE TokensFound >= 1
    BY DEF PaymentBuys
  <2>2. /\ Position \in 0 .. Unit - 1 /\ Position + 1 \in 0 .. Unit /\ P0 \in StartPrices
        /\ tokensSold = Position * PerUnit
        /\ purchase.target = Exp[Position] + Term(purchase.amount)
    BY <1>1, <2>1, CurveAssumption DEF IInv, OnGrid, TypeOK, BestAffordable, Found
  <2>3. Exp[Position + 1] \in Nat /\ Exp[Position] \in Nat
        /\ Exp[Position] <= Exp[Position + 1]
    BY <2>2, ExpAssumption, CurveAssumption
  <2>4. purchase.amount \in Nat \ {0}
    BY <1>1, <2>1, CurveAssumption DEF IInv, TypeOK, Found, Purchases
  <2>5. Exp[Position + 1] - Exp[Position] <= Term(purchase.amount)
    <3>1. (Exp[Position + 1] - Exp[Position]) * (P0 * Total) <= K * Scale * Unit
      BY <2>1, <2>2 DEF FineCurve
    <3>2. K * Scale * Unit <= K * (purchase.amount * Scale) * Unit
      <4>1. \A k, s, n \in Nat, a \in Nat \ {0} :
               /\ k * (a * s) * n = (k * s * n) * a
               /\ k * s * n \in Nat
        BY Z3
      <4>2. \A v \in Nat, a \in Nat \ {0} : v <= v * a
        BY Z3
      <4>. QED  BY <2>4, <4>1, <4>2, CurveAssumption
    <3>3. K * Scale * Unit \in Nat /\ K * (purchase.amount * Scale) * Unit \in Nat
      <4>1. K \in Nat /\ purchase.amount * Scale \in Nat /\ K * Scale \in Nat /\ Unit \in Nat
        BY <2>4, CurveAssumption, ProductTyped
      <4>. QED  BY <4>1, ProductTyped
    <3>4. P0 * Total \in Nat \ {0}
      BY <2>2, TermTyped
    <3>5. (Exp[Position + 1] - Exp[Position]) \in Nat
      BY <2>3
    <3>6. (Exp[Position + 1] - Exp[Position]) * (P0 * Total) \in Nat
      BY <3>4, <3>5, ProductTyped
    <3>7. (Exp[Position + 1] - Exp[Position]) * (P0 * Total)
            <= K * (purchase.amount * Scale) * Unit
      BY <3>1, <3>2, <3>3, <3>6
    <3>. QED  BY <3>3, <3>4, <3>5, <3>7, DivAtLeast DEF Term
  <2>6. Term(purchase.amount) \in Nat
    BY <2>2, <2>4, TermTyped
  <2>7. ~ (Position + 1 \in purchase.best + 1 .. Unit)
    BY <1>1, <2>1, <2>2, <2>3, <2>5, <2>6 DEF IInv, NothingBetter
  <2>8. /\ purchase.best \in 0 .. Unit /\ TokensFound \in Nat
        /\ Position * PerUnit + TokensFound = purchase.best * PerUnit
    BY <1>1, <2>1, <2>2, TokensFoundExact
  <2>9. Position + 1 <= purchase.best
    BY <2>2, <2>7, <2>8, CurveAssumption
  <2>10. (Position + 1) * PerUnit <= purchase.best * PerUnit
    BY <2>2, <2>8, <2>9, CurveAssumption, ProductMonotone
  <2>11. (Position + 1) * PerUnit = Position * PerUnit + PerUnit /\ Position * PerUnit \in Nat
    BY <2>2, CurveAssumption, Z3
  <2>. QED  BY <2>8, <2>10, <2>11, CurveAssumption
<1>. QED  BY <1>1, Inductive, PTL

\* What calculateUsdcForTokens asks for some tokens never buys more than these, except what
\* is free: its three divisions never ask for more than the exponential moves, and the one
\* of calculateTokensForUsdc never gives more for it (BondingCurveHook.sol:269).
THEOREM QuotesLeaveNoGain == Spec => []QuoteLeavesNoGain
<1>1. ASSUME IInv PROVE QuoteLeavesNoGain
  <2>. SUFFICES ASSUME NEW n \in 1 .. Total - tokensSold, UsdcForTokens(n) > 0,
                       NEW x \in Position .. Unit,
                       Exp[x] <= Exp[Position] + Term(UsdcForTokens(n))
                PROVE  \/ x * PerUnit - tokensSold <= n
                       \/ Exp[x] = Exp[((tokensSold + n) * Unit) \div Total]
    BY DEF QuoteLeavesNoGain
  <2>1. /\ tokensSold \in Nat /\ Total \in Nat \ {0} /\ n \in Nat \ {0}
        /\ tokensSold + n <= Total /\ tokensSold < Total
    BY <1>1, TotalTyped DEF IInv, TypeOK
  <2>2. /\ P0 \in StartPrices /\ P0 \in Nat /\ Position \in 0 .. Unit /\ x \in 0 .. Unit
        /\ Unit \in Nat \ {0} /\ PerUnit \in Nat \ {0} /\ K \in Nat \ {0}
        /\ Scale \in Nat \ {0}
    BY <1>1, CurveAssumption DEF IInv, TypeOK, OnGrid
  <2>. DEFINE sum == tokensSold + n
              end == (sum * Unit) \div Total
              d == Exp[end] - Exp[Position]
              cost == (((P0 * d * Total) \div Unit) \div K) \div Scale
  <2>3. UsdcForTokens(n) = cost
    BY <2>1 DEF UsdcForTokens
  <2>4. /\ end \in 0 .. Unit /\ Position <= end /\ end * PerUnit <= sum
    <3>1. /\ tokensSold * Unit <= sum * Unit /\ sum * Unit <= Total * Unit
          /\ tokensSold * Unit \in Nat /\ sum * Unit \in Nat /\ Total * Unit \in Nat
      BY <2>1, <2>2, ProductTyped, ProductMonotone
    <3>2. (Total * Unit) \div Total = Unit
      <4>1. Total * Unit = Unit * Total
        BY <2>1, <2>2
      <4>. QED  BY <2>1, <2>2, <4>1, DivOfProduct
    <3>3. end \in Nat /\ end <= Unit /\ Position <= end
      BY <2>1, <3>1, <3>2, DivTyped, DivMonotone DEF Position
    <3>4. Total * end <= sum * Unit
      BY <2>1, <3>1, DivBelow
    <3>. HIDE DEF end, sum
    <3>5. Total * end = Unit * (end * PerUnit)
      <4>1. \A a, b, c \in Nat : (a * b) * c = a * (c * b)
        BY Z3
      <4>. QED  BY <2>2, <3>3, <4>1 DEF Total
    <3>6. end * PerUnit \in Nat /\ sum \in Nat
      BY <2>1, <2>2, <3>3, ProductTyped DEF sum
    <3>7. end * PerUnit <= sum
      <4>1. Unit * (end * PerUnit) <= sum * Unit
        BY <3>4, <3>5
      <4>. QED  BY <2>2, <3>6, <4>1, CancelFactor
    <3>. QED  BY <2>2, <3>3, <3>7
  <2>. HIDE DEF end
  <2>5. Exp[end] \in Nat /\ Exp[Position] \in Nat /\ Exp[Position] <= Exp[end] /\ d \in Nat
    BY <2>2, <2>4, ExpAssumption
  <2>6. (K * (cost * Scale)) * Unit <= d * (P0 * Total)
    <3>. HIDE DEF d
    <3>. QED  BY <2>1, <2>2, <2>5, ThereAndBack
  <2>7. cost \in Nat
    <3>. HIDE DEF d
    <3>1. P0 * d * Total \in Nat
      BY <2>1, <2>2, <2>5, ProductTyped
    <3>2. (P0 * d * Total) \div Unit \in Nat
      BY <2>2, <3>1, DivTyped
    <3>. QED  BY <2>2, <3>2, DivTyped
  <2>. HIDE DEF cost
  <2>8. Term(cost) <= d
    <3>1. /\ Term(cost) \in Nat /\ P0 * Total \in Nat \ {0}
          /\ (P0 * Total) * Term(cost) <= K * (cost * Scale) * Unit
      BY <2>2, <2>7, TermTyped
    <3>. HIDE DEF d
    <3>2. (P0 * Total) * Term(cost) <= d * (P0 * Total)
      <4>1. K * (cost * Scale) * Unit \in Nat /\ (P0 * Total) * Term(cost) \in Nat
            /\ d * (P0 * Total) \in Nat
        BY <2>2, <2>5, <2>7, <3>1, ProductTyped
      <4>. QED  BY <2>6, <3>1, <4>1
    <3>. QED  BY <2>5, <3>1, <3>2, CancelFactor
  <2>9. Exp[x] <= Exp[end]
    <3>1. Term(cost) \in Nat /\ Exp[x] \in Nat
      BY <2>2, <2>7, TermTyped, ExpAssumption
    <3>. QED  BY <2>3, <2>5, <2>8, <3>1
  <2>10. CASE x <= end
    <3>1. x * PerUnit <= end * PerUnit /\ x * PerUnit \in Nat /\ end * PerUnit \in Nat
      BY <2>2, <2>4, <2>10, ProductTyped, ProductMonotone
    <3>. QED  BY <2>1, <2>4, <3>1
  <2>11. CASE end < x
    <3>1. Exp[end] <= Exp[x] /\ Exp[x] \in Nat
      BY <2>2, <2>4, <2>11, ExpAssumption
    <3>2. Exp[x] = Exp[end]
      BY <2>5, <2>9, <3>1
    <3>. QED  BY <3>2 DEF end
  <2>12. x \in Int /\ end \in Int
    BY <2>2, <2>4
  <2>. QED  BY <2>10, <2>11, <2>12
<1>. QED  BY <1>1, Inductive, PTL

\* The price reported never falls: the branches of getCurrentPrice (BondingCurveHook.sol:186)
\* meet at their boundaries, and no step, of a purchase or of the administration, goes back
\* on the curve.
THEOREM PriceRises == Spec => PriceNeverFalls
<1>. DEFINE A == CurrentPrice' >= CurrentPrice
<1>1. ASSUME IInv, [Next]_vars PROVE A
  <2>1. IInv'
    BY <1>1, NextKeeps
  <2>2. P0 \in Nat /\ P0' = P0 /\ tokensSold' >= tokensSold
    BY <1>1, SoldGrows, CurveAssumption DEF IInv, TypeOK
  <2>3. CurrentPrice = PriceAt(Position)
    BY <1>1, PriceOfPosition
  <2>4. CurrentPrice' = PriceAt(Position')
    <3>1. P0' \in Nat /\ Position' \in 0 .. Unit /\ tokensSold' = Position' * PerUnit
      BY <2>1, <2>2 DEF IInv, OnGrid
    <3>. QED  BY <2>2, <3>1, PriceBranches DEF CurrentPrice, PriceAt, Position
  <2>5. Position \in 0 .. Unit /\ Position' \in 0 .. Unit
    BY <1>1, <2>1 DEF IInv, OnGrid
  <2>6. Position <= Position'
    <3>1. tokensSold \in Nat /\ tokensSold' \in Nat /\ Unit \in Nat
      BY <1>1, <2>1, TotalTyped, CurveAssumption DEF IInv, TypeOK
    <3>2. tokensSold * Unit \in Nat /\ tokensSold' * Unit \in Nat
      BY <3>1, ProductTyped
    <3>3. tokensSold * Unit <= tokensSold' * Unit
      BY <3>1, <2>2, ProductMonotone
    <3>. QED  BY <3>2, <3>3, TotalTyped, DivMonotone DEF Position
  <2>7. PriceAt(Position) <= PriceAt(Position')
    BY <2>2, <2>5, <2>6, PriceMonotone
  <2>. QED  BY <2>3, <2>4, <2>7
<1>2. IInv /\ [Next]_vars => [A]_vars
  BY <1>1
<1>. QED  BY <1>2, Inductive, PTL DEF Spec, PriceNeverFalls

=============================================================================
