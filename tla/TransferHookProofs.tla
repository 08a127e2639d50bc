------------------------- MODULE TransferHookProofs -------------------------
(* Proofs about TransferHook for every amount, payee and list of splits.      *)
EXTENDS TransferHook, UnitCountingProofs

-----------------------------------------------------------------------------
(* The inductive invariant *)

\* Every unit of the amount is either still allowed or received.
Accounted == Total(Accounts, received) + allowance = call.amount

EntryAccepted ==
    /\ call.sender = Router /\ call.payTo # NoAccount
    /\ call.data # NoData /\ call.data # <<>>

SplitsAcceptedUpTo(n) ==
    \A j \in 1 .. n : call.data[j].recipient # NoAccount /\ call.data[j].bips > 0

\* The router has approved the amount.
Entering == pc = "enter" => allowance = call.amount /\ i = 1 /\ totalBips = 0

\* The first loop has added up the splits it has accepted.
Validating ==
    pc = "validate" =>
        /\ EntryAccepted
        /\ i <= Len(call.data) + 1
        /\ SplitsAcceptedUpTo(i - 1)
        /\ totalBips = Total(1 .. (i - 1), BipsOf)
        /\ allowance = call.amount

\* The second loop has left at least the percentage that the splits still to come and
\* the payee are entitled to.
Splitting ==
    pc = "split" =>
        /\ Valid
        /\ call.data # NoData
        /\ i <= Len(call.data) + 1
        /\ allowance = remaining
        /\ remaining * WholeBips >= call.amount * (WholeBips - Total(1 .. (i - 1), BipsOf))

Ending == (pc = "reverted" => ~ Valid) /\ (pc = "done" => Valid /\ allowance = 0)

IInv ==
    /\ TypeOK
    /\ Accounted
    /\ Entering
    /\ Validating
    /\ Splitting
    /\ Ending

-----------------------------------------------------------------------------
(* Lemmas *)

\* A share rounded down is a natural number and not more than the exact share.
LEMMA ShareBound ==
    ASSUME NEW n \in Nat, NEW w \in Nat, w > 0
    PROVE  n \div w \in Nat /\ (n \div w) * w <= n
BY Z3

\* The splits of a distributed call, and what they ask for.
LEMMA SplitsTyped ==
    ASSUME HookAssumption, call \in Calls, call.data # NoData
    PROVE  /\ call.data \in Seq(Split)
           /\ Len(call.data) \in Nat
           /\ \A j \in Splits : call.data[j] \in Split /\ BipsOf[j] = call.data[j].bips
           /\ \A j \in Splits : BipsOf[j] \in Nat
           /\ IsFiniteSet(Splits)
<1>1. call \in Call
  BY DEF HookAssumption
<1>2. call.data \in Seq(Split)
  BY <1>1 DEF Call
<1>3. Len(call.data) \in Nat /\ \A j \in Splits : call.data[j] \in Split
  BY <1>2 DEF Splits
<1>4. \A j \in Splits : BipsOf[j] = call.data[j].bips
  BY DEF BipsOf
<1>5. \A j \in Splits : BipsOf[j] \in Nat
  BY <1>3, <1>4 DEF Split, HookAssumption
<1>6. IsFiniteSet(Splits)
  BY <1>3, FS_Interval DEF Splits
<1>. QED  BY <1>2, <1>3, <1>4, <1>5, <1>6

\* The running total of the splits grows by one split at a time and stays within the
\* total of all of them.
LEMMA RunningTotal ==
    ASSUME HookAssumption, call \in Calls, call.data # NoData, NEW n \in Splits
    PROVE  /\ Total(1 .. (n - 1), BipsOf) \in Nat
           /\ Total(1 .. n, BipsOf) = Total(1 .. (n - 1), BipsOf) + call.data[n].bips
           /\ Total(1 .. n, BipsOf) <= Total(Splits, BipsOf)
<1>1. n \in Nat /\ n >= 1 /\ n <= Len(call.data) /\ Len(call.data) \in Nat
  BY SplitsTyped DEF Splits
<1>2. /\ 1 .. n = (1 .. (n - 1)) \cup {n} /\ n \notin 1 .. (n - 1)
      /\ 1 .. n \subseteq Splits
  BY <1>1 DEF Splits
<1>3. \A j \in 1 .. n : BipsOf[j] \in Nat
  BY <1>2, SplitsTyped
<1>4. IsFiniteSet(1 .. (n - 1))
  BY <1>1, FS_Interval
<1>5. Total((1 .. (n - 1)) \cup {n}, BipsOf) = Total(1 .. (n - 1), BipsOf) + BipsOf[n]
  BY <1>2, <1>3, <1>4, TotalAdd
<1>6. Total(1 .. n, BipsOf) <= Total(Splits, BipsOf)
  BY <1>2, SplitsTyped, TotalPart
<1>7. Total(1 .. (n - 1), BipsOf) \in Nat
  BY <1>2, <1>3, <1>4, TotalNat
<1>8. BipsOf[n] = call.data[n].bips
  BY SplitsTyped
<1>. QED  BY <1>2, <1>5, <1>6, <1>7, <1>8

\* A transfer moves units from the allowance to an account.
LEMMA TransferAccounted ==
    ASSUME HookAssumption, received \in [Accounts -> Nat], allowance \in Nat,
           NEW a \in Accounts, NEW n \in Nat, n <= allowance,
           TransferTo(a, n)
    PROVE  /\ received' \in [Accounts -> Nat] /\ allowance' \in Nat
           /\ Total(Accounts, received') + allowance' = Total(Accounts, received) + allowance
<1>1. received' \in [Accounts -> Nat] /\ allowance' = allowance - n /\ allowance' \in Nat
  BY DEF TransferTo
<1>2. received'[a] = received[a] + n /\ \A b \in Accounts \ {a} : received'[b] = received[b]
  BY DEF TransferTo
<1>3. IsFiniteSet(Accounts)
  BY DEF HookAssumption
<1>4. Total(Accounts, received') = Total(Accounts, received) - received[a] + received'[a]
  BY <1>1, <1>2, <1>3, TotalUpdate
<1>5. Total(Accounts, received) \in Nat /\ received[a] \in Nat
  BY <1>3, TotalNat
<1>. QED  BY <1>1, <1>2, <1>4, <1>5

\* Nothing has been received by anyone.
LEMMA NothingReceived ==
    ASSUME HookAssumption
    PROVE  Nothing \in [Accounts -> Nat] /\ Total(Accounts, Nothing) = 0
<1>1. \A a \in Accounts : Nothing[a] = 0
  BY DEF Nothing
<1>2. Nothing \in [Accounts -> Nat]
  BY DEF Nothing
<1>. QED  BY <1>1, <1>2, TotalZero

-----------------------------------------------------------------------------
(* The invariant is inductive *)

LEMMA InitIInv == ASSUME HookAssumption, Init PROVE IInv
<1>1. call \in Call /\ call.amount \in Nat
  BY DEF Init, HookAssumption, Call
<1>2. TypeOK
  BY <1>1, NothingReceived DEF Init, TypeOK
<1>3. Accounted
  BY <1>1, NothingReceived DEF Init, Accounted
<1>. QED  BY <1>2, <1>3 DEF Init, IInv, Entering, Validating, Splitting, Ending

\* Undoing an invalid call.
LEMMA RevertKeeps == ASSUME HookAssumption, IInv, ~ Valid, Revert PROVE IInv'
<1>1. call.amount \in Nat
  BY DEF IInv, TypeOK, HookAssumption, Call
<1>2. TypeOK'
  BY <1>1, NothingReceived DEF IInv, TypeOK, Revert
<1>3. Accounted'
  BY <1>1, NothingReceived DEF Accounted, Revert
<1>4. pc' = "reverted" /\ call' = call
  BY DEF Revert
<1>5. (~ Valid)'
  BY <1>4 DEF Valid, Splits, BipsOf
<1>. QED  BY <1>2, <1>3, <1>4, <1>5 DEF IInv, Entering, Validating, Splitting, Ending

\* The parameters of a call are typed and never change.
LEMMA CallTyped ==
    ASSUME HookAssumption, TypeOK
    PROVE  /\ call \in Calls /\ call.amount \in Nat
           /\ call.payTo \in Accounts \cup {NoAccount}
           /\ WholeBips \in Nat /\ WholeBips > 0
BY DEF TypeOK, HookAssumption, Call

LEMMA RefuseKeeps == ASSUME HookAssumption, IInv, Refuse PROVE IInv'
<1>1. ~ Valid
  BY DEF Refuse, Valid
<1>. QED  BY <1>1, RevertKeeps DEF Refuse

LEMMA SimpleKeeps == ASSUME HookAssumption, IInv, SimpleTransfer PROVE IInv'
<1>1. /\ TypeOK /\ Accounted /\ allowance = call.amount
      /\ call' = call /\ pc' = "done" /\ i' = i /\ totalBips' = totalBips /\ remaining' = remaining
      /\ TransferTo(call.payTo, call.amount)
      /\ call.sender = Router /\ call.payTo # NoAccount /\ call.data = NoData
  BY DEF IInv, Entering, SimpleTransfer
<1>2. call.payTo \in Accounts /\ call.amount \in Nat /\ allowance \in Nat
      /\ received \in [Accounts -> Nat]
  BY <1>1, CallTyped DEF TypeOK
<1>3. /\ received' \in [Accounts -> Nat] /\ allowance' \in Nat
      /\ Total(Accounts, received') + allowance' = Total(Accounts, received) + allowance
  BY <1>1, <1>2, TransferAccounted
<1>4. allowance' = 0
  BY <1>1, <1>2 DEF TransferTo
<1>5. Valid'
  BY <1>1 DEF Valid
<1>6. TypeOK'
  BY <1>1, <1>3 DEF TypeOK
<1>7. Accounted'
  BY <1>1, <1>3 DEF Accounted
<1>. QED  BY <1>1, <1>4, <1>5, <1>6, <1>7 DEF IInv, Entering, Validating, Splitting, Ending

LEMMA BeginKeeps == ASSUME HookAssumption, IInv, BeginDistributed PROVE IInv'
<1>1. CASE call.data = <<>>
  <2>1. ~ Valid
    BY <1>1 DEF BeginDistributed, Valid
  <2>. QED  BY <1>1, <2>1, RevertKeeps DEF BeginDistributed
<1>2. CASE call.data # <<>>
  <2>1. /\ pc' = "validate"
        /\ UNCHANGED <<call, i, totalBips, remaining, allowance, received>>
        /\ EntryAccepted /\ allowance = call.amount
    BY <1>2 DEF BeginDistributed, EntryAccepted, IInv, Entering
  <2>2. i = 1 /\ totalBips = 0
    BY DEF IInv, Entering, BeginDistributed
  <2>3. Len(call.data) \in Nat
    BY <2>1, CallTyped, SplitsTyped DEF IInv, EntryAccepted
  <2>4. 1 .. (i - 1) = {}
    BY <2>2
  <2>5. totalBips = Total(1 .. (i - 1), BipsOf)
    BY <2>2, <2>4, TotalEmpty
  <2>6. SplitsAcceptedUpTo(i - 1)
    BY <2>4 DEF SplitsAcceptedUpTo
  <2>7. Validating'
    BY <2>1, <2>2, <2>3, <2>5, <2>6
       DEF Validating, EntryAccepted, SplitsAcceptedUpTo, BipsOf, Splits
  <2>. QED  BY <2>1, <2>7 DEF IInv, TypeOK, Accounted, Entering, Splitting, Ending
<1>. QED  BY <1>1, <1>2

LEMMA ValidateKeeps == ASSUME HookAssumption, IInv, ValidateSplit PROVE IInv'
<1>1. /\ EntryAccepted /\ i <= Len(call.data) /\ SplitsAcceptedUpTo(i - 1)
      /\ totalBips = Total(1 .. (i - 1), BipsOf) /\ allowance = call.amount
  BY DEF IInv, Validating, ValidateSplit
<1>2. i \in Splits /\ call.data[i] \in Split /\ Len(call.data) \in Nat /\ i \in Nat
  <2>1. i \in Nat /\ i >= 1 /\ call \in Calls
    BY DEF IInv, TypeOK
  <2>2. i \in Splits
    BY <1>1, <2>1, SplitsTyped DEF Splits, EntryAccepted
  <2>. QED  BY <1>1, <2>1, <2>2, SplitsTyped DEF EntryAccepted
<1>3. CASE call.data[i].recipient = NoAccount \/ call.data[i].bips = 0
  <2>1. ~ Valid
    BY <1>1, <1>2, <1>3 DEF Valid, EntryAccepted
  <2>. QED  BY <1>3, <2>1, RevertKeeps DEF ValidateSplit
<1>4. CASE ~ (call.data[i].recipient = NoAccount \/ call.data[i].bips = 0)
  <2>1. /\ totalBips' = totalBips + call.data[i].bips /\ i' = i + 1
        /\ UNCHANGED <<call, pc, remaining, allowance, received>> /\ pc = "validate"
    BY <1>4 DEF ValidateSplit
  <2>2. call.data[i].bips \in Nat /\ call.data[i].bips > 0
    BY <1>2, <1>4 DEF Split, HookAssumption
  <2>3. SplitsAcceptedUpTo(i)
    BY <1>1, <1>2, <1>4, <2>2 DEF SplitsAcceptedUpTo
  <2>4. totalBips' = Total(1 .. i, BipsOf)
    BY <1>1, <1>2, <2>1, RunningTotal DEF EntryAccepted, IInv, TypeOK
  <2>5. i' - 1 = i /\ i' <= Len(call.data) + 1 /\ i' \in Nat \ {0}
    BY <1>1, <1>2, <2>1
  <2>6. Validating'
    BY <1>1, <2>1, <2>3, <2>4, <2>5
       DEF Validating, EntryAccepted, SplitsAcceptedUpTo, BipsOf, Splits
  <2>7. TypeOK'
    BY <2>1, <2>2, <2>5 DEF IInv, TypeOK
  <2>. QED  BY <2>1, <2>6, <2>7 DEF IInv, Accounted, Entering, Splitting, Ending
<1>. QED  BY <1>3, <1>4

\* The first loop has ended: all splits are accepted and totalBips is their sum.
LEMMA LoopEnd ==
    ASSUME HookAssumption, IInv, pc \in {"validate", "split"}, i > Len(call.data)
    PROVE  /\ i - 1 = Len(call.data) /\ 1 .. (i - 1) = Splits
           /\ Total(Splits, BipsOf) \in Nat
<1>1. /\ call.data # NoData /\ i <= Len(call.data) + 1 /\ i \in Nat /\ call \in Calls
  BY DEF IInv, TypeOK, Validating, Splitting, EntryAccepted
<1>2. Len(call.data) \in Nat /\ IsFiniteSet(Splits) /\ \A j \in Splits : BipsOf[j] \in Nat
  BY <1>1, SplitsTyped
<1>3. i - 1 = Len(call.data)
  BY <1>1, <1>2
<1>. QED  BY <1>2, <1>3, TotalNat DEF Splits

LEMMA CheckKeeps == ASSUME HookAssumption, IInv, CheckTotal PROVE IInv'
<1>1. /\ EntryAccepted /\ SplitsAcceptedUpTo(i - 1) /\ allowance = call.amount
      /\ totalBips = Total(1 .. (i - 1), BipsOf)
      /\ pc = "validate" /\ i > Len(call.data)
  BY DEF IInv, Validating, CheckTotal
<1>2. /\ 1 .. (i - 1) = Splits /\ totalBips = Total(Splits, BipsOf) /\ totalBips \in Nat
  BY <1>1, LoopEnd
<1>3. CASE totalBips > WholeBips
  <2>1. ~ Valid
    BY <1>1, <1>2, <1>3, CallTyped DEF Valid, EntryAccepted, IInv
  <2>. QED  BY <1>3, <2>1, RevertKeeps DEF CheckTotal
<1>4. CASE ~ (totalBips > WholeBips)
  <2>1. /\ pc' = "split" /\ i' = 1 /\ remaining' = call.amount
        /\ UNCHANGED <<call, totalBips, allowance, received>>
    BY <1>4 DEF CheckTotal
  <2>2. Total(Splits, BipsOf) <= WholeBips
    BY <1>2, <1>4, CallTyped DEF IInv
  <2>3. Valid
    BY <1>1, <1>2, <2>2 DEF Valid, EntryAccepted, SplitsAcceptedUpTo
  <2>4. 1 .. (1 - 1) = {}
    OBVIOUS
  <2>5. Total(1 .. (1 - 1), BipsOf) = 0
    BY <2>4, TotalEmpty
  <2>6. call.amount * WholeBips >= call.amount * (WholeBips - 0)
    BY CallTyped DEF IInv
  <2>7. Len(call.data) \in Nat
    BY <1>1, CallTyped, SplitsTyped DEF IInv, EntryAccepted
  <2>8. Splitting'
    BY <1>1, <2>1, <2>3, <2>5, <2>6, <2>7
       DEF Splitting, Valid, EntryAccepted, BipsOf, Splits
  <2>9. TypeOK'
    BY <2>1, CallTyped DEF IInv, TypeOK
  <2>. QED  BY <2>1, <2>8, <2>9 DEF IInv, Accounted, Entering, Validating, Ending
<1>. QED  BY <1>3, <1>4

\* What remains after a share is paid still covers what is to come.
LEMMA RestCovers ==
    ASSUME NEW n \in Nat, NEW w \in Nat, w > 0, NEW rest \in Nat,
           NEW t \in Nat, NEW b \in Nat, t + b <= w,
           rest * w >= n * (w - t),
           NEW share \in Nat, share * w <= n * b
    PROVE  /\ share <= rest
           /\ (rest - share) * w >= n * (w - (t + b))
<1>1. n * (w - t) = n * w - n * t /\ n * (w - (t + b)) = n * w - n * t - n * b
  BY Z3
<1>2. (rest - share) * w = rest * w - share * w
  BY Z3
<1>3. (rest - share) * w >= n * (w - (t + b))
  BY <1>1, <1>2
<1>4. n * (w - (t + b)) >= 0
  <2>1. w - (t + b) \in Nat
    OBVIOUS
  <2>. QED  BY <2>1, Z3
<1>5. (rest - share) * w >= 0
  BY <1>3, <1>4
<1>6. rest - share >= 0
  BY <1>5, Z3
<1>. QED  BY <1>3, <1>6

LEMMA PaySplitKeeps == ASSUME HookAssumption, IInv, PaySplit PROVE IInv'
<1>. DEFINE b == call.data[i].bips
            t == Total(1 .. (i - 1), BipsOf)
            share == Share(b)
<1>1. /\ pc = "split" /\ i <= Len(call.data) /\ Valid /\ call.data # NoData
      /\ allowance = remaining
      /\ remaining * WholeBips >= call.amount * (WholeBips - t)
      /\ TypeOK /\ Accounted
  BY DEF IInv, Splitting, PaySplit
<1>2. /\ i \in Splits /\ call.data[i] \in Split /\ Len(call.data) \in Nat /\ i \in Nat
  <2>1. i \in Nat /\ i >= 1 /\ call \in Calls
    BY <1>1 DEF TypeOK
  <2>2. i \in Splits
    BY <1>1, <2>1, SplitsTyped DEF Splits
  <2>. QED  BY <1>1, <2>1, <2>2, SplitsTyped
<1>3. /\ b \in Nat /\ call.data[i].recipient \in Accounts
  BY <1>1, <1>2 DEF Split, Valid, HookAssumption
<1>4. /\ t \in Nat /\ Total(1 .. i, BipsOf) = t + b /\ t + b <= WholeBips
  <2>1. /\ t \in Nat /\ Total(1 .. i, BipsOf) = t + b
        /\ Total(1 .. i, BipsOf) <= Total(Splits, BipsOf)
    BY <1>1, <1>2, RunningTotal DEF TypeOK
  <2>2. Total(Splits, BipsOf) <= WholeBips
    BY <1>1 DEF Valid
  <2>3. Total(Splits, BipsOf) \in Nat
    BY <1>1, SplitsTyped, TotalNat DEF TypeOK
  <2>. QED  BY <1>3, <2>1, <2>2, <2>3, CallTyped, <1>1
<1>5. call.amount \in Nat /\ WholeBips \in Nat /\ WholeBips > 0 /\ remaining \in Nat
  BY <1>1, CallTyped DEF TypeOK
<1>6. share \in Nat /\ share * WholeBips <= call.amount * b
  <2>1. call.amount * b \in Nat
    BY <1>3, <1>5
  <2>. QED  BY <1>5, <2>1, ShareBound DEF Share
<1>. HIDE DEF share, t, b
<1>7. /\ share <= remaining
      /\ (remaining - share) * WholeBips >= call.amount * (WholeBips - (t + b))
  BY <1>1, <1>3, <1>4, <1>5, <1>6, RestCovers
<1>8. /\ TransferTo(call.data[i].recipient, share)
      /\ remaining' = remaining - share /\ i' = i + 1
      /\ UNCHANGED <<call, pc, totalBips>>
  BY <1>1, <1>7 DEF PaySplit, Transferable, share, b
<1>9. /\ received' \in [Accounts -> Nat] /\ allowance' \in Nat
      /\ Total(Accounts, received') + allowance' = Total(Accounts, received) + allowance
  BY <1>1, <1>3, <1>6, <1>7, <1>8, TransferAccounted DEF TypeOK
<1>10. TypeOK'
  BY <1>1, <1>2, <1>5, <1>6, <1>7, <1>8, <1>9 DEF TypeOK
<1>11. Accounted'
  BY <1>1, <1>8, <1>9 DEF Accounted
<1>12. Splitting'
  <2>1. i' - 1 = i /\ i' <= Len(call.data) + 1 /\ allowance' = remaining'
    BY <1>1, <1>2, <1>8 DEF TransferTo
  <2>2. remaining' * WholeBips >= call.amount * (WholeBips - Total(1 .. i, BipsOf))
    BY <1>4, <1>7, <1>8
  <2>. QED  BY <1>1, <1>8, <2>1, <2>2 DEF Splitting, Valid, BipsOf, Splits
<1>. QED  BY <1>1, <1>8, <1>10, <1>11, <1>12 DEF IInv, Entering, Validating, Ending

LEMMA PayRestKeeps == ASSUME HookAssumption, IInv, PayRest PROVE IInv'
<1>1. /\ pc = "split" /\ Valid /\ allowance = remaining /\ TypeOK /\ Accounted
      /\ remaining \in Nat
  BY DEF IInv, Splitting, PayRest, TypeOK
<1>2. Transferable(remaining)
  BY <1>1 DEF Transferable
<1>3. /\ pc' = "done" /\ UNCHANGED <<call, i, totalBips, remaining>>
      /\ remaining > 0 => TransferTo(call.payTo, remaining)
      /\ ~ (remaining > 0) => UNCHANGED <<allowance, received>>
  BY <1>2 DEF PayRest
<1>4. /\ received' \in [Accounts -> Nat] /\ allowance' = 0
      /\ Total(Accounts, received') + allowance' = Total(Accounts, received) + allowance
  <2>1. CASE remaining > 0
    <3>1. call.payTo \in Accounts
      BY <1>1, CallTyped DEF Valid
    <3>2. remaining <= allowance /\ received \in [Accounts -> Nat] /\ allowance \in Nat
      BY <1>1 DEF TypeOK
    <3>3. /\ received' \in [Accounts -> Nat]
          /\ Total(Accounts, received') + allowance' = Total(Accounts, received) + allowance
      BY <1>1, <1>3, <2>1, <3>1, <3>2, TransferAccounted
    <3>4. allowance' = 0
      BY <1>1, <1>3, <2>1 DEF TransferTo
    <3>. QED  BY <3>3, <3>4
  <2>2. CASE ~ (remaining > 0)
    BY <1>1, <1>3, <2>2 DEF TypeOK
  <2>. QED  BY <2>1, <2>2
<1>5. TypeOK'
  BY <1>1, <1>3, <1>4 DEF TypeOK
<1>6. Accounted'
  BY <1>1, <1>3, <1>4 DEF Accounted
<1>7. Valid'
  BY <1>1, <1>3 DEF Valid, Splits, BipsOf
<1>. QED  BY <1>3, <1>4, <1>5, <1>6, <1>7 DEF IInv, Entering, Validating, Splitting, Ending

LEMMA StutterKeeps == ASSUME IInv, UNCHANGED vars PROVE IInv'
BY DEF vars, IInv, TypeOK, Accounted, Entering, Validating, EntryAccepted, SplitsAcceptedUpTo,
       Splitting, Ending, Valid, Splits, BipsOf

LEMMA NextKeeps == ASSUME HookAssumption, IInv, [Next]_vars PROVE IInv'
<1>1. CASE Refuse           BY <1>1, RefuseKeeps
<1>2. CASE SimpleTransfer   BY <1>2, SimpleKeeps
<1>3. CASE BeginDistributed BY <1>3, BeginKeeps
<1>4. CASE ValidateSplit    BY <1>4, ValidateKeeps
<1>5. CASE CheckTotal       BY <1>5, CheckKeeps
<1>6. CASE PaySplit         BY <1>6, PaySplitKeeps
<1>7. CASE PayRest          BY <1>7, PayRestKeeps
<1>8. CASE UNCHANGED vars   BY <1>8, StutterKeeps
<1>. QED  BY <1>1, <1>2, <1>3, <1>4, <1>5, <1>6, <1>7, <1>8 DEF Next

-----------------------------------------------------------------------------
(* Theorems *)

LEMMA Inductive == Spec => []IInv
<1>1. Init => IInv
  BY HookAssumption, InitIInv
<1>2. IInv /\ [Next]_vars => IInv'
  BY HookAssumption, NextKeeps
<1>. QED  BY <1>1, <1>2, PTL DEF Spec

\* execute carries out a call if and only if the call is valid, for every amount and
\* every list of splits: the rounding of the shares can neither make a transfer fail
\* nor make remaining underflow.
THEOREM ValidCallsComplete == Spec => []DoneIffValid
<1>1. IInv => DoneIffValid
  BY DEF IInv, Ending, DoneIffValid
<1>. QED  BY <1>1, Inductive, PTL

\* A completed call of execute has taken the whole allowance and passed all of it on.
THEOREM WholeAllowanceTaken == Spec => []TakesWholeAllowance
<1>1. ASSUME IInv PROVE TakesWholeAllowance
  <2>1. Total(Accounts, received) \in Nat
    BY <1>1, HookAssumption, TotalNat DEF IInv, TypeOK, HookAssumption
  <2>. QED  BY <1>1, <2>1 DEF IInv, Ending, Accounted, TakesWholeAllowance
<1>. QED  BY <1>1, Inductive, PTL

\* Allowance, remainder and payments stay natural numbers: no subtraction underflows.
THEOREM HookTypeCorrect == Spec => []TypeOK
<1>1. IInv => TypeOK
  BY DEF IInv
<1>. QED  BY <1>1, Inductive, PTL

-----------------------------------------------------------------------------
(* What each recipient gets *)

OwnUpTo(a, n) == {j \in 1 .. n : call.data[j].recipient = a}

OthersUpTo(n) == {j \in 1 .. n : call.data[j].recipient # call.payTo}

\* Rounding has cost a recipient less than a unit for each of its splits paid so far.
RoundedDownUpTo(n) ==
    \A a \in Accounts :
        /\ received[a] * WholeBips <= call.amount * Total(OwnUpTo(a, n), BipsOf)
        /\ call.amount * Total(OwnUpTo(a, n), BipsOf) - received[a] * WholeBips
               <= Cardinality(OwnUpTo(a, n)) * (WholeBips - 1)

\* What the payee has and what remains is at least what the others leave.
PayeeCoveredUpTo(n) ==
    (received[call.payTo] + remaining) * WholeBips
        >= call.amount * (WholeBips - Total(OthersUpTo(n), BipsOf))

Shares ==
    /\ pc \in {"enter", "validate"} => received = Nothing
    /\ pc = "split" => RoundedDownUpTo(i - 1) /\ PayeeCoveredUpTo(i - 1)
    /\ SharesAsPromised

\* One more split of a recipient: its share, rounded down, loses less than a unit.
LEMMA OneMoreShare ==
    ASSUME NEW n \in Nat, NEW w \in Nat, w > 0, NEW got \in Nat, NEW t \in Nat,
           NEW c \in Nat, NEW b \in Nat, NEW share \in Nat,
           got * w <= n * t, n * t - got * w <= c * (w - 1),
           share * w <= n * b, n * b - share * w <= w - 1
    PROVE  /\ (got + share) * w <= n * (t + b)
           /\ n * (t + b) - (got + share) * w <= (c + 1) * (w - 1)
<1>1. (got + share) * w = got * w + share * w
  BY Z3
<1>2. n * (t + b) = n * t + n * b
  BY Z3
<1>3. (c + 1) * (w - 1) = c * (w - 1) + (w - 1)
  BY Z3
<1>4. got * w \in Int /\ share * w \in Int /\ n * t \in Int /\ n * b \in Int /\ c * (w - 1) \in Int
  BY Z3
<1>. DEFINE gw == got * w
            sw == share * w
            nt == n * t
            nb == n * b
            cw == c * (w - 1)
<1>5. /\ gw \in Int /\ sw \in Int /\ nt \in Int /\ nb \in Int /\ cw \in Int
      /\ gw <= nt /\ nt - gw <= cw /\ sw <= nb /\ nb - sw <= w - 1
      /\ (got + share) * w = gw + sw /\ n * (t + b) = nt + nb /\ (c + 1) * (w - 1) = cw + (w - 1)
  BY <1>1, <1>2, <1>3, <1>4
<1>. HIDE DEF gw, sw, nt, nb, cw
<1>6. gw + sw <= nt + nb /\ (nt + nb) - (gw + sw) <= cw + (w - 1)
  BY <1>5
<1>. QED  BY <1>5, <1>6

\* One more split of somebody else: the payee's cover shrinks by no more than it.
LEMMA OneLessCovered ==
    ASSUME NEW n \in Nat, NEW w \in Nat, w > 0, NEW have \in Nat, NEW t \in Nat,
           NEW b \in Nat, NEW share \in Nat,
           have * w >= n * (w - t), share * w <= n * b
    PROVE  (have - share) * w >= n * (w - (t + b))
<1>1. n * (w - t) = n * w - n * t /\ n * (w - (t + b)) = n * w - n * t - n * b
  BY Z3
<1>2. (have - share) * w = have * w - share * w
  BY Z3
<1>. QED  BY <1>1, <1>2

\* A share rounded down loses less than a unit.
LEMMA ShareLoss ==
    ASSUME NEW n \in Nat, NEW w \in Nat, w > 0
    PROVE  n - (n \div w) * w <= w - 1
BY Z3

\* A set of splits that grows by the next split, or does not contain it.
LEMMA NextSplitIn ==
    ASSUME HookAssumption, call \in Calls, call.data # NoData, NEW n \in Splits,
           NEW A, A \subseteq 1 .. (n - 1)
    PROVE  /\ Total(A, BipsOf) \in Nat /\ Cardinality(A) \in Nat
           /\ Total(A \cup {n}, BipsOf) = Total(A, BipsOf) + call.data[n].bips
           /\ Cardinality(A \cup {n}) = Cardinality(A) + 1
<1>1. n \in Nat /\ n >= 1 /\ n <= Len(call.data) /\ Len(call.data) \in Nat
  BY SplitsTyped DEF Splits
<1>2. n \notin A /\ A \cup {n} \subseteq Splits /\ A \subseteq Splits
  BY <1>1 DEF Splits
<1>3. IsFiniteSet(A)
  BY <1>2, SplitsTyped, FS_Subset
<1>4. \A j \in A \cup {n} : BipsOf[j] \in Nat
  BY <1>2, SplitsTyped
<1>5. Total(A \cup {n}, BipsOf) = Total(A, BipsOf) + BipsOf[n] /\ BipsOf[n] = call.data[n].bips
  BY <1>2, <1>3, <1>4, TotalAdd, SplitsTyped
<1>6. Cardinality(A \cup {n}) = Cardinality(A) + 1 /\ Cardinality(A) \in Nat
  BY <1>2, <1>3, FS_AddElement, FS_CardinalityType
<1>7. Total(A, BipsOf) \in Nat
  BY <1>3, <1>4, TotalNat
<1>. QED  BY <1>5, <1>6, <1>7

\* What a step of the second loop does.
LEMMA SplitPaid ==
    ASSUME HookAssumption, IInv, PaySplit
    PROVE  LET b     == call.data[i].bips
               share == Share(b)
           IN  /\ call \in Calls /\ call.data # NoData /\ i \in Splits /\ i \in Nat
               /\ b \in Nat /\ share \in Nat
               /\ share * WholeBips <= call.amount * b
               /\ call.amount * b - share * WholeBips <= WholeBips - 1
               /\ call.payTo \in Accounts
               /\ \/ pc' = "reverted"
                  \/ /\ pc' = "split" /\ i' = i + 1 /\ call' = call
                     /\ remaining' = remaining - share
                     /\ TransferTo(call.data[i].recipient, share)
<1>. DEFINE b == call.data[i].bips
            share == Share(b)
<1>1. /\ i <= Len(call.data) /\ Valid /\ call.data # NoData /\ TypeOK /\ pc = "split"
  BY DEF IInv, Splitting, PaySplit
<1>2. i \in Nat /\ i >= 1 /\ call \in Calls
  BY <1>1 DEF TypeOK
<1>3. i \in Splits /\ call.data[i] \in Split
  BY <1>1, <1>2, SplitsTyped DEF Splits
<1>4. b \in Nat
  BY <1>3 DEF Split, HookAssumption
<1>5. call.payTo \in Accounts
  BY <1>1, CallTyped DEF Valid
<1>6. call.amount * b \in Nat /\ WholeBips \in Nat /\ WholeBips > 0
  BY <1>1, <1>4, CallTyped
<1>7. /\ share \in Nat /\ share * WholeBips <= call.amount * b
      /\ call.amount * b - share * WholeBips <= WholeBips - 1
  BY <1>6, ShareBound, ShareLoss DEF Share
<1>8. \/ pc' = "reverted"
      \/ /\ pc' = "split" /\ i' = i + 1 /\ call' = call
         /\ remaining' = remaining - share
         /\ TransferTo(call.data[i].recipient, share)
  BY <1>1 DEF PaySplit, Revert
<1>. QED  BY <1>1, <1>2, <1>3, <1>4, <1>5, <1>7, <1>8

\* One more split is paid: its recipient is credited a rounded share of it, and what
\* remains shrinks by that share.
LEMMA PaySplitShares == ASSUME HookAssumption, IInv, Shares, PaySplit PROVE Shares'
<1>. DEFINE b == call.data[i].bips
            share == Share(b)
            r == call.data[i].recipient
            k == i - 1
<1>1. /\ call \in Calls /\ call.data # NoData /\ i \in Splits /\ i \in Nat
      /\ b \in Nat /\ share \in Nat
      /\ share * WholeBips <= call.amount * b
      /\ call.amount * b - share * WholeBips <= WholeBips - 1
      /\ call.payTo \in Accounts
      /\ \/ pc' = "reverted"
         \/ /\ pc' = "split" /\ i' = i + 1 /\ call' = call
            /\ remaining' = remaining - share
            /\ TransferTo(r, share)
  BY SplitPaid
<1>2. RoundedDownUpTo(k) /\ PayeeCoveredUpTo(k)
  BY DEF Shares, PaySplit
<1>3. /\ received \in [Accounts -> Nat] /\ remaining \in Nat
      /\ call.amount \in Nat /\ WholeBips \in Nat /\ WholeBips > 0
  BY CallTyped DEF IInv, TypeOK
<1>. HIDE DEF share, b
<1>4. CASE pc' = "reverted"
  BY <1>4 DEF Shares, SharesAsPromised
<1>5. CASE ~ (pc' = "reverted")
  <2>1. /\ pc' = "split" /\ i' = i + 1 /\ call' = call /\ remaining' = remaining - share
        /\ received' = [received EXCEPT ![r] = @ + share]
    BY <1>1, <1>5 DEF TransferTo
  <2>2. BipsOf' = BipsOf /\ i' - 1 = i
    BY <1>1, <2>1 DEF BipsOf, Splits
  <2>3. \A A \in SUBSET (1 .. k) :
            /\ Total(A, BipsOf) \in Nat /\ Cardinality(A) \in Nat
            /\ Total(A \cup {i}, BipsOf) = Total(A, BipsOf) + b
            /\ Cardinality(A \cup {i}) = Cardinality(A) + 1
    BY <1>1, NextSplitIn DEF b
  <2>4. 1 .. i = (1 .. k) \cup {i}
    BY <1>1 DEF Splits
  <2>5. RoundedDownUpTo(i - 1)'
    <3>1. SUFFICES ASSUME NEW a \in Accounts
                   PROVE  LET own == OwnUpTo(a, i)
                          IN  /\ received'[a] * WholeBips <= call.amount * Total(own, BipsOf)
                              /\ call.amount * Total(own, BipsOf) - received'[a] * WholeBips
                                     <= Cardinality(own) * (WholeBips - 1)
      <4>1. ASSUME NEW a PROVE OwnUpTo(a, i - 1)' = OwnUpTo(a, i)
        BY <2>1, <2>2 DEF OwnUpTo
      <4>. QED  BY <2>1, <2>2, <4>1 DEF RoundedDownUpTo
    <3>. DEFINE own == OwnUpTo(a, k)
    <3>2. /\ received[a] * WholeBips <= call.amount * Total(own, BipsOf)
          /\ call.amount * Total(own, BipsOf) - received[a] * WholeBips
                 <= Cardinality(own) * (WholeBips - 1)
      BY <1>2 DEF RoundedDownUpTo
    <3>3. own \in SUBSET (1 .. k)
      BY DEF OwnUpTo
    <3>4. CASE a = r
      <4>1. OwnUpTo(a, i) = own \cup {i}
        BY <2>4, <3>4 DEF OwnUpTo
      <4>2. received'[a] = received[a] + share
        BY <1>3, <2>1, <3>4
      <4>3. /\ Total(own, BipsOf) \in Nat /\ Cardinality(own) \in Nat
            /\ Total(own \cup {i}, BipsOf) = Total(own, BipsOf) + b
            /\ Cardinality(own \cup {i}) = Cardinality(own) + 1
        BY <2>3, <3>3
      <4>4. received[a] \in Nat
        BY <1>3
      <4>. HIDE DEF own
      <4>5. /\ (received[a] + share) * WholeBips <= call.amount * (Total(own, BipsOf) + b)
            /\ call.amount * (Total(own, BipsOf) + b) - (received[a] + share) * WholeBips
                   <= (Cardinality(own) + 1) * (WholeBips - 1)
        BY <1>1, <1>3, <3>2, <4>3, <4>4, OneMoreShare
      <4>. QED  BY <4>1, <4>2, <4>3, <4>5, Zenon
    <3>5. CASE a # r
      <4>1. OwnUpTo(a, i) = own
        BY <2>4, <3>5 DEF OwnUpTo
      <4>2. received'[a] = received[a]
        BY <1>3, <2>1, <3>5
      <4>. QED  BY <3>2, <4>1, <4>2
    <3>. QED  BY <3>4, <3>5
  <2>6. PayeeCoveredUpTo(i - 1)'
    <3>1. SUFFICES (received'[call.payTo] + remaining') * WholeBips
                      >= call.amount * (WholeBips - Total(OthersUpTo(i), BipsOf))
      <4>1. OthersUpTo(i - 1)' = OthersUpTo(i)
        BY <2>1, <2>2 DEF OthersUpTo
      <4>. QED  BY <2>1, <2>2, <4>1 DEF PayeeCoveredUpTo
    <3>. DEFINE others == OthersUpTo(k)
                have == received[call.payTo] + remaining
    <3>2. have * WholeBips >= call.amount * (WholeBips - Total(others, BipsOf))
      BY <1>2 DEF PayeeCoveredUpTo
    <3>3. others \in SUBSET (1 .. k)
      BY DEF OthersUpTo
    <3>4. received[call.payTo] \in Nat /\ have \in Nat
      BY <1>1, <1>3
    <3>5. CASE call.payTo = r
      <4>1. OthersUpTo(i) = others
        BY <2>4, <3>5 DEF OthersUpTo
      <4>2. received'[call.payTo] = received[call.payTo] + share
        BY <1>1, <1>3, <2>1, <3>5
      <4>3. received'[call.payTo] + remaining' = have
        BY <1>1, <1>3, <2>1, <3>4, <4>2
      <4>. HIDE DEF have, others
      <4>. QED  BY <3>2, <4>1, <4>3
    <3>6. CASE call.payTo # r
      <4>1. OthersUpTo(i) = others \cup {i}
        BY <2>4, <3>6 DEF OthersUpTo
      <4>2. received'[call.payTo] = received[call.payTo]
        BY <1>1, <1>3, <2>1, <3>6
      <4>3. received'[call.payTo] + remaining' = have - share
        BY <1>1, <1>3, <2>1, <3>4, <4>2
      <4>4. /\ Total(others, BipsOf) \in Nat
            /\ Total(others \cup {i}, BipsOf) = Total(others, BipsOf) + b
        BY <2>3, <3>3
      <4>. HIDE DEF have, others
      <4>5. (have - share) * WholeBips
                >= call.amount * (WholeBips - (Total(others, BipsOf) + b))
        BY <1>1, <1>3, <3>2, <3>4, <4>4, OneLessCovered
      <4>. QED  BY <4>1, <4>3, <4>4, <4>5, Zenon
    <3>. QED  BY <3>5, <3>6
  <2>. QED  BY <2>1, <2>5, <2>6 DEF Shares, SharesAsPromised
<1>. QED  BY <1>4, <1>5

\* The payee gets what remains.
LEMMA PayRestShares == ASSUME HookAssumption, IInv, Shares, PayRest PROVE Shares'
<1>1. /\ pc = "split" /\ Valid /\ call.data # NoData /\ i > Len(call.data)
      /\ allowance = remaining /\ TypeOK
      /\ RoundedDownUpTo(i - 1) /\ PayeeCoveredUpTo(i - 1)
  BY DEF IInv, Splitting, PayRest, Shares
<1>2. /\ 1 .. (i - 1) = Splits
  BY <1>1, LoopEnd
<1>3. /\ received \in [Accounts -> Nat] /\ remaining \in Nat /\ call.payTo \in Accounts
  BY <1>1, CallTyped DEF TypeOK, Valid
<1>4. Transferable(remaining)
  BY <1>1, <1>3 DEF Transferable
<1>5. /\ pc' = "done" /\ call' = call
      /\ received'[call.payTo] = received[call.payTo] + remaining
      /\ \A a \in Accounts : a # call.payTo => received'[a] = received[a]
  <2>1. CASE remaining > 0
    BY <1>3, <1>4, <2>1 DEF PayRest, TransferTo
  <2>2. CASE ~ (remaining > 0)
    BY <1>3, <1>4, <2>2 DEF PayRest
  <2>. QED  BY <2>1, <2>2
<1>6. BipsOf' = BipsOf /\ Splits' = Splits
  BY <1>5 DEF BipsOf, Splits
<1>7. ASSUME NEW a \in Accounts
      PROVE  LET own   == {j \in Splits : call.data[j].recipient = a}
                 exact == call.amount * Total(own, BipsOf)
                 got   == received'[a] * WholeBips
             IN  IF a = call.payTo
                 THEN got >= call.amount * (WholeBips - Total(Splits \ own, BipsOf))
                 ELSE got <= exact /\ exact - got <= Cardinality(own) * (WholeBips - 1)
  <2>. DEFINE own == {j \in Splits : call.data[j].recipient = a}
  <2>1. CASE a = call.payTo
    <3>1. Splits \ own = OthersUpTo(i - 1)
      BY <1>2, <2>1 DEF OthersUpTo
    <3>2. received'[a] = received[call.payTo] + remaining
      BY <1>5, <2>1
    <3>3. (received[call.payTo] + remaining) * WholeBips
              >= call.amount * (WholeBips - Total(OthersUpTo(i - 1), BipsOf))
      BY <1>1 DEF PayeeCoveredUpTo
    <3>. QED  BY <2>1, <3>1, <3>2, <3>3
  <2>2. CASE a # call.payTo
    <3>1. own = OwnUpTo(a, i - 1)
      BY <1>2 DEF OwnUpTo
    <3>2. received'[a] = received[a]
      BY <1>5, <2>2
    <3>. QED  BY <1>1, <2>2, <3>1, <3>2 DEF RoundedDownUpTo
  <2>. QED  BY <2>1, <2>2
<1>8. SharesAsPromised'
  BY <1>5, <1>6, <1>7 DEF SharesAsPromised
<1>. QED  BY <1>5, <1>8 DEF Shares

LEMMA CheckShares == ASSUME HookAssumption, IInv, Shares, CheckTotal PROVE Shares'
<1>1. CASE totalBips > WholeBips
  BY <1>1 DEF CheckTotal, Revert, Shares, SharesAsPromised
<1>2. CASE ~ (totalBips > WholeBips)
  <2>1. /\ pc' = "split" /\ i' = 1 /\ remaining' = call.amount /\ call' = call
        /\ received' = received /\ received = Nothing
    BY <1>2 DEF CheckTotal, Shares
  <2>2. call \in Calls /\ call.payTo \in Accounts
    BY CallTyped DEF IInv, Validating, EntryAccepted, CheckTotal
  <2>3. received' = Nothing /\ call' \in Calls /\ call'.payTo \in Accounts
        /\ remaining' = call'.amount /\ i' - 1 = 0
    BY <2>1, <2>2
  <2>4. call.amount \in Nat /\ WholeBips \in Nat
    BY CallTyped DEF IInv
  <2>5. ASSUME NEW a PROVE OwnUpTo(a, i - 1)' = {}
    BY <2>3 DEF OwnUpTo
  <2>6. OthersUpTo(i - 1)' = {}
    BY <2>3 DEF OthersUpTo
  <2>7. Total({}, BipsOf') = 0 /\ Cardinality({}) = 0
    BY TotalEmpty, FS_EmptySet
  <2>8. RoundedDownUpTo(i - 1)'
    <3>1. SUFFICES ASSUME NEW a \in Accounts
                   PROVE  /\ received'[a] * WholeBips <= call.amount * 0
                          /\ call.amount * 0 - received'[a] * WholeBips <= 0 * (WholeBips - 1)
      BY <2>1, <2>5, <2>7 DEF RoundedDownUpTo
    <3>2. received'[a] = 0
      BY <2>3 DEF Nothing
    <3>3. 0 * WholeBips = 0 /\ call.amount * 0 = 0 /\ 0 * (WholeBips - 1) = 0
      BY <2>4
    <3>. QED  BY <3>2, <3>3
  <2>9. PayeeCoveredUpTo(i - 1)'
    <3>1. SUFFICES (received'[call.payTo] + call.amount) * WholeBips
                       >= call.amount * (WholeBips - 0)
      BY <2>1, <2>6, <2>7 DEF PayeeCoveredUpTo
    <3>2. received'[call.payTo] = 0
      BY <2>2, <2>3 DEF Nothing
    <3>3. (0 + call.amount) * WholeBips >= call.amount * (WholeBips - 0)
      BY <2>4
    <3>. QED  BY <3>2, <3>3
  <2>. QED  BY <2>1, <2>3, <2>8, <2>9 DEF Shares, SharesAsPromised
<1>. QED  BY <1>1, <1>2

LEMMA SharesInductive == ASSUME HookAssumption, IInv, Shares, [Next]_vars PROVE Shares'
<1>1. CASE Refuse
  BY <1>1 DEF Refuse, Revert, Shares, SharesAsPromised
<1>2. CASE SimpleTransfer
  BY <1>2 DEF SimpleTransfer, Shares, SharesAsPromised
<1>3. CASE BeginDistributed
  BY <1>3 DEF BeginDistributed, Revert, Shares, SharesAsPromised
<1>4. CASE ValidateSplit
  BY <1>4 DEF ValidateSplit, Revert, Shares, SharesAsPromised
<1>5. CASE CheckTotal
  BY <1>5, CheckShares
<1>6. CASE PaySplit
  BY <1>6, PaySplitShares
<1>7. CASE PayRest
  BY <1>7, PayRestShares
<1>8. CASE UNCHANGED vars
  BY <1>8 DEF vars, Shares, RoundedDownUpTo, PayeeCoveredUpTo, OwnUpTo, OthersUpTo,
              SharesAsPromised, BipsOf, Splits
<1>. QED  BY <1>1, <1>2, <1>3, <1>4, <1>5, <1>6, <1>7, <1>8 DEF Next

\* Every recipient gets its percentage, short of less than a unit for each of its
\* splits, and the payee at least the rest, for every amount and every list of splits.
THEOREM SharesKept == Spec => []SharesAsPromised
<1>1. Init => Shares
  BY DEF Init, Shares, SharesAsPromised
<1>2. IInv /\ Shares /\ [Next]_vars => Shares'
  BY HookAssumption, SharesInductive
<1>3. Shares => SharesAsPromised
  BY DEF Shares
<1>. QED  BY <1>1, <1>2, <1>3, Inductive, PTL DEF Spec

=============================================================================
