---------------------------- MODULE TransferHook ----------------------------
(***************************************************************************)
(* contracts/src/hooks/TransferHook.sol: the built-in hook.  It moves its  *)
(* allowance, the payment less the fee, to the payee, or divides it among  *)
(* recipients by basis points and leaves the rest to the payee.            *)
(*                                                                         *)
(* One call of execute, its loops step by step; a revert undoes the call.  *)
(* Whatever does not reach its recipients stays in the router, which then  *)
(* fails the whole settlement (SettlementRouter!RouterKeeps).              *)
(***************************************************************************)
EXTENDS UnitCounting, Sequences

CONSTANTS
    Accounts,    \* addresses, the router among them
    Router,
    NoAccount,   \* address(0)
    NoData,      \* empty hook data (not an encoded empty list of splits)
    WholeBips,   \* 10000
    MaxBips,     \* largest uint16
    Calls        \* the calls of execute

Split == [recipient: Accounts \cup {NoAccount}, bips: 0 .. MaxBips]

Call == [sender: Accounts, amount: Nat, payTo: Accounts \cup {NoAccount},
         data: Seq(Split) \cup {NoData}]

ASSUME HookAssumption ==
    /\ IsFiniteSet(Accounts) /\ Router \in Accounts
    /\ NoAccount \notin Accounts
    /\ NoData \notin Seq(Split)
    /\ WholeBips \in Nat \ {0}
    /\ MaxBips \in Nat
    /\ Calls \subseteq Call

VARIABLES
    call,        \* the parameters
    pc,          \* "enter", "validate", "split", "done" or "reverted"
    i,           \* loop index
    totalBips,   \* sum of the bips validated so far
    remaining,   \* what the splits have left over
    allowance,   \* what the hook may still take from the router
    received     \* received[account]: what the call has transferred to it

vars == <<call, pc, i, totalBips, remaining, allowance, received>>

Nothing == [a \in Accounts |-> 0]

TypeOK ==
    /\ call \in Calls
    /\ pc \in {"enter", "validate", "split", "done", "reverted"}
    /\ i \in Nat \ {0}
    /\ totalBips \in Nat
    /\ remaining \in Nat
    /\ allowance \in Nat
    /\ received \in [Accounts -> Nat]

\* The router has approved the hook for the amount.
Init ==
    /\ call \in Calls
    /\ pc = "enter"
    /\ i = 1
    /\ totalBips = 0
    /\ remaining = 0
    /\ allowance = call.amount
    /\ received = Nothing

-----------------------------------------------------------------------------

Revert ==
    /\ pc' = "reverted"
    /\ allowance' = call.amount
    /\ received' = Nothing
    /\ UNCHANGED <<call, i, totalBips, remaining>>

\* safeTransferFrom the router: takes from the allowance or reverts.
Transferable(amount) == amount <= allowance

TransferTo(a, amount) ==
    /\ allowance' = allowance - amount
    /\ received' = [received EXCEPT ![a] = @ + amount]

\* onlyRouter, and the check of payTo.
Refuse ==
    /\ pc = "enter"
    /\ call.sender # Router \/ call.payTo = NoAccount
    /\ Revert

SimpleTransfer ==
    /\ pc = "enter"
    /\ call.sender = Router /\ call.payTo # NoAccount
    /\ call.data = NoData
    /\ TransferTo(call.payTo, call.amount)
    /\ pc' = "done"
    /\ UNCHANGED <<call, i, totalBips, remaining>>

BeginDistributed ==
    /\ pc = "enter"
    /\ call.sender = Router /\ call.payTo # NoAccount
    /\ call.data # NoData
    /\ IF call.data = <<>>
       THEN Revert
       ELSE pc' = "validate" /\ UNCHANGED <<call, i, totalBips, remaining, allowance, received>>

ValidateSplit ==
    /\ pc = "validate"
    /\ i <= Len(call.data)
    /\ IF call.data[i].recipient = NoAccount \/ call.data[i].bips = 0
       THEN Revert
       ELSE /\ totalBips' = totalBips + call.data[i].bips
            /\ i' = i + 1
            /\ UNCHANGED <<call, pc, remaining, allowance, received>>

\* Mutant: the splits may exceed the whole by one basis point.
AnyTotal ==
    /\ pc = "validate"
    /\ i > Len(call.data)
    /\ IF totalBips > WholeBips + 1
       THEN Revert
       ELSE /\ pc' = "split"
            /\ i' = 1
            /\ remaining' = call.amount
            /\ UNCHANGED <<call, totalBips, allowance, received>>

CheckTotal ==
    /\ pc = "validate"
    /\ i > Len(call.data)
    /\ IF totalBips > WholeBips
       THEN Revert
       ELSE /\ pc' = "split"
            /\ i' = 1
            /\ remaining' = call.amount
            /\ UNCHANGED <<call, totalBips, allowance, received>>

\* Mutant: shares are rounded up.
ShareRoundedUp(bips) == (call.amount * bips + WholeBips - 1) \div WholeBips

Share(bips) == (call.amount * bips) \div WholeBips

PaySplit ==
    /\ pc = "split"
    /\ i <= Len(call.data)
    /\ LET share == Share(call.data[i].bips)
       IN  IF ~ Transferable(share)
           THEN Revert
           ELSE /\ TransferTo(call.data[i].recipient, share)
                /\ remaining' = remaining - share
                /\ i' = i + 1
                /\ UNCHANGED <<call, pc, totalBips>>

PayRest ==
    /\ pc = "split"
    /\ i > Len(call.data)
    /\ IF ~ Transferable(remaining)
       THEN Revert
       ELSE /\ IF remaining > 0
               THEN TransferTo(call.payTo, remaining)
               ELSE UNCHANGED <<allowance, received>>
            /\ pc' = "done"
            /\ UNCHANGED <<call, i, totalBips, remaining>>

Next ==
    \/ Refuse
    \/ SimpleTransfer
    \/ BeginDistributed
    \/ ValidateSplit
    \/ CheckTotal
    \/ PaySplit
    \/ PayRest

Spec == Init /\ [][Next]_vars

-----------------------------------------------------------------------------
(* Properties *)

Splits == 1 .. Len(call.data)

BipsOf == [j \in Splits |-> call.data[j].bips]

\* What the header of execute asks of a call.
Valid ==
    /\ call.sender = Router
    /\ call.payTo # NoAccount
    /\ call.data # NoData =>
          /\ call.data # <<>>
          /\ \A j \in Splits : call.data[j].recipient # NoAccount /\ call.data[j].bips > 0
          /\ Total(Splits, BipsOf) <= WholeBips

\* A call is carried out if and only if it is valid: rounding never makes a transfer
\* exceed the allowance or remaining fall below zero, so no valid payment is blocked,
\* and no partly valid one is paid.
DoneIffValid ==
    /\ pc = "reverted" => ~ Valid
    /\ pc = "done" => Valid

\* A call that ends well has moved its allowance to the last unit, so that the router,
\* unless it is a recipient itself, is left with exactly what it keeps.
TakesWholeAllowance ==
    pc = "done" => allowance = 0 /\ Total(Accounts, received) = call.amount

\* Nobody but the payee gets more than its percentage, nobody gets less than it by a
\* unit or more for each of its splits, and the payee gets at least the rest.
SharesAsPromised ==
    pc = "done" /\ call.data # NoData =>
        \A a \in Accounts :
            LET own   == {j \in Splits : call.data[j].recipient = a}
                exact == call.amount * Total(own, BipsOf)
                got   == received[a] * WholeBips
            IN  IF a = call.payTo
                THEN got >= call.amount * (WholeBips - Total(Splits \ own, BipsOf))
                ELSE got <= exact /\ exact - got <= Cardinality(own) * (WholeBips - 1)

=============================================================================
