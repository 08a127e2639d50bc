-------------------------- MODULE SettlementRouter --------------------------
(***************************************************************************)
(* contracts/src/SettlementRouter.sol: one call pulls an authorised        *)
(* payment into the router, keeps the facilitator's fee, hands the rest to *)
(* a hook, and reverts unless the hook took exactly that rest.  A payment  *)
(* whose nonce is already used at the token is settled from what the       *)
(* router holds (recovery).                                                *)
(*                                                                         *)
(* A payment is the record of the parameters of settleAndExecute.  Its     *)
(* commitment hash is the constant function Commitment, injective as the   *)
(* hash is assumed to be; the salt is what tells otherwise equal payments  *)
(* apart.  A hook is external code: it may revert (no step) or move any    *)
(* part of its allowance.  So is the payer: it may sign a payment's nonce  *)
(* away to anybody, for any value, and may have done so before the         *)
(* settlement is sent.                                                     *)
(***************************************************************************)
EXTENDS EIP3009Token, UnitCounting

CONSTANTS
    Router,         \* the router's own address
    Facilitators,   \* addresses that submit settlements
    Operators,      \* addresses that may be approved to claim for a facilitator
    Recipients,     \* addresses a claim may be directed to
    Donors,         \* addresses that may send tokens to the router unasked
    MaxDonation,    \* bound on one such transfer
    Merchants,      \* payees and hooks: here they neither pay nor claim fees
    NoHook,         \* address(0) in the place of a hook
    NoAccount,      \* address(0) in the place of an account
    Payments,       \* the parameter records that are ever submitted
    Commitment      \* [Payments -> Nonces], calculateCommitment

Payment ==
    [token: Tokens, from: Accounts, value: Nat, validAfter: Nat, validBefore: Nat,
     salt: Nat, payTo: Accounts, fee: Nat, hook: Accounts \cup {NoHook}]

\* The message the router submits for payment p: the nonce is the commitment and the
\* recipient is the router.
AuthorizationOf(p) ==
    [token |-> p.token, from |-> p.from, to |-> Router, value |-> p.value,
     validAfter |-> p.validAfter, validBefore |-> p.validBefore,
     nonce |-> Commitment[p]]

ASSUME RouterAssumption ==
    /\ Router \in Accounts
    /\ Facilitators \subseteq Accounts
    /\ Operators \subseteq Accounts
    /\ Recipients \subseteq Accounts
    /\ Donors \subseteq Accounts \ {Router}
    /\ MaxDonation \in Nat
    /\ NoHook \notin Accounts /\ NoAccount \notin Accounts
    /\ IsFiniteSet(Payments) /\ Payments \subseteq Payment
    /\ \A p \in Payments : p.from # Router
    /\ \A m \in Authorizations : m.from # Router    \* a contract signs nothing
    /\ Commitment \in [Payments -> Nonces]
    /\ \A p, q \in Payments : Commitment[p] = Commitment[q] => p = q

\* Merchants hold nothing but what hooks have paid them: no signed message moves
\* tokens from or to them, so that what they hold can be told to come from hooks.
ASSUME MerchantAssumption ==
    /\ Merchants \subseteq Accounts \ ({Router} \cup Facilitators \cup Recipients \cup Donors)
    /\ \A p \in Payments :
          /\ p.from \notin Merchants
          /\ p.hook # NoHook => p.hook \in Merchants /\ p.payTo \in Merchants \cup {Router}
    /\ \A m \in Authorizations : m.from \notin Merchants /\ m.to \notin Merchants

VARIABLES
    settled,        \* context keys <<from, token, nonce>> already settled
    pendingFees,    \* pendingFees[facilitator][token]
    feeOperators    \* feeOperators[facilitator]: the operators it has approved

routerVars == <<settled, pendingFees, feeOperators>>
vars == <<balances, authorizationState, executed, now,
          settled, pendingFees, feeOperators>>

ContextKeys == Accounts \X Tokens \X Nonces

ContextKey(p, nonce) == <<p.from, p.token, nonce>>

TypeOK ==
    /\ TokenTypeOK
    /\ settled \subseteq ContextKeys
    /\ pendingFees \in [Facilitators -> [Tokens -> Nat]]
    /\ feeOperators \in [Facilitators -> SUBSET Operators]

Init ==
    /\ TokenInit
    /\ settled = {}
    /\ pendingFees = [f \in Facilitators |-> [t \in Tokens |-> 0]]
    /\ feeOperators = [f \in Facilitators |-> {}]

-----------------------------------------------------------------------------
(* settleAndExecute *)

NonceUsed(p, nonce) == <<p.token, p.from, nonce>> \in authorizationState

\* Mutant: a commitment that leaves out the fee.
CommitmentWithoutFee(p, nonce) ==
    \E q \in Payments : nonce = Commitment[q] /\ [q EXCEPT !.fee = p.fee] = p

CommitmentMatches(p, nonce) == nonce = Commitment[p]

\* Mutant: the check lets a hook leave part of its allowance behind.
RouterKeepsAtLeast(after, expected) == after[Router] >= expected

\* The balance the router is checked to be left with.
RouterKeeps(after, expected) == after[Router] = expected

\* What the hook is approved to spend.
HookAmount(p) == p.value - p.fee

\* The balances of p.token a hook may leave behind, starting from b: it spends
\* part of its allowance on payTo or keeps it.
AfterHook(p, b) ==
    IF p.hook = NoHook
    THEN {b}
    ELSE {Transfer(p.token, b, Router, dst, spent) :
             dst \in {p.payTo, p.hook},
             spent \in {n \in 0 .. HookAmount(p) : n <= b[Router]}}

\* The transfer into the router, the hook, and the check that the router keeps
\* what it held before plus the fee.
NormalFlow(p, nonce) ==
    LET auth   == [AuthorizationOf(p) EXCEPT !.nonce = nonce]
        before == balances[p.token]
        pulled == Transfer(p.token, before, p.from, Router, p.value)
    IN  /\ ~ NonceUsed(p, nonce)
        /\ Authorized(auth)
        /\ authorizationState' = authorizationState \cup {AuthorizationKey(auth)}
        /\ executed' = executed \cup {auth}
        /\ pulled[Router] - before[Router] >= p.value
        /\ \E after \in AfterHook(p, pulled) :
              /\ RouterKeeps(after, before[Router] + p.fee)
              /\ balances' = [balances EXCEPT ![p.token] = after]

\* The nonce is used at the token: the payment is made from the router's own
\* balance, whatever it consists of.
RecoveryFlow(p, nonce) ==
    LET before == balances[p.token]
    IN  /\ NonceUsed(p, nonce)
        /\ p.value <= before[Router]
        /\ \E after \in AfterHook(p, before) :
              /\ RouterKeeps(after, before[Router] - p.value + p.fee)
              /\ balances' = [balances EXCEPT ![p.token] = after]
        /\ UNCHANGED <<authorizationState, executed>>

\* Facilitator f submits the parameters p under the given nonce.
SettleAndExecute(f, p, nonce) ==
    /\ CommitmentMatches(p, nonce)
    /\ ContextKey(p, nonce) \notin settled
    /\ settled' = settled \cup {ContextKey(p, nonce)}
    /\ p.fee <= p.value
    /\ NormalFlow(p, nonce) \/ RecoveryFlow(p, nonce)
    /\ pendingFees' = [pendingFees EXCEPT ![f][p.token] = @ + p.fee]
    /\ UNCHANGED <<now, feeOperators>>

-----------------------------------------------------------------------------
(* Facilitator fees *)

\* Mutant: the fee is transferred and not zeroed.
FeesNotZeroed(f, ts) == pendingFees

FeesAfterClaim(f, ts) ==
    [pendingFees EXCEPT ![f] =
        [t \in Tokens |-> IF t \in ts THEN 0 ELSE pendingFees[f][t]]]

\* Mutant: the fee is zeroed before it is read, so that zero is transferred.
BalancesAfterZeroing(f, ts, to) == balances

BalancesAfterClaim(f, ts, to) ==
    [t \in Tokens |-> IF t \in ts
                      THEN Transfer(t, balances[t], Router, to, pendingFees[f][t])
                      ELSE balances[t]]

\* The claim loop: each token's fee is zeroed and transferred; one transfer that
\* fails reverts the whole call.
PayOut(f, ts, to) ==
    /\ \A t \in ts : pendingFees[f][t] <= balances[t][Router]
    /\ balances' = BalancesAfterClaim(f, ts, to)
    /\ pendingFees' = FeesAfterClaim(f, ts)
    /\ UNCHANGED <<authorizationState, executed, now, settled, feeOperators>>

ClaimFees(f, ts) == PayOut(f, ts, f)

\* caller claims on behalf of f, to recipient or, if that is the zero address, to f.
ClaimFeesFor(caller, f, ts, recipient) ==
    /\ caller = f \/ caller \in feeOperators[f]
    /\ PayOut(f, ts, IF recipient = NoAccount THEN f ELSE recipient)

SetFeeOperator(f, operator, approved) ==
    /\ operator # NoAccount
    /\ feeOperators' = [feeOperators EXCEPT ![f] =
                           IF approved THEN @ \cup {operator} ELSE @ \ {operator}]
    /\ UNCHANGED <<balances, authorizationState, executed, now, settled, pendingFees>>

-----------------------------------------------------------------------------
(* Calls at the token that bypass the router *)

DirectTransfer(a) == TransferWithAuthorization(a) /\ UNCHANGED routerVars

Cancel(k) == CancelAuthorization(k) /\ UNCHANGED routerVars

Donate(t, donor, amount) ==
    PlainTransfer(t, donor, Router, amount) /\ UNCHANGED routerVars

TimePasses == Tick /\ UNCHANGED routerVars

Settle == \E f \in Facilitators, p \in Payments, n \in Nonces : SettleAndExecute(f, p, n)

Claim ==
    \E f \in Facilitators, ts \in SUBSET Tokens :
        \/ ClaimFees(f, ts)
        \/ \E caller \in Operators \cup {f}, r \in Recipients \cup {NoAccount} :
              ClaimFeesFor(caller, f, ts, r)

Approve ==
    \E f \in Facilitators, o \in Operators \cup {NoAccount}, b \in BOOLEAN : SetFeeOperator(f, o, b)

Next ==
    \/ Settle
    \/ Claim
    \/ Approve
    \/ \E a \in Authorizations : DirectTransfer(a)
    \/ \E k \in Cancellable : Cancel(k)
    \/ \E t \in Tokens, d \in Donors, n \in 1 .. MaxDonation : Donate(t, d, n)
    \/ TimePasses

Spec == Init /\ [][Next]_vars

-----------------------------------------------------------------------------
(* Properties *)

PaymentUsed(p) == NonceUsed(p, Commitment[p])
PaymentSettled(p) == ContextKey(p, Commitment[p]) \in settled

\* A message with the payment's nonce has brought its value to the router.
PaymentDelivered(p) ==
    \E m \in executed : /\ AuthorizationKey(m) = <<p.token, p.from, Commitment[p]>>
                        /\ m.to = Router
                        /\ m.value >= p.value

\* The payer has used the payment's nonce for something else: a cancellation, a
\* transfer to somebody else, a transfer of less than the value.
PaymentDiverted(p) == PaymentUsed(p) /\ ~ PaymentDelivered(p)

\* Payments in token t that were delivered to the router by a direct call at the
\* token and still wait to be settled.
Escrowed(t) ==
    {p \in Payments : p.token = t /\ PaymentDelivered(p) /\ ~ PaymentSettled(p)}

FeesOwed(t) == Total(Facilitators, [f \in Facilitators |-> pendingFees[f][t]])
EscrowHeld(t) == Total(Escrowed(t), [p \in Payments |-> p.value])
SettledIn(t) == {p \in Payments : p.token = t /\ PaymentSettled(p)}

\* No payment whose nonce its payer used for something else has been settled by recovery.
NoneRevived == \A p \in Payments : PaymentDiverted(p) => ~ PaymentSettled(p)

\* The router can always pay what it owes: while no payment has been settled whose
\* value never arrived (the payer cancelled it or used its nonce otherwise), its balance
\* in every token that delivers in full covers all pending fees of all facilitators plus
\* every directly delivered payment that is still to be settled (the balance checks of
\* settleAndExecute and the claim loops).
Solvency ==
    NoneRevived =>
        \A t \in Tokens :
            Shortfall[t] = 0 => FeesOwed(t) + EscrowHeld(t) <= balances[t][Router]

\* A payment is settled if and only if its net amount reached the business side: in a
\* token that delivers in full, payees and hooks together hold exactly what they started
\* with plus value minus fee of every settled payment, whichever flow settled it.
SettledMeansPaid ==
    \A t \in Tokens :
        Shortfall[t] = 0 =>
            Total(Merchants, balances[t]) =
                Total(Merchants, InitialBalance[t])
                + Total(SettledIn(t), [p \in Payments |-> p.value - p.fee])

\* An account that is neither the router nor a donor loses tokens only in the step
\* that uses up one of its own signed authorizations, and at most its value: resubmission,
\* recovery and changed parameters never charge a payer twice or more than signed.
PayersChargedAsSigned ==
    [][\A t \in Tokens, a \in Accounts \ ({Router} \cup Donors) :
          balances'[t][a] < balances[t][a] =>
              \E m \in Authorizations :
                  /\ m.token = t /\ m.from = a
                  /\ AuthorizationKey(m) \in authorizationState' \ authorizationState
                  /\ balances[t][a] - balances'[t][a] <= m.value]_vars

\* The payer of p has signed something under p's nonce, a transfer or a cancellation.
SignedByPayer(p) ==
    LET k == <<p.token, p.from, Commitment[p]>>
    IN  k \in Cancellable \/ \E m \in Authorizations : AuthorizationKey(m) = k

\* A facilitator's pending fee grows only in the step that settles a payment whose
\* nonce its payer has put a signature to, and by the fee that nonce commits to,
\* whatever fee the caller wrote into the call.
FeesAsCommitted ==
    [][\A f \in Facilitators, t \in Tokens :
          pendingFees'[f][t] > pendingFees[f][t] =>
              \E p \in Payments :
                  /\ SignedByPayer(p)
                  /\ p.token = t
                  /\ ContextKey(p, Commitment[p]) \in settled' \ settled
                  /\ pendingFees'[f][t] = pendingFees[f][t] + p.fee]_vars

\* Where fees go: a pending fee shrinks only to zero and only by being paid; for each
\* token of the claim, one and the same account is credited in full, or nothing of the
\* claim happens (the loops of claimFees and claimFeesFor).  A claim may name the router
\* itself as the recipient: then the balances stay as they are, the fee owed to nobody.
ClaimsPaidInFull ==
    [][\A f \in Facilitators :
          (\E t \in Tokens : pendingFees'[f][t] < pendingFees[f][t]) =>
              \E to \in Facilitators \cup Recipients : \A t \in Tokens :
                  \/ /\ pendingFees'[f][t] = pendingFees[f][t]
                     /\ balances'[t] = balances[t]
                  \/ /\ pendingFees'[f][t] = 0
                     /\ IF to = Router
                        THEN balances'[t] = [balances[t] EXCEPT ![Router] =
                                 @ - pendingFees[f][t] + Credited(t, pendingFees[f][t])]
                        ELSE balances'[t] =
                                 [[balances[t] EXCEPT ![Router] = @ - pendingFees[f][t]]
                                  EXCEPT ![to] = @ + Credited(t, pendingFees[f][t])]]_vars

\* The escrow the router implements in the tokens that deliver in full.  A payment is
\* in escrow when its value has been delivered and it is not settled.
FullTokens == {t \in Tokens : Shortfall[t] = 0}
FullPayments == {p \in Payments : p.token \in FullTokens}

Phase(p) ==
    IF PaymentSettled(p)
    THEN IF PaymentDiverted(p) THEN "revived" ELSE "settled"
    ELSE IF PaymentDiverted(p) THEN "void"
    ELSE IF PaymentUsed(p) THEN "escrowed" ELSE "signed"

Escrow == INSTANCE PaymentEscrow WITH
    Tokens <- FullTokens,
    Payments <- FullPayments,
    phase <- [p \in FullPayments |-> Phase(p)],
    owed <- [f \in Facilitators |-> [t \in FullTokens |-> pendingFees[f][t]]],
    held <- [t \in FullTokens |-> balances[t][Router]]

\* Every step of the router is a step of the escrow or leaves it unchanged: settling
\* from a fresh or a used nonce, delivered or not, direct transfers to the router or
\* past it, cancellations, donations, and claims by either route.
ImplementsEscrow == Escrow!Spec

\* The router's books, with payments settled that never arrived: what it holds falls
\* short of what it owes by at most the value of those payments, whoever donates, claims
\* or settles around them (interface comment "no fund holding").
ShortByRevivedOnly == Escrow!HeldCovers

\* What contracts/test/invariant/InvariantSettlement.t.sol asserts of the router: no
\* facilitator's pending fee ever exceeds the router's balance.
PendingFeesConsistency ==
    \A f \in Facilitators, t \in Tokens : pendingFees[f][t] <= balances[t][Router]

=============================================================================
