----------------------- MODULE SettlementRouterProofs -----------------------
(***************************************************************************)
(* Theorems about SettlementRouter for every value of its constants: type  *)
(* correctness, that the router can always pay what it owes, that it does, *)
(* and that it implements PaymentEscrow.                                   *)
(***************************************************************************)
EXTENDS SettlementRouter, UnitCountingProofs

\* A transfer the source can afford leaves balances natural numbers.
LEMMA TransferType ==
    ASSUME NEW t \in Tokens, NEW b \in [Accounts -> Nat], NEW src \in Accounts,
           NEW dst \in Accounts, NEW n \in Nat, n <= b[src]
    PROVE  Transfer(t, b, src, dst, n) \in [Accounts -> Nat]
<1>1. Credited(t, n) \in Nat
  BY TokenAssumption DEF Credited
<1>. QED  BY <1>1 DEF Transfer

\* Its effect on one account, by the part the account plays in it.
LEMMA TransferEffect ==
    ASSUME NEW t \in Tokens, NEW b \in [Accounts -> Nat], NEW src \in Accounts,
           NEW dst \in Accounts, NEW n \in Nat, n <= b[src], NEW a \in Accounts
    PROVE  Transfer(t, b, src, dst, n)[a] =
             IF a = src THEN IF a = dst THEN b[a] - n + Credited(t, n) ELSE b[a] - n
             ELSE IF a = dst THEN b[a] + Credited(t, n) ELSE b[a]
<1>1. Credited(t, n) \in Nat
  BY TokenAssumption DEF Credited
<1>. QED  BY <1>1 DEF Transfer

\* Only the source loses, and no more than the amount; only the destination gains.
LEMMA TransferSides ==
    ASSUME NEW t \in Tokens, NEW b \in [Accounts -> Nat], NEW src \in Accounts,
           NEW dst \in Accounts, NEW n \in Nat, n <= b[src], NEW a \in Accounts
    PROVE  /\ a # src => b[a] <= Transfer(t, b, src, dst, n)[a]
           /\ a = src /\ a # dst => Transfer(t, b, src, dst, n)[a] = b[a] - n
           /\ a # src /\ a # dst => Transfer(t, b, src, dst, n)[a] = b[a]
           /\ b[a] - Transfer(t, b, src, dst, n)[a] <= n
<1>1. Credited(t, n) \in Nat
  BY TokenAssumption DEF Credited
<1>2. b[a] \in Nat
  OBVIOUS
<1>. QED  BY <1>1, <1>2, TransferEffect

\* The fields of a payment have their types.
LEMMA PaymentFields ==
    ASSUME NEW p \in Payments
    PROVE  /\ p.token \in Tokens /\ p.from \in Accounts /\ p.payTo \in Accounts
           /\ p.value \in Nat /\ p.fee \in Nat
           /\ p.hook \in Accounts \cup {NoHook}
           /\ p.from # Router
           /\ Commitment[p] \in Nonces
BY RouterAssumption DEF Payment

\* Different payments have different keys at the token and at the router.
LEMMA KeysDiffer ==
    ASSUME NEW p \in Payments, NEW q \in Payments, p # q
    PROVE  Commitment[p] # Commitment[q]
BY RouterAssumption

\* Whatever the hook does with its allowance, balances stay natural numbers.
LEMMA AfterHookType ==
    ASSUME NEW p \in Payments, NEW b \in [Accounts -> Nat],
           p.fee <= p.value, NEW after \in AfterHook(p, b)
    PROVE  after \in [Accounts -> Nat]
<1>1. CASE p.hook = NoHook
  BY <1>1 DEF AfterHook
<1>2. CASE p.hook # NoHook
  <2>1. PICK dst \in {p.payTo, p.hook}, spent \in {n \in 0 .. HookAmount(p) : n <= b[Router]} :
            after = Transfer(p.token, b, Router, dst, spent)
    BY <1>2 DEF AfterHook
  <2>2. dst \in Accounts /\ spent \in Nat /\ spent <= b[Router]
    BY <1>2, <2>1, PaymentFields DEF HookAmount
  <2>. QED  BY <2>1, <2>2, PaymentFields, RouterAssumption, TransferType
<1>. QED  BY <1>1, <1>2

\* What a settlement does to the state, by flow: in the normal flow the router gains
\* the fee, in the recovery flow it gives up the payment's value and keeps the fee.
LEMMA SettleEffect ==
    ASSUME TypeOK, NEW f \in Facilitators, NEW p \in Payments, NEW nonce \in Nonces,
           SettleAndExecute(f, p, nonce)
    PROVE  /\ nonce = Commitment[p] /\ ~ PaymentSettled(p)
           /\ settled' = settled \cup {ContextKey(p, nonce)}
           /\ pendingFees' = [pendingFees EXCEPT ![f][p.token] = @ + p.fee]
           /\ now' = now /\ feeOperators' = feeOperators
           /\ balances' \in [Tokens -> [Accounts -> Nat]]
           /\ \A t \in Tokens \ {p.token} : balances'[t] = balances[t]
           /\ \/ /\ ~ PaymentUsed(p)
                 /\ authorizationState' =
                        authorizationState \cup {<<p.token, p.from, nonce>>}
                 /\ AuthorizationOf(p) \in Authorizations
                 /\ executed' = executed \cup {AuthorizationOf(p)}
                 /\ balances'[p.token][Router] = balances[p.token][Router] + p.fee
              \/ /\ PaymentUsed(p)
                 /\ authorizationState' = authorizationState /\ executed' = executed
                 /\ p.value <= balances[p.token][Router]
                 /\ balances'[p.token][Router] = balances[p.token][Router] - p.value + p.fee
<1>. DEFINE before == balances[p.token]
<1>1. before \in [Accounts -> Nat] /\ balances \in [Tokens -> [Accounts -> Nat]]
  BY PaymentFields DEF TypeOK, TokenTypeOK
<1>2. nonce = Commitment[p] /\ p.fee <= p.value
  BY DEF SettleAndExecute, CommitmentMatches
<1>3. CASE NormalFlow(p, nonce)
  <2>. DEFINE pulled == Transfer(p.token, before, p.from, Router, p.value)
  <2>1. p.value <= before[p.from]
    BY <1>2, <1>3 DEF NormalFlow, Authorized, AuthorizationOf
  <2>2. pulled \in [Accounts -> Nat]
    BY <1>1, <2>1, PaymentFields, RouterAssumption, TransferType
  <2>3. PICK after \in AfterHook(p, pulled) :
            /\ after[Router] = before[Router] + p.fee
            /\ balances' = [balances EXCEPT ![p.token] = after]
    BY <1>3 DEF NormalFlow, RouterKeeps
  <2>4. after \in [Accounts -> Nat]
    BY <1>2, <2>2, AfterHookType
  <2>5. /\ ~ PaymentUsed(p)
        /\ authorizationState' = authorizationState \cup {<<p.token, p.from, nonce>>}
    BY <1>2, <1>3 DEF NormalFlow, PaymentUsed, AuthorizationKey, AuthorizationOf
  <2>6. [AuthorizationOf(p) EXCEPT !.nonce = nonce] = AuthorizationOf(p)
    BY <1>2 DEF AuthorizationOf
  <2>7. AuthorizationOf(p) \in Authorizations /\ executed' = executed \cup {AuthorizationOf(p)}
    BY <1>3, <2>6 DEF NormalFlow, Authorized
  <2>. QED
    BY <1>1, <1>2, <2>3, <2>4, <2>5, <2>7, PaymentFields DEF SettleAndExecute, PaymentSettled
<1>4. CASE RecoveryFlow(p, nonce)
  <2>1. PICK after \in AfterHook(p, before) :
            /\ after[Router] = before[Router] - p.value + p.fee
            /\ balances' = [balances EXCEPT ![p.token] = after]
    BY <1>4 DEF RecoveryFlow, RouterKeeps
  <2>2. after \in [Accounts -> Nat]
    BY <1>1, <1>2, AfterHookType
  <2>3. /\ PaymentUsed(p)
        /\ authorizationState' = authorizationState /\ executed' = executed
        /\ p.value <= before[Router]
    BY <1>2, <1>4 DEF RecoveryFlow, PaymentUsed
  <2>. QED
    BY <1>1, <1>2, <2>1, <2>2, <2>3, PaymentFields DEF SettleAndExecute, PaymentSettled
<1>. QED  BY <1>3, <1>4 DEF SettleAndExecute

\* The claim loop keeps the types, whoever is paid.
LEMMA PayOutType ==
    ASSUME TypeOK, NEW f \in Facilitators, NEW ts \in SUBSET Tokens, NEW to \in Accounts,
           PayOut(f, ts, to)
    PROVE  /\ balances' \in [Tokens -> [Accounts -> Nat]]
           /\ pendingFees' \in [Facilitators -> [Tokens -> Nat]]
<1>1. ASSUME NEW t \in Tokens, t \in ts
      PROVE  Transfer(t, balances[t], Router, to, pendingFees[f][t]) \in [Accounts -> Nat]
  <2>1. /\ balances[t] \in [Accounts -> Nat] /\ pendingFees[f][t] \in Nat
        /\ pendingFees[f][t] <= balances[t][Router]
    BY <1>1 DEF TypeOK, TokenTypeOK, PayOut
  <2>. QED  BY <2>1, RouterAssumption, TransferType
<1>2. \A t \in Tokens : balances[t] \in [Accounts -> Nat]
  BY DEF TypeOK, TokenTypeOK
<1>. QED  BY <1>1, <1>2 DEF TypeOK, PayOut, BalancesAfterClaim, FeesAfterClaim

\* The fields of a signed message have their types; the router signs none.
LEMMA AuthorizationFields ==
    ASSUME NEW a \in Authorizations
    PROVE  /\ a.token \in Tokens /\ a.from \in Accounts /\ a.to \in Accounts
           /\ a.value \in Nat /\ a.from # Router
           /\ AuthorizationKey(a) \in AuthorizationKeys
BY TokenAssumption, RouterAssumption
DEF AuthorizationMessage, AuthorizationKey, AuthorizationKeys

\* The message the router submits has the payment's key, goes to the router and is of
\* the payment's value.
LEMMA AuthorizationOfKey ==
    ASSUME NEW p \in Payments
    PROVE  /\ AuthorizationKey(AuthorizationOf(p)) = <<p.token, p.from, Commitment[p]>>
           /\ AuthorizationOf(p).to = Router /\ AuthorizationOf(p).value = p.value
BY DEF AuthorizationKey, AuthorizationOf

LEMMA KeyTypes ==
    ASSUME NEW p \in Payments
    PROVE  /\ <<p.token, p.from, Commitment[p]>> \in AuthorizationKeys
           /\ ContextKey(p, Commitment[p]) \in ContextKeys
BY PaymentFields DEF AuthorizationKeys, ContextKey, ContextKeys

\* Every claim, by whichever entry point, is the claim loop towards some account.
LEMMA ClaimIsPayOut ==
    ASSUME Claim
    PROVE  \E f \in Facilitators, ts \in SUBSET Tokens, to \in Accounts : PayOut(f, ts, to)
<1>1. PICK f \in Facilitators, ts \in SUBSET Tokens :
          \/ ClaimFees(f, ts)
          \/ \E caller \in Operators \cup {f}, r \in Recipients \cup {NoAccount} :
                ClaimFeesFor(caller, f, ts, r)
  BY DEF Claim
<1>2. CASE ClaimFees(f, ts)
  BY <1>2, RouterAssumption DEF ClaimFees
<1>3. ASSUME NEW caller \in Operators \cup {f}, NEW r \in Recipients \cup {NoAccount},
             ClaimFeesFor(caller, f, ts, r)
      PROVE  \E to \in Accounts : PayOut(f, ts, to)
  <2>1. PayOut(f, ts, IF r = NoAccount THEN f ELSE r)
    BY <1>3 DEF ClaimFeesFor
  <2>2. (IF r = NoAccount THEN f ELSE r) \in Accounts
    BY RouterAssumption
  <2>. QED  BY <2>1, <2>2
<1>. QED  BY <1>1, <1>2, <1>3

LEMMA TypeStep ==
    ASSUME TypeOK, [Next]_vars
    PROVE  TypeOK'
<1>1. CASE Settle
  <2>1. PICK f \in Facilitators, p \in Payments, n \in Nonces : SettleAndExecute(f, p, n)
    BY <1>1 DEF Settle
  <2>2. /\ n = Commitment[p]
        /\ settled' = settled \cup {ContextKey(p, n)}
        /\ pendingFees' = [pendingFees EXCEPT ![f][p.token] = @ + p.fee]
        /\ now' = now /\ feeOperators' = feeOperators
        /\ balances' \in [Tokens -> [Accounts -> Nat]]
        /\ executed' \subseteq executed \cup Authorizations
        /\ authorizationState' \subseteq
               authorizationState \cup {<<p.token, p.from, n>>}
    BY <2>1, SettleEffect
  <2>3. pendingFees' \in [Facilitators -> [Tokens -> Nat]]
    BY <2>2, PaymentFields DEF TypeOK
  <2>. QED  BY <2>2, <2>3, KeyTypes DEF TypeOK, TokenTypeOK
<1>2. CASE Claim
  <2>1. PICK f \in Facilitators, ts \in SUBSET Tokens, to \in Accounts : PayOut(f, ts, to)
    BY <1>2, ClaimIsPayOut
  <2>. QED  BY <2>1, PayOutType DEF PayOut, TypeOK, TokenTypeOK
<1>3. CASE Approve
  BY <1>3 DEF Approve, SetFeeOperator, TypeOK, TokenTypeOK
<1>4. ASSUME NEW a \in Authorizations, DirectTransfer(a)
      PROVE  TypeOK'
  <2>1. /\ a.value <= balances[a.token][a.from]
        /\ balances[a.token] \in [Accounts -> Nat]
    BY <1>4, AuthorizationFields
    DEF DirectTransfer, TransferWithAuthorization, Authorized, TypeOK, TokenTypeOK
  <2>2. Transfer(a.token, balances[a.token], a.from, a.to, a.value) \in [Accounts -> Nat]
    BY <2>1, AuthorizationFields, TransferType
  <2>. QED
    BY <1>4, <2>2, AuthorizationFields
    DEF DirectTransfer, TransferWithAuthorization, TypeOK, TokenTypeOK, routerVars
<1>5. ASSUME NEW k \in Cancellable, Cancel(k)
      PROVE  TypeOK'
  BY <1>5, TokenAssumption
  DEF Cancel, CancelAuthorization, TypeOK, TokenTypeOK, routerVars
<1>6. ASSUME NEW t \in Tokens, NEW d \in Donors, NEW n \in 1 .. MaxDonation, Donate(t, d, n)
      PROVE  TypeOK'
  <2>1. /\ n <= balances[t][d] /\ n \in Nat /\ d \in Accounts
        /\ balances[t] \in [Accounts -> Nat]
    BY <1>6, RouterAssumption DEF Donate, PlainTransfer, TypeOK, TokenTypeOK
  <2>2. Transfer(t, balances[t], d, Router, n) \in [Accounts -> Nat]
    BY <2>1, RouterAssumption, TransferType
  <2>. QED  BY <1>6, <2>2 DEF Donate, PlainTransfer, TypeOK, TokenTypeOK, routerVars
<1>7. CASE TimePasses
  BY <1>7 DEF TimePasses, Tick, TypeOK, TokenTypeOK, routerVars
<1>8. CASE UNCHANGED vars
  BY <1>8 DEF vars, TypeOK, TokenTypeOK
<1>. QED  BY <1>1, <1>2, <1>3, <1>4, <1>5, <1>6, <1>7, <1>8 DEF Next

LEMMA TypeInit == Init => TypeOK
BY TokenAssumption DEF Init, TokenInit, TypeOK, TokenTypeOK

\* Type correctness of the router and the tokens: in particular no balance and no
\* pending fee ever becomes negative, in any flow.
THEOREM TypeCorrect == Spec => []TypeOK
<1>1. TypeOK /\ [Next]_vars => TypeOK'
  BY TypeStep
<1>. QED  BY <1>1, TypeInit, PTL DEF Spec

-----------------------------------------------------------------------------
(***************************************************************************)
(* Solvency is not inductive alone: a recovery is covered only because a   *)
(* used nonce that was not diverted means that the payment is in escrow,   *)
(* and a settlement from a fresh nonce and a direct transfer keep the      *)
(* escrow right only because a fresh nonce belongs to no settled payment   *)
(* and to no message carried out before.                                   *)
(***************************************************************************)
SettledUsed == \A p \in Payments : PaymentSettled(p) => PaymentUsed(p)
ExecutedUsed == \A m \in executed : AuthorizationKey(m) \in authorizationState
IInv == TypeOK /\ SettledUsed /\ ExecutedUsed /\ Solvency

\* Nothing is forgotten, and a message is carried out in the step that uses its nonce.
LogStep ==
    /\ settled \subseteq settled' /\ authorizationState \subseteq authorizationState'
    /\ executed \subseteq executed'
    /\ \A m \in executed' \ executed :
          AuthorizationKey(m) \in authorizationState' \ authorizationState

\* A payment with a fresh nonce has not been delivered.
LEMMA FreshUndelivered ==
    ASSUME ExecutedUsed, NEW p \in Payments, ~ PaymentUsed(p)
    PROVE  ~ PaymentDelivered(p) /\ ~ PaymentDiverted(p)
BY DEF ExecutedUsed, PaymentUsed, NonceUsed, PaymentDelivered, PaymentDiverted

\* The use of one nonce leaves payments with other nonces as they were.
LEMMA OtherKey ==
    ASSUME NEW q \in Payments, NEW k, <<q.token, q.from, Commitment[q]>> # k,
           authorizationState' \in {authorizationState, authorizationState \cup {k}},
           executed \subseteq executed', \A m \in executed' \ executed : AuthorizationKey(m) = k
    PROVE  /\ PaymentUsed(q)' <=> PaymentUsed(q)
           /\ PaymentDelivered(q)' <=> PaymentDelivered(q)
           /\ PaymentDiverted(q)' <=> PaymentDiverted(q)
<1>1. PaymentUsed(q)' <=> PaymentUsed(q)
  BY DEF PaymentUsed, NonceUsed
<1>2. PaymentDelivered(q)' <=> PaymentDelivered(q)
  BY DEF PaymentDelivered
<1>. QED  BY <1>1, <1>2 DEF PaymentDiverted

\* The sums are over finite sets and of naturals.
LEMMA SumTypes ==
    ASSUME TypeOK, NEW t \in Tokens
    PROVE  /\ IsFiniteSet(Facilitators)
           /\ \A f \in Facilitators : [g \in Facilitators |-> pendingFees[g][t]][f] \in Nat
           /\ IsFiniteSet(Escrowed(t)) /\ Escrowed(t) \subseteq Payments
           /\ \A p \in Payments : [q \in Payments |-> q.value][p] \in Nat
           /\ FeesOwed(t) \in Nat /\ EscrowHeld(t) \in Nat
           /\ balances[t][Router] \in Nat
<1>1. IsFiniteSet(Facilitators)
  BY TokenAssumption, RouterAssumption, FS_Subset
<1>2. \A f \in Facilitators : [g \in Facilitators |-> pendingFees[g][t]][f] \in Nat
  BY DEF TypeOK
<1>3. Escrowed(t) \subseteq Payments
  BY DEF Escrowed
<1>4. IsFiniteSet(Escrowed(t))
  BY <1>3, RouterAssumption, FS_Subset
<1>5. \A p \in Payments : [q \in Payments |-> q.value][p] \in Nat
  BY PaymentFields
<1>6. FeesOwed(t) \in Nat
  BY <1>1, <1>2, TotalNat DEF FeesOwed
<1>7. EscrowHeld(t) \in Nat
  BY <1>3, <1>4, <1>5, TotalNat DEF EscrowHeld
<1>8. balances[t][Router] \in Nat
  BY RouterAssumption DEF TypeOK, TokenTypeOK
<1>. QED  BY <1>1, <1>2, <1>3, <1>4, <1>5, <1>6, <1>7, <1>8

\* If one facilitator's fee in token t changes to k, what is owed changes by as much.
LEMMA OwedChange ==
    ASSUME TypeOK, TypeOK', NEW f \in Facilitators, NEW t \in Tokens,
           \A g \in Facilitators \ {f} : pendingFees'[g][t] = pendingFees[g][t]
    PROVE  FeesOwed(t)' = FeesOwed(t) - pendingFees[f][t] + pendingFees'[f][t]
<1>. DEFINE old == [g \in Facilitators |-> pendingFees[g][t]]
            new == [g \in Facilitators |-> pendingFees'[g][t]]
<1>1. IsFiniteSet(Facilitators) /\ \A g \in Facilitators : old[g] \in Nat
  BY SumTypes
<1>2. new[f] \in Nat /\ \A g \in Facilitators \ {f} : new[g] = old[g]
  BY DEF TypeOK
<1>3. old[f] = pendingFees[f][t] /\ new[f] = pendingFees'[f][t]
  OBVIOUS
<1>. HIDE DEF old, new
<1>4. Total(Facilitators, new) = Total(Facilitators, old) - old[f] + new[f]
  BY <1>1, <1>2, TotalUpdate
<1>. QED  BY <1>3, <1>4 DEF FeesOwed, old, new

\* What is owed and in escrow in token t depends only on the fees and keys of t.
LEMMA SumsUnchanged ==
    ASSUME NEW t \in Tokens,
           \A f \in Facilitators : pendingFees'[f][t] = pendingFees[f][t],
           Escrowed(t)' = Escrowed(t)
    PROVE  FeesOwed(t)' = FeesOwed(t) /\ EscrowHeld(t)' = EscrowHeld(t)
<1>1. FeesOwed(t)' = FeesOwed(t)
  BY TotalCong DEF FeesOwed
<1>. QED  BY <1>1 DEF EscrowHeld

\* Payments are never unsettled and a used nonce brings nothing more, so a step that
\* ends with no diverted payment settled also began so.
LEMMA NoneRevivedBack ==
    ASSUME LogStep, NoneRevived'
    PROVE  NoneRevived
<1>. SUFFICES ASSUME NEW p \in Payments, PaymentDiverted(p), PaymentSettled(p)
              PROVE  FALSE
  BY DEF NoneRevived
<1>1. PaymentSettled(p)' /\ PaymentUsed(p)'
  BY DEF LogStep, PaymentSettled, PaymentDiverted, PaymentUsed, NonceUsed
<1>2. ~ PaymentDelivered(p)'
  BY DEF LogStep, PaymentDiverted, PaymentDelivered, PaymentUsed, NonceUsed
<1>. QED  BY <1>1, <1>2 DEF NoneRevived, PaymentDiverted

\* Settling a payment with a fresh nonce adds its fee to what is owed and to what the
\* router holds; the escrow is untouched.
LEMMA NormalSolvency ==
    ASSUME IInv, TypeOK', NoneRevived,
           NEW f \in Facilitators, NEW p \in Payments, NEW t \in Tokens, Shortfall[t] = 0,
           ~ PaymentUsed(p),
           authorizationState' = authorizationState \cup {<<p.token, p.from, Commitment[p]>>},
           settled' = settled \cup {ContextKey(p, Commitment[p])},
           executed' = executed \cup {AuthorizationOf(p)},
           pendingFees' = [pendingFees EXCEPT ![f][p.token] = @ + p.fee],
           balances'[p.token][Router] = balances[p.token][Router] + p.fee,
           \A u \in Tokens \ {p.token} : balances'[u] = balances[u]
    PROVE  FeesOwed(t)' + EscrowHeld(t)' <= balances'[t][Router]
<1>1. FeesOwed(t) + EscrowHeld(t) <= balances[t][Router]
  BY DEF IInv, Solvency
<1>2. Escrowed(t)' = Escrowed(t)
  <2>1. ASSUME NEW q \in Payments
        PROVE  q \in Escrowed(t)' <=> q \in Escrowed(t)
    <3>1. CASE q = p
      BY <3>1, FreshUndelivered DEF IInv, Escrowed, PaymentSettled
    <3>2. CASE q # p
      <4>1. Commitment[q] # Commitment[p]
        BY <3>2, KeysDiffer
      <4>2. PaymentDelivered(q)' <=> PaymentDelivered(q)
        BY <4>1, AuthorizationOfKey, OtherKey
      <4>. QED  BY <4>1, <4>2 DEF Escrowed, PaymentSettled, ContextKey
    <3>. QED  BY <3>1, <3>2
  <2>. QED  BY <2>1 DEF Escrowed
<1>3. EscrowHeld(t)' = EscrowHeld(t)
  BY <1>2 DEF EscrowHeld
<1>4. TypeOK
  BY DEF IInv
<1>5. CASE t = p.token
  <2>1. /\ pendingFees'[f][t] = pendingFees[f][t] + p.fee
        /\ \A g \in Facilitators \ {f} : pendingFees'[g][t] = pendingFees[g][t]
    BY <1>4, <1>5 DEF TypeOK
  <2>2. FeesOwed(t)' = FeesOwed(t) - pendingFees[f][t] + pendingFees'[f][t]
    BY <1>4, <2>1, OwedChange
  <2>3. pendingFees[f][t] \in Nat
    BY <1>4 DEF TypeOK
  <2>. QED  BY <1>1, <1>3, <1>4, <1>5, <2>1, <2>2, <2>3, SumTypes, PaymentFields
<1>6. CASE t # p.token
  <2>1. \A g \in Facilitators : pendingFees'[g][t] = pendingFees[g][t]
    BY <1>4, <1>6, PaymentFields DEF TypeOK
  <2>2. balances'[t] = balances[t]
    BY <1>6
  <2>. QED  BY <1>1, <1>2, <2>1, <2>2, SumsUnchanged
<1>. QED  BY <1>5, <1>6

\* Settling from escrow releases the payment's value and adds its fee to what is owed.
LEMMA RecoverySolvency ==
    ASSUME IInv, TypeOK', NoneRevived, NoneRevived',
           NEW f \in Facilitators, NEW p \in Payments, NEW t \in Tokens, Shortfall[t] = 0,
           PaymentUsed(p), ~ PaymentSettled(p),
           authorizationState' = authorizationState, executed' = executed,
           settled' = settled \cup {ContextKey(p, Commitment[p])},
           pendingFees' = [pendingFees EXCEPT ![f][p.token] = @ + p.fee],
           balances'[p.token][Router] = balances[p.token][Router] - p.value + p.fee,
           \A u \in Tokens \ {p.token} : balances'[u] = balances[u]
    PROVE  FeesOwed(t)' + EscrowHeld(t)' <= balances'[t][Router]
<1>1. FeesOwed(t) + EscrowHeld(t) <= balances[t][Router]
  BY DEF IInv, Solvency
<1>2. TypeOK
  BY DEF IInv
<1>3. PaymentDelivered(p)
  BY DEF NoneRevived, PaymentDiverted, PaymentDelivered, PaymentUsed, NonceUsed, PaymentSettled
<1>4. Escrowed(t)' = Escrowed(t) \ {p}
  <2>1. ASSUME NEW q \in Payments
        PROVE  q \in Escrowed(t)' <=> q \in Escrowed(t) \ {p}
    <3>1. CASE q = p
      BY <3>1 DEF Escrowed, PaymentSettled
    <3>2. CASE q # p
      <4>1. Commitment[q] # Commitment[p]
        BY <3>2, KeysDiffer
      <4>. QED  BY <3>2, <4>1 DEF Escrowed, PaymentSettled, PaymentDelivered, ContextKey
    <3>. QED  BY <3>1, <3>2
  <2>. QED  BY <2>1 DEF Escrowed
<1>5. CASE t = p.token
  <2>1. /\ pendingFees'[f][t] = pendingFees[f][t] + p.fee
        /\ \A g \in Facilitators \ {f} : pendingFees'[g][t] = pendingFees[g][t]
    BY <1>2, <1>5 DEF TypeOK
  <2>2. FeesOwed(t)' = FeesOwed(t) - pendingFees[f][t] + pendingFees'[f][t]
    BY <1>2, <2>1, OwedChange
  <2>3. pendingFees[f][t] \in Nat
    BY <1>2 DEF TypeOK
  <2>4. p \in Escrowed(t)
    BY <1>3, <1>5 DEF Escrowed
  <2>. DEFINE v == [q \in Payments |-> q.value]
  <2>5. IsFiniteSet(Escrowed(t)) /\ \A q \in Escrowed(t) : v[q] \in Nat
    BY <1>2, SumTypes
  <2>6. v[p] = p.value
    OBVIOUS
  <2>. HIDE DEF v
  <2>7. Total(Escrowed(t), v) = Total(Escrowed(t) \ {p}, v) + v[p]
    BY <2>4, <2>5, TotalRemove
  <2>8. EscrowHeld(t) = Total(Escrowed(t), v)
    BY DEF EscrowHeld, v
  <2>9. EscrowHeld(t)' = Total(Escrowed(t) \ {p}, v)
    BY <1>4 DEF EscrowHeld, v
  <2>10. Total(Escrowed(t) \ {p}, v) \in Nat
    BY <2>5, FS_RemoveElement, TotalNat
  <2>. QED
    BY <1>1, <1>2, <1>5, <2>1, <2>2, <2>3, <2>6, <2>7, <2>8, <2>9, <2>10, SumTypes,
       PaymentFields
<1>6. CASE t # p.token
  <2>1. \A g \in Facilitators : pendingFees'[g][t] = pendingFees[g][t]
    BY <1>2, <1>6, PaymentFields DEF TypeOK
  <2>2. Escrowed(t)' = Escrowed(t)
    BY <1>4, <1>6 DEF Escrowed
  <2>3. balances'[t] = balances[t]
    BY <1>6
  <2>. QED  BY <1>1, <2>1, <2>2, <2>3, SumsUnchanged
<1>. QED  BY <1>5, <1>6

\* A settlement keeps the router solvent.
LEMMA SettleSolvency ==
    ASSUME IInv, TypeOK', NoneRevived, NoneRevived', Settle, NEW t \in Tokens,
           Shortfall[t] = 0
    PROVE  FeesOwed(t)' + EscrowHeld(t)' <= balances'[t][Router]
<1>1. TypeOK
  BY DEF IInv
<1>2. PICK f \in Facilitators, p \in Payments, n \in Nonces : SettleAndExecute(f, p, n)
  BY DEF Settle
<1>3. n = Commitment[p] /\ ~ PaymentSettled(p)
  BY <1>1, <1>2, SettleEffect
<1>4. settled' = settled \cup {ContextKey(p, Commitment[p])}
  BY <1>1, <1>2, <1>3, SettleEffect
<1>5. /\ pendingFees' = [pendingFees EXCEPT ![f][p.token] = @ + p.fee]
      /\ \A u \in Tokens \ {p.token} : balances'[u] = balances[u]
  BY <1>1, <1>2, SettleEffect
<1>6. \/ /\ ~ PaymentUsed(p)
         /\ authorizationState' =
                authorizationState \cup {<<p.token, p.from, Commitment[p]>>}
         /\ executed' = executed \cup {AuthorizationOf(p)}
         /\ balances'[p.token][Router] = balances[p.token][Router] + p.fee
      \/ /\ PaymentUsed(p)
         /\ authorizationState' = authorizationState /\ executed' = executed
         /\ balances'[p.token][Router] = balances[p.token][Router] - p.value + p.fee
  BY <1>1, <1>2, <1>3, SettleEffect
<1>. QED
  BY <1>3, <1>4, <1>5, <1>6, NormalSolvency, RecoverySolvency

\* A claim takes from the router's balance at most what it takes from what is owed.
LEMMA ClaimSolvency ==
    ASSUME IInv, TypeOK', NoneRevived,
           NEW f \in Facilitators, NEW ts \in SUBSET Tokens, NEW to \in Accounts,
           PayOut(f, ts, to), NEW t \in Tokens, Shortfall[t] = 0
    PROVE  FeesOwed(t)' + EscrowHeld(t)' <= balances'[t][Router]
<1>1. FeesOwed(t) + EscrowHeld(t) <= balances[t][Router]
  BY DEF IInv, Solvency
<1>2. TypeOK
  BY DEF IInv
<1>3. Escrowed(t)' = Escrowed(t) /\ EscrowHeld(t)' = EscrowHeld(t)
  BY DEF PayOut, Escrowed, EscrowHeld, PaymentSettled, PaymentDelivered
<1>4. \A g \in Facilitators \ {f} : pendingFees'[g][t] = pendingFees[g][t]
  BY <1>2 DEF PayOut, FeesAfterClaim, TypeOK
<1>5. CASE t \in ts
  <2>. DEFINE n == pendingFees[f][t]
  <2>1. /\ n \in Nat /\ n <= balances[t][Router]
        /\ balances[t] \in [Accounts -> Nat]
        /\ balances'[t] = Transfer(t, balances[t], Router, to, n)
        /\ pendingFees'[f][t] = 0
    BY <1>2, <1>5 DEF PayOut, BalancesAfterClaim, FeesAfterClaim, TypeOK, TokenTypeOK
  <2>2. FeesOwed(t)' = FeesOwed(t) - n
    <3>1. FeesOwed(t)' = FeesOwed(t) - n + pendingFees'[f][t]
      BY <1>2, <1>4, OwedChange
    <3>. QED  BY <1>2, <2>1, <3>1, SumTypes
  <2>3. Credited(t, n) = n
    BY <2>1 DEF Credited
  <2>4. balances'[t][Router] >= balances[t][Router] - n
    BY <1>2, <2>1, <2>3, RouterAssumption, TransferEffect, SumTypes
  <2>5. balances'[t][Router] \in Nat
    BY RouterAssumption DEF TypeOK, TokenTypeOK
  <2>. HIDE DEF n
  <2>. QED  BY <1>1, <1>2, <1>3, <2>1, <2>2, <2>4, <2>5, SumTypes
<1>6. CASE t \notin ts
  <2>1. pendingFees'[f][t] = pendingFees[f][t] /\ balances'[t] = balances[t]
    BY <1>2, <1>6 DEF PayOut, BalancesAfterClaim, FeesAfterClaim, TypeOK
  <2>. QED  BY <1>1, <1>3, <1>4, <2>1, SumsUnchanged
<1>. QED  BY <1>5, <1>6

\* What a direct transfer does: it uses its nonce, and it brings its value to the router
\* if it is addressed to it; a payment of that nonce is delivered if the value suffices.
LEMMA DirectEffect ==
    ASSUME TypeOK, NEW a \in Authorizations, DirectTransfer(a)
    PROVE  /\ AuthorizationKey(a) \notin authorizationState
           /\ authorizationState' = authorizationState \cup {AuthorizationKey(a)}
           /\ executed' = executed \cup {a}
           /\ UNCHANGED <<settled, pendingFees>>
           /\ balances' \in [Tokens -> [Accounts -> Nat]]
           /\ \A u \in Tokens \ {a.token} : balances'[u] = balances[u]
           /\ Shortfall[a.token] = 0 =>
                 balances'[a.token][Router] =
                     balances[a.token][Router] + (IF a.to = Router THEN a.value ELSE 0)
           /\ \A q \in Payments :
                 PaymentDelivered(q)' <=>
                     \/ PaymentDelivered(q)
                     \/ /\ AuthorizationKey(a) = <<q.token, q.from, Commitment[q]>>
                        /\ a.to = Router /\ a.value >= q.value
<1>. DEFINE b == balances[a.token]
            c == Transfer(a.token, b, a.from, a.to, a.value)
<1>1. /\ AuthorizationKey(a) \notin authorizationState
      /\ authorizationState' = authorizationState \cup {AuthorizationKey(a)}
      /\ executed' = executed \cup {a}
      /\ UNCHANGED <<settled, pendingFees>>
      /\ a.value <= b[a.from]
      /\ balances' = [balances EXCEPT ![a.token] = c]
  BY DEF DirectTransfer, TransferWithAuthorization, Authorized, routerVars
<1>2. /\ a.token \in Tokens /\ a.from \in Accounts /\ a.to \in Accounts /\ a.value \in Nat
      /\ a.from # Router /\ Router \in Accounts
  BY AuthorizationFields, RouterAssumption
<1>3. b \in [Accounts -> Nat] /\ balances \in [Tokens -> [Accounts -> Nat]]
  BY <1>2 DEF TypeOK, TokenTypeOK
<1>4. b[Router] \in Nat
  BY <1>2, <1>3
<1>5. c \in [Accounts -> Nat]
  BY <1>1, <1>2, <1>3, TransferType
<1>6. c[Router] = IF a.to = Router THEN b[Router] + Credited(a.token, a.value) ELSE b[Router]
  <2>. HIDE DEF b
  <2>. QED  BY <1>1, <1>2, <1>3, TransferEffect
<1>7. Shortfall[a.token] = 0 => Credited(a.token, a.value) = a.value
  BY <1>2 DEF Credited
<1>8. balances'[a.token] = c /\ balances' \in [Tokens -> [Accounts -> Nat]]
  <2>. HIDE DEF c
  <2>. QED  BY <1>1, <1>2, <1>3, <1>5
<1>9. \A u \in Tokens \ {a.token} : balances'[u] = balances[u]
  BY <1>1, <1>3
<1>10. ASSUME Shortfall[a.token] = 0
       PROVE  balances'[a.token][Router] =
                  balances[a.token][Router] + (IF a.to = Router THEN a.value ELSE 0)
  <2>. HIDE DEF c
  <2>. QED  BY <1>4, <1>6, <1>7, <1>8, <1>10
<1>11. \A q \in Payments :
           PaymentDelivered(q)' <=>
               \/ PaymentDelivered(q)
               \/ /\ AuthorizationKey(a) = <<q.token, q.from, Commitment[q]>>
                  /\ a.to = Router /\ a.value >= q.value
  BY <1>1 DEF PaymentDelivered
<1>. QED  BY <1>1, <1>8, <1>9, <1>10, <1>11

\* A direct transfer adds the payment it delivers to the escrow, and at least its value
\* to what the router holds; one that delivers none leaves the escrow alone.
LEMMA DirectTransferSolvency ==
    ASSUME IInv, TypeOK', NoneRevived,
           NEW a \in Authorizations, DirectTransfer(a), NEW t \in Tokens, Shortfall[t] = 0
    PROVE  FeesOwed(t)' + EscrowHeld(t)' <= balances'[t][Router]
<1>1. FeesOwed(t) + EscrowHeld(t) <= balances[t][Router]
  BY DEF IInv, Solvency
<1>2. TypeOK
  BY DEF IInv
<1>3. FeesOwed(t)' = FeesOwed(t) /\ settled' = settled
  BY <1>2, DirectEffect DEF FeesOwed
<1>4. balances'[t][Router] =
          IF t = a.token /\ a.to = Router THEN balances[t][Router] + a.value
          ELSE balances[t][Router]
  <2>1. a.token \in Tokens /\ balances[t][Router] \in Nat
    BY <1>2, AuthorizationFields, SumTypes
  <2>. QED  BY <1>2, <2>1, DirectEffect
<1>5. \A q \in Payments : PaymentSettled(q)' <=> PaymentSettled(q)
  BY <1>3 DEF PaymentSettled
<1>6. CASE \E p \in Payments : /\ AuthorizationKey(a) = <<p.token, p.from, Commitment[p]>>
                               /\ a.to = Router /\ a.value >= p.value /\ t = p.token
  <2>1. PICK p \in Payments : /\ AuthorizationKey(a) = <<p.token, p.from, Commitment[p]>>
                              /\ a.to = Router /\ a.value >= p.value /\ t = p.token
    BY <1>6
  <2>2. t = a.token
    BY <2>1 DEF AuthorizationKey
  <2>3. ~ PaymentUsed(p)
    BY <1>2, <2>1, DirectEffect DEF PaymentUsed, NonceUsed
  <2>4. ~ PaymentSettled(p) /\ ~ PaymentDelivered(p)
    BY <2>3, FreshUndelivered DEF IInv, SettledUsed
  <2>5. \A q \in Payments \ {p} : PaymentDelivered(q)' <=> PaymentDelivered(q)
    BY <1>2, <2>1, KeysDiffer, DirectEffect
  <2>6. Escrowed(t)' = Escrowed(t) \cup {p} /\ p \notin Escrowed(t)
    BY <1>2, <1>5, <2>1, <2>4, <2>5, DirectEffect DEF Escrowed
  <2>. DEFINE v == [q \in Payments |-> q.value]
  <2>7. IsFiniteSet(Escrowed(t)) /\ \A q \in Escrowed(t) \cup {p} : v[q] \in Nat
    BY <1>2, SumTypes
  <2>8. v[p] = p.value
    OBVIOUS
  <2>. HIDE DEF v
  <2>9. Total(Escrowed(t) \cup {p}, v) = Total(Escrowed(t), v) + v[p]
    BY <2>6, <2>7, TotalAdd
  <2>10. EscrowHeld(t)' = EscrowHeld(t) + p.value
    BY <2>6, <2>8, <2>9 DEF EscrowHeld, v
  <2>. QED
    BY <1>1, <1>2, <1>3, <1>4, <2>1, <2>2, <2>10, SumTypes, PaymentFields,
       AuthorizationFields
<1>7. CASE ~ \E p \in Payments : /\ AuthorizationKey(a) = <<p.token, p.from, Commitment[p]>>
                                 /\ a.to = Router /\ a.value >= p.value /\ t = p.token
  <2>1. \A q \in Payments : q.token = t => (PaymentDelivered(q)' <=> PaymentDelivered(q))
    BY <1>2, <1>7, DirectEffect
  <2>2. Escrowed(t)' = Escrowed(t)
    BY <1>5, <2>1 DEF Escrowed
  <2>. QED
    BY <1>1, <1>2, <1>3, <1>4, <2>2, SumTypes, AuthorizationFields DEF EscrowHeld
<1>. QED  BY <1>6, <1>7

\* A cancellation carries nothing out and moves nothing.
LEMMA CancelSolvency ==
    ASSUME IInv, NoneRevived, NEW k \in Cancellable, Cancel(k),
           NEW t \in Tokens, Shortfall[t] = 0
    PROVE  FeesOwed(t)' + EscrowHeld(t)' <= balances'[t][Router]
<1>1. FeesOwed(t) + EscrowHeld(t) <= balances[t][Router]
  BY DEF IInv, Solvency
<1>2. UNCHANGED <<executed, settled, pendingFees, balances>>
  BY DEF Cancel, CancelAuthorization, routerVars
<1>3. Escrowed(t)' = Escrowed(t)
  BY <1>2 DEF Escrowed, PaymentDelivered, PaymentSettled
<1>. QED  BY <1>1, <1>2, <1>3 DEF FeesOwed, EscrowHeld

\* A donation only adds to what the router holds.
LEMMA DonateSolvency ==
    ASSUME IInv, NoneRevived,
           NEW u \in Tokens, NEW d \in Donors, NEW n \in 1 .. MaxDonation, Donate(u, d, n),
           NEW t \in Tokens, Shortfall[t] = 0
    PROVE  FeesOwed(t)' + EscrowHeld(t)' <= balances'[t][Router]
<1>1. FeesOwed(t) + EscrowHeld(t) <= balances[t][Router]
  BY DEF IInv, Solvency
<1>2. TypeOK
  BY DEF IInv
<1>3. FeesOwed(t)' = FeesOwed(t) /\ EscrowHeld(t)' = EscrowHeld(t)
  BY DEF Donate, PlainTransfer, routerVars, FeesOwed, EscrowHeld, Escrowed,
         PaymentDelivered, PaymentSettled
<1>4. /\ n \in Nat /\ d \in Accounts /\ d # Router
      /\ n <= balances[u][d] /\ balances[u] \in [Accounts -> Nat]
      /\ balances' = [balances EXCEPT ![u] = Transfer(u, @, d, Router, n)]
      /\ balances \in [Tokens -> [Accounts -> Nat]]
  BY <1>2, RouterAssumption DEF Donate, PlainTransfer, TypeOK, TokenTypeOK
<1>5. balances'[t][Router] >= balances[t][Router] /\ balances'[t][Router] \in Int
  <2>1. CASE u = t
    <3>1. balances'[t] = Transfer(t, balances[t], d, Router, n)
      BY <1>4, <2>1
    <3>2. balances'[t][Router] = balances[t][Router] + Credited(t, n)
      BY <1>4, <2>1, <3>1, RouterAssumption, TransferEffect
    <3>3. Credited(t, n) = n
      BY <1>4 DEF Credited
    <3>. QED  BY <1>2, <1>4, <3>2, <3>3, SumTypes
  <2>2. CASE u # t
    BY <1>2, <1>4, <2>2, SumTypes
  <2>. QED  BY <2>1, <2>2
<1>. QED  BY <1>1, <1>2, <1>3, <1>5, SumTypes

\* A settled payment's nonce is used, and so is that of a message carried out: settling
\* uses it, or needs it used, and nothing makes a used nonce fresh again.
LEMMA KeysStep ==
    ASSUME TypeOK, SettledUsed, ExecutedUsed, [Next]_vars
    PROVE  SettledUsed' /\ ExecutedUsed' /\ LogStep
<1>1. ASSUME LogStep PROVE ExecutedUsed'
  BY <1>1 DEF LogStep, ExecutedUsed
<1>2. CASE Settle
  <2>1. PICK f \in Facilitators, p \in Payments, n \in Nonces : SettleAndExecute(f, p, n)
    BY <1>2 DEF Settle
  <2>2. /\ n = Commitment[p]
        /\ settled' = settled \cup {ContextKey(p, n)}
        /\ authorizationState \subseteq authorizationState'
        /\ <<p.token, p.from, n>> \in authorizationState'
    <3>1. /\ n = Commitment[p]
          /\ settled' = settled \cup {ContextKey(p, n)}
          /\ \/ authorizationState' = authorizationState \cup {<<p.token, p.from, n>>}
             \/ PaymentUsed(p) /\ authorizationState' = authorizationState
      BY <2>1, SettleEffect
    <3>. QED  BY <3>1 DEF PaymentUsed, NonceUsed
  <2>3. LogStep
    <3>1. \/ executed' = executed
          \/ /\ executed' = executed \cup {AuthorizationOf(p)}
             /\ ~ PaymentUsed(p)
      BY <2>1, SettleEffect
    <3>. QED
      BY <2>2, <3>1, AuthorizationOfKey DEF LogStep, PaymentUsed, NonceUsed
  <2>4. ASSUME NEW q \in Payments, PaymentSettled(q)'
        PROVE  PaymentUsed(q)'
    <3>1. CASE q = p
      BY <2>2, <3>1 DEF PaymentUsed, NonceUsed
    <3>2. CASE q # p
      <4>1. Commitment[q] # Commitment[p]
        BY <3>2, KeysDiffer
      <4>2. PaymentSettled(q)
        BY <2>2, <2>4, <4>1 DEF PaymentSettled, ContextKey
      <4>. QED  BY <2>2, <4>2 DEF SettledUsed, PaymentUsed, NonceUsed
    <3>. QED  BY <3>1, <3>2
  <2>. QED  BY <1>1, <2>3, <2>4 DEF SettledUsed
<1>3. ASSUME settled' = settled, LogStep
      PROVE  SettledUsed' /\ ExecutedUsed'
  BY <1>1, <1>3 DEF SettledUsed, PaymentSettled, PaymentUsed, NonceUsed, LogStep
<1>4. CASE Claim
  <2>1. PICK f \in Facilitators, ts \in SUBSET Tokens, to \in Accounts : PayOut(f, ts, to)
    BY <1>4, ClaimIsPayOut
  <2>. QED  BY <1>3, <2>1 DEF PayOut, LogStep
<1>5. CASE Approve \/ TimePasses \/ UNCHANGED vars
  BY <1>3, <1>5 DEF Approve, SetFeeOperator, TimePasses, Tick, routerVars, vars, LogStep
<1>6. ASSUME NEW a \in Authorizations, DirectTransfer(a)
      PROVE  SettledUsed' /\ ExecutedUsed' /\ LogStep
  <2>1. LogStep /\ settled' = settled
    BY <1>6, DirectEffect DEF LogStep
  <2>. QED  BY <1>3, <2>1
<1>7. ASSUME NEW k \in Cancellable, Cancel(k)
      PROVE  SettledUsed' /\ ExecutedUsed' /\ LogStep
  <2>1. LogStep /\ settled' = settled
    BY <1>7 DEF Cancel, CancelAuthorization, routerVars, LogStep
  <2>. QED  BY <1>3, <2>1
<1>8. ASSUME NEW u \in Tokens, NEW d \in Donors, NEW n \in 1 .. MaxDonation, Donate(u, d, n)
      PROVE  SettledUsed' /\ ExecutedUsed' /\ LogStep
  BY <1>3, <1>8 DEF Donate, PlainTransfer, routerVars, LogStep
<1>. QED  BY <1>2, <1>4, <1>5, <1>6, <1>7, <1>8 DEF Next

\* Every step keeps the router solvent.
LEMMA SolvencyStep ==
    ASSUME IInv, TypeOK', [Next]_vars
    PROVE  Solvency'
<1>. SUFFICES ASSUME NoneRevived', NEW t \in Tokens, Shortfall[t] = 0
              PROVE  FeesOwed(t)' + EscrowHeld(t)' <= balances'[t][Router]
  BY DEF Solvency
<1>1. NoneRevived
  BY KeysStep, NoneRevivedBack DEF IInv
<1>2. CASE Settle
  BY <1>1, <1>2, SettleSolvency
<1>3. CASE Claim
  BY <1>1, <1>3, ClaimIsPayOut, ClaimSolvency
<1>4. CASE Approve \/ TimePasses \/ UNCHANGED vars
  <2>1. UNCHANGED <<balances, executed, settled, pendingFees>>
    BY <1>4 DEF Approve, SetFeeOperator, TimePasses, Tick, routerVars, vars
  <2>2. FeesOwed(t)' = FeesOwed(t) /\ EscrowHeld(t)' = EscrowHeld(t)
    BY <2>1 DEF FeesOwed, EscrowHeld, Escrowed, PaymentDelivered, PaymentSettled
  <2>. QED  BY <1>1, <2>1, <2>2 DEF IInv, Solvency
<1>5. ASSUME NEW a \in Authorizations, DirectTransfer(a)
      PROVE  FeesOwed(t)' + EscrowHeld(t)' <= balances'[t][Router]
  BY <1>1, <1>5, DirectTransferSolvency
<1>6. ASSUME NEW k \in Cancellable, Cancel(k)
      PROVE  FeesOwed(t)' + EscrowHeld(t)' <= balances'[t][Router]
  BY <1>1, <1>6, CancelSolvency
<1>7. ASSUME NEW u \in Tokens, NEW d \in Donors, NEW n \in 1 .. MaxDonation, Donate(u, d, n)
      PROVE  FeesOwed(t)' + EscrowHeld(t)' <= balances'[t][Router]
  BY <1>1, <1>7, DonateSolvency
<1>. QED  BY <1>2, <1>3, <1>4, <1>5, <1>6, <1>7 DEF Next

LEMMA IInvInit == Init => IInv
<1>. SUFFICES ASSUME Init PROVE IInv
  OBVIOUS
<1>1. SettledUsed /\ ExecutedUsed
  BY DEF Init, TokenInit, SettledUsed, ExecutedUsed, PaymentSettled
<1>2. ASSUME NEW t \in Tokens
      PROVE  FeesOwed(t) + EscrowHeld(t) <= balances[t][Router]
  <2>1. Escrowed(t) = {}
    BY DEF Escrowed, Init, TokenInit, PaymentDelivered
  <2>2. EscrowHeld(t) = 0
    BY <2>1, TotalEmpty DEF EscrowHeld
  <2>3. FeesOwed(t) = 0
    <3>. DEFINE g == [f \in Facilitators |-> pendingFees[f][t]]
    <3>1. \A f \in Facilitators : g[f] = 0
      BY DEF Init
    <3>. HIDE DEF g
    <3>2. Units(Facilitators, g) = {}
      BY <3>1 DEF Units
    <3>. QED  BY <3>2, FS_EmptySet DEF FeesOwed, Total, g
  <2>4. balances[t][Router] \in Nat
    BY TypeInit, RouterAssumption DEF TypeOK, TokenTypeOK
  <2>. QED  BY <2>2, <2>3, <2>4
<1>. QED  BY <1>1, <1>2, TypeInit DEF IInv, Solvency

\* The router can always pay what it owes (the balance checks of settleAndExecute and
\* the claim loops), for all payments, facilitators, tokens and hooks, and whatever payers
\* sign: as long as no payment is settled whose value never arrived, its balance covers
\* all pending fees and all payments delivered to it that are still to be settled.
THEOREM RouterSolvent == Spec => []Solvency
<1>1. IInv /\ [Next]_vars => IInv'
  BY TypeStep, KeysStep, SolvencyStep DEF IInv
<1>2. IInv => Solvency
  BY DEF IInv
<1>. QED  BY <1>1, <1>2, IInvInit, PTL DEF Spec

-----------------------------------------------------------------------------
(***************************************************************************)
(* Fees and charges are what payers signed.  A recovery checks no          *)
(* signature; that the payer signed something with the payment's nonce     *)
(* follows from the nonce being used, since only signed messages use       *)
(* nonces, and the nonce is the commitment to the payment.                 *)
(***************************************************************************)
UsedAreSigned ==
    \A k \in authorizationState :
        k \in Cancellable \/ \E a \in Authorizations : k = AuthorizationKey(a)

\* The payer of a settled payment has signed its nonce, in either flow.
LEMMA SettledIsSigned ==
    ASSUME UsedAreSigned, NEW f \in Facilitators, NEW p \in Payments, NEW n \in Nonces,
           SettleAndExecute(f, p, n)
    PROVE  n = Commitment[p] /\ SignedByPayer(p)
<1>1. n = Commitment[p]
  BY DEF SettleAndExecute, CommitmentMatches
<1>2. CASE NormalFlow(p, n)
  <2>1. [AuthorizationOf(p) EXCEPT !.nonce = n] = AuthorizationOf(p)
    BY <1>1 DEF AuthorizationOf
  <2>2. AuthorizationOf(p) \in Authorizations
    BY <1>1, <1>2, <2>1 DEF NormalFlow, Authorized
  <2>. QED  BY <1>1, <2>2, AuthorizationOfKey DEF SignedByPayer
<1>3. CASE RecoveryFlow(p, n)
  BY <1>1, <1>3 DEF RecoveryFlow, NonceUsed, UsedAreSigned, SignedByPayer
<1>. QED  BY <1>1, <1>2, <1>3 DEF SettleAndExecute

\* Only signed messages use nonces.
LEMMA UsedAreSignedStep ==
    ASSUME TypeOK, UsedAreSigned, [Next]_vars
    PROVE  UsedAreSigned'
<1>1. CASE Settle
  <2>1. PICK f \in Facilitators, p \in Payments, n \in Nonces : SettleAndExecute(f, p, n)
    BY <1>1 DEF Settle
  <2>2. authorizationState' \subseteq authorizationState \cup {<<p.token, p.from, n>>}
    BY <2>1, SettleEffect
  <2>. QED  BY <2>1, <2>2, SettledIsSigned DEF UsedAreSigned, SignedByPayer
<1>2. CASE Claim
  <2>1. PICK f \in Facilitators, ts \in SUBSET Tokens, to \in Accounts : PayOut(f, ts, to)
    BY <1>2, ClaimIsPayOut
  <2>. QED  BY <2>1 DEF PayOut, UsedAreSigned
<1>3. CASE Approve \/ TimePasses \/ UNCHANGED vars
  BY <1>3 DEF Approve, SetFeeOperator, TimePasses, Tick, vars, UsedAreSigned
<1>4. ASSUME NEW a \in Authorizations, DirectTransfer(a)
      PROVE  UsedAreSigned'
  BY <1>4 DEF DirectTransfer, TransferWithAuthorization, UsedAreSigned
<1>5. ASSUME NEW k \in Cancellable, Cancel(k)
      PROVE  UsedAreSigned'
  BY <1>5 DEF Cancel, CancelAuthorization, UsedAreSigned
<1>6. ASSUME NEW u \in Tokens, NEW d \in Donors, NEW n \in 1 .. MaxDonation, Donate(u, d, n)
      PROVE  UsedAreSigned'
  BY <1>6 DEF Donate, PlainTransfer, UsedAreSigned
<1>. QED  BY <1>1, <1>2, <1>3, <1>4, <1>5, <1>6 DEF Next

\* Fees are credited only as committed to (the commitment check of settleAndExecute),
\* for all payments: also those that differ from a signed one in any parameter.
THEOREM CommittedFees == Spec => FeesAsCommitted
<1>1. ASSUME TypeOK, UsedAreSigned, Next,
             NEW f \in Facilitators, NEW t \in Tokens, pendingFees'[f][t] > pendingFees[f][t]
      PROVE  \E p \in Payments :
                 /\ SignedByPayer(p)
                 /\ p.token = t
                 /\ ContextKey(p, Commitment[p]) \in settled' \ settled
                 /\ pendingFees'[f][t] = pendingFees[f][t] + p.fee
  <2>1. CASE Settle
    <3>1. PICK g \in Facilitators, p \in Payments, n \in Nonces : SettleAndExecute(g, p, n)
      BY <2>1 DEF Settle
    <3>2. /\ n = Commitment[p] /\ ~ PaymentSettled(p)
          /\ settled' = settled \cup {ContextKey(p, n)}
          /\ pendingFees' = [pendingFees EXCEPT ![g][p.token] = @ + p.fee]
      BY <1>1, <3>1, SettleEffect
    <3>3. SignedByPayer(p)
      BY <1>1, <3>1, SettledIsSigned
    <3>4. pendingFees[f][t] \in Nat
      BY <1>1 DEF TypeOK
    <3>5. f = g /\ t = p.token
      BY <1>1, <3>2, <3>4, PaymentFields DEF TypeOK
    <3>6. pendingFees'[f][t] = pendingFees[f][t] + p.fee
      BY <1>1, <3>2, <3>5, PaymentFields DEF TypeOK
    <3>. QED  BY <3>2, <3>3, <3>5, <3>6 DEF PaymentSettled
  <2>2. CASE Claim
    <3>1. PICK g \in Facilitators, ts \in SUBSET Tokens, to \in Accounts : PayOut(g, ts, to)
      BY <2>2, ClaimIsPayOut
    <3>2. pendingFees'[f][t] \in {0, pendingFees[f][t]} /\ pendingFees[f][t] \in Nat
      BY <1>1, <3>1 DEF PayOut, FeesAfterClaim, TypeOK
    <3>. QED  BY <1>1, <3>2
  <2>3. CASE ~ Settle /\ ~ Claim
    <3>1. pendingFees' = pendingFees
      BY <1>1, <2>3 DEF Next, Approve, SetFeeOperator, DirectTransfer, Cancel, Donate,
                        TimePasses, routerVars
    <3>2. pendingFees[f][t] \in Nat
      BY <1>1 DEF TypeOK
    <3>. QED  BY <1>1, <3>1, <3>2
  <2>. QED  BY <2>1, <2>2, <2>3
<1>2. Init => UsedAreSigned
  BY DEF Init, TokenInit, UsedAreSigned
<1>3. TypeOK /\ UsedAreSigned /\ [Next]_vars => TypeOK' /\ UsedAreSigned'
  BY TypeStep, UsedAreSignedStep
<1>4. TypeOK /\ UsedAreSigned /\ [Next]_vars =>
          [\A f \in Facilitators, t \in Tokens :
              pendingFees'[f][t] > pendingFees[f][t] =>
                  \E p \in Payments :
                      /\ SignedByPayer(p)
                      /\ p.token = t
                      /\ ContextKey(p, Commitment[p]) \in settled' \ settled
                      /\ pendingFees'[f][t] = pendingFees[f][t] + p.fee]_vars
  BY <1>1
<1>. QED  BY <1>2, <1>3, <1>4, TypeInit, PTL DEF Spec, FeesAsCommitted

\* A hook spends the router's tokens only.
LEMMA HookSparesOthers ==
    ASSUME NEW p \in Payments, NEW b \in [Accounts -> Nat], p.fee <= p.value,
           NEW after \in AfterHook(p, b), NEW a \in Accounts \ {Router}
    PROVE  after[a] \in Nat /\ b[a] <= after[a]
<1>1. CASE p.hook = NoHook
  BY <1>1 DEF AfterHook
<1>2. CASE p.hook # NoHook
  <2>1. PICK dst \in {p.payTo, p.hook}, spent \in {n \in 0 .. HookAmount(p) : n <= b[Router]} :
            after = Transfer(p.token, b, Router, dst, spent)
    BY <1>2 DEF AfterHook
  <2>2. dst \in Accounts /\ spent \in Nat /\ spent <= b[Router]
    BY <1>2, <2>1, PaymentFields DEF HookAmount
  <2>3. after \in [Accounts -> Nat]
    BY AfterHookType
  <2>4. b[a] <= after[a]
    BY <2>1, <2>2, PaymentFields, RouterAssumption, TransferSides
  <2>. QED  BY <2>3, <2>4
<1>. QED  BY <1>1, <1>2

\* A settlement charges nobody but the payer, and it at most the signed value, in the
\* step that uses up the payer's nonce.
LEMMA SettleCharges ==
    ASSUME TypeOK, NEW f \in Facilitators, NEW p \in Payments, NEW n \in Nonces,
           SettleAndExecute(f, p, n), NEW t \in Tokens, NEW a \in Accounts \ {Router},
           balances'[t][a] < balances[t][a]
    PROVE  /\ t = p.token /\ a = p.from /\ AuthorizationOf(p) \in Authorizations
           /\ <<p.token, p.from, Commitment[p]>> \in authorizationState' \ authorizationState
           /\ balances[t][a] - balances'[t][a] <= p.value
<1>. DEFINE before == balances[p.token]
<1>1. before \in [Accounts -> Nat] /\ balances \in [Tokens -> [Accounts -> Nat]]
  BY PaymentFields DEF TypeOK, TokenTypeOK
<1>2. n = Commitment[p] /\ p.fee <= p.value
  BY DEF SettleAndExecute, CommitmentMatches
<1>3. CASE NormalFlow(p, n)
  <2>. DEFINE pulled == Transfer(p.token, before, p.from, Router, p.value)
  <2>1. [AuthorizationOf(p) EXCEPT !.nonce = n] = AuthorizationOf(p)
    BY <1>2 DEF AuthorizationOf
  <2>2. AuthorizationOf(p) \in Authorizations /\ p.value <= before[p.from]
    BY <1>3, <2>1 DEF NormalFlow, Authorized, AuthorizationOf
  <2>3. pulled \in [Accounts -> Nat]
    BY <1>1, <2>2, PaymentFields, RouterAssumption, TransferType
  <2>4. PICK after \in AfterHook(p, pulled) : balances' = [balances EXCEPT ![p.token] = after]
    BY <1>3 DEF NormalFlow
  <2>5. after[a] \in Nat /\ pulled[a] <= after[a]
    BY <1>2, <2>3, <2>4, HookSparesOthers
  <2>6. /\ a = p.from => pulled[a] = before[a] - p.value
        /\ a # p.from => pulled[a] = before[a]
    <3>1. /\ p.token \in Tokens /\ p.from \in Accounts /\ p.value \in Nat
          /\ Router \in Accounts /\ a \in Accounts /\ a # Router
      BY PaymentFields, RouterAssumption
    <3>. HIDE DEF before
    <3>. QED  BY <1>1, <2>2, <3>1, TransferSides
  <2>7. t = p.token
    BY <1>1, <2>4, PaymentFields
  <2>8. balances'[t][a] = after[a] /\ balances[t][a] = before[a]
    BY <1>1, <2>4, <2>7
  <2>9. before[a] \in Nat
    BY <1>1
  <2>10. a = p.from /\ balances[t][a] - balances'[t][a] <= p.value
    <3>. HIDE DEF pulled, before
    <3>. QED  BY <2>5, <2>6, <2>8, <2>9, PaymentFields
  <2>. QED
    BY <1>2, <1>3, <2>2, <2>7, <2>10
    DEF NormalFlow, NonceUsed, AuthorizationKey, AuthorizationOf
<1>4. CASE RecoveryFlow(p, n)
  <2>1. PICK after \in AfterHook(p, before) : balances' = [balances EXCEPT ![p.token] = after]
    BY <1>4 DEF RecoveryFlow
  <2>2. after[a] \in Nat /\ before[a] <= after[a]
    BY <1>1, <1>2, <2>1, HookSparesOthers
  <2>3. CASE t = p.token
    BY <1>1, <2>1, <2>2, <2>3
  <2>4. CASE t # p.token
    BY <1>1, <2>1, <2>4, PaymentFields
  <2>. QED  BY <2>3, <2>4
<1>. QED  BY <1>3, <1>4 DEF SettleAndExecute

\* Payers are charged as they signed (transferWithAuthorization of the token and the
\* recovery flow of settleAndExecute), for all payments, hooks and interleavings.
THEOREM ChargedAsSigned == Spec => PayersChargedAsSigned
<1>1. ASSUME TypeOK, Next, NEW t \in Tokens, NEW a \in Accounts \ ({Router} \cup Donors),
             balances'[t][a] < balances[t][a]
      PROVE  \E m \in Authorizations :
                 /\ m.token = t /\ m.from = a
                 /\ AuthorizationKey(m) \in authorizationState' \ authorizationState
                 /\ balances[t][a] - balances'[t][a] <= m.value
  <2>. /\ balances \in [Tokens -> [Accounts -> Nat]] /\ balances[t] \in [Accounts -> Nat]
       /\ balances[t][a] \in Nat /\ a # Router
    BY <1>1 DEF TypeOK, TokenTypeOK
  <2>1. CASE Settle
    <3>1. PICK f \in Facilitators, p \in Payments, n \in Nonces : SettleAndExecute(f, p, n)
      BY <2>1 DEF Settle
    <3>2. /\ t = p.token /\ a = p.from /\ AuthorizationOf(p) \in Authorizations
          /\ <<p.token, p.from, Commitment[p]>> \in authorizationState' \ authorizationState
          /\ balances[t][a] - balances'[t][a] <= p.value
      BY <1>1, <3>1, SettleCharges
    <3>. QED
      BY <3>2 DEF AuthorizationOf, AuthorizationKey
  <2>2. CASE Claim
    <3>1. PICK f \in Facilitators, ts \in SUBSET Tokens, to \in Accounts : PayOut(f, ts, to)
      BY <2>2, ClaimIsPayOut
    <3>2. t \in ts /\ balances'[t] = Transfer(t, balances[t], Router, to, pendingFees[f][t])
      BY <1>1, <3>1 DEF PayOut, BalancesAfterClaim
    <3>3. pendingFees[f][t] \in Nat /\ pendingFees[f][t] <= balances[t][Router]
      BY <1>1, <3>1, <3>2 DEF PayOut, TypeOK
    <3>4. balances'[t] \in [Accounts -> Nat]
      BY <1>1, <3>1, PayOutType
    <3>5. balances[t][a] <= balances'[t][a]
      BY <3>2, <3>3, RouterAssumption, TransferSides
    <3>. QED  BY <1>1, <3>4, <3>5
  <2>3. CASE Approve \/ TimePasses
    BY <1>1, <2>3 DEF Approve, SetFeeOperator, TimePasses, Tick
  <2>4. ASSUME NEW k \in Cancellable, Cancel(k)
        PROVE  FALSE
    BY <1>1, <2>4 DEF Cancel, CancelAuthorization
  <2>5. ASSUME NEW m \in Authorizations, DirectTransfer(m)
        PROVE  /\ m.token = t /\ m.from = a
               /\ AuthorizationKey(m) \in authorizationState' \ authorizationState
               /\ balances[t][a] - balances'[t][a] <= m.value
    <3>1. /\ m.token \in Tokens /\ m.from \in Accounts /\ m.to \in Accounts /\ m.value \in Nat
      BY AuthorizationFields
    <3>2. /\ AuthorizationKey(m) \in authorizationState' \ authorizationState
          /\ m.value <= balances[m.token][m.from]
          /\ balances' = [balances EXCEPT ![m.token] =
                             Transfer(m.token, @, m.from, m.to, m.value)]
      BY <2>5, <3>1 DEF DirectTransfer, TransferWithAuthorization, Authorized
    <3>3. t = m.token /\ balances'[t] = Transfer(t, balances[t], m.from, m.to, m.value)
      BY <1>1, <3>1, <3>2
    <3>4. /\ a # m.from => balances[t][a] <= balances'[t][a]
          /\ balances[t][a] - balances'[t][a] <= m.value
      BY <3>1, <3>2, <3>3, TransferSides
    <3>5. balances'[t][a] \in Nat
      BY <2>5, DirectEffect, <1>1
    <3>. QED  BY <1>1, <3>2, <3>3, <3>4, <3>5
  <2>6. ASSUME NEW u \in Tokens, NEW d \in Donors, NEW n \in 1 .. MaxDonation,
               Donate(u, d, n)
        PROVE  FALSE
    <3>1. /\ n \in Nat /\ d \in Accounts /\ d # Router /\ a # d /\ n <= balances[u][d]
          /\ balances' = [balances EXCEPT ![u] = Transfer(u, @, d, Router, n)]
      BY <2>6, RouterAssumption DEF Donate, PlainTransfer
    <3>2. u = t /\ balances'[t] = Transfer(t, balances[t], d, Router, n)
      BY <1>1, <3>1
    <3>3. balances'[t][a] = balances[t][a]
      BY <3>1, <3>2, RouterAssumption, TransferSides
    <3>. QED  BY <1>1, <3>3
  <2>. QED  BY <1>1, <2>1, <2>2, <2>3, <2>4, <2>5, <2>6 DEF Next
<1>2. TypeOK /\ [Next]_vars => TypeOK'
  BY TypeStep
<1>3. TypeOK /\ [Next]_vars =>
          [\A t \in Tokens, a \in Accounts \ ({Router} \cup Donors) :
              balances'[t][a] < balances[t][a] =>
                  \E m \in Authorizations :
                      /\ m.token = t /\ m.from = a
                      /\ AuthorizationKey(m) \in authorizationState' \ authorizationState
                      /\ balances[t][a] - balances'[t][a] <= m.value]_vars
  BY <1>1
<1>. QED  BY <1>2, <1>3, TypeInit, PTL DEF Spec, PayersChargedAsSigned

-----------------------------------------------------------------------------
(* Claims *)

\* Every claim pays a facilitator or a recipient.
LEMMA ClaimPaysOut ==
    ASSUME Claim
    PROVE  \E f \in Facilitators, ts \in SUBSET Tokens, to \in Facilitators \cup Recipients :
               PayOut(f, ts, to)
<1>1. PICK f \in Facilitators, ts \in SUBSET Tokens :
          \/ ClaimFees(f, ts)
          \/ \E caller \in Operators \cup {f}, r \in Recipients \cup {NoAccount} :
                ClaimFeesFor(caller, f, ts, r)
  BY DEF Claim
<1>2. CASE ClaimFees(f, ts)
  BY <1>2 DEF ClaimFees
<1>3. ASSUME NEW caller \in Operators \cup {f}, NEW r \in Recipients \cup {NoAccount},
             ClaimFeesFor(caller, f, ts, r)
      PROVE  \E to \in Facilitators \cup Recipients : PayOut(f, ts, to)
  <2>1. PayOut(f, ts, IF r = NoAccount THEN f ELSE r)
    BY <1>3 DEF ClaimFeesFor
  <2>. QED  BY <2>1
<1>. QED  BY <1>1, <1>2, <1>3

\* The balances a transfer out of the router leaves.
LEMMA TransferOut ==
    ASSUME NEW t \in Tokens, NEW b \in [Accounts -> Nat], NEW to \in Accounts,
           NEW n \in Nat
    PROVE  Transfer(t, b, Router, to, n) =
             IF to = Router
             THEN [b EXCEPT ![Router] = @ - n + Credited(t, n)]
             ELSE [[b EXCEPT ![Router] = @ - n] EXCEPT ![to] = @ + Credited(t, n)]
<1>1. Credited(t, n) \in Nat
  BY TokenAssumption DEF Credited
<1>. QED  BY <1>1, RouterAssumption DEF Transfer

\* A fee shrinks only by being paid in full (the loops of claimFees and claimFeesFor),
\* for any set of tokens claimed together, any operators and any recipient.
THEOREM ClaimsPay == Spec => ClaimsPaidInFull
<1>. DEFINE Paid(f, t, to) ==
                \/ /\ pendingFees'[f][t] = pendingFees[f][t]
                   /\ balances'[t] = balances[t]
                \/ /\ pendingFees'[f][t] = 0
                   /\ IF to = Router
                      THEN balances'[t] = [balances[t] EXCEPT ![Router] =
                               @ - pendingFees[f][t] + Credited(t, pendingFees[f][t])]
                      ELSE balances'[t] =
                               [[balances[t] EXCEPT ![Router] = @ - pendingFees[f][t]]
                                EXCEPT ![to] = @ + Credited(t, pendingFees[f][t])]
            A == \A f \in Facilitators :
                     (\E t \in Tokens : pendingFees'[f][t] < pendingFees[f][t]) =>
                         \E to \in Facilitators \cup Recipients : \A t \in Tokens : Paid(f, t, to)
<1>1. ASSUME TypeOK, Next, NEW f \in Facilitators,
             NEW u \in Tokens, pendingFees'[f][u] < pendingFees[f][u]
      PROVE  \E to \in Facilitators \cup Recipients : \A t \in Tokens : Paid(f, t, to)
  <2>1. Claim
    <3>1. pendingFees[f][u] \in Nat
      BY <1>1 DEF TypeOK
    <3>2. CASE Settle
      <4>1. PICK g \in Facilitators, p \in Payments, n \in Nonces : SettleAndExecute(g, p, n)
        BY <3>2 DEF Settle
      <4>2. pendingFees' = [pendingFees EXCEPT ![g][p.token] = @ + p.fee] /\ p.fee \in Nat
        BY <1>1, <4>1, SettleEffect, PaymentFields
      <4>3. pendingFees'[f][u] \in {pendingFees[f][u], pendingFees[f][u] + p.fee}
        BY <1>1, <4>2, PaymentFields DEF TypeOK
      <4>. QED  BY <1>1, <3>1, <4>2, <4>3
    <3>3. CASE ~ Settle /\ ~ Claim
      <4>1. pendingFees' = pendingFees
        BY <1>1, <3>3 DEF Next, Approve, SetFeeOperator, DirectTransfer, Cancel, Donate,
                          TimePasses, routerVars
      <4>. QED  BY <1>1, <3>1, <4>1
    <3>. QED  BY <3>2, <3>3
  <2>2. PICK g \in Facilitators, ts \in SUBSET Tokens, to \in Facilitators \cup Recipients :
            PayOut(g, ts, to)
    BY <2>1, ClaimPaysOut
  <2>3. to \in Accounts
    BY RouterAssumption
  <2>4. f = g
    <3>1. pendingFees[f][u] \in Nat
      BY <1>1 DEF TypeOK
    <3>. QED  BY <1>1, <2>2, <3>1 DEF PayOut, FeesAfterClaim, TypeOK
  <2>5. ASSUME NEW t \in Tokens
        PROVE  Paid(f, t, to)
    <3>1. balances[t] \in [Accounts -> Nat] /\ pendingFees[f][t] \in Nat
      BY <1>1 DEF TypeOK, TokenTypeOK
    <3>2. CASE t \in ts
      <4>1. pendingFees'[f][t] = 0
        BY <1>1, <2>2, <2>4, <3>2 DEF PayOut, FeesAfterClaim, TypeOK
      <4>2. balances'[t] = Transfer(t, balances[t], Router, to, pendingFees[f][t])
        BY <2>2, <2>4, <3>2 DEF PayOut, BalancesAfterClaim
      <4>3. balances'[t] =
              IF to = Router
              THEN [balances[t] EXCEPT ![Router] =
                       @ - pendingFees[f][t] + Credited(t, pendingFees[f][t])]
              ELSE [[balances[t] EXCEPT ![Router] = @ - pendingFees[f][t]]
                    EXCEPT ![to] = @ + Credited(t, pendingFees[f][t])]
        BY <2>3, <3>1, <4>2, TransferOut
      <4>. QED  BY <4>1, <4>3
    <3>3. CASE t \notin ts
      BY <1>1, <2>2, <2>4, <3>3 DEF PayOut, FeesAfterClaim, BalancesAfterClaim, TypeOK
    <3>. QED  BY <3>2, <3>3
  <2>. QED  BY <2>5
<1>2. TypeOK /\ [Next]_vars => TypeOK'
  BY TypeStep
<1>3. TypeOK /\ [Next]_vars => [A]_vars
  BY <1>1
<1>. QED  BY <1>2, <1>3, TypeInit, PTL DEF Spec, ClaimsPaidInFull

-----------------------------------------------------------------------------
(* What reaches the business side *)

NetOf == [p \in Payments |-> p.value - p.fee]

\* Merchants are accounts that nobody but a hook moves tokens of.
LEMMA MerchantSides ==
    ASSUME NEW m \in Merchants
    PROVE  /\ m \in Accounts /\ m # Router
           /\ m \notin Facilitators /\ m \notin Recipients /\ m \notin Donors
           /\ \A p \in Payments : m # p.from
           /\ \A a \in Authorizations : m # a.from /\ m # a.to
BY MerchantAssumption

\* The balance check makes a hook hand on the whole net amount to one merchant, unless
\* there is nothing to hand on.
LEMMA HookPays ==
    ASSUME NEW p \in Payments, NEW b \in [Accounts -> Nat], p.fee <= p.value,
           NEW after \in AfterHook(p, b), Shortfall[p.token] = 0,
           after[Router] = b[Router] - p.value + p.fee
    PROVE  \/ p.value - p.fee = 0 /\ \A m \in Merchants : after[m] = b[m]
           \/ \E dst \in Merchants :
                  /\ after[dst] = b[dst] + (p.value - p.fee)
                  /\ \A m \in Merchants \ {dst} : after[m] = b[m]
<1>. /\ p.value \in Nat /\ p.fee \in Nat /\ Router \in Accounts /\ b[Router] \in Nat
     /\ \A m \in Merchants : m \in Accounts /\ m # Router /\ b[m] \in Nat
  BY PaymentFields, RouterAssumption, MerchantSides
<1>1. CASE p.hook = NoHook
  <2>1. after = b
    BY <1>1 DEF AfterHook
  <2>. QED  BY <2>1
<1>2. CASE p.hook # NoHook
  <2>1. PICK dst \in {p.payTo, p.hook}, spent \in {n \in 0 .. HookAmount(p) : n <= b[Router]} :
            after = Transfer(p.token, b, Router, dst, spent)
    BY <1>2 DEF AfterHook
  <2>2. dst \in Merchants \cup {Router} /\ dst \in Accounts /\ spent \in Nat /\ spent <= b[Router]
    BY <1>2, <2>1, MerchantAssumption, PaymentFields DEF HookAmount
  <2>3. Credited(p.token, spent) = spent
    BY <2>2 DEF Credited
  <2>4. \A a \in Accounts :
            after[a] = IF a = Router THEN IF a = dst THEN b[a] - spent + spent ELSE b[a] - spent
                       ELSE IF a = dst THEN b[a] + spent ELSE b[a]
    BY <2>1, <2>2, <2>3, PaymentFields, TransferEffect
  <2>5. CASE dst = Router
    BY <2>2, <2>4, <2>5
  <2>6. CASE dst # Router
    <3>1. dst \in Merchants
      BY <2>2, <2>6
    <3>2. spent = p.value - p.fee
      BY <2>2, <2>4, <2>6
    <3>. QED  BY <2>4, <2>6, <3>1, <3>2
  <2>. QED  BY <2>5, <2>6
<1>. QED  BY <1>1, <1>2

\* In either flow the merchants together gain the net amount of the payment settled.
LEMMA SettlePays ==
    ASSUME TypeOK, NEW f \in Facilitators, NEW p \in Payments, NEW n \in Nonces,
           SettleAndExecute(f, p, n), Shortfall[p.token] = 0
    PROVE  /\ p.fee <= p.value
           /\ \/ /\ p.value - p.fee = 0
                 /\ \A m \in Merchants : balances'[p.token][m] = balances[p.token][m]
              \/ \E dst \in Merchants :
                    /\ balances'[p.token][dst] = balances[p.token][dst] + (p.value - p.fee)
                    /\ \A m \in Merchants \ {dst} :
                          balances'[p.token][m] = balances[p.token][m]
<1>. DEFINE before == balances[p.token]
<1>1. /\ before \in [Accounts -> Nat] /\ balances \in [Tokens -> [Accounts -> Nat]]
      /\ p.token \in Tokens /\ p.value \in Nat /\ p.fee \in Nat
      /\ p.from \in Accounts /\ p.from # Router
      /\ Router \in Accounts /\ before[Router] \in Nat
  BY PaymentFields, RouterAssumption DEF TypeOK, TokenTypeOK
<1>2. n = Commitment[p] /\ p.fee <= p.value
  BY DEF SettleAndExecute, CommitmentMatches
<1>3. CASE NormalFlow(p, n)
  <2>. DEFINE pulled == Transfer(p.token, before, p.from, Router, p.value)
  <2>1. p.value <= before[p.from]
    BY <1>2, <1>3 DEF NormalFlow, Authorized, AuthorizationOf
  <2>2. pulled \in [Accounts -> Nat]
    BY <1>1, <2>1, TransferType
  <2>3. PICK after \in AfterHook(p, pulled) :
            /\ after[Router] = before[Router] + p.fee
            /\ balances' = [balances EXCEPT ![p.token] = after]
    BY <1>3 DEF NormalFlow, RouterKeeps
  <2>4. Credited(p.token, p.value) = p.value
    BY <1>1 DEF Credited
  <2>5. pulled[Router] = before[Router] + p.value
    <3>. HIDE DEF before
    <3>. QED  BY <1>1, <2>1, <2>4, TransferEffect
  <2>6. ASSUME NEW m \in Merchants PROVE pulled[m] = before[m]
    <3>1. m \in Accounts /\ m # Router /\ m # p.from
      BY MerchantSides
    <3>. HIDE DEF before
    <3>. QED  BY <1>1, <2>1, <3>1, TransferSides
  <2>7. balances'[p.token] = after
    BY <1>1, <2>3
  <2>8. \/ p.value - p.fee = 0 /\ \A m \in Merchants : after[m] = pulled[m]
        \/ \E dst \in Merchants :
              /\ after[dst] = pulled[dst] + (p.value - p.fee)
              /\ \A m \in Merchants \ {dst} : after[m] = pulled[m]
    <3>1. after[Router] = pulled[Router] - p.value + p.fee
      <4>. HIDE DEF pulled, before
      <4>. QED  BY <1>1, <2>3, <2>5
    <3>. HIDE DEF pulled, before
    <3>. QED  BY <1>2, <2>2, <2>3, <3>1, HookPays
  <2>. HIDE DEF pulled
  <2>. QED  BY <1>2, <2>6, <2>7, <2>8
<1>4. CASE RecoveryFlow(p, n)
  <2>1. PICK after \in AfterHook(p, before) :
            /\ after[Router] = before[Router] - p.value + p.fee
            /\ balances' = [balances EXCEPT ![p.token] = after]
    BY <1>4 DEF RecoveryFlow, RouterKeeps
  <2>2. balances'[p.token] = after
    BY <1>1, <2>1
  <2>. QED  BY <1>1, <1>2, <2>1, <2>2, HookPays
<1>. QED  BY <1>3, <1>4 DEF SettleAndExecute

\* The payments settled in a token, before and after one of them is.
LEMMA SettledGrows ==
    ASSUME NEW p \in Payments, ~ PaymentSettled(p),
           settled' = settled \cup {ContextKey(p, Commitment[p])}, NEW t \in Tokens
    PROVE  /\ t = p.token => SettledIn(t)' = SettledIn(t) \cup {p} /\ p \notin SettledIn(t)
           /\ t # p.token => SettledIn(t)' = SettledIn(t)
<1>1. ASSUME NEW q \in Payments
      PROVE  PaymentSettled(q)' <=> PaymentSettled(q) \/ q = p
  <2>1. ContextKey(q, Commitment[q]) = ContextKey(p, Commitment[p]) => q = p
    BY KeysDiffer DEF ContextKey
  <2>. QED  BY <2>1 DEF PaymentSettled
<1>. QED  BY <1>1 DEF SettledIn

LEMMA NetTypes ==
    ASSUME TypeOK, NEW t \in Tokens, \A p \in SettledIn(t) : p.fee <= p.value
    PROVE  /\ IsFiniteSet(SettledIn(t)) /\ SettledIn(t) \subseteq Payments
           /\ \A p \in SettledIn(t) : NetOf[p] \in Nat
           /\ IsFiniteSet(Merchants) /\ Merchants \subseteq Accounts
           /\ \A m \in Merchants : balances[t][m] \in Nat
<1>1. SettledIn(t) \subseteq Payments
  BY DEF SettledIn
<1>2. IsFiniteSet(SettledIn(t))
  BY <1>1, RouterAssumption, FS_Subset
<1>3. \A p \in SettledIn(t) : NetOf[p] \in Nat
  BY <1>1, PaymentFields DEF NetOf
<1>4. Merchants \subseteq Accounts /\ IsFiniteSet(Merchants)
  BY MerchantAssumption, TokenAssumption, FS_Subset
<1>. QED  BY <1>1, <1>2, <1>3, <1>4 DEF TypeOK, TokenTypeOK

\* No payment is settled whose fee exceeds its value.
FeesWithin == \A p \in Payments : PaymentSettled(p) => p.fee <= p.value

PaidUp == FeesWithin /\ SettledMeansPaid

\* Steps that move no merchant's tokens and settle nothing.
LEMMA MerchantsApart ==
    ASSUME PaidUp, settled' = settled,
           \A t \in Tokens, m \in Merchants : balances'[t][m] = balances[t][m]
    PROVE  PaidUp'
<1>1. FeesWithin'
  BY DEF PaidUp, FeesWithin, PaymentSettled
<1>2. ASSUME NEW t \in Tokens, Shortfall[t] = 0
      PROVE  Total(Merchants, balances'[t]) =
                 Total(Merchants, InitialBalance[t]) + Total(SettledIn(t), NetOf)'
  <2>1. Total(Merchants, balances'[t]) = Total(Merchants, balances[t])
    BY TotalCong
  <2>2. SettledIn(t)' = SettledIn(t)
    BY DEF SettledIn, PaymentSettled
  <2>. QED  BY <1>2, <2>1, <2>2 DEF PaidUp, SettledMeansPaid, NetOf
<1>. QED  BY <1>1, <1>2 DEF PaidUp, SettledMeansPaid, NetOf

LEMMA SettleKeepsPaid ==
    ASSUME TypeOK, TypeOK', PaidUp, NEW f \in Facilitators, NEW p \in Payments,
           NEW n \in Nonces, SettleAndExecute(f, p, n)
    PROVE  PaidUp'
<1>1. /\ n = Commitment[p] /\ ~ PaymentSettled(p)
      /\ settled' = settled \cup {ContextKey(p, n)}
      /\ \A t \in Tokens \ {p.token} : balances'[t] = balances[t]
      /\ p.token \in Tokens /\ p.value \in Nat /\ p.fee \in Nat
  BY SettleEffect, PaymentFields
<1>2. p.fee <= p.value
  BY DEF SettleAndExecute
<1>3. FeesWithin'
  <2>1. ASSUME NEW q \in Payments, PaymentSettled(q)' PROVE PaymentSettled(q) \/ q = p
    <3>1. ContextKey(q, Commitment[q]) = ContextKey(p, Commitment[p]) => q = p
      BY KeysDiffer DEF ContextKey
    <3>. QED  BY <1>1, <2>1, <3>1 DEF PaymentSettled
  <2>. QED  BY <1>2, <2>1 DEF FeesWithin, PaidUp
<1>4. ASSUME NEW t \in Tokens, Shortfall[t] = 0
      PROVE  Total(Merchants, balances'[t]) =
                 Total(Merchants, InitialBalance[t]) + Total(SettledIn(t)', NetOf)
  <2>. DEFINE M  == Total(Merchants, balances[t])
              M1 == Total(Merchants, balances'[t])
              S  == Total(SettledIn(t), NetOf)
              S1 == Total(SettledIn(t)', NetOf)
              I  == Total(Merchants, InitialBalance[t])
  <2>1. M = I + S
    BY <1>4 DEF PaidUp, SettledMeansPaid, NetOf
  <2>2. \A q \in SettledIn(t) : q.fee <= q.value
    BY DEF PaidUp, FeesWithin, SettledIn
  <2>3. /\ IsFiniteSet(SettledIn(t)) /\ \A q \in SettledIn(t) : NetOf[q] \in Nat
        /\ IsFiniteSet(Merchants)
        /\ \A m \in Merchants : balances[t][m] \in Nat
    BY <2>2, NetTypes
  <2>4. \A m \in Merchants : balances'[t][m] \in Nat /\ InitialBalance[t][m] \in Nat
    BY MerchantAssumption, TokenAssumption DEF TypeOK, TokenTypeOK
  <2>5. M \in Nat /\ S \in Nat /\ I \in Nat
    BY <2>3, <2>4, TotalNat
  <2>6. CASE t # p.token
    <3>1. SettledIn(t)' = SettledIn(t)
      BY <1>1, <2>6, SettledGrows
    <3>. QED  BY <1>1, <2>1, <2>6, <3>1
  <2>7. CASE t = p.token
    <3>1. SettledIn(t)' = SettledIn(t) \cup {p} /\ p \notin SettledIn(t)
      BY <1>1, <2>7, SettledGrows
    <3>2. NetOf[p] = p.value - p.fee /\ NetOf[p] \in Nat
      BY <1>1, <1>2 DEF NetOf
    <3>3. S1 = S + NetOf[p]
      BY <2>3, <3>1, <3>2, TotalAdd
    <3>4. M1 = M + NetOf[p]
      <4>1. CASE NetOf[p] = 0 /\ \A m \in Merchants : balances'[t][m] = balances[t][m]
        <5>1. M1 = M
          BY <4>1, TotalCong
        <5>. QED  BY <2>5, <4>1, <5>1
      <4>2. ASSUME NEW dst \in Merchants,
                   balances'[t][dst] = balances[t][dst] + NetOf[p],
                   \A m \in Merchants \ {dst} : balances'[t][m] = balances[t][m]
            PROVE  M1 = M + NetOf[p]
        <5>1. M1 = M - balances[t][dst] + balances'[t][dst]
          BY <2>3, <2>4, <4>2, TotalUpdate
        <5>2. balances[t][dst] \in Nat
          BY <2>3
        <5>. HIDE DEF M, M1
        <5>. QED  BY <2>5, <3>2, <4>2, <5>1, <5>2
      <4>3. \/ /\ p.value - p.fee = 0
               /\ \A m \in Merchants : balances'[p.token][m] = balances[p.token][m]
            \/ \E dst \in Merchants :
                  /\ balances'[p.token][dst] = balances[p.token][dst] + (p.value - p.fee)
                  /\ \A m \in Merchants \ {dst} :
                        balances'[p.token][m] = balances[p.token][m]
        BY <1>4, <2>7, SettlePays
      <4>. HIDE DEF M, M1
      <4>. QED  BY <2>7, <3>2, <4>1, <4>2, <4>3
    <3>. HIDE DEF M, M1, S, S1, I
    <3>5. M1 = I + S1
      BY <2>1, <2>5, <3>2, <3>3, <3>4
    <3>. QED  BY <3>5 DEF M1, I, S1
  <2>. QED  BY <2>6, <2>7
<1>. QED  BY <1>3, <1>4 DEF PaidUp, SettledMeansPaid, NetOf

LEMMA PaidStep ==
    ASSUME TypeOK, PaidUp, [Next]_vars
    PROVE  PaidUp'
<1>. /\ TypeOK'
     /\ \A t \in Tokens : balances[t] \in [Accounts -> Nat]
     /\ balances \in [Tokens -> [Accounts -> Nat]]
  BY TypeStep DEF TypeOK, TokenTypeOK
<1>1. CASE Settle
  BY <1>1, SettleKeepsPaid DEF Settle
<1>2. CASE Claim
  <2>1. PICK f \in Facilitators, ts \in SUBSET Tokens, to \in Facilitators \cup Recipients :
            PayOut(f, ts, to)
    BY <1>2, ClaimPaysOut
  <2>2. settled' = settled
    BY <2>1 DEF PayOut
  <2>3. ASSUME NEW t \in Tokens, NEW m \in Merchants
        PROVE  balances'[t][m] = balances[t][m]
    <3>1. CASE t \in ts
      <4>1. balances'[t] = Transfer(t, balances[t], Router, to, pendingFees[f][t])
        BY <2>1, <3>1 DEF PayOut, BalancesAfterClaim
      <4>2. /\ pendingFees[f][t] \in Nat /\ pendingFees[f][t] <= balances[t][Router]
            /\ m \in Accounts /\ m # Router /\ m # to /\ to \in Accounts
        <5>1. m \in Accounts /\ m # Router /\ m # to
          BY MerchantSides
        <5>. QED  BY <2>1, <3>1, <5>1, RouterAssumption DEF PayOut, TypeOK
      <4>3. Transfer(t, balances[t], Router, to, pendingFees[f][t])[m] = balances[t][m]
        BY <4>2, RouterAssumption, TransferSides
      <4>. QED  BY <4>1, <4>3
    <3>2. CASE t \notin ts
      BY <2>1, <3>2 DEF PayOut, BalancesAfterClaim
    <3>. QED  BY <3>1, <3>2
  <2>. QED  BY <2>2, <2>3, MerchantsApart
<1>3. CASE Approve \/ TimePasses \/ UNCHANGED vars
  <2>1. UNCHANGED <<balances, settled>>
    BY <1>3 DEF Approve, SetFeeOperator, TimePasses, Tick, vars, routerVars
  <2>. QED  BY <2>1, MerchantsApart
<1>4. ASSUME NEW k \in Cancellable, Cancel(k)
      PROVE  PaidUp'
  <2>1. UNCHANGED <<balances, settled>>
    BY <1>4 DEF Cancel, CancelAuthorization, routerVars
  <2>. QED  BY <2>1, MerchantsApart
<1>5. ASSUME NEW a \in Authorizations, DirectTransfer(a)
      PROVE  PaidUp'
  <2>1. a.token \in Tokens /\ a.from \in Accounts /\ a.to \in Accounts /\ a.value \in Nat
    BY AuthorizationFields
  <2>2. /\ a.value <= balances[a.token][a.from]
        /\ balances' = [balances EXCEPT ![a.token] =
                           Transfer(a.token, @, a.from, a.to, a.value)]
        /\ settled' = settled
    BY <1>5 DEF DirectTransfer, TransferWithAuthorization, Authorized, routerVars
  <2>3. ASSUME NEW t \in Tokens, NEW m \in Merchants
        PROVE  balances'[t][m] = balances[t][m]
    <3>1. m \in Accounts /\ m # a.from /\ m # a.to
      BY MerchantSides
    <3>2. CASE t = a.token
      <4>1. balances'[t] = Transfer(t, balances[t], a.from, a.to, a.value)
        BY <2>2, <3>2
      <4>. QED  BY <2>1, <2>2, <3>1, <3>2, <4>1, TransferSides
    <3>3. CASE t # a.token
      BY <2>2, <3>3
    <3>. QED  BY <3>2, <3>3
  <2>. QED  BY <2>2, <2>3, MerchantsApart
<1>6. ASSUME NEW u \in Tokens, NEW d \in Donors, NEW n \in 1 .. MaxDonation, Donate(u, d, n)
      PROVE  PaidUp'
  <2>1. /\ n <= balances[u][d] /\ n \in Nat /\ d \in Accounts
        /\ balances' = [balances EXCEPT ![u] = Transfer(u, @, d, Router, n)]
        /\ settled' = settled
    BY <1>6, RouterAssumption DEF Donate, PlainTransfer, routerVars
  <2>2. ASSUME NEW t \in Tokens, NEW m \in Merchants
        PROVE  balances'[t][m] = balances[t][m]
    <3>1. m \in Accounts /\ m # Router /\ m # d
      BY MerchantSides
    <3>2. CASE t = u
      <4>1. balances'[t] = Transfer(t, balances[t], d, Router, n)
        BY <2>1, <3>2
      <4>. QED  BY <2>1, <3>1, <3>2, <4>1, RouterAssumption, TransferSides
    <3>3. CASE t # u
      BY <2>1, <3>3
    <3>. QED  BY <3>2, <3>3
  <2>. QED  BY <2>1, <2>2, MerchantsApart
<1>. QED  BY <1>1, <1>2, <1>3, <1>4, <1>5, <1>6 DEF Next

LEMMA PaidInit == Init => PaidUp
<1>. SUFFICES ASSUME Init PROVE PaidUp
  OBVIOUS
<1>1. \A p \in Payments : ~ PaymentSettled(p)
  BY DEF Init, PaymentSettled
<1>2. \A t \in Tokens : SettledIn(t) = {} /\ balances[t] = InitialBalance[t]
  BY <1>1 DEF SettledIn, Init, TokenInit
<1>3. ASSUME NEW t \in Tokens
      PROVE  Total(Merchants, balances[t]) =
                 Total(Merchants, InitialBalance[t]) + Total(SettledIn(t), NetOf)
  <2>1. IsFiniteSet(Merchants) /\ Merchants \subseteq Accounts
    BY MerchantAssumption, TokenAssumption, FS_Subset
  <2>2. \A m \in Merchants : InitialBalance[t][m] \in Nat
    BY <2>1, TokenAssumption
  <2>3. Total(Merchants, InitialBalance[t]) \in Nat
    BY <2>1, <2>2, TotalNat
  <2>4. Total({}, NetOf) = 0
    BY TotalEmpty
  <2>. QED  BY <1>2, <2>3, <2>4
<1>. QED  BY <1>1, <1>3 DEF PaidUp, FeesWithin, SettledMeansPaid, NetOf

\* Settled means paid (the balance check of settleAndExecute), for any payments, hooks and
\* flows: in a token that delivers in full the business side has received value minus fee
\* of every settled payment, and nothing else.
THEOREM SettledIsPaid == Spec => []SettledMeansPaid
<1>1. TypeOK /\ PaidUp /\ [Next]_vars => TypeOK' /\ PaidUp'
  BY TypeStep, PaidStep
<1>2. PaidUp => SettledMeansPaid
  BY DEF PaidUp
<1>. QED  BY <1>1, <1>2, TypeInit, PaidInit, PTL DEF Spec

-----------------------------------------------------------------------------
(***************************************************************************)
(* The router implements the escrow: every step, seen through phases, fees *)
(* owed and the router's balances, is a step of PaymentEscrow or none.     *)
(***************************************************************************)
MappedPhase == [p \in FullPayments |-> Phase(p)]
MappedOwed == [f \in Facilitators |-> [t \in FullTokens |-> pendingFees[f][t]]]
MappedHeld == [t \in FullTokens |-> balances[t][Router]]

LEMMA FullTyped ==
    /\ FullTokens \subseteq Tokens /\ FullPayments \subseteq Payments
    /\ \A p \in FullPayments : p.token \in FullTokens
    /\ \A t \in FullTokens : Shortfall[t] = 0
    /\ \A t \in FullTokens : \A n \in Nat : Credited(t, n) = n
BY DEF FullTokens, FullPayments, Credited

\* What happens to one payment shows in no other payment's phase.
LEMMA PhaseOf ==
    ASSUME NEW p \in Payments, NEW q \in Payments, p # q,
           settled' \in {settled, settled \cup {ContextKey(p, Commitment[p])}},
           authorizationState' \in {authorizationState,
               authorizationState \cup {<<p.token, p.from, Commitment[p]>>}},
           executed \subseteq executed',
           \A m \in executed' \ executed :
               AuthorizationKey(m) = <<p.token, p.from, Commitment[p]>>
    PROVE  Phase(q)' = Phase(q)
<1>1. /\ ContextKey(q, Commitment[q]) # ContextKey(p, Commitment[p])
      /\ <<q.token, q.from, Commitment[q]>> # <<p.token, p.from, Commitment[p]>>
  BY KeysDiffer DEF ContextKey
<1>2. PaymentSettled(q)' = PaymentSettled(q)
  BY <1>1 DEF PaymentSettled
<1>3. PaymentUsed(q)' = PaymentUsed(q)
  BY <1>1 DEF PaymentUsed, NonceUsed
<1>4. PaymentDiverted(q)' = PaymentDiverted(q)
  BY <1>1, OtherKey DEF PaymentDiverted, PaymentUsed, NonceUsed, PaymentDelivered
<1>. QED  BY <1>2, <1>3, <1>4 DEF Phase

\* One payment of a full token changes its phase, and only it.
LEMMA PhaseBecomes ==
    ASSUME NEW p \in FullPayments,
           settled' \in {settled, settled \cup {ContextKey(p, Commitment[p])}},
           authorizationState' \in {authorizationState,
               authorizationState \cup {<<p.token, p.from, Commitment[p]>>}},
           executed \subseteq executed',
           \A m \in executed' \ executed :
               AuthorizationKey(m) = <<p.token, p.from, Commitment[p]>>
    PROVE  MappedPhase' = [MappedPhase EXCEPT ![p] = Phase(p)'] /\ MappedPhase'[p] = Phase(p)'
<1>1. \A q \in FullPayments \ {p} : Phase(q)' = Phase(q)
  BY FullTyped, PhaseOf
<1>. QED  BY <1>1 DEF MappedPhase

\* A payment of another token changes nothing that the escrow shows.
LEMMA PhaseElsewhere ==
    ASSUME NEW p \in Payments, p \notin FullPayments,
           settled' \in {settled, settled \cup {ContextKey(p, Commitment[p])}},
           authorizationState' \in {authorizationState,
               authorizationState \cup {<<p.token, p.from, Commitment[p]>>}},
           executed \subseteq executed',
           \A m \in executed' \ executed :
               AuthorizationKey(m) = <<p.token, p.from, Commitment[p]>>
    PROVE  MappedPhase' = MappedPhase
<1>1. \A q \in FullPayments : Phase(q)' = Phase(q)
  BY FullTyped, PhaseOf
<1>. QED  BY <1>1 DEF MappedPhase

\* Neither does the use of a nonce that is no payment's, or no use at all.
LEMMA PhaseUnchanged ==
    ASSUME NEW k, \A q \in Payments : <<q.token, q.from, Commitment[q]>> # k,
           settled' = settled,
           authorizationState' \in {authorizationState, authorizationState \cup {k}},
           executed \subseteq executed', \A m \in executed' \ executed : AuthorizationKey(m) = k
    PROVE  MappedPhase' = MappedPhase
<1>1. ASSUME NEW q \in FullPayments PROVE Phase(q)' = Phase(q)
  <2>1. /\ PaymentUsed(q)' <=> PaymentUsed(q)
        /\ PaymentDiverted(q)' <=> PaymentDiverted(q)
    BY FullTyped, OtherKey
  <2>2. PaymentSettled(q)' <=> PaymentSettled(q)
    BY DEF PaymentSettled
  <2>. QED  BY <2>1, <2>2 DEF Phase
<1>. QED  BY <1>1 DEF MappedPhase

LEMMA PhaseStill ==
    ASSUME UNCHANGED <<settled, authorizationState, executed>>
    PROVE  MappedPhase' = MappedPhase
BY DEF MappedPhase, Phase, PaymentSettled, PaymentUsed, NonceUsed, PaymentDiverted,
       PaymentDelivered

\* The router's balance in one token changes, and only it.
LEMMA HeldBecomes ==
    ASSUME TypeOK, NEW t \in FullTokens, NEW b \in [Accounts -> Nat],
           balances' = [balances EXCEPT ![t] = b]
    PROVE  MappedHeld' = [MappedHeld EXCEPT ![t] = b[Router]]
BY FullTyped DEF TypeOK, TokenTypeOK, MappedHeld

LEMMA HeldElsewhere ==
    ASSUME TypeOK, NEW t \in Tokens, t \notin FullTokens,
           \A u \in Tokens \ {t} : balances'[u] = balances[u]
    PROVE  MappedHeld' = MappedHeld
BY FullTyped DEF MappedHeld

LEMMA BalanceNat ==
    ASSUME TypeOK, NEW t \in Tokens
    PROVE  balances[t][Router] \in Nat
BY RouterAssumption DEF TypeOK, TokenTypeOK

LEMMA SettleRefines ==
    ASSUME TypeOK, SettledUsed, ExecutedUsed, NEW f \in Facilitators, NEW p \in Payments,
           NEW n \in Nonces, SettleAndExecute(f, p, n)
    PROVE  [Escrow!Next]_(Escrow!vars)
<1>1. /\ n = Commitment[p] /\ ~ PaymentSettled(p)
      /\ settled' = settled \cup {ContextKey(p, n)}
      /\ pendingFees' = [pendingFees EXCEPT ![f][p.token] = @ + p.fee]
      /\ executed' \in {executed, executed \cup {AuthorizationOf(p)}}
      /\ balances' \in [Tokens -> [Accounts -> Nat]]
      /\ \A t \in Tokens \ {p.token} : balances'[t] = balances[t]
      /\ authorizationState' \in {authorizationState,
             authorizationState \cup {<<p.token, p.from, n>>}}
      /\ p.token \in Tokens
  BY SettleEffect, PaymentFields
<1>2. p.fee <= p.value /\ p.value \in Nat /\ p.fee \in Nat
  BY PaymentFields DEF SettleAndExecute
<1>3. balances \in [Tokens -> [Accounts -> Nat]] /\ pendingFees \in [Facilitators -> [Tokens -> Nat]]
  BY DEF TypeOK, TokenTypeOK
<1>4. CASE p \in FullPayments
  <2>1. MappedPhase' = [MappedPhase EXCEPT ![p] = Phase(p)'] /\ MappedPhase'[p] = Phase(p)'
    BY <1>1, <1>4, AuthorizationOfKey, PhaseBecomes
  <2>2. MappedPhase[p] = Phase(p)
    BY <1>4 DEF MappedPhase
  <2>3. MappedOwed' = [MappedOwed EXCEPT ![f][p.token] = @ + p.fee]
    BY <1>1, <1>3, <1>4, FullTyped DEF MappedOwed
  <2>4. MappedHeld' = [MappedHeld EXCEPT ![p.token] = balances'[p.token][Router]]
        /\ MappedHeld[p.token] = balances[p.token][Router]
    BY <1>1, <1>3, <1>4, FullTyped DEF MappedHeld
  <2>5. balances[p.token][Router] \in Nat /\ balances'[p.token][Router] \in Nat
    BY <1>1, <1>3, RouterAssumption
  <2>6. PaymentSettled(p)'
    BY <1>1 DEF PaymentSettled
  <2>7. CASE ~ PaymentUsed(p)
    <3>1. Phase(p) = "signed" /\ Phase(p)' = "settled"
      <4>1. executed' = executed \cup {AuthorizationOf(p)}
        BY <2>7, SettleEffect
      <4>2. PaymentDelivered(p)'
        BY <1>2, <4>1, AuthorizationOfKey DEF PaymentDelivered
      <4>. QED
        BY <1>1, <2>6, <2>7, <4>2, FreshUndelivered DEF Phase, PaymentDiverted
    <3>2. balances'[p.token][Router] = balances[p.token][Router] + p.fee
      BY <2>7, SettleEffect
    <3>3. Escrow!Settle(f, p)
      BY <1>2, <2>1, <2>2, <2>3, <2>4, <3>1, <3>2
      DEF Escrow!Settle, Escrow!Becomes, MappedPhase, MappedOwed, MappedHeld
    <3>. QED  BY <1>4, <3>3 DEF Escrow!Next
  <2>8. CASE PaymentUsed(p)
    <3>1. /\ p.value <= balances[p.token][Router]
          /\ balances'[p.token][Router] = balances[p.token][Router] - p.value + p.fee
      BY <2>8, SettleEffect
    <3>2. balances'[p.token][Router] = balances[p.token][Router] - (p.value - p.fee)
      BY <1>2, <2>5, <3>1
    <3>. PaymentDiverted(p)' <=> PaymentDiverted(p)
      <4>1. executed' = executed /\ authorizationState' = authorizationState
        BY <2>8, SettleEffect
      <4>. QED  BY <4>1 DEF PaymentDiverted, PaymentUsed, NonceUsed, PaymentDelivered
    <3>3. CASE PaymentDiverted(p)
      <4>1. Phase(p) = "void" /\ Phase(p)' = "revived"
        BY <1>1, <2>6, <3>3 DEF Phase
      <4>2. Escrow!Revive(f, p)
        BY <1>2, <2>1, <2>2, <2>3, <2>4, <3>1, <3>2, <4>1
        DEF Escrow!Revive, Escrow!Becomes, MappedPhase, MappedOwed, MappedHeld
      <4>. QED  BY <1>4, <4>2 DEF Escrow!Next
    <3>4. CASE ~ PaymentDiverted(p)
      <4>1. Phase(p) = "escrowed" /\ Phase(p)' = "settled"
        BY <1>1, <2>6, <2>8, <3>4 DEF Phase
      <4>2. Escrow!Settle(f, p)
        BY <1>2, <2>1, <2>2, <2>3, <2>4, <3>2, <4>1
        DEF Escrow!Settle, Escrow!Becomes, MappedPhase, MappedOwed, MappedHeld
      <4>. QED  BY <1>4, <4>2 DEF Escrow!Next
    <3>. QED  BY <3>3, <3>4
  <2>. QED  BY <2>7, <2>8
<1>5. CASE p \notin FullPayments
  <2>1. p.token \notin FullTokens
    BY <1>5 DEF FullPayments
  <2>2. MappedPhase' = MappedPhase
    BY <1>1, <1>5, AuthorizationOfKey, PhaseElsewhere
  <2>3. MappedOwed' = MappedOwed
    BY <1>1, <1>3, <2>1, FullTyped DEF MappedOwed
  <2>4. MappedHeld' = MappedHeld
    BY <1>1, <2>1, HeldElsewhere
  <2>. QED  BY <2>2, <2>3, <2>4 DEF Escrow!vars, MappedPhase, MappedOwed, MappedHeld
<1>. QED  BY <1>4, <1>5

LEMMA ClaimRefines ==
    ASSUME TypeOK, NEW f \in Facilitators, NEW ts \in SUBSET Tokens,
           NEW to \in Facilitators \cup Recipients, PayOut(f, ts, to)
    PROVE  [Escrow!Next]_(Escrow!vars)
<1>. DEFINE us == ts \cap FullTokens
<1>1. /\ balances \in [Tokens -> [Accounts -> Nat]]
      /\ pendingFees \in [Facilitators -> [Tokens -> Nat]]
      /\ to \in Accounts /\ Router \in Accounts
  BY RouterAssumption DEF TypeOK, TokenTypeOK
<1>2. MappedPhase' = MappedPhase
  BY PhaseStill DEF PayOut
<1>3. MappedOwed' = [MappedOwed EXCEPT ![f] =
                        [t \in FullTokens |-> IF t \in us THEN 0 ELSE MappedOwed[f][t]]]
  BY <1>1, FullTyped DEF PayOut, FeesAfterClaim, MappedOwed
<1>4. ASSUME NEW t \in FullTokens
      PROVE  /\ t \notin us => balances'[t][Router] = balances[t][Router]
             /\ t \in us /\ to = Router => balances'[t][Router] = balances[t][Router]
             /\ t \in us /\ to # Router =>
                   balances'[t][Router] = balances[t][Router] - pendingFees[f][t]
  <2>1. t \in Tokens
    BY FullTyped
  <2>2. CASE t \notin us
    BY <2>1, <2>2 DEF PayOut, BalancesAfterClaim
  <2>3. CASE t \in us
    <3>1. balances'[t] = Transfer(t, balances[t], Router, to, pendingFees[f][t])
      BY <2>1, <2>3 DEF PayOut, BalancesAfterClaim
    <3>2. /\ pendingFees[f][t] \in Nat /\ pendingFees[f][t] <= balances[t][Router]
          /\ balances[t] \in [Accounts -> Nat]
      BY <1>1, <2>1, <2>3 DEF PayOut
    <3>3. Credited(t, pendingFees[f][t]) = pendingFees[f][t]
      BY <3>2, FullTyped
    <3>4. balances'[t][Router] =
             IF Router = to THEN balances[t][Router] - pendingFees[f][t] + pendingFees[f][t]
             ELSE balances[t][Router] - pendingFees[f][t]
      BY <1>1, <2>1, <3>1, <3>2, <3>3, TransferEffect
    <3>5. balances[t][Router] \in Nat
      BY <1>1, <3>2
    <3>. QED  BY <2>3, <3>2, <3>4, <3>5
  <2>. QED  BY <2>2, <2>3
<1>5. \/ MappedHeld' = [t \in FullTokens |->
                          IF t \in us THEN MappedHeld[t] - MappedOwed[f][t] ELSE MappedHeld[t]]
      \/ MappedHeld' = MappedHeld
  <2>1. CASE to = Router
    <3>1. \A t \in FullTokens : balances'[t][Router] = balances[t][Router]
      BY <1>4, <2>1
    <3>. QED  BY <3>1 DEF MappedHeld
  <2>2. CASE to # Router
    <3>1. \A t \in FullTokens :
              /\ MappedHeld[t] = balances[t][Router]
              /\ MappedOwed[f][t] = pendingFees[f][t]
      BY DEF MappedHeld, MappedOwed
    <3>2. MappedHeld' = [t \in FullTokens |-> balances'[t][Router]]
      BY DEF MappedHeld
    <3>. HIDE DEF us
    <3>. QED  BY <1>4, <2>2, <3>1, <3>2
  <2>. QED  BY <2>1, <2>2
<1>6. us \in SUBSET FullTokens
  OBVIOUS
<1>. HIDE DEF us
<1>7. Escrow!Withdraw(f, us)
  BY <1>2, <1>3, <1>5 DEF Escrow!Withdraw, MappedPhase, MappedOwed, MappedHeld
<1>. QED  BY <1>6, <1>7 DEF Escrow!Next

LEMMA CancelRefines ==
    ASSUME TypeOK, SettledUsed, ExecutedUsed, NEW k \in Cancellable, Cancel(k)
    PROVE  [Escrow!Next]_(Escrow!vars)
<1>1. /\ k \notin authorizationState
      /\ authorizationState' = authorizationState \cup {k}
      /\ UNCHANGED <<executed, settled, pendingFees, balances>>
  BY DEF Cancel, CancelAuthorization, routerVars
<1>2. MappedOwed' = MappedOwed /\ MappedHeld' = MappedHeld
  BY <1>1 DEF MappedOwed, MappedHeld
<1>3. CASE MappedPhase' = MappedPhase
  BY <1>2, <1>3 DEF Escrow!vars, MappedPhase, MappedOwed, MappedHeld
<1>4. ASSUME NEW p \in Payments, k = <<p.token, p.from, Commitment[p]>>, p \in FullPayments
      PROVE  Escrow!CallOff(p)
  <2>1. MappedPhase' = [MappedPhase EXCEPT ![p] = Phase(p)'] /\ MappedPhase'[p] = Phase(p)'
    BY <1>1, <1>4, PhaseBecomes
  <2>2. ~ PaymentUsed(p) /\ PaymentUsed(p)'
    BY <1>1, <1>4 DEF PaymentUsed, NonceUsed
  <2>3. ~ PaymentSettled(p) /\ ~ PaymentSettled(p)' /\ ~ PaymentDelivered(p)'
    BY <1>1, <2>2, FreshUndelivered DEF SettledUsed, PaymentSettled, PaymentDelivered
  <2>4. MappedPhase[p] = "signed" /\ Phase(p)' = "void"
    BY <1>4, <2>2, <2>3 DEF MappedPhase, Phase, PaymentDiverted
  <2>5. /\ MappedHeld'[p.token] >= MappedHeld[p.token] + 0
        /\ MappedHeld' = [MappedHeld EXCEPT ![p.token] = MappedHeld'[p.token]]
    BY <1>2, <1>4, FullTyped, BalanceNat DEF MappedHeld
  <2>. QED
    BY <1>2, <2>1, <2>4, <2>5
    DEF Escrow!CallOff, Escrow!Becomes, Escrow!Gains, MappedPhase, MappedOwed, MappedHeld
<1>5. CASE \E p \in Payments : k = <<p.token, p.from, Commitment[p]>> /\ p \in FullPayments
  BY <1>4, <1>5 DEF Escrow!Next
<1>6. CASE \E p \in Payments : k = <<p.token, p.from, Commitment[p]>> /\ p \notin FullPayments
  BY <1>1, <1>3, <1>6, PhaseElsewhere
<1>7. CASE \A p \in Payments : <<p.token, p.from, Commitment[p]>> # k
  BY <1>1, <1>3, <1>7, PhaseUnchanged
<1>. QED  BY <1>5, <1>6, <1>7

LEMMA DirectRefines ==
    ASSUME TypeOK, SettledUsed, ExecutedUsed, NEW a \in Authorizations, DirectTransfer(a)
    PROVE  [Escrow!Next]_(Escrow!vars)
<1>. DEFINE k == AuthorizationKey(a)
            gain == IF a.to = Router THEN a.value ELSE 0
<1>1. /\ k \notin authorizationState
      /\ authorizationState' = authorizationState \cup {k}
      /\ executed' = executed \cup {a}
      /\ UNCHANGED <<settled, pendingFees>>
      /\ balances' \in [Tokens -> [Accounts -> Nat]]
      /\ \A u \in Tokens \ {a.token} : balances'[u] = balances[u]
  BY DirectEffect
<1>2. /\ executed \subseteq executed' /\ \A m \in executed' \ executed : AuthorizationKey(m) = k
      /\ a.token \in Tokens /\ a.value \in Nat /\ gain \in Nat
  BY <1>1, AuthorizationFields
<1>3. MappedOwed' = MappedOwed
  BY <1>1 DEF MappedOwed
<1>4. ASSUME a.token \in FullTokens
      PROVE  /\ MappedHeld' = [MappedHeld EXCEPT ![a.token] = MappedHeld'[a.token]]
             /\ MappedHeld'[a.token] = MappedHeld[a.token] + gain
             /\ MappedHeld[a.token] \in Nat
  BY <1>1, <1>4, FullTyped, BalanceNat, DirectEffect DEF MappedHeld
<1>5. ASSUME MappedPhase' = MappedPhase
      PROVE  [Escrow!Next]_(Escrow!vars)
  <2>1. CASE a.token \in FullTokens
    <3>1. Escrow!Receive(a.token)
      <4>. HIDE DEF gain
      <4>1. MappedHeld'[a.token] >= MappedHeld[a.token] + 0
        BY <1>2, <1>4, <2>1
      <4>. QED
        BY <1>3, <1>4, <1>5, <2>1, <4>1
        DEF Escrow!Receive, Escrow!Gains, MappedPhase, MappedOwed, MappedHeld
    <3>. QED  BY <2>1, <3>1 DEF Escrow!Next
  <2>2. CASE a.token \notin FullTokens
    <3>1. MappedHeld' = MappedHeld
      BY <1>1, <1>2, <2>2, HeldElsewhere
    <3>. QED  BY <1>3, <1>5, <3>1 DEF Escrow!vars, MappedPhase, MappedOwed, MappedHeld
  <2>. QED  BY <2>1, <2>2
<1>6. ASSUME NEW p \in FullPayments, k = <<p.token, p.from, Commitment[p]>>
      PROVE  Escrow!Deposit(p) \/ Escrow!CallOff(p)
  <2>1. p \in Payments /\ p.token \in FullTokens /\ a.token = p.token /\ p.value \in Nat
    BY <1>6, FullTyped, PaymentFields DEF AuthorizationKey
  <2>2. MappedPhase' = [MappedPhase EXCEPT ![p] = Phase(p)'] /\ MappedPhase'[p] = Phase(p)'
    <3>. HIDE DEF k
    <3>. QED  BY <1>1, <1>2, <1>6, PhaseBecomes
  <2>3. ~ PaymentUsed(p) /\ PaymentUsed(p)'
    BY <1>1, <1>6 DEF PaymentUsed, NonceUsed
  <2>4. ~ PaymentSettled(p) /\ ~ PaymentSettled(p)' /\ ~ PaymentDelivered(p)
    BY <1>1, <2>1, <2>3, FreshUndelivered DEF SettledUsed, PaymentSettled
  <2>5. MappedPhase[p] = "signed"
    BY <1>6, <2>3, <2>4 DEF MappedPhase, Phase, PaymentDiverted
  <2>6. CASE a.to = Router /\ a.value >= p.value
    <3>1. PaymentDelivered(p)'
      BY <1>6, <2>1, <2>6, DirectEffect
    <3>2. Phase(p)' = "escrowed"
      BY <2>3, <2>4, <3>1 DEF Phase, PaymentDiverted
    <3>3. MappedHeld'[p.token] >= MappedHeld[p.token] + p.value
      BY <1>2, <1>4, <2>1, <2>6
    <3>. QED
      BY <1>3, <1>4, <2>1, <2>2, <2>5, <3>2, <3>3
      DEF Escrow!Deposit, Escrow!Becomes, Escrow!Gains, MappedPhase, MappedOwed, MappedHeld
  <2>7. CASE ~ (a.to = Router /\ a.value >= p.value)
    <3>1. ~ PaymentDelivered(p)'
      BY <2>1, <2>4, <2>7, DirectEffect
    <3>2. Phase(p)' = "void"
      BY <2>3, <2>4, <3>1 DEF Phase, PaymentDiverted
    <3>3. MappedHeld'[p.token] >= MappedHeld[p.token] + 0
      <4>. HIDE DEF gain
      <4>. QED  BY <1>2, <1>4, <2>1
    <3>. QED
      BY <1>3, <1>4, <2>1, <2>2, <2>5, <3>2, <3>3
      DEF Escrow!CallOff, Escrow!Becomes, Escrow!Gains, MappedPhase, MappedOwed, MappedHeld
  <2>. QED  BY <2>6, <2>7
<1>. HIDE DEF k, gain
<1>7. CASE \E p \in FullPayments : k = <<p.token, p.from, Commitment[p]>>
  BY <1>6, <1>7 DEF Escrow!Next
<1>8. CASE \E p \in Payments : k = <<p.token, p.from, Commitment[p]>> /\ p \notin FullPayments
  BY <1>1, <1>2, <1>5, <1>8, PhaseElsewhere
<1>9. CASE \A p \in Payments : <<p.token, p.from, Commitment[p]>> # k
  BY <1>1, <1>2, <1>5, <1>9, PhaseUnchanged
<1>. QED  BY <1>7, <1>8, <1>9

LEMMA DonateRefines ==
    ASSUME TypeOK, NEW t \in Tokens, NEW d \in Donors, NEW n \in 1 .. MaxDonation,
           Donate(t, d, n)
    PROVE  [Escrow!Next]_(Escrow!vars)
<1>. DEFINE b == Transfer(t, balances[t], d, Router, n)
<1>1. /\ d \in Accounts /\ d # Router /\ Router \in Accounts /\ n \in Nat /\ n > 0
      /\ balances \in [Tokens -> [Accounts -> Nat]] /\ balances[t] \in [Accounts -> Nat]
      /\ n <= balances[t][d]
  BY RouterAssumption DEF TypeOK, TokenTypeOK, Donate, PlainTransfer
<1>2. /\ balances' = [balances EXCEPT ![t] = b]
      /\ UNCHANGED <<settled, pendingFees, authorizationState, executed>>
  BY DEF Donate, PlainTransfer, routerVars
<1>3. MappedPhase' = MappedPhase /\ MappedOwed' = MappedOwed
  BY <1>2, PhaseStill DEF MappedOwed
<1>4. CASE t \in FullTokens
  <2>1. b \in [Accounts -> Nat]
    BY <1>1, TransferType
  <2>2. b[Router] = balances[t][Router] + n
    <3>1. Credited(t, n) = n
      BY <1>1, <1>4, FullTyped
    <3>. QED  BY <1>1, <3>1, TransferEffect
  <2>. HIDE DEF b
  <2>3. MappedHeld' = [MappedHeld EXCEPT ![t] = b[Router]]
    BY <1>2, <1>4, <2>1, HeldBecomes
  <2>4. MappedHeld'[t] = b[Router] /\ MappedHeld[t] = balances[t][Router]
    BY <1>4, <2>3 DEF MappedHeld
  <2>5. MappedHeld'[t] >= MappedHeld[t] + 0
    <3>1. balances[t][Router] \in Nat
      BY <1>1
    <3>. QED  BY <1>1, <2>2, <2>4, <3>1
  <2>6. Escrow!Receive(t)
    BY <1>3, <2>3, <2>4, <2>5 DEF Escrow!Receive, Escrow!Gains, MappedPhase, MappedOwed, MappedHeld
  <2>. QED  BY <1>4, <2>6 DEF Escrow!Next
<1>5. CASE t \notin FullTokens
  <2>. HIDE DEF b
  <2>1. MappedHeld' = MappedHeld
    BY <1>1, <1>2, <1>5, HeldElsewhere
  <2>. QED  BY <1>3, <2>1 DEF Escrow!vars, MappedPhase, MappedOwed, MappedHeld
<1>. QED  BY <1>4, <1>5

\* A step of the router is a step of the escrow or none that it shows.
LEMMA StepRefines ==
    ASSUME TypeOK, SettledUsed, ExecutedUsed, [Next]_vars
    PROVE  [Escrow!Next]_(Escrow!vars)
<1>1. CASE Settle
  BY <1>1, SettleRefines DEF Settle
<1>2. CASE Claim
  BY <1>2, ClaimPaysOut, ClaimRefines
<1>3. CASE Approve \/ TimePasses \/ UNCHANGED vars
  <2>1. UNCHANGED <<balances, settled, authorizationState, executed, pendingFees>>
    BY <1>3 DEF Approve, SetFeeOperator, TimePasses, Tick, vars, routerVars
  <2>2. MappedPhase' = MappedPhase /\ MappedOwed' = MappedOwed /\ MappedHeld' = MappedHeld
    BY <2>1, PhaseStill DEF MappedOwed, MappedHeld
  <2>. QED  BY <2>2 DEF Escrow!vars, MappedPhase, MappedOwed, MappedHeld
<1>4. ASSUME NEW a \in Authorizations, DirectTransfer(a)
      PROVE  [Escrow!Next]_(Escrow!vars)
  BY <1>4, DirectRefines
<1>5. ASSUME NEW k \in Cancellable, Cancel(k)
      PROVE  [Escrow!Next]_(Escrow!vars)
  BY <1>5, CancelRefines
<1>6. ASSUME NEW t \in Tokens, NEW d \in Donors, NEW n \in 1 .. MaxDonation, Donate(t, d, n)
      PROVE  [Escrow!Next]_(Escrow!vars)
  BY <1>6, DonateRefines
<1>. QED  BY <1>1, <1>2, <1>3, <1>4, <1>5, <1>6 DEF Next

LEMMA InitRefines == ASSUME Init PROVE Escrow!Init
<1>1. MappedPhase = [p \in FullPayments |-> "signed"]
  BY DEF Init, TokenInit, MappedPhase, Phase, PaymentSettled, PaymentDiverted, PaymentUsed,
         NonceUsed
<1>2. MappedOwed = [f \in Facilitators |-> [t \in FullTokens |-> 0]]
  BY FullTyped DEF Init, MappedOwed
<1>3. MappedHeld \in [FullTokens -> Nat]
  BY FullTyped, TypeInit, RouterAssumption DEF TypeOK, TokenTypeOK, MappedHeld
<1>. QED  BY <1>1, <1>2, <1>3 DEF Escrow!Init, MappedPhase, MappedOwed, MappedHeld

\* The router implements the escrow (settleAndExecute by both flows, claimFees,
\* claimFeesFor), for any tokens, payments, facilitators and hooks.
THEOREM RouterIsEscrow == Spec => ImplementsEscrow
<1>1. Init => TypeOK /\ SettledUsed /\ ExecutedUsed
  BY IInvInit DEF IInv
<1>2. TypeOK /\ SettledUsed /\ ExecutedUsed /\ [Next]_vars =>
          TypeOK' /\ SettledUsed' /\ ExecutedUsed'
  BY TypeStep, KeysStep
<1>3. TypeOK /\ SettledUsed /\ ExecutedUsed /\ [Next]_vars => [Escrow!Next]_(Escrow!vars)
  BY StepRefines
<1>4. Init => Escrow!Init
  BY InitRefines
<1>. QED  BY <1>1, <1>2, <1>3, <1>4, PTL DEF Spec, ImplementsEscrow, Escrow!Spec

-----------------------------------------------------------------------------
(***************************************************************************)
(* The books of the escrow: what is held falls short of what is owed by    *)
(* revived payments at most.                                               *)
(***************************************************************************)
Owed(t) == Total(Facilitators, [f \in Facilitators |-> MappedOwed[f][t]])
In(t, ph) == {p \in FullPayments : p.token = t /\ MappedPhase[p] = ph}
ValueOf == [p \in FullPayments |-> p.value]
Books(t) ==
    Owed(t) + Total(In(t, "escrowed"), ValueOf)
        <= MappedHeld[t] + Total(In(t, "revived"), ValueOf)

LEMMA BooksAreEscrow == Escrow!HeldCovers <=> \A t \in FullTokens : Books(t)
<1>1. \A t, ph : Escrow!InPhase(t, ph) = In(t, ph)
  BY DEF Escrow!InPhase, In, MappedPhase
<1>2. \A S, g : Escrow!Total(S, g) = Total(S, g)
  BY Zenon DEF Escrow!Total, Escrow!Units, Total, Units, Escrow!Cardinality, Cardinality
<1>. QED  BY <1>1, <1>2 DEF Escrow!HeldCovers, Books, Owed, ValueOf, MappedOwed, MappedHeld

LEMMA BooksTyped ==
    ASSUME TypeOK, NEW t \in FullTokens
    PROVE  /\ MappedOwed \in [Facilitators -> [FullTokens -> Nat]]
           /\ MappedHeld \in [FullTokens -> Nat]
           /\ Owed(t) \in Nat
           /\ \A ph : /\ IsFiniteSet(In(t, ph)) /\ In(t, ph) \subseteq FullPayments
                      /\ Total(In(t, ph), ValueOf) \in Nat
           /\ \A p \in FullPayments : ValueOf[p] = p.value /\ ValueOf[p] \in Nat
<1>1. MappedOwed \in [Facilitators -> [FullTokens -> Nat]]
  BY FullTyped DEF TypeOK, MappedOwed
<1>2. MappedHeld \in [FullTokens -> Nat]
  BY FullTyped, RouterAssumption DEF TypeOK, TokenTypeOK, MappedHeld
<1>3. Owed(t) \in Nat
  <2>. DEFINE g == [f \in Facilitators |-> MappedOwed[f][t]]
  <2>1. IsFiniteSet(Facilitators) /\ \A f \in Facilitators : g[f] \in Nat
    BY <1>1, TokenAssumption, RouterAssumption, FS_Subset
  <2>. HIDE DEF g
  <2>2. Total(Facilitators, g) \in Nat
    BY <2>1, TotalNat
  <2>. QED  BY <2>2 DEF Owed, g
<1>4. \A p \in FullPayments : ValueOf[p] = p.value /\ ValueOf[p] \in Nat
  BY FullTyped, PaymentFields DEF ValueOf
<1>5. ASSUME NEW ph
      PROVE  /\ IsFiniteSet(In(t, ph)) /\ In(t, ph) \subseteq FullPayments
             /\ Total(In(t, ph), ValueOf) \in Nat
  <2>1. In(t, ph) \subseteq FullPayments
    BY DEF In
  <2>2. IsFiniteSet(In(t, ph))
    BY <2>1, FullTyped, RouterAssumption, FS_Subset
  <2>. QED  BY <1>4, <2>1, <2>2, TotalNat
<1>. QED  BY <1>1, <1>2, <1>3, <1>4, <1>5

\* A payment that enters or leaves a phase adds or takes its value.
LEMMA PhaseSum ==
    ASSUME TypeOK, NEW p \in FullPayments, NEW ph, NEW x, NEW t \in FullTokens,
           MappedPhase' = [MappedPhase EXCEPT ![p] = ph]
    PROVE  /\ t # p.token => Total(In(t, x)', ValueOf) = Total(In(t, x), ValueOf)
           /\ t = p.token /\ MappedPhase[p] # x /\ ph # x =>
                 Total(In(t, x)', ValueOf) = Total(In(t, x), ValueOf)
           /\ t = p.token /\ MappedPhase[p] # x /\ ph = x =>
                 Total(In(t, x)', ValueOf) = Total(In(t, x), ValueOf) + p.value
           /\ t = p.token /\ MappedPhase[p] = x /\ ph # x =>
                 Total(In(t, x)', ValueOf) = Total(In(t, x), ValueOf) - p.value
<1>1. /\ MappedPhase'[p] = ph
      /\ \A q \in FullPayments \ {p} : MappedPhase'[q] = MappedPhase[q]
  BY DEF MappedPhase
<1>2. /\ IsFiniteSet(In(t, x)) /\ \A q \in In(t, x) : ValueOf[q] \in Nat
      /\ ValueOf[p] = p.value /\ p.value \in Nat
      /\ Total(In(t, x), ValueOf) \in Nat
  BY BooksTyped
<1>3. CASE t # p.token \/ (MappedPhase[p] # x /\ ph # x)
  <2>1. In(t, x)' = In(t, x)
    BY <1>1, <1>3 DEF In
  <2>. QED  BY <1>3, <2>1
<1>4. CASE t = p.token /\ MappedPhase[p] # x /\ ph = x
  <2>1. In(t, x)' = In(t, x) \cup {p} /\ p \notin In(t, x)
    BY <1>1, <1>4 DEF In
  <2>2. Total(In(t, x) \cup {p}, ValueOf) = Total(In(t, x), ValueOf) + ValueOf[p]
    BY <1>2, <2>1, TotalAdd
  <2>. QED  BY <1>2, <1>4, <2>1, <2>2
<1>5. CASE t = p.token /\ MappedPhase[p] = x /\ ph # x
  <2>1. In(t, x)' = In(t, x) \ {p} /\ p \in In(t, x)
    BY <1>1, <1>5 DEF In
  <2>2. Total(In(t, x), ValueOf) = Total(In(t, x) \ {p}, ValueOf) + ValueOf[p]
    BY <1>2, <2>1, TotalRemove
  <2>3. Total(In(t, x) \ {p}, ValueOf) \in Nat
    BY <1>2, FS_RemoveElement, TotalNat
  <2>. QED  BY <1>2, <1>5, <2>1, <2>2, <2>3
<1>6. CASE t = p.token /\ MappedPhase[p] = x /\ ph = x
  BY <1>6
<1>. QED  BY <1>3, <1>4, <1>5, <1>6

LEMMA PhaseStays ==
    ASSUME TypeOK, NEW p \in FullPayments, NEW ph, NEW x,
           MappedPhase' = [MappedPhase EXCEPT ![p] = ph], MappedPhase[p] # x, ph # x
    PROVE  Total(In(p.token, x)', ValueOf) = Total(In(p.token, x), ValueOf)
BY FullTyped, PhaseSum

LEMMA PhaseEntered ==
    ASSUME TypeOK, NEW p \in FullPayments, NEW ph,
           MappedPhase' = [MappedPhase EXCEPT ![p] = ph], MappedPhase[p] # ph
    PROVE  Total(In(p.token, ph)', ValueOf) = Total(In(p.token, ph), ValueOf) + p.value
BY FullTyped, PhaseSum

LEMMA PhaseLeft ==
    ASSUME TypeOK, NEW p \in FullPayments, NEW ph, NEW x, MappedPhase[p] = x, ph # x,
           MappedPhase' = [MappedPhase EXCEPT ![p] = ph]
    PROVE  Total(In(p.token, x)', ValueOf) = Total(In(p.token, x), ValueOf) - p.value
BY FullTyped, PhaseSum

\* One facilitator's fee changes what is owed by as much.
LEMMA OwedSum ==
    ASSUME TypeOK, TypeOK', NEW f \in Facilitators, NEW t \in FullTokens,
           \A g \in Facilitators \ {f} : MappedOwed'[g][t] = MappedOwed[g][t]
    PROVE  Owed(t)' = Owed(t) - MappedOwed[f][t] + MappedOwed'[f][t]
<1>. DEFINE old == [g \in Facilitators |-> MappedOwed[g][t]]
            new == [g \in Facilitators |-> MappedOwed'[g][t]]
<1>1. IsFiniteSet(Facilitators) /\ \A g \in Facilitators : old[g] \in Nat
  BY BooksTyped, TokenAssumption, RouterAssumption, FS_Subset
<1>2. new[f] \in Nat /\ \A g \in Facilitators \ {f} : new[g] = old[g]
  <2>1. MappedOwed' \in [Facilitators -> [FullTokens -> Nat]]
    BY FullTyped DEF TypeOK, MappedOwed
  <2>. QED  BY <2>1
<1>3. old[f] = MappedOwed[f][t] /\ new[f] = MappedOwed'[f][t]
  OBVIOUS
<1>. HIDE DEF old, new
<1>4. Total(Facilitators, new) = Total(Facilitators, old) - old[f] + new[f]
  BY <1>1, <1>2, TotalUpdate
<1>. QED  BY <1>3, <1>4 DEF Owed, old, new

\* Deposits, payments called off, settlements and revivals move both sides of the books alike.
LEMMA PaymentBooks ==
    ASSUME TypeOK, TypeOK', \A t \in FullTokens : Books(t), NEW p \in FullPayments,
           NEW t \in FullTokens,
           \/ Escrow!Deposit(p) \/ Escrow!CallOff(p)
           \/ \E f \in Facilitators : Escrow!Settle(f, p) \/ Escrow!Revive(f, p)
    PROVE  Books(t)'
<1>. DEFINE e  == Total(In(t, "escrowed"), ValueOf)
            e1 == Total(In(t, "escrowed")', ValueOf)
            r  == Total(In(t, "revived"), ValueOf)
            r1 == Total(In(t, "revived")', ValueOf)
            o  == Owed(t)
            o1 == Owed(t)'
            h  == MappedHeld[t]
            h1 == MappedHeld'[t]
<1>1. o + e <= h + r
  BY DEF Books
<1>2. /\ o \in Nat /\ e \in Nat /\ r \in Nat /\ h \in Nat
      /\ p.value \in Nat /\ p.fee \in Nat /\ p.token \in FullTokens
  BY BooksTyped, FullTyped, PaymentFields
<1>3. ASSUME MappedOwed' = MappedOwed PROVE o1 = o
  BY <1>3 DEF Owed
<1>4. ASSUME NEW f \in Facilitators,
             MappedOwed' = [MappedOwed EXCEPT ![f][p.token] = @ + p.fee]
      PROVE  o1 = IF t = p.token THEN o + p.fee ELSE o
  <2>1. \A g \in Facilitators \ {f} : MappedOwed'[g][t] = MappedOwed[g][t]
    BY <1>4, BooksTyped
  <2>2. o1 = o - MappedOwed[f][t] + MappedOwed'[f][t]
    BY <2>1, OwedSum
  <2>3. /\ MappedOwed[f][t] \in Nat
        /\ MappedOwed'[f][t] = IF t = p.token THEN MappedOwed[f][t] + p.fee ELSE MappedOwed[f][t]
    BY <1>2, <1>4, BooksTyped
  <2>. HIDE DEF o, o1
  <2>. QED  BY <1>2, <2>2, <2>3
<1>5. o1 + e1 <= h1 + r1
  <2>1. CASE Escrow!Deposit(p)
    <3>1. /\ MappedPhase[p] = "signed" /\ MappedPhase' = [MappedPhase EXCEPT ![p] = "escrowed"]
          /\ MappedHeld' = [MappedHeld EXCEPT ![p.token] = MappedHeld'[p.token]]
          /\ MappedHeld'[p.token] >= MappedHeld[p.token] + p.value
          /\ MappedOwed' = MappedOwed
      BY <2>1 DEF Escrow!Deposit, Escrow!Becomes, Escrow!Gains, MappedPhase, MappedOwed,
                  MappedHeld
    <3>2. /\ t = p.token => h1 >= h + p.value
          /\ t # p.token => h1 = h
      BY <1>2, <3>1, BooksTyped
    <3>3. e1 = IF t = p.token THEN e + p.value ELSE e
      <4>1. CASE t = p.token
        BY <3>1, <4>1, PhaseStays, PhaseEntered, PhaseLeft
      <4>2. CASE t # p.token
        BY <3>1, <4>2, PhaseSum
      <4>. QED  BY <4>1, <4>2
    <3>4. r1 = r
      <4>1. CASE t = p.token
        BY <3>1, <4>1, PhaseStays, PhaseEntered, PhaseLeft
      <4>2. CASE t # p.token
        BY <3>1, <4>2, PhaseSum
      <4>. QED  BY <4>1, <4>2
    <3>5. o1 = o /\ h1 \in Nat
      BY <1>3, <3>1, FullTyped, RouterAssumption DEF MappedHeld, TypeOK, TokenTypeOK
    <3>. HIDE DEF o, o1, e, e1, r, r1, h, h1
    <3>. QED  BY <1>1, <1>2, <3>2, <3>3, <3>4, <3>5
  <2>2. CASE Escrow!CallOff(p)
    <3>1. /\ MappedPhase[p] = "signed" /\ MappedPhase' = [MappedPhase EXCEPT ![p] = "void"]
          /\ MappedHeld' = [MappedHeld EXCEPT ![p.token] = MappedHeld'[p.token]]
          /\ MappedHeld'[p.token] >= MappedHeld[p.token] + 0
          /\ MappedOwed' = MappedOwed
      BY <2>2 DEF Escrow!CallOff, Escrow!Becomes, Escrow!Gains, MappedPhase, MappedOwed,
                  MappedHeld
    <3>2. e1 = e /\ r1 = r
      <4>1. CASE t = p.token
        <5>1. e1 = e
          BY <3>1, <4>1, PhaseStays
        <5>2. r1 = r
          BY <3>1, <4>1, PhaseStays
        <5>. QED  BY <5>1, <5>2
      <4>2. CASE t # p.token
        <5>1. e1 = e
          BY <3>1, <4>2, PhaseSum
        <5>2. r1 = r
          BY <3>1, <4>2, PhaseSum
        <5>. QED  BY <5>1, <5>2
      <4>. QED  BY <4>1, <4>2
    <3>3. o1 = o
      BY <1>3, <3>1
    <3>4. /\ t = p.token => h1 >= h + 0
          /\ t # p.token => h1 = h
      BY <1>2, <3>1, BooksTyped
    <3>5. h1 \in Nat
      BY FullTyped, RouterAssumption DEF MappedHeld, TypeOK, TokenTypeOK
    <3>. HIDE DEF o, o1, e, e1, r, r1, h, h1
    <3>. QED  BY <1>1, <1>2, <3>2, <3>3, <3>4, <3>5
  <2>3. ASSUME NEW f \in Facilitators, Escrow!Settle(f, p)
        PROVE  o1 + e1 <= h1 + r1
    <3>1. /\ MappedPhase[p] \in {"signed", "escrowed"} /\ p.fee <= p.value
          /\ MappedPhase' = [MappedPhase EXCEPT ![p] = "settled"]
          /\ MappedHeld' = [MappedHeld EXCEPT ![p.token] =
                               IF MappedPhase[p] = "escrowed" THEN @ - (p.value - p.fee)
                               ELSE @ + p.fee]
          /\ MappedOwed' = [MappedOwed EXCEPT ![f][p.token] = @ + p.fee]
      BY <2>3 DEF Escrow!Settle, Escrow!Becomes, MappedPhase, MappedOwed, MappedHeld
    <3>2. h1 = IF t # p.token THEN h
               ELSE IF MappedPhase[p] = "escrowed" THEN h - (p.value - p.fee) ELSE h + p.fee
      BY <1>2, <3>1, BooksTyped
    <3>3. e1 = IF t = p.token /\ MappedPhase[p] = "escrowed" THEN e - p.value ELSE e
      <4>1. CASE t = p.token
        BY <3>1, <4>1, PhaseStays, PhaseEntered, PhaseLeft
      <4>2. CASE t # p.token
        BY <3>1, <4>2, PhaseSum
      <4>. QED  BY <4>1, <4>2
    <3>4. r1 = r
      <4>1. CASE t = p.token
        BY <3>1, <4>1, PhaseStays, PhaseEntered, PhaseLeft
      <4>2. CASE t # p.token
        BY <3>1, <4>2, PhaseSum
      <4>. QED  BY <4>1, <4>2
    <3>5. o1 = IF t = p.token THEN o + p.fee ELSE o
      BY <1>4, <3>1
    <3>. HIDE DEF o, o1, e, e1, r, r1, h, h1
    <3>6. CASE t = p.token /\ MappedPhase[p] = "escrowed"
      BY <1>1, <1>2, <3>2, <3>3, <3>4, <3>5, <3>6
    <3>7. CASE t = p.token /\ MappedPhase[p] # "escrowed"
      BY <1>1, <1>2, <3>2, <3>3, <3>4, <3>5, <3>7
    <3>8. CASE t # p.token
      BY <1>1, <1>2, <3>2, <3>3, <3>4, <3>5, <3>8
    <3>. QED  BY <3>6, <3>7, <3>8
  <2>4. ASSUME NEW f \in Facilitators, Escrow!Revive(f, p)
        PROVE  o1 + e1 <= h1 + r1
    <3>1. /\ MappedPhase[p] = "void" /\ p.fee <= p.value
          /\ MappedPhase' = [MappedPhase EXCEPT ![p] = "revived"]
          /\ MappedHeld' = [MappedHeld EXCEPT ![p.token] = @ - (p.value - p.fee)]
          /\ MappedOwed' = [MappedOwed EXCEPT ![f][p.token] = @ + p.fee]
      BY <2>4 DEF Escrow!Revive, Escrow!Becomes, MappedPhase, MappedOwed, MappedHeld
    <3>2. h1 = IF t = p.token THEN h - (p.value - p.fee) ELSE h
      BY <1>2, <3>1, BooksTyped
    <3>3. r1 = IF t = p.token THEN r + p.value ELSE r
      <4>1. CASE t = p.token
        BY <3>1, <4>1, PhaseStays, PhaseEntered, PhaseLeft
      <4>2. CASE t # p.token
        BY <3>1, <4>2, PhaseSum
      <4>. QED  BY <4>1, <4>2
    <3>4. e1 = e
      <4>1. CASE t = p.token
        BY <3>1, <4>1, PhaseStays, PhaseEntered, PhaseLeft
      <4>2. CASE t # p.token
        BY <3>1, <4>2, PhaseSum
      <4>. QED  BY <4>1, <4>2
    <3>5. o1 = IF t = p.token THEN o + p.fee ELSE o
      BY <1>4, <3>1
    <3>. HIDE DEF o, o1, e, e1, r, r1, h, h1
    <3>. QED  BY <1>1, <1>2, <3>2, <3>3, <3>4, <3>5
  <2>. QED  BY <2>1, <2>2, <2>3, <2>4
<1>. QED  BY <1>5 DEF Books, ValueOf

LEMMA BooksStep ==
    ASSUME TypeOK, TypeOK', \A t \in FullTokens : Books(t), [Escrow!Next]_(Escrow!vars),
           NEW t \in FullTokens
    PROVE  Books(t)'
<1>1. CASE \E p \in FullPayments : Escrow!Deposit(p) \/ Escrow!CallOff(p)
  BY <1>1, PaymentBooks
<1>2. CASE \E f \in Facilitators, p \in FullPayments : Escrow!Settle(f, p) \/ Escrow!Revive(f, p)
  BY <1>2, PaymentBooks
<1>3. ASSUME NEW f \in Facilitators, NEW us \in SUBSET FullTokens, Escrow!Withdraw(f, us)
      PROVE  Books(t)'
  <2>1. /\ MappedPhase' = MappedPhase
        /\ MappedOwed' = [MappedOwed EXCEPT ![f] =
               [u \in FullTokens |-> IF u \in us THEN 0 ELSE MappedOwed[f][u]]]
        /\ \/ MappedHeld' = [u \in FullTokens |->
                  IF u \in us THEN MappedHeld[u] - MappedOwed[f][u] ELSE MappedHeld[u]]
           \/ MappedHeld' = MappedHeld
    BY <1>3 DEF Escrow!Withdraw, MappedPhase, MappedOwed, MappedHeld
  <2>2. \A g \in Facilitators \ {f} : MappedOwed'[g][t] = MappedOwed[g][t]
    BY <2>1, BooksTyped
  <2>3. Owed(t)' = Owed(t) - MappedOwed[f][t] + MappedOwed'[f][t]
    BY <2>2, OwedSum
  <2>4. /\ MappedOwed[f][t] \in Nat /\ MappedHeld[t] \in Nat /\ Owed(t) \in Nat
        /\ MappedOwed'[f][t] = IF t \in us THEN 0 ELSE MappedOwed[f][t]
        /\ MappedHeld'[t] \in {MappedHeld[t],
                               IF t \in us THEN MappedHeld[t] - MappedOwed[f][t] ELSE MappedHeld[t]}
    BY <2>1, BooksTyped
  <2>5. \A ph : In(t, ph)' = In(t, ph) /\ Total(In(t, ph), ValueOf) \in Nat
    BY <2>1, BooksTyped DEF In
  <2>6. Owed(t) + Total(In(t, "escrowed"), ValueOf)
            <= MappedHeld[t] + Total(In(t, "revived"), ValueOf)
    BY DEF Books
  <2>7. Owed(t)' + Total(In(t, "escrowed"), ValueOf)
            <= MappedHeld'[t] + Total(In(t, "revived"), ValueOf)
    <3>. DEFINE e == Total(In(t, "escrowed"), ValueOf)
                r == Total(In(t, "revived"), ValueOf)
    <3>1. e \in Nat /\ r \in Nat
      BY <2>5
    <3>. HIDE DEF e, r
    <3>2. Owed(t)' + e <= MappedHeld'[t] + r
      BY <2>3, <2>4, <2>6, <3>1 DEF e, r
    <3>. QED  BY <3>2 DEF e, r
  <2>. QED  BY <2>5, <2>7 DEF Books, ValueOf
<1>4. ASSUME NEW u \in FullTokens, Escrow!Receive(u)
      PROVE  Books(t)'
  <2>1. /\ MappedPhase' = MappedPhase /\ MappedOwed' = MappedOwed
        /\ MappedHeld'[u] >= MappedHeld[u] + 0
        /\ MappedHeld' = [MappedHeld EXCEPT ![u] = MappedHeld'[u]]
    BY <1>4 DEF Escrow!Receive, Escrow!Gains, MappedPhase, MappedOwed, MappedHeld
  <2>2. /\ MappedHeld[t] \in Nat /\ MappedHeld'[t] \in Nat /\ MappedHeld'[t] >= MappedHeld[t]
    <3>1. MappedHeld \in [FullTokens -> Nat]
      BY BooksTyped
    <3>2. MappedHeld' \in [FullTokens -> Nat]
      BY FullTyped, RouterAssumption DEF TypeOK, TokenTypeOK, MappedHeld
    <3>. QED  BY <2>1, <3>1, <3>2
  <2>3. \A ph : In(t, ph)' = In(t, ph) /\ Total(In(t, ph), ValueOf) \in Nat
    BY <2>1, BooksTyped DEF In
  <2>4. Owed(t)' = Owed(t) /\ Owed(t) \in Nat
    BY <2>1, BooksTyped DEF Owed
  <2>5. Owed(t)' + Total(In(t, "escrowed"), ValueOf)
            <= MappedHeld'[t] + Total(In(t, "revived"), ValueOf)
    <3>. DEFINE e == Total(In(t, "escrowed"), ValueOf)
                r == Total(In(t, "revived"), ValueOf)
    <3>1. e \in Nat /\ r \in Nat /\ Owed(t) + e <= MappedHeld[t] + r
      BY <2>3 DEF Books
    <3>. HIDE DEF e, r
    <3>2. Owed(t)' + e <= MappedHeld'[t] + r
      BY <2>2, <2>4, <3>1
    <3>. QED  BY <3>2 DEF e, r
  <2>. QED  BY <2>3, <2>5 DEF Books, ValueOf
<1>5. CASE UNCHANGED Escrow!vars
  <2>1. MappedPhase' = MappedPhase /\ MappedOwed' = MappedOwed /\ MappedHeld' = MappedHeld
    BY <1>5 DEF Escrow!vars, MappedPhase, MappedOwed, MappedHeld
  <2>. QED  BY <2>1 DEF Books, Owed, In, ValueOf
<1>. QED  BY <1>1, <1>2, <1>3, <1>4, <1>5 DEF Escrow!Next

LEMMA BooksInit == ASSUME Init, NEW t \in FullTokens PROVE Books(t)
<1>1. TypeOK /\ t \in Tokens
  BY TypeInit, FullTyped
<1>2. /\ \A p \in FullPayments : MappedPhase[p] = "signed"
      /\ \A f \in Facilitators : MappedOwed[f][t] = 0
  BY FullTyped DEF Init, TokenInit, MappedPhase, MappedOwed, Phase, PaymentSettled,
         PaymentDiverted, PaymentUsed, NonceUsed
<1>3. In(t, "escrowed") = {} /\ In(t, "revived") = {}
  BY <1>2 DEF In
<1>4. Owed(t) = 0
  <2>. DEFINE g == [f \in Facilitators |-> MappedOwed[f][t]]
  <2>1. \A f \in Facilitators : g[f] = 0
    BY <1>2
  <2>. HIDE DEF g
  <2>2. Total(Facilitators, g) = 0
    BY <2>1, TotalZero
  <2>. QED  BY <2>2 DEF Owed, g
<1>5. Total({}, ValueOf) = 0
  BY TotalEmpty
<1>6. MappedHeld[t] \in Nat
  BY <1>1, BooksTyped
<1>. QED  BY <1>3, <1>4, <1>5, <1>6 DEF Books

\* The router's books are short by settled payments that never arrived at most (the
\* recovery flow of settleAndExecute), whatever payers sign and whatever else happens, for
\* any tokens, payments and facilitators.
THEOREM ShortOnlyByRevived == Spec => []ShortByRevivedOnly
<1>. DEFINE AllBooks == \A t \in FullTokens : Books(t)
            Inv == TypeOK /\ SettledUsed /\ ExecutedUsed /\ AllBooks
<1>1. Init => Inv
  BY IInvInit, BooksInit DEF IInv
<1>2. Inv /\ [Next]_vars => Inv'
  <2>. SUFFICES ASSUME Inv, [Next]_vars PROVE Inv'
    OBVIOUS
  <2>1. TypeOK' /\ SettledUsed' /\ ExecutedUsed'
    BY TypeStep, KeysStep
  <2>2. [Escrow!Next]_(Escrow!vars)
    BY StepRefines
  <2>3. \A t \in FullTokens : Books(t)'
    BY <2>1, <2>2, BooksStep
  <2>. QED  BY <2>1, <2>3
<1>3. Inv => ShortByRevivedOnly
  BY BooksAreEscrow DEF ShortByRevivedOnly
<1>. QED  BY <1>1, <1>2, <1>3, PTL DEF Spec

=============================================================================
