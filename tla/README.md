# x402-exec in TLA+

Models, model-checking runs and proofs for x402-exec: a settlement router contract
that lets a payment (an EIP-3009 authorization) and a business hook happen in one
transaction, the facilitator service that submits such settlements, pays the gas and
collects a fee, and the libraries with which clients pay and servers sell. Paths in this file are relative to the repository unless they
name a module.

## 1. The system and its parts

```
browser: useExecute / client SDK ──────────────────────────────┐ /calculate-fee, /settle
                                                               ▼
x402 client ──request, payment──► resource server ──────► facilitator: fee and hook validation
 (scheme, extension handler)       (routes, hooks)  /verify     │        │ prices, gas prices
                                                    /settle     │ job    │
                                                           account pool  └► transaction records
                                   fee claiming ───────────────►│
                                                                ▼ transactions
                               chain: SettlementRouter ──► hook (transfer, bonding curve sale, …)
                                          └──► EIP-3009 token
```

| Component | State it keeps | Operations | Hard behaviour | What makes it correct |
|---|---|---|---|---|
| Settlement router (`contracts/src/SettlementRouter.sol`) | settled context keys, pending fees, fee operators | `settleAndExecute` (normal and recovery flow), `claimFees`, `claimFeesFor`, `setFeeOperator` | tokens that arrive past the router, nonces that their payers use for something else, any order of deliveries, settlements and claims; hooks that misbehave; resubmission | it can always pay what it owes; what is settled has been paid; payers are charged as signed; fees are those signed |
| EIP-3009 token (`contracts/x402x-mint/src/X402X.sol`) | balances, used nonces | `transferWithAuthorization`, `cancelAuthorization`, transfers | nonces used by others than the router | an authorization is used once, within its window |
| Transfer hook (`contracts/src/hooks/TransferHook.sol`) | none (its allowance) | `execute`, simple or split | rounding, invalid splits | spends the allowance to the unit, shares as promised |
| Bonding curve sale (`contracts/x402x-mint/src/BondingCurveHook.sol`) | tokens sold, payments, stock | `execute` with a binary search, quotes, administration | rounding at four places, a stock that changes | nobody buys below the curve, the search is exact |
| Account pool (`facilitator/src/account-pool.ts`, `pool-manager.ts`) | queue and slot per account, pending payers, round robin index | `execute` | concurrent requests, jobs that throw, queues at their limit | one job per account, one request per payer, nobody lost or locked out |
| Settle path (`facilitator/src/routes/settle.ts`, `router-settlement-service.ts`, `facilitator-sdk/src/settlement.ts`) | the job of a request | balance check, `writeContract`, wait for the receipt | answers that are lost or late, retries, expiry in the queue, a balance that the payer spends elsewhere after it was checked | responses are true; a payment is charged once |
| Prices and fees (`token-price.ts`, `dynamic-gas-price.ts`, `gas-cost.ts`, `routes/fee.ts`) | two caches | quote, check, background updates | overlapping fetches answered out of order, two names of one network, fallbacks | prices no older than promised; a quote is honoured; an accepted fee covers the cost |
| Fee and hook validation (`middleware/`) | none | checks ahead of the job | what is checked is read earlier than what is used, and in another place of the request | nothing is sent for less than required on the strength of what was checked |
| Verification (`facilitator-sdk/src/facilitator.ts`, `routes/verify.ts`) | none | `verify`, router and standard branch | goes stale until the settlement | what verified can fail only for a named reason |
| Transaction records (`middleware/transaction-record.ts`, `lib/supabase.ts`) | database rows | two writes per settlement | one write fails, the process ends | what is recorded has been mined |
| Fee claiming (`facilitator/src/fee-claim.ts`) | the course of a call | query pending fees, claim, confirm | amounts that change between query and claim, accounts picked by the pool, partial failure, networks named twice | a reported claim was paid; every fee that can be claimed has one result |
| Graceful shutdown (`facilitator/src/shutdown.ts`) | active requests, shutdown state | count, reject, wait, clean up, exit | slow bodies, lost connections, several signals | no handler is interrupted before the timeout; the process exits |
| Client SDK (`typescript/packages/client`) | state of `useExecute`, cached quotes | prepare, sign, settle, confirm, reset | failed fee query, overlapping executions, timeouts, answers that break off | what is shown is so; a refused payment is safe to repeat |
| Resource server and x402 client (`typescript/packages/extensions`) | the scheme's remembered extension, cached quotes | offer, sign, verify, handle, settle | one scheme shared by overlapping payments, clients that choose their own terms or pay twice with one payment, fees that move, handler ahead of the settlement | nothing is served unpaid; nobody pays on another purchase's terms |

The rest (network tables, health, statistics, web scan interface, vendored prb-math)
keeps no state that a property is about; `PROJECT.json` lists each with its reason.

The components meet at these points: the resource server and the client SDK post to the
facilitator, whose answers may be late or lost; validation and pricing stand in front of
the settle path; the service runs each settlement as a job of the pool; jobs send
transactions to the chain; the router calls the token and the hook; the fee claimer
shares the pools with settlements; and the shutdown watches the HTTP requests that all
of these serve.

## 2. Modules

| Module | Models | Extends / uses |
|---|---|---|
| `UnitCounting` | sums over finite sets, as the cardinality of a set of units; written so that the proofs can use cardinality theorems instead of induction | – |
| `EIP3009Token` | the tokens | – |
| `SettlementRouter` | the router composed with the token, hooks as arbitrary spenders of their allowance | `EIP3009Token`, `UnitCounting` |
| `PaymentEscrow` | what the router promises, without mechanism | `UnitCounting`; instantiated by `SettlementRouter` |
| `TransferHook` | one call of the built-in hook, its loops step by step | `UnitCounting` |
| `BondingCurve` | the sale, its search round by round | – |
| `AccountPool` | the account pool, with p-limit's slots | – |
| `SettlementService` | a settle request as a job of the pool, the chain, the payers' funds | `AccountPool`, `UnitCounting` |
| `SettleOutcome` | what a settle request looks like from outside | instantiated by `SettlementService`, extended by `Checkout` and `PaidRoute` |
| `FeeRule` | the comparison of a fee with the requirement | – |
| `FeeQuote` | both price caches, a quote and its check | `FeeRule` |
| `Checkout` | client SDK and `useExecute`, the checks in front of the job, the records behind it | `SettleOutcome`, `FeeRule` |
| `PaidRoute` | resource server, x402 client, verification, the payment middleware, the checks in front of the job | `SettleOutcome`, `FeeRule` |
| `FeeClaim` | calls of `claimFees` | – |
| `GracefulShutdown` | the shutdown and the server it drains | – |
| `MC…` | instances for TLC | the module after `MC` |
| `…Proofs` | theorems and proofs; `SettlementServiceProofs` covers the pool as well, `FacilitatorProofs` the three parts of the facilitator that share no state: `GracefulShutdown`, `FeeQuote` and `FeeClaim` (their specifications are told apart by name, as in `QuoteSpec`) | the module before `Proofs`, TLAPS |

`PROJECT.json` maps every definition that stands for code to its lines.

**How the modules compose.** Four layers are tied together by refinement rather than by
one product of everything. `SettlementRouter` implements `PaymentEscrow`
(`ImplementsEscrow`). `SettlementService` composes the pool with the job and the chain:
its actions are the pool's, conjoined with what the job does in them, so the pool's
properties are checked of the composition (`pool_answers`), and it is shown to look from
outside like `SettleOutcome` (`ImplementsOutcome`). `Checkout` and `PaidRoute`, the two ways to
pay, are composed with `SettleOutcome` in the service's place, so that what they show
rests on what the service was shown to do.

### How state and actions correspond to the code

**Router.** A payment is the record of the parameters of `settleAndExecute`. The
commitment hash is a constant injective function `Commitment`; the authorization a
payer signs carries it as its nonce, so a call with changed parameters fails
`CommitmentMatches`. Signatures are membership in `Authorizations`. One call is one
action (`SettleAndExecute`): a revert is the absence of the step, as everything a
reverted call did is undone. `AfterHook` lets the hook move any part of its allowance
to the payee or itself, so that the balance check (`RouterKeeps`) is what holds it to
the whole; a hook that reverts is no step. A token may withhold a fixed amount of each
transfer (`Shortfall`). `DirectTransfer` and `Cancel` are calls at the token that
bypass the router, which is how a nonce can be used before a settlement; `Donate`
sends tokens unasked. `Authorizations` and `Cancellable` are free: a payer may sign the
nonce of a payment away for any recipient and any value, or cancel it. A payment whose
nonce has brought its value to the router is delivered (`PaymentDelivered`); one whose
nonce was used in any other way is diverted (`PaymentDiverted`), which the escrow
calls `void` and, if recovery settles it all the same, `revived`. Reentrant calls are
excluded by `nonReentrant`.

**Transfer hook.** `pc` is the place in `execute`; `ValidateSplit` and `PaySplit` are
the bodies of the two loops; `Revert` restores the allowance and the payments.
Hook data that is not an encoded list of splits makes the decoder revert and is not
enumerated; amounts are small enough that `amount * bips` does not reach 2^256.

**Sale.** The position on the curve is counted in `Unit` steps, which are the 10^18
values of the fixed point numbers between 0 and 1; `Exp` is the table of the
exponential as the library computes it, of which only that it is exact at 0 and
does not decrease is assumed. A purchase is one transaction; `ProbeUp` and `ProbeDown` are rounds of the
search, `Deliver` and `Refuse` the rest of `execute`. The library's own overflow checks
are out of reach of the amounts and left out.

**Account pool.** JavaScript runs one synchronous stretch at a time, so an action is
such a stretch between awaits. `Execute` is everything up to the await of the queue;
`StartNext`, `Return`, `FreeSlot` and `Release` are p-limit's start of a function, the
end of the job, the microtask in which the slot passes on, and the `finally` block.
The depth limit is the one that reaches the pool, the default (`MaxQueueDepth`).

**Settlement service.** The job's stretches are the actions of `Job`: `CheckBalance`
or `BalanceUnknown`, `Send` or `SendFails` (before or after the node has the
transaction), `Receipt` or `ReceiptTimeout`. A failed settlement is a response, not an
exception, so the pool counts it as processed (`End`). The chain mines each account's
transactions in the order sent, at any time or never; `Settles` is what the router and
the token require, and a transaction that meets it may still revert, in the hook or for
want of gas. Requests with the same payment are retries. Around the facilitator the payer
does what it likes at any moment: it transfers tokens (`SpendElsewhere`), uses or cancels
an authorization itself (`UseElsewhere`), or has another facilitator settle the payment
(`SettleElsewhere`); `elsewhere` counts what it has spent that way.

**Prices.** A price is represented by the time at which it was right at its source, so
that its age can be spoken of; `Gas` and `Token` are the markets. `Ask`, `Fetch` and
`Update` start a fetch, `Answered` and `Unanswered` end it in any order within
`Latency`; what arrives is stored with the time of its arrival. Token prices have one
entry per name of a network, gas prices one per network.

**Checkout.** `phase` is the place in `execute`, `reason` the error it ended with, and
`shown` the state of the React hook, which all executions of a component write. `Fail`
is a throw through all layers. A caller may name a fee of its own. A request has two
places for hook and fee: the requirements (`hook`, `fee`), which `Passes` checks, and the
payload's `extension`, which `SettledWith` prefers; the library fills the first only, and
`PostOther` posts requests of other programs with either, both or none. The client
waits for the headers of an answer (`settling`, under a timer) and then for its body
(`reading`, under none). `required` moves at
any time, as `FeeQuote` says it may between a quote and its check. `CountHook` and
`ListTransaction` are the two writes, which the answer does not wait for; that neither
need be taken is their failure or the end of the process.

**Paid route.** `config` is chosen once: the offer stands in the payment option or at the
root of the answer, with a fixed or a quoted fee, for a payee that is the router or the
merchant, with or without settlement hooks, settled ahead of the handler or after it.
`Carry` stores the offer in the one scheme of the client, `Compose` signs what is stored
by then; `terms` is what the payment says, `signed` what its nonce commits to. Another
program may pay instead of the library (`OtherProgram`): with terms of its own, which the
retry path of the route replays as they come (`PayOther`, `Matches`), signed for these or
for the offer, or for another recipient or value (`stray`); or with a payment that has
been sent before (`PayAgain`). `Verify` is the facilitator's
answer that the payment is valid, by the branch that the requirements select;
`NotVerified` its refusal, which needs no reason as RPC errors refuse as well. Outside
the route the payer may spend its money (`SpendElsewhere`), cancel the authorization or use
it at the token (`UseElsewhere`), and the hook, or the gas for it, may fail
(`HookTurns`); `Executes` and `MayRecover` are what the router makes of all that. The
Express or Hono middleware is not part of the repository; both orders it can work in are
modelled.

**Fee claim.** Each job of the pool is one action; as settlements move the round robin
index between any two jobs of a call, the account that a claim is sent from may be any.
Only one token is supported, so a group (account and network name) holds one fee, or
several if the request names the network more than once, which `routes/fee.ts:287-302`
allows. The loop over groups is a loop over the fees found that acts at the first of
each group (`Leads`, `AtGroup`) and gives all of its fees a result (`Record`).

**Shutdown.** `Arrive` is Node's `request` event, `Admit` the middleware once the body
has been parsed, `Finish` the `finish` event, and `LoseConnection` a connection that
closes before it, which emits none. `elapsed` counts turns of the wait loop.

## 3. Runs

Each passing run's properties have a mutant in `PROJECT.json`: a change to one mapped
definition that the property must catch under the run's own configuration. The runs are
kept for what is hard to see; type invariants and the properties that only hold a module
together are left to the proofs (see section 4).

| Run | Shows | Bounds and why they suffice |
|---|---|---|
| `router` | solvency, settled means paid, payers charged and fees credited as signed, claims paid in full; the router implements `PaymentEscrow` and is short by payments settled that never arrived only | two payers, two facilitators, five payments (one with an unsigned fee, one without a hook, one to the router itself, one in a second token that withholds a unit of each transfer), donation; the nonce of one payment is also signed for a cancellation and for a transfer of nothing to the payer itself, that of another for all but a unit of its value to the router; one authorization expires at 1, the last instant: every order of delivery, diversion, settlement, expiry and claim of the payments occurs, and a claim may cover both tokens. Claims directed at the router itself, which change no balance and would hide an unpaid claim from `ClaimsPaidInFull`, are left to `recovery_after_cancel` and the theorems |
| `pool_answers` | one request per payer, exact payer lock, queue limit, every accepted request answered with no help from the chain | five requests, three by one payer, two accounts in turn, a limit of two: duplicate, overload and hand-over occur in all orders. All but one are refused by their jobs and no time passes, since nothing is required of the chain |
| `service` | responses are true, a payment is charged once, the payer lock keeps other requests from the funds that were checked, the service implements `SettleOutcome` | three requests of one payer: a payment, its retry and a second payment; two accounts chosen at random (which includes the choices in turn), time to 1, the last instant of the first payment: timeout, late mining, lost answer, expiry and retry combine freely. The payer may part with up to 3 units elsewhere at any moment, in pieces, which is enough to void a check that had just passed, and may use, cancel or have settled elsewhere the authorization that is retried |
| `pricing` | prices in use are fresh, a quote is honoured unless a fallback took part or the market moved, an accepted fee covers the cost | one quote and its check with two updaters, two names, times to live of 1 and 2, a fetch of up to 1, time to 4: an entry can be fetched, expire, be overwritten by an older answer and be fetched again between quote and check; the token price moves within the tolerance, the gas price doubles |
| `checkout` | a refused payment may be repeated, what is shown is so, nothing is sent for less than could be required on the strength of what is checked, the books hold only what was mined, every signed execution ends unless the body of its answer never does | two executions of one component, one waiting for its receipt, two hooks of which one is allowed, two fees: overlapping, timed out, refused, failed and reset executions in every combination. In the place of each, one of five requests of other programs: with terms in both places that agree or do not, in one of them, or nowhere. Properties relate one execution to the component or another one, so that a third adds no case |
| `paid_route` | nothing is served unpaid or twice, nobody is charged on terms other than those signed (and offered, for the library), mix-ups are found, what verified fails for named reasons only | every configuration of the route; two purchases of one payer, the second by the same client or by another program that sends less than the price, less than its own fee, a fee below the requirement, a stray signature, or the first payment again; money for neither or for both, one event outside the route (spending, an authorization used or cancelled, a hook that fails), an expiry: the two purchases are what it takes for a mix-up, a payer in use, a payment sent again and funds that went elsewhere. One fee is required throughout, as none of these properties is about its moves; those are the subject of `pricing` and of the theorem `FeeCheckedAtAdmission` |
| `hook` | calls succeed exactly if valid and pay fair shares | a whole of four basis points instead of 10000 and amounts that do and do not divide; up to three splits |
| `sale` | revenue covers the curve, the search is exact, quotes leave no gain, the price never falls | eight positions of two tokens, two start prices, one of which makes the curve coarse; payments of one, two and five up to twelve together, which is past the end of the sale; stock that runs out. The rounds are the fewest that suffice, where the contract's 80 leave a margin |
| `fee_claim` | a success reported has moved the amount reported and a claim mined was worth its gas, unless another claim took the fees; no call claims a group twice; every fee that can be claimed has one result, and no other has any | one account per pool and two pools; two calls at once, each for two networks by their aliases, for one network twice beside one without a pool and its token only, or for all networks: a call may find two fees that can be claimed, of which one claim fails and the other does not; fees may be found by both calls before either claims them, claimed twice, and arrive in between; fees up to 3 with a minimum of 2 |
| `shutdown` | drained or timed out, exits | three requests, two of them on kept-alive connections, two handlers, a timeout of two turns |

Two runs end in a counterexample on purpose. Each states what a document, a comment or
a test of the repository says and shows that the code does otherwise:

| Run | Statement | What happens |
|---|---|---|
| `recovery_after_cancel` | pending fees never exceed the router's balance (`InvariantSettlement.t.sol:141-146`) | a cancelled authorization has a used nonce; recovery settles it out of fees held for others. The configuration has cancellations only; a transfer of nothing to the payer itself under the same nonce (as in `router`) does the same |
| `fee_claim_accounts` | any account of the pool may claim (`fee-claim.ts:278`) | the router pays the fees of the caller; a success is reported for fees that stay |

The models show further disagreements and limits that need no run of their own, as each
is read off one action. Facilitator:

- The balance check requires value plus fee (`Required`), but the value already contains
  the fee (`ISettlementRouter.sol:97`: "deducted from value before Hook execution"): a
  payer who holds exactly the value is refused. Verification does the same
  (`RouterVerifies`).
- A claim of fees without a network filter, which should cover all networks
  (`fee-claim.ts:45`), finds the fees and skips every one: the group key
  `account:network` is split at its colons, and a CAIP-2 identifier such as
  `eip155:84532` is cut to `eip155` (`NetworkOfKey`). `CallsAnswered` says that such a
  call gets no result.
- The amount reported by a call that names a network twice counts the fees of the group
  once per name (`fee-claim.ts:272-274`, `:354`), and so do its results, for one claim
  (`Record`; `ClaimedOnce` says that the claim itself is not repeated).
- Nothing keeps two calls of `claimFees` apart: both may find the same fee, and the second
  claim is mined for nothing and reported as a success with the amount that the first one
  moved. `ReportedWasPaid` fails for this reason too, with one account; `SuccessMoved`
  names both exceptions.
- `ACCOUNT_POOL_MAX_QUEUE_DEPTH` (`facilitator/README.md:1152`) never reaches the pool:
  `PoolManager.initialize` (`pool-manager.ts:57`) passes on strategy and RPC URL only
  (`MaxQueueDepth`).
- The queue limit "Prevents expired signatures from wasting gas on failed transactions"
  (`facilitator/README.md:152`), but no code compares `validBefore` with the time after
  the wait in the queue (`Send` has no such guard); verification does not look at the
  time window or the nonce either (`RouterVerifies`).
- After a receipt timeout the payer is unlocked with its transaction still pending
  (`Release`, `ReceiptTimeout`), so the lock does not prevent two transactions of one payer
  (`V2_ACCOUNTPOOL_REFACTOR.md:23`: "to prevent double-spending"). What it does protect is
  `FundsStayChecked`, and that against other requests only: the payer may spend what was
  checked elsewhere (`SpendElsewhere`), and the transaction is sent to revert.
- Hook and fee are validated in the requirements' `extra`, and not at all if that is not of
  settlement mode (`fee-validation.ts:45-46`, `:84-85`), while the settlement takes them
  from the payload's `extensions` if there are any (`settlement.ts:512`): a request whose
  two places differ is settled for less than required, or for a hook off the whitelist
  (`Passes`, `SettledWith`). The library never posts such a request; `PaidAsRequired`
  holds without exception for it, and for others with the exception `Diverges`.
- A connection lost before its response is never taken off the count of active requests
  (`LoseConnection`; `shutdown.ts:69` listens to `finish` only), so later shutdowns
  wait for their timeout. The count errs to the safe side: `CountCoversOpen`.
- A quote is announced to hold for `validitySeconds` of 60, yet nothing keeps it: it is
  refused as soon as a cache rolls over to a price beyond the tolerance (`Check`;
  `QuoteHonoured` says what is true). The fetch of the token price has no timeout of its
  own (`Latency` is what the caller's patience makes of it).
- A required fee so small that its threshold rounds to zero refuses every request: the
  logged margin divides by it (`FeeSuffices`).
- A transaction that reverted is recorded without a status, which the schema turns into
  `success` (`web/backend/src/database/schema.sql`), and counts in the hook's volume
  (`NoteAnswer`, `CountHook`). `BooksReal` therefore says mined, not settled.

Clients and servers:

- The timeout of `settle` ends with the headers of the answer (`extensions/src/facilitator.ts:441`);
  the body is read without one (`ReceiveHeaders`, `Receive`), so that an execution may wait
  for ever, which `SignedEnds` allows. A body that breaks off ends in an error that looks
  like a failure, though the payment may have been settled (`ReceiveFails`; its reason
  "lost" is not among those of `SafeToRepeat`).
- A route whose offer stands in the payment option charges what the payment says, not what
  was offered: the retry path replays amount and extra of the accepted option
  (`settlement-routes.ts:207-229`; `PayOther`, `Matches`). `ServedWasPaid` and
  `ChargedAsOffered` hold of the terms offered for the library's client only.
- Verification looks neither at the recipient and value that were signed, nor at the state
  of the nonce, the time window or the hook (`facilitator-sdk/src/facilitator.ts:339-493`), so a verified payment
  can fail for each of these (`VerifiedFailsForReason`).
- The refusal of a hook by the fee query is thrown inside the block that catches failed
  queries and becomes a payment with a fee of zero (`FeeUnknown`), which the facilitator
  then refuses (`PaidAsRequired`).
- `execute` documents `waitForConfirmation` as true by default; the code's default is
  false (`client.ts:108`, `:147`). `Waits` leaves it to each execution.
- Overlapping executions share one state: after a success the error of an earlier
  execution may remain beside it (`Succeed`), which `ShownIsTrue` allows, as each part
  is still true of its execution.
- Payments of one client that overlap may sign each other's terms when offers stand at
  the root of the answer (`Compose`), which costs the buyer a failed payment and no money
  (`ChargedAsOffered`). Such a route with the merchant as payee and without settlement
  hooks is verified by the standard branch, which does not compare the commitment, so the
  handler may run for a payment that fails on chain; `MixUpsFoundEarly` holds with the
  hooks only. The showcase server does not register them, and its client makes a new
  scheme for each payment, which avoids the mix-up.

Contracts:

- With splits of 10000 the payee of the transfer hook does not receive 0
  (`TransferHook.sol:123`) but what rounding lost (`PayRest`); `SharesAsPromised` states
  it that way.
- The sale keeps what is paid beyond the rest of the curve; a payment too small for one
  step of a coarse curve buys nothing (`PaymentBuys` is stated for fine ones, which the
  default parameters make); a buyer cannot ask for a least number of tokens; and the
  administrator may withdraw tokens not yet sold (`Refuse`). `calculateUsdcForTokens`
  rounds down, so paying its answer may buy a little less than the tokens asked about.

None of this contradicts a theorem: `Solvency` is stated for runs in which no payment has
been settled that never arrived (`NoneRevived`), and `ShortByRevivedOnly` says by how much
the books are short otherwise; `FundsStayChecked` allows for transactions
given up on and for what the payer spends elsewhere, and `SuccessMoved` and
`ClaimsWorthwhile` for claims that another account sends or another claim forestalls.

Deadlock checking is off where the system really stops: all requests answered, the
process exited, the call finished, time and payments used up, the sale over.

### Fairness

- `PoolFairness`: the event loop runs microtasks and timers, and a job settles. Each
  await of a job is an RPC call with a timeout of its own, so the job ends whatever the
  chain does. A caller need not make any call.
- `ServiceFairness`: the same for the concrete job. Nothing is assumed of the chain:
  `AcceptedIsAnswered` holds in `pool_answers` if it never mines a block.
- `CheckoutFairness`: the waits for the headers of an answer and for the receipt have
  timers (30 seconds, and viem's). The reading of the body has none and gets no fairness.
  Nothing is assumed of the payer, the facilitator and the chain.
- `PaidRoute` has none: its properties are about what is served and charged, and the waits
  that a purchase consists of are the libraries' outside the repository.
- `ShutdownFairness`: timers fire, and the registered handlers, which clear intervals,
  end. Nothing is assumed of clients and request handlers.
- `FeeClaim`: weak fairness of a call's steps; its jobs end because the pool's do
  (`AcceptedIsAnswered`).
- Pricing has none, as its properties are about what is used, not when. The contracts
  have none: nobody is obliged to submit a transaction.

## 4. Proofs

All theorems hold for arbitrary values of the constants under the named assumptions of
the modules (`TokenAssumption`, `RouterAssumption`,
`MerchantAssumption`, `PoolAssumption`, `HookAssumption`, `ShutdownAssumption`,
`FeeRuleAssumption`, `CheckoutAssumption`, `PaidRouteAssumption`, `CurveAssumption`,
`ExpAssumption`, `RoundsAssumption`, `ServiceAssumption`, `FeeQuoteAssumption`,
`FeeClaimAssumption`), which TLC evaluates on the runs' values. `RouterAssumption` asks nothing of the messages that
payers sign but that the router signs none; `MerchantAssumption`, that payees and hooks
neither sign nor receive signed messages, is used by `SettledIsPaid` alone, which counts
what they hold.

| Theorem | States | Argument |
|---|---|---|
| `SettlementRouterProofs!TypeCorrect` | `TypeOK` | inductive together with solvency of the mechanism: balances stay natural numbers because every transfer is guarded |
| `SettlementRouterProofs!RouterSolvent` | `Solvency` | induction over the actions; the effect of each on fees owed, payments in escrow and the router's balance is computed with the laws of sums of `UnitCountingProofs`. `IInv` adds that a settled payment has a used nonce and a message carried out too (`SettledUsed`, `ExecutedUsed`): a nonce is used by one message only, so a payment is delivered once or never. Recovery is where it needs `NoneRevived`: the payment settled was delivered, hence in escrow, and the escrow shrinks by what the hook takes and the fee |
| `SettlementRouterProofs!CommittedFees`, `ChargedAsSigned` | the action properties `FeesAsCommitted`, `PayersChargedAsSigned` | by cases of `Next`, from type correctness and the injectivity of `Commitment` |
| `SettlementRouterProofs!ClaimsPay` | `ClaimsPaidInFull` | by cases of `Next`; the loop over the claimed tokens touches each token's ledger once |
| `SettlementRouterProofs!SettledIsPaid` | `SettledMeansPaid` | with `FeesWithin` (the fee of a settled payment is at most its value): the balance check after the hook passes only if the hook took exactly value minus fee, and no other action moves the business side's tokens |
| `SettlementRouterProofs!RouterIsEscrow` | `ImplementsEscrow` | step simulation under a mapping of phase, fees owed and balance (`MappedPhase`, `MappedOwed`, `MappedHeld`). It needs `SettledUsed` and `ExecutedUsed`: a nonce still fresh belongs to no settled, delivered or diverted payment, so a direct transfer deposits it or calls it off, by recipient and value, and never does either a second time |
| `SettlementRouterProofs!ShortOnlyByRevived` | `ShortByRevivedOnly` | `Books` is proved of the escrow's steps, a page of cases, and carried over to the router by the simulation |
| `SettlementServiceProofs!PayerHasOneRequest`, `PayerLockExact`, `EachInOnePlace`, `PoolTypeCorrect` | `OneRequestPerPayer`, `PendingPayersExact`, `OnePlace`, `TypeOK` | `IInv` adds that queues hold only requests still queued (`QueuedStatus`) and each in one place (`QueuedOnce`); without them a started or released request could come back and the lock would not follow it. `SlotsSound` says the same of slots, for `OnePlace` |
| `SettlementServiceProofs!LimitHolds` | `QueueWithinLimit` | handing a slot on moves a request without adding to the depth |
| `SettlementServiceProofs!ServicePoolSafe` | the pool's four properties, of the settle path | every step of the service is a step of the pool or leaves it alone, and the pool's invariants are proved without its fairness |
| `SettlementServiceProofs!ResponsesAreTrue`, `ChargedOnce`, `ServiceTypeCorrect` | `ResponsesTrue`, `ChargedOncePerPayment`, `ServiceTypeOK` | `JobInv`: the phase of a job follows the pool's status of its request (`JobPhase`), its response agrees with the chain (`TxPhase`), and a mempool holds each pending transaction once, so that none is mined twice. `SettledByOne` ties each payment settled here to one successful transaction and the others to a use elsewhere, `PayersBooks` each payer's funds to the sum of the payments taken and what it spent elsewhere |
| `SettlementServiceProofs!CheckedFundsStay` | `FundsStayChecked` | funds are taken by mined transactions of the payer and by the payer elsewhere. What goes elsewhere is counted as it goes (`SpentSince`); as the payer lock is exclusive, a transaction mined while a checked job runs belongs to a request that has been answered while it was pending, hence without a hash (`MinedOfRunning`, `AbandonedForGood`) |
| `SettlementServiceProofs!ServiceMeetsOutcome` | `ImplementsOutcome` | step simulation: a step of the pool or a job moves one request at most as its sender sees it, and the others are seen alike (`SeenAlike`); sending, mining and the answer are steps of their own on both sides, and time a stutter |
| `TransferHookProofs!ValidCallsComplete`, `WholeAllowanceTaken`, `HookTypeCorrect` | `DoneIffValid`, `TakesWholeAllowance`, `TypeOK` | `IInv` relates allowance, remainder and payments to the splits paid so far: the shares paid are at most `amount * bips / whole` for the bips so far, so the total of the bips bounds what the next share may need |
| `TransferHookProofs!SharesKept` | `SharesAsPromised` | `Shares`, on top of `IInv`, states the promise for the splits paid so far: each share loses less than a unit by rounding, and what the payee has together with what remains covers what the others leave |
| `FacilitatorProofs!NoneInterrupted`, `NoneUncounted`, `ShutsDownOnce`, `ShutdownTypeCorrect` | `DrainedOrTimedOut`, `CountCoversOpen`, `ShutdownOnce`, `TypeOK` | the counter covers the open requests; when it is zero none is open; later none is admitted because a shutdown is under way whenever the process does not serve |
| `CheckoutProofs!CheckoutTypeCorrect`, `RepeatingIsSafe`, `ShownTruth`, `NoneForLess`, `BooksAreReal` | `TypeOK`, `SafeToRepeat`, `ShownIsTrue`, `PaidAsRequired`, `BooksReal` | `IInv` ties the client's view to the facilitator's: an answer received is the one given (`ReasonSound`, `SettledSound`), a request exists only if it was posted (`NewUntilPosted`), what was admitted passed the checks of that moment in its requirements, and has other terms only in an extension of its own (`AdmittedAsRequired`, `TermsFound`), and what is shown names an execution in the matching phase (`ShownSound`). The safe reasons are those whose answers come after the last step of a transaction |
| `PaidRouteProofs!NothingServedUnpaid`, `ChargedOnOwnTerms`, `MixUpsStopAtVerification`, `OptionsSafe`, `FeeCheckedAtAdmission`, `RouteTypeCorrect` | `ServedWasPaid`, `ChargedAsOffered`, `MixUpsFoundEarly`, `OptionsNotMixed`, `AdmittedAtPresentFee`, `TypeOK` | what the library composes says what was offered for its own purchase (`OffersOwn`), whatever it signs; what executes on chain has a nonce that commits to the terms its payment says, and no nonce is settled for two purchases (`OncePerNonce`); a step past the settlement has an answer that says success, and such an answer a mined transaction (`PaidBeforeServed`) |
| `PaidRouteProofs!FailuresExplained` | `VerifiedFailsForReason` | `StaysFunded`: from verification until the payment settles, what verification found there stays in the payer's balance, unless the payer has spent money since, on another purchase or elsewhere (`SpendingKeeps`, `MiningKeeps`). A transaction that reverts nevertheless misses one of the other conjuncts of `Executes`, of which verification by the router's branch excludes a nonce that commits to other terms |
| `BondingCurveProofs!NobodyBuysBelowCurve` | `RevenueCoversCurve` | the position found costs at most the target, and the term is the payment's part of the curve rounded down; the position that the tokens sold stand for is again rounded down. The inequality is added up in the unrounded product, so that no division is left in the invariant |
| `BondingCurveProofs!SearchExact` | `SearchFindsBest` | everything above `high` costs too much, everything up to `best` is affordable, and between `low` and `high` lie at most `Left[round]` positions, which is none after the last round |
| `BondingCurveProofs!PriceRises` | `PriceNeverFalls` | the three branches of the price are one monotone function of the tokens sold, and those only grow |
| `BondingCurveProofs!EveryPaymentBuys`, `SaleTypeCorrect` | `PaymentBuys`, `TypeOK` | on a fine curve the next position is affordable, so the best one is beyond the present |
| `BondingCurveProofs!QuotesLeaveNoGain` | `QuoteLeavesNoGain` | the three divisions of the quote taken back never exceed the difference of the exponential (`ThereAndBack`), and the term that the payment adds is at most that difference; a position beyond the end asked for is then affordable only where the exponential rests. Without the exception for such positions the property is false for a curve with a flat step, which `ExpAssumption` allows (the default parameters make none) |
| `FacilitatorProofs!PricesStayFresh`, `QuotesHonoured`, `AcceptedFeesCover`, `QuoteTypeCorrect` | `PricesFresh`, `QuoteHonoured`, `FeeCovers`, `QuoteTypeOK` | `SourceInv`: a fetch under way is at most `Latency` old, and one of an exchange was begun during its present reading of prices; an entry of a cache was right at most `Latency` before it was stored. `PriceInv` carries this over to the prices read, and the fee to the quoted cost (`FeeAsRead`); a refusal then has two costs of the windows further apart than the tolerance |
| `FacilitatorProofs!SuccessesMoved`, `OnlyWorthwhileClaims`, `GroupsClaimedOnce`, `ClaimTypeCorrect` | `SuccessMoved`, `ClaimsWorthwhile`, `ClaimedOnce`, `ClaimTypeOK` | `FoundSound`: what a call has found stays pending for its owner until a claim for that owner is mined; `ClaimsOnce`: a call sends one claim per group, at the group's first fee, so a claim that took the fees earlier is another group's or another call's |

Model-checked only: all liveness (`AcceptedIsAnswered`, `SignalledExits`, `CallsAnswered`,
`SignedEnds`), as temporal progress under fairness and `ENABLED` are
out of the prover's reach. So are results by induction over data and modules with
RECURSIVE operators; there is none here, sums are cardinalities instead. Every other
property of a passing run is proved. The two violation runs' properties are false.

Proved and in no run: the type invariants of all components, and `OnePlace`, `CountCoversOpen`, `ShutdownOnce`, `TakesWholeAllowance`,
`OptionsNotMixed`, `AdmittedAtPresentFee` and `PaymentBuys`. The invariants that the
proofs add (`StaysFunded`, `FoundSound`, `SourceInv`, `JobInv` and the like) are properties
of the reachable states as well, proved rather than listed as runs.

## 5. Not modelled

The cryptography (hashes are injective, signatures are set membership), gas and its
estimation, logging and telemetry, HTTP details beyond those of the shutdown, the
contents of database rows, web applications, demonstrations and vendored code. The legacy
v1 settlement (`facilitator/src/settlement.ts`) and `retry.ts` have no caller outside
their tests; the token and balance caches are constructed, but nothing reads through
them. The example hooks are one transaction with one guard over one counter each, which
the router's arbitrary hook covers. 256-bit overflow reverts in Solidity 0.8 and cannot
be reached by the amounts involved.

## 6. What could follow

All components that carry the program's own logic are modelled; what the plan leaves is
deeper rather than wider:

1. Proofs: that `Checkout` and `PaidRoute` use the service only as `SettleOutcome` allows,
   and an abstract specification of the pool that its composition implements.
2. `Checkout` with more than one component, and with the facilitator restarting between
   a request and its answer, which it now covers only as an answer that never comes.
3. `FeeQuote` with the gas limits of custom hooks.
