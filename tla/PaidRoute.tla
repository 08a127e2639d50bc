------------------------------ MODULE PaidRoute -----------------------------
(***************************************************************************)
(* A resource sold by a server (the mode with a server, as opposed to      *)
(* module Checkout): the route answers an unpaid request with an offer     *)
(* (settlement-routes.ts, server-extension.ts), the buyer's x402 client    *)
(* signs a payment for it (extension-handler.ts, exact-evm-scheme.ts) and  *)
(* repeats the request, the server has the facilitator verify the payment  *)
(* (facilitator-sdk/facilitator.ts) and settle it, and the content is      *)
(* served.  What the settlement makes of an admitted request is module     *)
(* SettleOutcome, where the requests are here the purchases.               *)
(*                                                                         *)
(* Another program may pay in place of the library's client: it sends the  *)
(* terms of its own choice, which the route replays, or a payment it has   *)
(* sent before.  Payers spend, cancel and use authorizations elsewhere,    *)
(* and hooks fail, at any moment.                                          *)
(*                                                                         *)
(* The x402 client and server libraries themselves are not in the          *)
(* repository; whether the middleware runs the route's handler ahead of    *)
(* the settlement or after it is left open.                                *)
(***************************************************************************)
EXTENDS SettleOutcome, FeeRule

CONSTANTS
    ClientOf,     \* [Requests -> clients]: the x402 client that pays for the purchase
    PayerOf,      \* [clients -> payers]
    Price,        \* amount of a payment, the facilitator's fee included
    Fees,         \* fees the facilitator may require
    Balances,     \* what a payer may own to begin with, or be left with
    OtherProgram, \* purchases that may be paid by another program
    OwnTerms,     \* fees and amounts that it may send in place of those offered
    Timeout,      \* maxTimeoutSeconds
    MaxTime,      \* bound on the clock
    MaxElsewhere, \* bound on what happens outside the route
    NoFee,        \* nothing cached, or no fixed fee
    NoOffer

Clients == {ClientOf[b] : b \in Requests}
Payers == {PayerOf[c] : c \in Clients}

\* The salt of an offer is fresh: terms are told apart by the purchase they are for.
Terms == [for: Requests, fee: Nat, amount: Nat]

Offers == [for: Requests, fee: Fees, amount: {Price}]

ASSUME PaidRouteAssumption ==
    /\ DOMAIN ClientOf = Requests /\ Clients \subseteq DOMAIN PayerOf
    /\ Price \in Nat \ {0}
    /\ Fees \subseteq 1 .. Price
    /\ Balances \subseteq Nat
    /\ OtherProgram \subseteq Requests
    /\ OwnTerms \subseteq [fee: Nat, amount: Nat]
    /\ Timeout \in Nat /\ MaxTime \in Nat /\ MaxElsewhere \in Nat
    /\ NoFee \notin Nat /\ NoOffer \notin Terms

VARIABLES
    config,       \* how the route is set up, see Configs
    required,     \* the facilitator's minimum fee at present
    feeCache,     \* the server's cached fee quote
    clock,
    step,         \* step[purchase]: how far it is, see Steps
    offer,        \* offer[purchase]: what the first answer of the server offered
    carried,      \* carried[client]: the extension its scheme keeps for the next payment
    terms,        \* terms[purchase]: what its payment says it is for
    signed,       \* signed[purchase]: the terms that the signed nonce commits to
    validBefore,  \* validBefore[purchase]: end of the signed time window
    composer,     \* composer[purchase]: who composed the payment, see Composers
    funds,        \* funds[payer]
    used,         \* nonces cancelled, or used without this server
    hookWorks,    \* the hook and all that a transaction needs besides would see it through
    spent,        \* purchases whose payer has spent money since they were verified
    elsewhere     \* how often something has happened outside the route

buyVars == <<step, offer, carried, terms, signed, validBefore, composer>>
feeVars == <<required, feeCache>>
aroundVars == <<funds, used, hookWorks, elsewhere>>
vars == <<outcomeVars, buyVars, feeVars, config, clock, aroundVars, spent>>

\* "option": the offer is in the payment option and the payee is the router
\* (createSettlementRouteConfig); "root": it is at the root of the answer, its fee is
\* fixed, and the payee is whatever the route names.  "hooked": the server has
\* registered the settlement hooks.
Configs ==
    {c \in [place: {"option", "root"}, payee: {"router", "merchant"},
            fixedFee: Fees \cup {NoFee}, hooked: BOOLEAN,
            order: {"settle_first", "handle_first"}] :
        /\ c.place = "option" => c.payee = "router"
        /\ c.place = "root" => c.fixedFee # NoFee}

Steps == {"idle", "offered", "carried", "composed", "verified", "handled", "settling",
          "paid", "served", "failed", "gave_up"}

\* "stray": another program that signed for another recipient or value than its terms do.
Composers == {"nobody", "library", "other", "stray"}

TypeOK ==
    /\ request \in [Requests -> RequestStates]
    /\ answer \in [Requests -> Answers]
    /\ tx \in [Requests -> {"none", "pending", "success", "reverted"}]
    /\ config \in Configs
    /\ required \in Fees
    /\ feeCache \in Fees \cup {NoFee}
    /\ clock \in 0 .. MaxTime
    /\ step \in [Requests -> Steps]
    /\ offer \in [Requests -> Offers \cup {NoOffer}]
    /\ carried \in [Clients -> Offers \cup {NoOffer}]
    /\ terms \in [Requests -> Terms \cup {NoOffer}]
    /\ signed \in [Requests -> Terms \cup {NoOffer}]
    /\ validBefore \in [Requests -> Nat]
    /\ composer \in [Requests -> Composers]
    /\ funds \in [Payers -> Nat]
    /\ used \subseteq Payers \X Terms \X Nat
    /\ hookWorks \in BOOLEAN
    /\ spent \subseteq Requests
    /\ elsewhere \in 0 .. MaxElsewhere

RouteInit ==
    /\ Init
    /\ config \in Configs
    /\ required \in Fees
    /\ feeCache = NoFee
    /\ clock = 0
    /\ step = [b \in Requests |-> "idle"]
    /\ offer = [b \in Requests |-> NoOffer]
    /\ carried = [c \in Clients |-> NoOffer]
    /\ terms = [b \in Requests |-> NoOffer]
    /\ signed = [b \in Requests |-> NoOffer]
    /\ validBefore = [b \in Requests |-> 0]
    /\ composer = [b \in Requests |-> "nobody"]
    /\ funds \in [Payers -> Balances]
    /\ used = {}
    /\ hookWorks = TRUE
    /\ spent = {}
    /\ elsewhere = 0

Payer(b) == PayerOf[ClientOf[b]]

\* The nonce commits to the terms and to the time window.
Nonce(b) == <<Payer(b), signed[b], validBefore[b]>>

\* The purchase goes from one step to another.
Goes(b, from, to) == step[b] = from /\ step' = [step EXCEPT ![b] = to]

Payment == <<terms, signed, validBefore, composer>>

-----------------------------------------------------------------------------
(* The unpaid request: the dynamic price, or the enriched declaration *)

MakeOffer(b, fee) ==
    /\ Goes(b, "idle", "offered")
    /\ offer' = [offer EXCEPT ![b] = [for |-> b, fee |-> fee, amount |-> Price]]
    /\ UNCHANGED <<outcomeVars, carried, Payment, config, required, clock, aroundVars, spent>>

\* The fee is fixed by the route or still in the cache.
OfferKnownFee(b) ==
    /\ UNCHANGED feeCache
    /\ \/ config.fixedFee # NoFee /\ MakeOffer(b, config.fixedFee)
       \/ config.fixedFee = NoFee /\ feeCache # NoFee /\ MakeOffer(b, feeCache)

\* The facilitator quotes the fee it requires at present.
OfferQuotedFee(b) ==
    /\ config.fixedFee = NoFee /\ feeCache = NoFee
    /\ MakeOffer(b, required)
    /\ feeCache' = required

\* The query fails, or the hook is not allowed: no offer is made.
OfferFails(b) ==
    /\ config.fixedFee = NoFee /\ feeCache = NoFee
    /\ Goes(b, "idle", "failed")
    /\ UNCHANGED <<outcomeVars, offer, carried, Payment, feeVars, config, clock, aroundVars, spent>>

-----------------------------------------------------------------------------
(* The x402 client: the handler, the scheme, the wallet *)

\* The handler passes the offer to the scheme, which all payments of the client share.
Carry(b) ==
    /\ Goes(b, "offered", "carried")
    /\ carried' = [carried EXCEPT ![ClientOf[b]] = offer[b]]
    /\ UNCHANGED <<outcomeVars, offer, Payment, feeVars, config, clock, aroundVars, spent>>

\* The extension the scheme takes: that in the payment option, or what was carried.
Extension(b) == IF config.place = "option" THEN offer[b] ELSE carried[ClientOf[b]]

\* The payment of purchase b: its terms, what it is signed for, until when, by whom.
Pay(b, says, commits, end, who) ==
    /\ terms' = [terms EXCEPT ![b] = says]
    /\ signed' = [signed EXCEPT ![b] = commits]
    /\ validBefore' = [validBefore EXCEPT ![b] = end]
    /\ composer' = [composer EXCEPT ![b] = who]

\* createPaymentPayload, up to the wallet.  The payment says what was offered for the
\* purchase, whatever was signed.
Compose(b) ==
    /\ Extension(b) # NoOffer
    /\ Goes(b, "carried", "composed")
    /\ Pay(b, offer[b], Extension(b), clock + Timeout, "library")
    /\ carried' = [carried EXCEPT ![ClientOf[b]] = NoOffer]
    /\ UNCHANGED <<outcomeVars, offer, feeVars, config, clock, aroundVars, spent>>

\* Another payment of the client has taken the extension.
ComposeFails(b) ==
    /\ Extension(b) = NoOffer
    /\ Goes(b, "carried", "failed")
    /\ UNCHANGED <<outcomeVars, offer, carried, Payment, feeVars, config, clock, aroundVars, spent>>

-----------------------------------------------------------------------------
(* Another program *)

Chosen(b, own) == [for |-> b, fee |-> own.fee, amount |-> own.amount]

\* It pays on terms of its own, having signed these or what was offered.
PayOther(b, own) ==
    /\ b \in OtherProgram
    /\ Goes(b, "offered", "composed")
    /\ \E commits \in {Chosen(b, own), offer[b]}, who \in {"other", "stray"} :
          Pay(b, Chosen(b, own), commits, clock + Timeout, who)
    /\ UNCHANGED <<outcomeVars, offer, carried, feeVars, config, clock, aroundVars, spent>>

\* It sends a payment of the same payer a second time, for another purchase.
PayAgain(b, s) ==
    /\ b \in OtherProgram
    /\ Payer(s) = Payer(b) /\ signed[s] # NoOffer
    /\ Goes(b, "offered", "composed")
    /\ Pay(b, terms[s], signed[s], validBefore[s],
            IF composer[s] = "stray" THEN "stray" ELSE "other")
    /\ UNCHANGED <<outcomeVars, offer, carried, feeVars, config, clock, aroundVars, spent>>

-----------------------------------------------------------------------------
(* The paid request: the facilitator's POST /verify *)

\* The nonce does not commit to what the payment says.
Mixed(b) == signed[b] # terms[b]

\* Terms in the payment option are replayed as the payment has them; otherwise the
\* amount is the route's.
Matches(b) == config.place = "root" => terms[b].amount = Price

\* Mutant: the nonce is not compared with the commitment.
RouterVerifiesAnyNonce(b) ==
    /\ FeeSuffices(terms[b].fee, required)
    /\ funds[Payer(b)] >= terms[b].amount + terms[b].fee

\* Fee validation and verifySettlementRouter, when the parameters have been copied to
\* the requirements.  Neither the signed recipient and value, nor the time, nor the
\* state of the nonce are looked at.
RouterVerifies(b) ==
    /\ FeeSuffices(terms[b].fee, required)
    /\ ~ Mixed(b)
    /\ funds[Payer(b)] >= terms[b].amount + terms[b].fee

\* Mutant: the balance is not checked.
StandardVerifiesUnfunded(b) == config.payee = "router"

\* verifyStandard: the router has been signed as the recipient, the route's payee is
\* what the signature is checked for, with the amount.
StandardVerifies(b) ==
    /\ config.payee = "router" /\ composer[b] # "stray"
    /\ funds[Payer(b)] >= terms[b].amount

\* The request is matched with what the client has accepted, and the payment is verified.
Verify(b) ==
    /\ Goes(b, "composed", "verified")
    /\ Matches(b)
    /\ IF config.hooked THEN RouterVerifies(b) ELSE StandardVerifies(b)
    /\ spent' = spent \ {b}
    /\ UNCHANGED <<outcomeVars, offer, carried, Payment, feeVars, config, clock, aroundVars>>

\* The payment is not valid, it cannot be verified, or the wallet has refused to sign it.
NotVerified(b) ==
    /\ Goes(b, "composed", "failed")
    /\ UNCHANGED <<outcomeVars, offer, carried, Payment, feeVars, config, clock, aroundVars, spent>>

-----------------------------------------------------------------------------
(* The middleware: handler and settlement, in either order *)

Middleware(b, from, to) ==
    /\ Goes(b, from, to)
    /\ UNCHANGED <<outcomeVars, offer, carried, Payment, feeVars, config, clock, aroundVars, spent>>

\* The handler of the route runs, and may answer with an error.
Handle(b) ==
    \/ /\ config.order = "handle_first"
       /\ Middleware(b, "verified", "handled") \/ Middleware(b, "verified", "failed")
    \/ /\ config.order = "settle_first"
       /\ Middleware(b, "paid", "served") \/ Middleware(b, "paid", "failed")

\* The settlement is asked for.
BeginSettle(b) ==
    Middleware(b, IF config.order = "handle_first" THEN "handled" ELSE "verified", "settling")

\* Mutant: a payment counts as settled when its transaction is on its way.
SettledWhenSent(b) == tx[b] # "none"

Settled(b) == answer[b] = "success"

EndSettle(b) ==
    \/ /\ Settled(b)
       /\ Middleware(b, "settling", IF config.order = "handle_first" THEN "served" ELSE "paid")
    \/ answer[b] \notin {"none", "success"} /\ Middleware(b, "settling", "failed")

\* The facilitator's answer does not arrive.
GiveUp(b) == Middleware(b, "settling", "gave_up")

-----------------------------------------------------------------------------
(* The facilitator's POST /settle, and the chain *)

Posted(b) == step[b] \in {"settling", "gave_up"}

Busy(b) == \E s \in Requests \ {b} : Payer(s) = Payer(b) /\ request[s] = "accepted"

RefuseRequest(b) ==
    /\ Posted(b)
    /\ Refuse(b)
    /\ UNCHANGED <<buyVars, feeVars, config, clock, aroundVars, spent>>

\* The hook and fee validation look at the requirements; without the settlement hooks
\* they find no settlement parameters there and let the request pass.
FeePasses(b) == config.hooked => FeeSuffices(terms[b].fee, required)

AdmitRequest(b) ==
    /\ Posted(b)
    /\ FeePasses(b)
    /\ ~ Busy(b)
    /\ Admit(b)
    /\ UNCHANGED <<buyVars, feeVars, config, clock, aroundVars, spent>>

Transact(b) ==
    /\ Broadcast(b)
    /\ UNCHANGED <<buyVars, feeVars, config, clock, aroundVars, spent>>

\* The router has settled the payment, for another purchase.
SettledBefore(b) == \E s \in Requests \ {b} : tx[s] = "success" /\ Nonce(s) = Nonce(b)

\* What the router requires in any case; the parameters are those the payment says.
Settleable(b) ==
    /\ ~ Mixed(b)
    /\ ~ SettledBefore(b)
    /\ terms[b].fee <= terms[b].amount
    /\ hookWorks

\* Mutant: the router does not compare the nonce with the commitment.
ExecutesAnyNonce(b) ==
    /\ Nonce(b) \notin used
    /\ clock < validBefore[b] /\ terms[b].amount <= funds[Payer(b)]

\* The token carries the authorization out.
Executes(b) ==
    /\ Settleable(b)
    /\ Nonce(b) \notin used
    /\ composer[b] # "stray"
    /\ clock < validBefore[b]
    /\ terms[b].amount <= funds[Payer(b)]

\* The nonce has been used elsewhere: the router may settle out of what it holds.
MayRecover(b) == Settleable(b) /\ Nonce(b) \in used

\* The payer has spent money: what has been verified of its other purchases may not hold
\* any longer.
Spent(p, except) == spent' = spent \cup {b \in Requests \ except : Payer(b) = p}

MineTransaction(b) ==
    /\ Mine(b)
    /\ tx'[b] = "success" => Executes(b) \/ MayRecover(b)
    /\ tx'[b] = "reverted" => ~ Executes(b)
    /\ IF Executes(b)
       THEN /\ funds' = [funds EXCEPT ![Payer(b)] = @ - terms[b].amount]
            /\ Spent(Payer(b), {b})
       ELSE UNCHANGED <<funds, spent>>
    /\ UNCHANGED <<buyVars, feeVars, config, clock, used, hookWorks, elsewhere>>

RespondRequest(b) ==
    /\ Respond(b)
    /\ UNCHANGED <<buyVars, feeVars, config, clock, aroundVars, spent>>

-----------------------------------------------------------------------------
(* Outside the route *)

Elsewhere == elsewhere < MaxElsewhere /\ elsewhere' = elsewhere + 1

\* The payer spends money on something else.
SpendElsewhere(p) ==
    /\ Elsewhere
    /\ \E rest \in Balances :
          rest < funds[p] /\ funds' = [funds EXCEPT ![p] = rest]
    /\ Spent(p, {})
    /\ UNCHANGED <<outcomeVars, buyVars, feeVars, config, clock, used, hookWorks>>

\* The authorization is cancelled, or used without this server.
UseElsewhere(b) ==
    /\ Elsewhere
    /\ signed[b] # NoOffer /\ Nonce(b) \notin used
    /\ used' = used \cup {Nonce(b)}
    /\ UNCHANGED <<outcomeVars, buyVars, feeVars, config, clock, funds, hookWorks, spent>>

\* The hook stops working (it is sold out, its recipient refuses, it needs more gas than
\* is given), or works again.
HookTurns ==
    /\ Elsewhere
    /\ hookWorks' = ~ hookWorks
    /\ UNCHANGED <<outcomeVars, buyVars, feeVars, config, clock, funds, used, spent>>

-----------------------------------------------------------------------------
(* Time, and the price of a settlement *)

Tick ==
    /\ clock < MaxTime
    /\ clock' = clock + 1
    /\ UNCHANGED <<outcomeVars, buyVars, feeVars, config, aroundVars, spent>>

RequirementMoves ==
    /\ required' \in Fees
    /\ UNCHANGED <<outcomeVars, buyVars, feeCache, config, clock, aroundVars, spent>>

QuoteExpires ==
    /\ feeCache' = NoFee
    /\ UNCHANGED <<outcomeVars, buyVars, required, config, clock, aroundVars, spent>>

RouteNext ==
    \/ \E b \in Requests :
          \/ OfferKnownFee(b) \/ OfferQuotedFee(b) \/ OfferFails(b)
          \/ Carry(b) \/ Compose(b) \/ ComposeFails(b)
          \/ (\E own \in OwnTerms : PayOther(b, own)) \/ (\E s \in Requests : PayAgain(b, s))
          \/ Verify(b) \/ NotVerified(b)
          \/ Handle(b) \/ BeginSettle(b) \/ EndSettle(b) \/ GiveUp(b)
          \/ RefuseRequest(b) \/ AdmitRequest(b) \/ Transact(b)
          \/ MineTransaction(b) \/ RespondRequest(b)
          \/ UseElsewhere(b)
    \/ \E p \in Payers : SpendElsewhere(p)
    \/ HookTurns
    \/ Tick \/ RequirementMoves \/ QuoteExpires

RouteSpec == RouteInit /\ [][RouteNext]_vars

-----------------------------------------------------------------------------
(* Properties *)

\* Content is served only to a purchase whose own transaction has settled a payment, on
\* the terms that this payment says and is signed for, and no payment gets content twice,
\* whatever other purchases of the same client or payer overlap and in whichever order
\* the middleware works.  For the library's client the terms are those the server offered;
\* another program's may be its own, as the route replays them.
ServedWasPaid ==
    \A b \in Requests :
        step[b] = "served" =>
            /\ tx[b] = "success" /\ signed[b] = terms[b]
            /\ composer[b] = "library" => terms[b] = offer[b]
            /\ \A s \in Requests \ {b} : step[s] = "served" => Nonce(s) # Nonce(b)

\* The router settles only on the terms the payer has signed for that purchase: a payment
\* that got the extension of another purchase of its client fails, at the latest on chain,
\* and so does one that says something else than it is signed for.
ChargedAsOffered ==
    \A b \in Requests :
        tx[b] = "success" =>
            /\ signed[b] = terms[b]
            /\ composer[b] = "library" => signed[b] = offer[b] /\ offer[b].for = b

\* With the settlement hooks a payment that was mixed up is found out ahead of the
\* handler; without them only on chain.
MixUpsFoundEarly ==
    \A b \in Requests :
        config.hooked /\ signed[b] # NoOffer /\ Mixed(b) =>
            step[b] \in {"composed", "failed"} /\ tx[b] = "none"

\* Offers in the payment option cannot be mixed up by the library, however payments of one
\* client overlap.
OptionsNotMixed ==
    \A b \in Requests :
        config.place = "option" /\ composer[b] = "library" => signed[b] = offer[b]

\* A payment that verified fails on chain only for what verification does not look at or
\* cannot know: its time has run out, the hook fails, the authorization has been used, or
\* the payer has spent money since; or it was mixed up and the server has no hooks, or
\* another program has signed for another recipient or value or for less than the fee.  It
\* never fails for want of money that was not there when it was verified.
VerifiedFailsForReason ==
    [][\A b \in Requests :
          tx[b] = "pending" /\ tx'[b] = "reverted" =>
              \/ clock >= validBefore[b]
              \/ ~ hookWorks
              \/ Nonce(b) \in used \/ SettledBefore(b)
              \/ b \in spent
              \/ Mixed(b) /\ ~ config.hooked
              \/ /\ composer[b] # "library"
                 /\ composer[b] = "stray" \/ terms[b].fee > terms[b].amount]_vars

\* With the settlement hooks no request is admitted for a fee below the requirement of
\* that moment, although the fee was quoted at the offer and verified before the handler
\* ran.
AdmittedAtPresentFee ==
    [][\A b \in Requests :
          config.hooked /\ request[b] = "new" /\ request'[b] = "accepted" =>
              terms[b].fee >= Threshold(required)]_vars

=============================================================================
