--------------------------- MODULE PaidRouteProofs --------------------------
(***************************************************************************)
(* Proofs about PaidRoute, for any purchases, clients and payers, prices   *)
(* and fees, and for every way the route may be set up.                    *)
(***************************************************************************)
EXTENDS PaidRoute, TLAPS

-----------------------------------------------------------------------------
(* The inductive invariant *)

\* The steps of a purchase ahead of its settlement.
Early == {"idle", "offered", "carried", "composed", "verified", "handled"}

\* Nothing has been asked of the facilitator's settlement before its turn.
NotYetAsked ==
    \A b \in Requests : step[b] \in Early => request[b] = "new"

\* A request that is not new carries a payment, signed for some offer.
AskedIsSigned ==
    \A b \in Requests :
        request[b] # "new"
        \/ step[b] \in {"composed", "verified", "handled", "settling", "paid", "gave_up"}
            => signed[b] # NoOffer

Untouched ==
    \A b \in Requests :
        /\ request[b] = "new" => tx[b] = "none" /\ answer[b] = "none"
        /\ answer[b] = "success" => tx[b] = "success"

\* Offers are made once and for their own purchase; the payment comes after it, and the
\* library's says what was offered.
OffersOwn ==
    \A b \in Requests :
        /\ step[b] = "idle" => offer[b] = NoOffer
        /\ step[b] \in {"idle", "offered", "carried"} =>
              signed[b] = NoOffer /\ composer[b] = "nobody"
        /\ step[b] \in {"offered", "carried"} => offer[b] # NoOffer
        /\ signed[b] # NoOffer => offer[b] # NoOffer /\ terms[b] # NoOffer
        /\ offer[b] # NoOffer => offer[b].for = b
        /\ composer[b] = "library" => terms[b] = offer[b]

\* The router settles a payment once.
OncePerNonce ==
    \A b \in Requests : \A s \in Requests \ {b} :
        tx[b] = "success" /\ tx[s] = "success" => Nonce(s) # Nonce(b)

PaidBeforeServed ==
    \A b \in Requests : step[b] \in {"paid", "served"} => tx[b] = "success"

\* With the settlement hooks a mixed up payment does not get past verification.
MixUpsStay ==
    \A b \in Requests :
        config.hooked /\ signed[b] # NoOffer /\ Mixed(b) =>
            step[b] \in {"composed", "failed"} /\ request[b] = "new"

IInv ==
    /\ TypeOK
    /\ NotYetAsked
    /\ AskedIsSigned
    /\ Untouched
    /\ OffersOwn
    /\ OncePerNonce
    /\ PaidBeforeServed
    /\ MixUpsStay
    /\ ChargedAsOffered
    /\ OptionsNotMixed

LEMMA PayerTyped == \A b \in Requests : ClientOf[b] \in Clients /\ Payer(b) \in Payers
BY DEF Clients, Payers, Payer

LEMMA OffersAreTerms == Offers \subseteq Terms /\ NoOffer \notin Terms
<1>1. Fees \subseteq Nat /\ Price \in Nat
  BY PaidRouteAssumption
<1>. QED  BY <1>1, PaidRouteAssumption DEF Offers, Terms

\* Nonces stay what they are while payer, signature and time window do.
LEMMA NonceKept ==
    ASSUME NEW b \in Requests, signed'[b] = signed[b], validBefore'[b] = validBefore[b]
    PROVE  Nonce(b)' = Nonce(b)
BY DEF Nonce, Payer

LEMMA InitIInv == ASSUME RouteInit PROVE IInv
<1>. USE DEF RouteInit, Init
<1>1. TypeOK
  <2>1. funds \in [Payers -> Nat]
    BY PaidRouteAssumption
  <2>2. clock \in 0 .. MaxTime
    BY PaidRouteAssumption
  <2>3. elsewhere \in 0 .. MaxElsewhere
    BY PaidRouteAssumption
  <2>. QED  BY <2>1, <2>2, <2>3 DEF TypeOK, RequestStates, Answers, Steps, Composers
<1>2. NotYetAsked /\ AskedIsSigned /\ Untouched /\ OffersOwn /\ OncePerNonce
      /\ PaidBeforeServed /\ MixUpsStay /\ ChargedAsOffered /\ OptionsNotMixed
  BY DEF NotYetAsked, AskedIsSigned, Untouched, OffersOwn, OncePerNonce, PaidBeforeServed,
         MixUpsStay, ChargedAsOffered, OptionsNotMixed
<1>. QED  BY <1>1, <1>2 DEF IInv

-----------------------------------------------------------------------------
(* The offer and the client *)

LEMMA MakeOfferKeeps ==
    ASSUME IInv, NEW b \in Requests, NEW fee \in Fees, MakeOffer(b, fee),
           feeCache' \in Fees \cup {NoFee}
    PROVE  IInv'
<1>. USE DEF MakeOffer, Goes, outcomeVars, Payment, aroundVars
<1>. DEFINE made == [for |-> b, fee |-> fee, amount |-> Price]
<1>1. made \in Offers /\ made # NoOffer /\ made.for = b
  BY OffersAreTerms DEF Offers
<1>2. TypeOK'
  BY <1>1 DEF IInv, TypeOK, Steps
<1>3. /\ step[b] = "idle" /\ step' = [step EXCEPT ![b] = "offered"]
      /\ offer' = [offer EXCEPT ![b] = made]
      /\ step \in [Requests -> Steps] /\ offer \in [Requests -> Offers \cup {NoOffer}]
      /\ request[b] = "new" /\ signed[b] = NoOffer /\ tx[b] = "none" /\ composer[b] = "nobody"
  BY DEF IInv, TypeOK, NotYetAsked, OffersOwn, Early, Untouched
<1>. HIDE DEF made
<1>4. NotYetAsked' /\ AskedIsSigned' /\ Untouched' /\ PaidBeforeServed'
  BY <1>3 DEF IInv, NotYetAsked, AskedIsSigned, Untouched, PaidBeforeServed, Early
<1>5. OffersOwn'
  BY <1>1, <1>3 DEF IInv, OffersOwn
<1>6. OncePerNonce'
  BY NonceKept DEF IInv, OncePerNonce
<1>7. MixUpsStay' /\ ChargedAsOffered' /\ OptionsNotMixed'
  BY <1>3 DEF IInv, MixUpsStay, ChargedAsOffered, OptionsNotMixed, Mixed
<1>. QED  BY <1>2, <1>4, <1>5, <1>6, <1>7 DEF IInv

LEMMA OfferKeeps ==
    ASSUME IInv, NEW b \in Requests, OfferKnownFee(b) \/ OfferQuotedFee(b)
    PROVE  IInv'
<1>1. config.fixedFee \in Fees \cup {NoFee} /\ feeCache \in Fees \cup {NoFee}
      /\ required \in Fees
  BY DEF IInv, TypeOK, Configs
<1>. QED  BY <1>1, MakeOfferKeeps DEF OfferKnownFee, OfferQuotedFee

\* The purchase moves without a settlement being asked for, and nothing else changes.
LEMMA MoveKeeps ==
    ASSUME IInv, NEW b \in Requests, NEW from, NEW to \in Steps, Goes(b, from, to),
           UNCHANGED <<outcomeVars, offer, carried, Payment, feeVars, config, clock, aroundVars>>,
           spent' \subseteq Requests,
           to \in {"verified", "handled", "failed", "settling", "gave_up", "paid", "served"},
           to \in Early => from \in Early,
           to \in {"verified", "handled", "settling", "paid", "gave_up"} =>
               from \in {"composed", "verified", "handled", "settling"},
           to \in {"paid", "served"} => tx[b] = "success",
           config.hooked /\ signed[b] # NoOffer /\ Mixed(b) => to = "failed"
    PROVE  IInv'
<1>. USE DEF Goes, outcomeVars, feeVars, Payment, aroundVars
<1>1. TypeOK'
  BY DEF IInv, TypeOK
<1>2. /\ step[b] = from /\ step' = [step EXCEPT ![b] = to]
      /\ step \in [Requests -> Steps]
  BY DEF IInv, TypeOK
<1>3. NotYetAsked'
  BY <1>2 DEF IInv, NotYetAsked, Early
<1>4. AskedIsSigned' /\ Untouched' /\ OffersOwn' /\ PaidBeforeServed'
  BY <1>2 DEF IInv, AskedIsSigned, Untouched, OffersOwn, PaidBeforeServed
<1>5. MixUpsStay'
  BY <1>2 DEF IInv, MixUpsStay, Mixed
<1>6. ChargedAsOffered' /\ OptionsNotMixed'
  BY DEF IInv, ChargedAsOffered, OptionsNotMixed
<1>7. OncePerNonce'
  BY NonceKept DEF IInv, OncePerNonce
<1>. QED  BY <1>1, <1>3, <1>4, <1>5, <1>6, <1>7 DEF IInv

LEMMA OfferFailsKeeps == ASSUME IInv, NEW b \in Requests, OfferFails(b) PROVE IInv'
BY MoveKeeps DEF OfferFails, Steps, Early, IInv, TypeOK

LEMMA ComposeFailsKeeps == ASSUME IInv, NEW b \in Requests, ComposeFails(b) PROVE IInv'
BY MoveKeeps DEF ComposeFails, Steps, Early, IInv, TypeOK

LEMMA NotVerifiedKeeps == ASSUME IInv, NEW b \in Requests, NotVerified(b) PROVE IInv'
BY MoveKeeps DEF NotVerified, Steps, Early, IInv, TypeOK

LEMMA CarryKeeps == ASSUME IInv, NEW b \in Requests, Carry(b) PROVE IInv'
<1>. USE DEF Carry, Goes, outcomeVars, feeVars, Payment, aroundVars
<1>1. TypeOK'
  BY PayerTyped DEF IInv, TypeOK, Steps
<1>2. /\ step[b] = "offered" /\ step' = [step EXCEPT ![b] = "carried"]
      /\ step \in [Requests -> Steps]
      /\ request[b] = "new" /\ signed[b] = NoOffer
  BY DEF IInv, TypeOK, NotYetAsked, OffersOwn, Early
<1>3. NotYetAsked' /\ AskedIsSigned' /\ Untouched' /\ OffersOwn' /\ PaidBeforeServed'
  BY <1>2 DEF IInv, NotYetAsked, AskedIsSigned, Untouched, OffersOwn, PaidBeforeServed, Early
<1>4. MixUpsStay' /\ ChargedAsOffered' /\ OptionsNotMixed'
  BY <1>2 DEF IInv, MixUpsStay, ChargedAsOffered, OptionsNotMixed, Mixed
<1>5. OncePerNonce'
  BY NonceKept DEF IInv, OncePerNonce
<1>. QED  BY <1>1, <1>3, <1>4, <1>5 DEF IInv

\* A payment is composed, by whomever.
LEMMA PayKeeps ==
    ASSUME IInv, NEW b \in Requests, NEW from \in {"offered", "carried"},
           NEW says \in Terms, NEW commits \in Terms, NEW end \in Nat,
           NEW who \in {"library", "other", "stray"},
           Goes(b, from, "composed"), Pay(b, says, commits, end, who),
           UNCHANGED <<outcomeVars, offer, feeVars, config, clock, aroundVars, spent>>,
           carried' \in [Clients -> Offers \cup {NoOffer}],
           who = "library" =>
               says = offer[b] /\ (config.place = "option" => commits = offer[b])
    PROVE  IInv'
<1>. USE DEF Goes, Pay, outcomeVars, feeVars, aroundVars
<1>1. /\ step[b] \in {"offered", "carried"} /\ step' = [step EXCEPT ![b] = "composed"]
      /\ signed' = [signed EXCEPT ![b] = commits] /\ terms' = [terms EXCEPT ![b] = says]
      /\ composer' = [composer EXCEPT ![b] = who]
      /\ validBefore' = [validBefore EXCEPT ![b] = end]
      /\ step \in [Requests -> Steps] /\ signed \in [Requests -> Terms \cup {NoOffer}]
      /\ terms \in [Requests -> Terms \cup {NoOffer}] /\ composer \in [Requests -> Composers]
      /\ validBefore \in [Requests -> Nat]
      /\ commits # NoOffer /\ says # NoOffer
  BY OffersAreTerms DEF IInv, TypeOK
<1>2. /\ request[b] = "new" /\ signed[b] = NoOffer /\ offer[b] # NoOffer /\ tx[b] = "none"
      /\ answer[b] = "none"
  BY <1>1 DEF IInv, NotYetAsked, OffersOwn, Early, Untouched
<1>3. TypeOK'
  BY <1>1 DEF IInv, TypeOK, Steps, Composers
<1>4. NotYetAsked' /\ AskedIsSigned' /\ Untouched' /\ PaidBeforeServed'
  BY <1>1, <1>2 DEF IInv, NotYetAsked, AskedIsSigned, Untouched, PaidBeforeServed, Early
<1>5. OffersOwn'
  BY <1>1, <1>2 DEF IInv, OffersOwn
<1>6. MixUpsStay'
  BY <1>1, <1>2 DEF IInv, MixUpsStay, Mixed
<1>7. ChargedAsOffered'
  BY <1>1, <1>2 DEF IInv, ChargedAsOffered
<1>8. OptionsNotMixed'
  BY <1>1, <1>2 DEF IInv, OptionsNotMixed
<1>9. OncePerNonce'
  <2>1. \A s \in Requests \ {b} : Nonce(s)' = Nonce(s)
    BY <1>1, NonceKept
  <2>. QED  BY <1>2, <2>1 DEF IInv, OncePerNonce
<1>. QED  BY <1>3, <1>4, <1>5, <1>6, <1>7, <1>8, <1>9 DEF IInv

LEMMA ComposeKeeps == ASSUME IInv, NEW b \in Requests, Compose(b) PROVE IInv'
<1>1. /\ step[b] = "carried" /\ Extension(b) # NoOffer
      /\ Extension(b) \in Offers \cup {NoOffer} /\ offer[b] \in Offers \cup {NoOffer}
      /\ offer[b] # NoOffer
  BY PayerTyped DEF Compose, Goes, Extension, IInv, TypeOK, OffersOwn
<1>2. Extension(b) \in Terms /\ offer[b] \in Terms
  BY <1>1, OffersAreTerms
<1>3. clock + Timeout \in Nat
  BY PaidRouteAssumption DEF IInv, TypeOK
<1>4. carried' \in [Clients -> Offers \cup {NoOffer}]
  BY DEF Compose, IInv, TypeOK
<1>5. config.place = "option" => Extension(b) = offer[b]
  BY DEF Extension
<1>. QED  BY <1>2, <1>3, <1>4, <1>5, PayKeeps DEF Compose

LEMMA PayOtherKeeps ==
    ASSUME IInv, NEW b \in Requests, NEW own \in OwnTerms, PayOther(b, own)
    PROVE  IInv'
<1>1. step[b] = "offered" /\ offer[b] \in Offers \cup {NoOffer} /\ offer[b] # NoOffer
  BY DEF PayOther, Goes, IInv, TypeOK, OffersOwn
<1>2. offer[b] \in Terms
  BY <1>1, OffersAreTerms
<1>3. Chosen(b, own) \in Terms
  BY PaidRouteAssumption DEF Chosen, Terms
<1>4. clock + Timeout \in Nat
  BY PaidRouteAssumption DEF IInv, TypeOK
<1>5. carried' \in [Clients -> Offers \cup {NoOffer}]
  BY DEF PayOther, IInv, TypeOK
<1>6. PICK commits \in {Chosen(b, own), offer[b]}, who \in {"other", "stray"} :
          Pay(b, Chosen(b, own), commits, clock + Timeout, who)
  BY DEF PayOther
<1>7. commits \in Terms /\ who # "library"
  BY <1>2, <1>3
<1>. QED  BY <1>3, <1>4, <1>5, <1>6, <1>7, PayKeeps DEF PayOther

LEMMA PayAgainKeeps ==
    ASSUME IInv, NEW b \in Requests, NEW s \in Requests, PayAgain(b, s)
    PROVE  IInv'
<1>1. signed[s] \in Terms /\ terms[s] \in Terms /\ validBefore[s] \in Nat
  BY DEF PayAgain, IInv, TypeOK, OffersOwn
<1>2. carried' \in [Clients -> Offers \cup {NoOffer}]
  BY DEF PayAgain, IInv, TypeOK
<1>3. PICK who \in {"other", "stray"} : Pay(b, terms[s], signed[s], validBefore[s], who)
  BY DEF PayAgain
<1>. QED  BY <1>1, <1>2, <1>3, PayKeeps DEF PayAgain

-----------------------------------------------------------------------------
(* The server *)

LEMMA VerifyKeeps == ASSUME IInv, NEW b \in Requests, Verify(b) PROVE IInv'
<1>1. ~ (config.hooked /\ signed[b] # NoOffer /\ Mixed(b))
  BY DEF Verify, RouterVerifies
<1>2. spent' \subseteq Requests
  BY DEF Verify, IInv, TypeOK
<1>. QED  BY <1>1, <1>2, MoveKeeps DEF Verify, Steps, Early

LEMMA MiddlewareKeeps ==
    ASSUME IInv, NEW b \in Requests,
           Handle(b) \/ BeginSettle(b) \/ EndSettle(b) \/ GiveUp(b)
    PROVE  IInv'
<1>1. step[b] \in {"verified", "handled", "settling", "paid"} =>
          ~ (config.hooked /\ signed[b] # NoOffer /\ Mixed(b))
  BY DEF IInv, MixUpsStay
<1>2. CASE Handle(b)
  <2>1. step[b] = "paid" => tx[b] = "success"
    BY DEF IInv, PaidBeforeServed
  <2>. QED  BY <1>1, <1>2, <2>1, MoveKeeps
            DEF Handle, Middleware, Goes, Steps, Early, IInv, TypeOK
<1>3. CASE BeginSettle(b)
  BY <1>1, <1>3, MoveKeeps
     DEF BeginSettle, Middleware, Goes, Steps, Early, IInv, TypeOK
<1>4. CASE EndSettle(b)
  <2>1. answer[b] = "success" => tx[b] = "success"
    BY DEF IInv, Untouched
  <2>. QED  BY <1>1, <1>4, <2>1, MoveKeeps
            DEF EndSettle, Settled, Middleware, Goes, Steps, Early, IInv, TypeOK
<1>5. CASE GiveUp(b)
  BY <1>1, <1>5, MoveKeeps
     DEF GiveUp, Middleware, Goes, Steps, Early, IInv, TypeOK
<1>. QED  BY <1>2, <1>3, <1>4, <1>5

-----------------------------------------------------------------------------
(* The facilitator and the chain *)

\* What is posted is signed and not mixed up behind settlement hooks.
LEMMA PostedIsSigned ==
    ASSUME IInv, NEW b \in Requests, request[b] # "new" \/ Posted(b)
    PROVE  signed[b] # NoOffer /\ ~ (config.hooked /\ Mixed(b))
BY DEF IInv, AskedIsSigned, MixUpsStay, Posted

\* An outcome that moves on at the facilitator, its purchase and its terms unchanged.
LEMMA OutcomeKeeps ==
    ASSUME IInv, NEW b \in Requests,
           UNCHANGED <<buyVars, feeVars, config, clock, used, hookWorks, elsewhere>>,
           funds' \in [Payers -> Nat], spent' \subseteq Requests,
           request' \in [Requests -> RequestStates], answer' \in [Requests -> Answers],
           tx' \in [Requests -> {"none", "pending", "success", "reverted"}],
           \A s \in Requests \ {b} :
               request'[s] = request[s] /\ answer'[s] = answer[s] /\ tx'[s] = tx[s],
           request'[b] # "new", step[b] \notin Early,
           signed[b] # NoOffer, ~ (config.hooked /\ Mixed(b)),
           answer'[b] = "success" => tx'[b] = "success",
           tx[b] = "success" => tx'[b] = "success",
           tx'[b] = "success" =>
               /\ signed[b] = terms[b]
               /\ tx[b] # "success" => ~ SettledBefore(b)
    PROVE  IInv'
<1>. USE DEF buyVars, feeVars
<1>1. TypeOK'
  BY DEF IInv, TypeOK
<1>2. NotYetAsked'
  BY DEF IInv, NotYetAsked
<1>3. AskedIsSigned' /\ Untouched'
  BY DEF IInv, AskedIsSigned, Untouched
<1>4. OffersOwn'
  BY DEF IInv, OffersOwn
<1>5. PaidBeforeServed'
  BY DEF IInv, PaidBeforeServed
<1>6. MixUpsStay'
  BY DEF IInv, MixUpsStay, Mixed
<1>7. ChargedAsOffered'
  BY DEF IInv, ChargedAsOffered, OffersOwn
<1>8. OptionsNotMixed'
  BY DEF IInv, OptionsNotMixed
<1>9. OncePerNonce'
  <2>1. \A s \in Requests : Nonce(s)' = Nonce(s)
    BY NonceKept
  <2>. QED  BY <2>1 DEF IInv, OncePerNonce, SettledBefore
<1>. QED  BY <1>1, <1>2, <1>3, <1>4, <1>5, <1>6, <1>7, <1>8, <1>9 DEF IInv

LEMMA FacilitatorKeeps ==
    ASSUME IInv, NEW b \in Requests,
           \/ RefuseRequest(b) \/ AdmitRequest(b) \/ Transact(b)
           \/ MineTransaction(b) \/ RespondRequest(b)
    PROVE  IInv'
<1>1. /\ request \in [Requests -> RequestStates] /\ answer \in [Requests -> Answers]
      /\ tx \in [Requests -> {"none", "pending", "success", "reverted"}]
      /\ funds \in [Payers -> Nat] /\ spent \subseteq Requests
      /\ request[b] = "new" => tx[b] = "none" /\ answer[b] = "none"
      /\ answer[b] = "success" => tx[b] = "success"
      /\ tx[b] = "success" => signed[b] = terms[b]
      /\ step[b] \in Early => request[b] = "new"
  BY PaidRouteAssumption DEF IInv, TypeOK, Untouched, ChargedAsOffered, NotYetAsked
<1>. USE <1>1 DEF RequestStates, Answers, aroundVars
<1>2. CASE RefuseRequest(b)
  BY <1>2, PostedIsSigned, OutcomeKeeps DEF RefuseRequest, Refuse, Posted, Early
<1>3. CASE AdmitRequest(b)
  BY <1>3, PostedIsSigned, OutcomeKeeps DEF AdmitRequest, Admit, Posted, Early
<1>4. CASE Transact(b)
  BY <1>4, PostedIsSigned, OutcomeKeeps DEF Transact, Broadcast
<1>5. CASE MineTransaction(b)
  <2>1. PICK fate \in {"success", "reverted"} : tx' = [tx EXCEPT ![b] = fate]
    BY <1>5 DEF MineTransaction, Mine
  <2>2. /\ tx[b] = "pending"
        /\ UNCHANGED <<request, answer, buyVars, feeVars, config, clock, used, hookWorks,
                       elsewhere>>
    BY <1>5 DEF MineTransaction, Mine
  <2>3. signed[b] # NoOffer /\ ~ (config.hooked /\ Mixed(b)) /\ request[b] # "new"
    BY <2>2, PostedIsSigned
  <2>4. terms[b] \in Terms
    BY <2>3 DEF IInv, TypeOK, OffersOwn
  <2>5. terms[b].amount \in Nat
    BY <2>4 DEF Terms
  <2>6. funds' \in [Payers -> Nat] /\ spent' \subseteq Requests
    BY <1>5, <2>5, PayerTyped DEF MineTransaction, Executes, Spent
  <2>7. fate = "success" => signed[b] = terms[b] /\ ~ SettledBefore(b)
    BY <1>5, <2>1 DEF MineTransaction, Executes, MayRecover, Settleable, Mixed
  <2>. QED  BY <2>1, <2>2, <2>3, <2>6, <2>7, OutcomeKeeps
<1>6. CASE RespondRequest(b)
  BY <1>6, PostedIsSigned, OutcomeKeeps DEF RespondRequest, Respond
<1>. QED  BY <1>2, <1>3, <1>4, <1>5, <1>6

\* Time, fees and all that happens outside the route.
LEMMA AroundKeeps ==
    ASSUME IInv,
           \/ Tick \/ RequirementMoves \/ QuoteExpires \/ HookTurns
           \/ (\E p \in Payers : SpendElsewhere(p)) \/ (\E b \in Requests : UseElsewhere(b))
    PROVE  IInv'
<1>. USE DEF Tick, RequirementMoves, QuoteExpires, HookTurns, SpendElsewhere, UseElsewhere,
             Elsewhere, buyVars, feeVars, outcomeVars, aroundVars
<1>1. UNCHANGED <<outcomeVars, buyVars, config>>
  OBVIOUS
<1>2. clock' \in 0 .. MaxTime /\ required' \in Fees /\ feeCache' \in Fees \cup {NoFee}
  BY PaidRouteAssumption DEF IInv, TypeOK
<1>3. elsewhere' \in 0 .. MaxElsewhere /\ hookWorks' \in BOOLEAN
  <2>1. elsewhere' = elsewhere \/ (elsewhere' = elsewhere + 1 /\ elsewhere < MaxElsewhere)
    OBVIOUS
  <2>2. elsewhere' \in 0 .. MaxElsewhere
    BY <2>1, PaidRouteAssumption DEF IInv, TypeOK
  <2>3. hookWorks' = hookWorks \/ hookWorks' = ~ hookWorks
    OBVIOUS
  <2>. QED  BY <2>2, <2>3 DEF IInv, TypeOK
<1>4. spent' \subseteq Requests
  BY DEF IInv, TypeOK, Spent
<1>5. funds' \in [Payers -> Nat]
  BY PaidRouteAssumption DEF IInv, TypeOK
<1>6. used' \subseteq Payers \X Terms \X Nat
  <2>1. ASSUME NEW b \in Requests, signed[b] # NoOffer
        PROVE  Nonce(b) \in Payers \X Terms \X Nat
    BY <2>1, PayerTyped DEF IInv, TypeOK, Nonce
  <2>. QED  BY <2>1 DEF IInv, TypeOK
<1>7. TypeOK'
  BY <1>1, <1>2, <1>3, <1>4, <1>5, <1>6 DEF IInv, TypeOK
<1>8. OncePerNonce'
  BY <1>1, NonceKept DEF IInv, OncePerNonce
<1>9. UNCHANGED <<request, answer, tx, step, offer, terms, signed, composer, config>>
  BY <1>1
<1>. QED  BY <1>7, <1>8, <1>9 DEF IInv, NotYetAsked, AskedIsSigned, Untouched, OffersOwn,
                PaidBeforeServed, MixUpsStay, Mixed, ChargedAsOffered, OptionsNotMixed

LEMMA StutterKeeps == ASSUME IInv, UNCHANGED vars PROVE IInv'
<1>. USE DEF vars, buyVars, feeVars, outcomeVars, aroundVars
<1>1. TypeOK'
  BY DEF IInv, TypeOK
<1>2. OncePerNonce'
  BY NonceKept DEF IInv, OncePerNonce
<1>3. UNCHANGED <<request, answer, tx, step, offer, terms, signed, composer, config>>
  OBVIOUS
<1>. QED  BY <1>1, <1>2, <1>3 DEF IInv, NotYetAsked, AskedIsSigned, Untouched, OffersOwn,
                PaidBeforeServed, MixUpsStay, Mixed, ChargedAsOffered, OptionsNotMixed

LEMMA NextKeeps == ASSUME IInv, [RouteNext]_vars PROVE IInv'
<1>1. ASSUME NEW b \in Requests,
             OfferKnownFee(b) \/ OfferQuotedFee(b) \/ OfferFails(b)
      PROVE  IInv'
  BY <1>1, OfferKeeps, OfferFailsKeeps
<1>2. ASSUME NEW b \in Requests,
             \/ Carry(b) \/ Compose(b) \/ ComposeFails(b)
             \/ (\E own \in OwnTerms : PayOther(b, own)) \/ (\E s \in Requests : PayAgain(b, s))
      PROVE  IInv'
  BY <1>2, CarryKeeps, ComposeKeeps, ComposeFailsKeeps, PayOtherKeeps, PayAgainKeeps
<1>3. ASSUME NEW b \in Requests,
             \/ Verify(b) \/ NotVerified(b)
             \/ Handle(b) \/ BeginSettle(b) \/ EndSettle(b) \/ GiveUp(b)
      PROVE  IInv'
  BY <1>3, VerifyKeeps, NotVerifiedKeeps, MiddlewareKeeps
<1>4. ASSUME NEW b \in Requests,
             \/ RefuseRequest(b) \/ AdmitRequest(b) \/ Transact(b)
             \/ MineTransaction(b) \/ RespondRequest(b)
      PROVE  IInv'
  BY <1>4, FacilitatorKeeps
<1>5. CASE \/ Tick \/ RequirementMoves \/ QuoteExpires \/ HookTurns
           \/ (\E p \in Payers : SpendElsewhere(p)) \/ (\E b \in Requests : UseElsewhere(b))
  BY <1>5, AroundKeeps
<1>6. CASE UNCHANGED vars
  BY <1>6, StutterKeeps
<1>. QED  BY <1>1, <1>2, <1>3, <1>4, <1>5, <1>6 DEF RouteNext

-----------------------------------------------------------------------------
(* Theorems *)

LEMMA Inductive == RouteSpec => []IInv
<1>1. RouteInit => IInv
  BY InitIInv
<1>2. IInv /\ [RouteNext]_vars => IInv'
  BY NextKeeps
<1>. QED  BY <1>1, <1>2, PTL DEF RouteSpec

\* Every reachable state is well typed; in particular no payer pays more than it owns.
THEOREM RouteTypeCorrect == RouteSpec => []TypeOK
<1>1. IInv => TypeOK
  BY DEF IInv
<1>. QED  BY <1>1, Inductive, PTL

\* For any number of purchases, clients and payers, every set-up of the route and whatever
\* other programs send, nothing is served but to the settlement of a payment on the terms
\* that it says and is signed for, which are those offered if the library composed it, and
\* nothing is served twice for one payment (settlement-routes.ts:215, SettlementRouter.sol:100).
THEOREM NothingServedUnpaid == RouteSpec => []ServedWasPaid
<1>1. ASSUME IInv PROVE ServedWasPaid
  <2>1. \A b \in Requests : step[b] = "served" => tx[b] = "success"
    BY <1>1 DEF IInv, PaidBeforeServed
  <2>2. \A b \in Requests :
            /\ tx[b] = "success" => signed[b] = terms[b]
            /\ composer[b] = "library" => terms[b] = offer[b]
    BY <1>1 DEF IInv, ChargedAsOffered, OffersOwn
  <2>3. OncePerNonce
    BY <1>1 DEF IInv
  <2>. QED  BY <2>1, <2>2, <2>3 DEF ServedWasPaid, OncePerNonce
<1>. QED  BY <1>1, Inductive, PTL

\* A payment is settled only on the terms that it says and is signed for, which for the
\* library are those offered for its own purchase, although all payments of a client go
\* through one field of its scheme (exact-evm-scheme.ts:156).
THEOREM ChargedOnOwnTerms == RouteSpec => []ChargedAsOffered
<1>1. IInv => ChargedAsOffered
  BY DEF IInv
<1>. QED  BY <1>1, Inductive, PTL

\* With the settlement hooks a mixed up payment never gets past its verification.
THEOREM MixUpsStopAtVerification == RouteSpec => []MixUpsFoundEarly
<1>1. IInv => MixUpsFoundEarly
  BY DEF IInv, MixUpsFoundEarly, MixUpsStay, Untouched
<1>. QED  BY <1>1, Inductive, PTL

\* Offers carried in the payment option are never mixed up.
THEOREM OptionsSafe == RouteSpec => []OptionsNotMixed
<1>1. IInv => OptionsNotMixed
  BY DEF IInv
<1>. QED  BY <1>1, Inductive, PTL

\* With the settlement hooks no request is admitted below the fee required at that moment.
THEOREM FeeCheckedAtAdmission == RouteSpec => AdmittedAtPresentFee
<1>1. ASSUME IInv, [RouteNext]_vars
      PROVE  \A b \in Requests :
                config.hooked /\ request[b] = "new" /\ request'[b] = "accepted" =>
                    terms[b].fee >= Threshold(required)
  <2>1. SUFFICES ASSUME NEW b \in Requests,
                        config.hooked, request[b] = "new", request'[b] = "accepted"
                 PROVE  terms[b].fee >= Threshold(required)
    OBVIOUS
  <2>2. request \in [Requests -> RequestStates]
    BY <1>1 DEF IInv, TypeOK
  <2>3. request' # request
    BY <2>1
  <2>4. PICK s \in Requests : RefuseRequest(s) \/ AdmitRequest(s) \/ RespondRequest(s)
    BY <1>1, <2>3 DEF RouteNext, vars, outcomeVars, OfferKnownFee, OfferQuotedFee, OfferFails,
         MakeOffer, Carry, Compose, ComposeFails, PayOther, PayAgain, Verify, NotVerified,
         Handle, BeginSettle, EndSettle, GiveUp, Middleware, Transact, Broadcast,
         MineTransaction, Mine, Tick, RequirementMoves, QuoteExpires, HookTurns,
         SpendElsewhere, UseElsewhere
  <2>5. AdmitRequest(b)
    BY <2>1, <2>2, <2>4 DEF RefuseRequest, Refuse, AdmitRequest, Admit, RespondRequest, Respond
  <2>. QED  BY <2>1, <2>5 DEF AdmitRequest, FeePasses, FeeSuffices
<1>. QED  BY <1>1, Inductive, PTL DEF RouteSpec, AdmittedAtPresentFee

-----------------------------------------------------------------------------
(* Why a verified payment fails *)

\* The server has had the payment verified, and nothing has ended the purchase since; or
\* the facilitator has had the request.
Committed(b) ==
    step[b] \in {"verified", "handled", "settling", "gave_up"} \/ request[b] # "new"

\* What verification found there stays there until the payment takes it, unless the payer
\* has spent money since.
StaysFunded ==
    \A b \in Requests :
        Committed(b) /\ tx[b] # "success" =>
            terms[b].amount <= funds[Payer(b)] \/ b \in spent

\* What a step that moves no money leaves to a purchase: one that becomes committed is one
\* that has just been verified, and one that is committed keeps its terms.
Calm(b) ==
    /\ tx[b] = "success" => tx'[b] = "success"
    /\ Committed(b)' => Committed(b) \/ Verify(b)
    /\ Committed(b)' => terms'[b] = terms[b]
    /\ b \in spent => b \in spent' \/ Verify(b)

LEMMA CalmAhead ==
    ASSUME IInv, NEW b \in Requests,
           \/ OfferKnownFee(b) \/ OfferQuotedFee(b) \/ OfferFails(b)
           \/ Carry(b) \/ Compose(b) \/ ComposeFails(b) \/ NotVerified(b)
           \/ (\E own \in OwnTerms : PayOther(b, own)) \/ (\E s \in Requests : PayAgain(b, s))
    PROVE  UNCHANGED funds /\ \A s \in Requests : Calm(s)
<1>1. /\ step[b] \in {"idle", "offered", "carried", "composed"}
      /\ \E to \in {"offered", "carried", "composed", "failed"} : step' = [step EXCEPT ![b] = to]
      /\ UNCHANGED outcomeVars /\ UNCHANGED <<funds, spent>>
  BY DEF OfferKnownFee, OfferQuotedFee, MakeOffer, OfferFails, Carry, Compose, ComposeFails,
         PayOther, PayAgain, NotVerified, Goes, aroundVars
<1>2. step \in [Requests -> Steps] /\ request[b] = "new"
  BY <1>1 DEF IInv, TypeOK, NotYetAsked, Early
<1>3. ASSUME NEW s \in Requests \ {b} PROVE terms'[s] = terms[s]
  BY <1>3 DEF IInv, TypeOK, OfferKnownFee, OfferQuotedFee, MakeOffer, OfferFails, Carry, Compose,
              ComposeFails, PayOther, PayAgain, Pay, NotVerified, Payment
<1>. QED  BY <1>1, <1>2, <1>3 DEF Calm, Committed, outcomeVars

LEMMA CalmServer ==
    ASSUME IInv, NEW b \in Requests,
           Verify(b) \/ Handle(b) \/ BeginSettle(b) \/ EndSettle(b) \/ GiveUp(b)
    PROVE  UNCHANGED funds /\ \A s \in Requests : Calm(s)
<1>1. /\ UNCHANGED <<outcomeVars, terms, funds>> /\ step \in [Requests -> Steps]
      /\ spent' = spent \/ (Verify(b) /\ spent' = spent \ {b})
  BY DEF Verify, Handle, BeginSettle, EndSettle, GiveUp, Middleware, IInv, TypeOK, Payment,
         aroundVars
<1>2. ASSUME NEW s \in Requests, Committed(s)' PROVE Committed(s) \/ Verify(s)
  <2>1. CASE Verify(b)
    BY <1>1, <1>2, <2>1 DEF Verify, Goes, Committed, outcomeVars
  <2>2. CASE Handle(b) \/ BeginSettle(b) \/ EndSettle(b) \/ GiveUp(b)
    BY <1>1, <1>2, <2>2
       DEF Handle, BeginSettle, EndSettle, GiveUp, Middleware, Goes, Committed, outcomeVars
  <2>. QED  BY <2>1, <2>2
<1>3. ASSUME NEW s \in Requests, s \in spent PROVE s \in spent' \/ Verify(s)
  BY <1>1, <1>3
<1>. QED  BY <1>1, <1>2, <1>3 DEF Calm, outcomeVars

LEMMA CalmFacilitator ==
    ASSUME IInv, NEW b \in Requests,
           RefuseRequest(b) \/ AdmitRequest(b) \/ Transact(b) \/ RespondRequest(b)
    PROVE  UNCHANGED funds /\ \A s \in Requests : Calm(s)
<1>1. /\ UNCHANGED buyVars /\ UNCHANGED <<funds, spent>>
      /\ \A s \in Requests : request'[s] # "new" => request[s] # "new" \/ (s = b /\ Posted(b))
      /\ \/ UNCHANGED tx
         \/ tx[b] = "none" /\ tx' = [tx EXCEPT ![b] = "pending"]
      /\ tx \in [Requests -> {"none", "pending", "success", "reverted"}]
  BY DEF RefuseRequest, Refuse, AdmitRequest, Admit, Transact, Broadcast, RespondRequest, Respond,
         IInv, TypeOK, aroundVars
<1>. QED  BY <1>1 DEF Calm, Committed, Posted, buyVars

LEMMA CalmAround ==
    ASSUME \/ Tick \/ RequirementMoves \/ QuoteExpires \/ UNCHANGED vars
           \/ HookTurns \/ (\E b \in Requests : UseElsewhere(b))
    PROVE  UNCHANGED funds /\ \A s \in Requests : Calm(s)
BY DEF Tick, RequirementMoves, QuoteExpires, HookTurns, UseElsewhere, vars, outcomeVars, buyVars,
       aroundVars, Calm, Committed

LEMMA CalmKeeps ==
    ASSUME IInv, StaysFunded, UNCHANGED funds, \A s \in Requests : Calm(s)
    PROVE  StaysFunded'
<1>. SUFFICES ASSUME NEW b \in Requests, Committed(b)', tx'[b] # "success"
              PROVE  terms'[b].amount <= funds[Payer(b)] \/ b \in spent'
  BY DEF StaysFunded, Payer
<1>1. tx[b] # "success" /\ terms'[b] = terms[b]
  BY DEF Calm
<1>2. CASE Verify(b)
  <2>1. terms[b] \in Terms /\ funds[Payer(b)] \in Nat
    BY <1>2, PayerTyped DEF IInv, TypeOK, AskedIsSigned, OffersOwn, Verify, Goes
  <2>2. terms[b].amount \in Nat /\ terms[b].fee \in Nat
    BY <2>1 DEF Terms
  <2>3. \/ funds[Payer(b)] >= terms[b].amount
        \/ funds[Payer(b)] >= terms[b].amount + terms[b].fee
    BY <1>2 DEF Verify, RouterVerifies, StandardVerifies
  <2>. QED  BY <1>1, <2>1, <2>2, <2>3
<1>3. CASE Committed(b) /\ ~ Verify(b)
  BY <1>1, <1>3 DEF StaysFunded, Calm
<1>. QED  BY <1>2, <1>3 DEF Calm

\* Money that a payer spends is written down for all its other purchases.
LEMMA SpendingKeeps ==
    ASSUME IInv, StaysFunded, NEW p \in Payers, NEW except,
           \A s \in Requests : Payer(s) # p => funds'[Payer(s)] = funds[Payer(s)],
           Spent(p, except),
           \A s \in except : tx'[s] = "success",
           \A s \in Requests : tx[s] = "success" => tx'[s] = "success",
           UNCHANGED <<step, request, terms>>
    PROVE  StaysFunded'
<1>. SUFFICES ASSUME NEW b \in Requests, Committed(b)', tx'[b] # "success"
              PROVE  terms[b].amount <= funds'[Payer(b)] \/ b \in spent'
  BY DEF StaysFunded, Payer
<1>1. CASE Payer(b) = p
  BY <1>1 DEF Spent
<1>2. CASE Payer(b) # p
  <2>1. Committed(b) /\ tx[b] # "success" /\ (b \in spent => b \in spent')
    BY DEF Committed, Spent
  <2>. QED  BY <1>2, <2>1 DEF StaysFunded
<1>. QED  BY <1>1, <1>2

LEMMA MiningKeeps ==
    ASSUME IInv, StaysFunded, NEW b \in Requests, MineTransaction(b)
    PROVE  StaysFunded'
<1>1. PICK fate \in {"success", "reverted"} : tx' = [tx EXCEPT ![b] = fate]
  BY DEF MineTransaction, Mine
<1>2. /\ tx[b] = "pending" /\ UNCHANGED <<request, step, terms>>
      /\ tx \in [Requests -> {"none", "pending", "success", "reverted"}]
  BY DEF MineTransaction, Mine, IInv, TypeOK, buyVars
<1>3. CASE Executes(b)
  <2>1. tx'[b] = "success"
    BY <1>1, <1>2, <1>3 DEF MineTransaction
  <2>2. funds' = [funds EXCEPT ![Payer(b)] = @ - terms[b].amount] /\ Spent(Payer(b), {b})
    BY <1>3 DEF MineTransaction
  <2>3. \A s \in Requests : Payer(s) # Payer(b) => funds'[Payer(s)] = funds[Payer(s)]
    BY <2>2, PayerTyped DEF IInv, TypeOK
  <2>. QED  BY <1>1, <1>2, <2>1, <2>2, <2>3, PayerTyped, SpendingKeeps
<1>4. CASE ~ Executes(b)
  <2>1. UNCHANGED <<funds, spent>>
    BY <1>4 DEF MineTransaction
  <2>2. \A s \in Requests : Calm(s)
    BY <1>1, <1>2, <2>1 DEF Calm, Committed
  <2>. QED  BY <2>1, <2>2, CalmKeeps
<1>. QED  BY <1>3, <1>4

LEMMA FundedInductive == ASSUME IInv, StaysFunded, [RouteNext]_vars PROVE StaysFunded'
<1>1. ASSUME NEW p \in Payers, SpendElsewhere(p) PROVE StaysFunded'
  <2>1. Spent(p, {}) /\ UNCHANGED <<step, request, tx, terms>>
    BY <1>1 DEF SpendElsewhere, outcomeVars, buyVars
  <2>2. \A s \in Requests : Payer(s) # p => funds'[Payer(s)] = funds[Payer(s)]
    BY <1>1, PayerTyped DEF SpendElsewhere, IInv, TypeOK
  <2>. QED  BY <2>1, <2>2, SpendingKeeps
<1>2. CASE UNCHANGED funds /\ \A s \in Requests : Calm(s)
  BY <1>2, CalmKeeps
<1>. QED  BY <1>1, <1>2, MiningKeeps, CalmAhead, CalmServer, CalmFacilitator, CalmAround
          DEF RouteNext

\* Verification is worth something: for any number of purchases, payers that spend, cancel
\* and use authorizations elsewhere, and hooks that fail, a verified payment never fails on
\* chain for want of money that was there and has not been spent since, and otherwise only
\* for the reasons that verification does not look at (facilitator.ts:455).
THEOREM FailuresExplained == RouteSpec => VerifiedFailsForReason
<1>1. RouteInit => StaysFunded
  BY DEF RouteInit, Init, StaysFunded, Committed
<1>2. IInv /\ StaysFunded /\ [RouteNext]_vars => StaysFunded'
  BY FundedInductive
<1>3. ASSUME IInv, StaysFunded, [RouteNext]_vars, NEW b \in Requests,
             tx[b] = "pending", tx'[b] = "reverted"
      PROVE  \/ clock >= validBefore[b]
             \/ ~ hookWorks
             \/ Nonce(b) \in used \/ SettledBefore(b)
             \/ b \in spent
             \/ Mixed(b) /\ ~ config.hooked
             \/ /\ composer[b] # "library"
                /\ composer[b] = "stray" \/ terms[b].fee > terms[b].amount
  <2>1. tx \in [Requests -> {"none", "pending", "success", "reverted"}]
    BY <1>3 DEF IInv, TypeOK
  <2>2. ~ Executes(b)
    <3>1. PICK s \in Requests : Transact(s) \/ MineTransaction(s)
      BY <1>3 DEF RouteNext, vars, outcomeVars, OfferKnownFee, OfferQuotedFee, OfferFails,
           MakeOffer, Carry, Compose, ComposeFails, PayOther, PayAgain, Verify, NotVerified,
           Handle, BeginSettle, EndSettle, GiveUp, Middleware, Tick, RequirementMoves,
           QuoteExpires, HookTurns, SpendElsewhere, UseElsewhere, RefuseRequest, Refuse,
           AdmitRequest, Admit, RespondRequest, Respond
    <3>2. s = b /\ MineTransaction(b)
      BY <1>3, <2>1, <3>1 DEF Transact, Broadcast, MineTransaction, Mine
    <3>. QED  BY <1>3, <3>2 DEF MineTransaction
  <2>3. request[b] # "new" /\ signed[b] # NoOffer /\ terms[b] # NoOffer
    BY <1>3 DEF IInv, Untouched, AskedIsSigned, OffersOwn
  <2>4. /\ clock \in Nat /\ validBefore[b] \in Nat /\ funds[Payer(b)] \in Nat
        /\ terms[b].amount \in Nat /\ terms[b].fee \in Nat
    BY <1>3, <2>3, PaidRouteAssumption, PayerTyped DEF IInv, TypeOK, Terms
  <2>5. CASE Mixed(b)
    BY <1>3, <2>3, <2>5 DEF IInv, MixUpsStay
  <2>6. CASE terms[b].fee > terms[b].amount
    <3>1. composer[b] # "library"
      <4>1. ASSUME composer[b] = "library" PROVE FALSE
        <5>1. terms[b] \in Offers
          BY <1>3, <2>3, <4>1 DEF IInv, OffersOwn, TypeOK
        <5>2. terms[b].fee \in Fees /\ terms[b].amount = Price
          BY <5>1 DEF Offers
        <5>3. terms[b].fee \in 1 .. Price /\ Price \in Nat
          BY <5>2, PaidRouteAssumption
        <5>. QED  BY <2>6, <5>2, <5>3
      <4>. QED  BY <4>1
    <3>. QED  BY <2>6, <3>1
  <2>7. CASE composer[b] = "stray"
    BY <2>7
  <2>8. CASE ~ (terms[b].amount <= funds[Payer(b)])
    BY <1>3, <2>3, <2>8 DEF StaysFunded, Committed
  <2>9. CASE ~ (clock < validBefore[b])
    BY <2>4, <2>9
  <2>10. CASE ~ (terms[b].fee <= terms[b].amount)
    BY <2>4, <2>6, <2>10
  <2>. QED  BY <2>2, <2>5, <2>7, <2>8, <2>9, <2>10 DEF Executes, Settleable
<1>4. IInv /\ StaysFunded /\ [RouteNext]_vars =>
        \A b \in Requests :
          tx[b] = "pending" /\ tx'[b] = "reverted" =>
              \/ clock >= validBefore[b]
              \/ ~ hookWorks
              \/ Nonce(b) \in used \/ SettledBefore(b)
              \/ b \in spent
              \/ Mixed(b) /\ ~ config.hooked
              \/ /\ composer[b] # "library"
                 /\ composer[b] = "stray" \/ terms[b].fee > terms[b].amount
  BY <1>3
<1>. QED  BY <1>1, <1>2, <1>4, Inductive, PTL DEF RouteSpec, VerifiedFailsForReason

=============================================================================
