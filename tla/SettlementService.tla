------------------------- MODULE SettlementService --------------------------
(***************************************************************************)
(* A settle request in the facilitator: routes/settle.ts hands it to the   *)
(* router settlement service, which runs it as a job of the account pool;  *)
(* the job (facilitator-sdk/settlement.ts) checks the payer's balance,     *)
(* sends the transaction and waits for its receipt.  The chain mines an    *)
(* account's transactions in the order they were sent, at any time or not  *)
(* at all, and the router settles a payment at most once.                  *)
(*                                                                         *)
(* Around the facilitator the payer is free: it spends its tokens, it uses *)
(* an authorization itself or cancels it, and it has a payment settled by  *)
(* somebody else, at any moment, between the balance check and the sending *)
(* of the transaction too.                                                 *)
(*                                                                         *)
(* Requests that carry the same payment are retries of one authorization.  *)
(***************************************************************************)
EXTENDS AccountPool, UnitCounting

CONSTANTS
    PaymentOf,       \* [Requests -> payments]
    Acceptable,      \* requests that parse and name a whitelisted router
    InitialFunds,    \* [payers -> Nat]
    Strays,          \* payments that may be used without this facilitator
    MaxElsewhere,    \* bound on what a payer spends without this facilitator
    MaxTime          \* bound on the block timestamp

\* A payment's value includes the facilitator's fee.
PaymentFields(p) ==
    DOMAIN p = {"payer", "value", "fee", "validBefore", "salt"}
    /\ p.payer \in DOMAIN InitialFunds
    /\ p.value \in Nat /\ p.fee \in Nat /\ p.fee <= p.value /\ p.validBefore \in Nat

ASSUME ServiceAssumption ==
    /\ DOMAIN PaymentOf = Requests
    /\ \A r \in Requests : PaymentFields(PaymentOf[r]) /\ PayerOf[r] = PaymentOf[r].payer
    /\ Acceptable \subseteq Requests
    /\ InitialFunds \in [DOMAIN InitialFunds -> Nat]
    /\ NoPayer \notin DOMAIN InitialFunds
    /\ Strays \subseteq {PaymentOf[r] : r \in Requests}
    /\ MaxElsewhere \in Nat
    /\ MaxTime \in Nat

VARIABLES
    phase,       \* phase[request]: how far its job is
    response,    \* response[request]: what its job returned
    tx,          \* tx[request]: its transaction
    mempool,     \* mempool[account]: the requests whose transactions are not mined
    settled,     \* payments the router has settled, for whomever
    taken,       \* payments whose value a transaction of a request has taken
    strayed,     \* payments whose authorization was used without this facilitator
    funds,       \* funds[payer]: token balance
    elsewhere,   \* elsewhere[payer]: what it has spent without this facilitator
    clock,       \* block timestamp
    checkedAt    \* checkedAt[request]: elsewhere of its payer at its balance check

chainVars == <<tx, mempool, settled, taken, strayed, funds, elsewhere, clock>>
vars == <<poolVars, phase, response, checkedAt, chainVars>>

\* "funded": the balance check passed; "unchecked": it could not be made.
Phases == {"start", "funded", "unchecked", "waiting", "end"}

\* "no_hash": failed, transaction ""; "insufficient": so by the balance check.
Responses == {"none", "success", "reverted", "no_hash", "insufficient"}

ServiceTypeOK ==
    /\ TypeOK
    /\ phase \in [Requests -> Phases]
    /\ response \in [Requests -> Responses]
    /\ tx \in [Requests -> {"none", "pending", "success", "reverted"}]
    /\ mempool \in [Accounts -> Seq(Requests)]
    /\ settled \subseteq {PaymentOf[r] : r \in Requests}
    /\ taken \subseteq settled
    /\ strayed \subseteq Strays
    /\ funds \in [DOMAIN InitialFunds -> Nat]
    /\ elsewhere \in [DOMAIN InitialFunds -> Nat]
    /\ clock \in 0 .. MaxTime
    /\ checkedAt \in [Requests -> Nat]

ServiceInit ==
    /\ Init
    /\ phase = [r \in Requests |-> "start"]
    /\ response = [r \in Requests |-> "none"]
    /\ tx = [r \in Requests |-> "none"]
    /\ mempool = [a \in Accounts |-> <<>>]
    /\ settled = {}
    /\ taken = {}
    /\ strayed = {}
    /\ funds = InitialFunds
    /\ elsewhere = [payer \in DOMAIN InitialFunds |-> 0]
    /\ clock = 0
    /\ checkedAt = [r \in Requests |-> 0]

-----------------------------------------------------------------------------
(* The pool, when it acts without the job *)

Pool(A) == A /\ UNCHANGED <<phase, response, checkedAt, chainVars>>

Handle(r) == Pool(Execute(r))

Answer(r) == Pool(Release(r))

-----------------------------------------------------------------------------
(* executeSettlementWithWalletClient, from one await to the next *)

\* The job of account a is that of request r and has got to phase ph.
Running(a, r, ph) == active[a] = r /\ status[r] = "running" /\ phase[r] = ph

\* The job ends with the given response; a failure is a response too, so the pool
\* counts the job as processed.
End(a, r, resp) ==
    /\ Return(a, TRUE)
    /\ phase' = [phase EXCEPT ![r] = "end"]
    /\ response' = [response EXCEPT ![r] = resp]
    /\ UNCHANGED checkedAt

Proceed(r, ph) ==
    /\ phase' = [phase EXCEPT ![r] = ph]
    /\ UNCHANGED <<poolVars, response, checkedAt>>

\* Parameters that do not parse or a router that is not whitelisted.
Refuse(a, r) ==
    /\ Running(a, r, "start")
    /\ r \notin Acceptable
    /\ End(a, r, "no_hash")
    /\ UNCHANGED chainVars

\* The service cannot set the job up (no client for the network): it throws.
Throw(a, r) ==
    /\ Running(a, r, "start")
    /\ Return(a, FALSE)
    /\ phase' = [phase EXCEPT ![r] = "end"]
    /\ response' = [response EXCEPT ![r] = "no_hash"]
    /\ UNCHANGED <<checkedAt, chainVars>>

\* What the balance check requires.
Required(p) == p.value + p.fee

BalanceSuffices(r) ==
    /\ phase' = [phase EXCEPT ![r] = "funded"]
    /\ checkedAt' = [checkedAt EXCEPT ![r] = elsewhere[PayerOf[r]]]
    /\ UNCHANGED <<poolVars, response>>

CheckBalance(a, r) ==
    /\ Running(a, r, "start")
    /\ r \in Acceptable
    /\ IF funds[PayerOf[r]] < Required(PaymentOf[r])
       THEN End(a, r, "insufficient")
       ELSE BalanceSuffices(r)
    /\ UNCHANGED chainVars

\* The balance cannot be read: the transaction is sent all the same.
BalanceUnknown(a, r) ==
    /\ Running(a, r, "start")
    /\ r \in Acceptable
    /\ Proceed(r, "unchecked")
    /\ UNCHANGED chainVars

Broadcast(a, r) ==
    /\ tx' = [tx EXCEPT ![r] = "pending"]
    /\ mempool' = [mempool EXCEPT ![a] = Append(@, r)]
    /\ UNCHANGED <<settled, taken, strayed, funds, elsewhere, clock>>

\* writeContract returns a hash.
Send(a, r) ==
    /\ Running(a, r, "funded") \/ Running(a, r, "unchecked")
    /\ Broadcast(a, r)
    /\ Proceed(r, "waiting")

\* writeContract throws, before the node has the transaction or after.
SendFails(a, r) ==
    /\ Running(a, r, "funded") \/ Running(a, r, "unchecked")
    /\ UNCHANGED chainVars \/ Broadcast(a, r)
    /\ End(a, r, "no_hash")

\* Mutant: a receipt is taken for a success without a look at its status.
AnyReceiptSucceeds(r) == "success"

ReceiptResponse(r) == tx[r]

Receipt(a, r) ==
    /\ Running(a, r, "waiting")
    /\ tx[r] # "pending"
    /\ End(a, r, ReceiptResponse(r))
    /\ UNCHANGED chainVars

\* Mutant: the wait for a receipt has no limit.
ReceiptTimeoutOnceMined(a, r) ==
    /\ Running(a, r, "waiting")
    /\ tx[r] # "pending"
    /\ End(a, r, "no_hash")
    /\ UNCHANGED chainVars

\* No receipt within timeoutMs, or none that could be read: the hash is dropped.
ReceiptTimeout(a, r) ==
    /\ Running(a, r, "waiting")
    /\ End(a, r, "no_hash")
    /\ UNCHANGED chainVars

Job(a, r) ==
    \/ Refuse(a, r) \/ Throw(a, r)
    \/ CheckBalance(a, r) \/ BalanceUnknown(a, r)
    \/ Send(a, r) \/ SendFails(a, r)
    \/ Receipt(a, r) \/ ReceiptTimeout(a, r)

-----------------------------------------------------------------------------
(* The chain *)

\* The token has carried out a message with the nonce of p.
Used(p) == p \in taken \cup strayed

\* The token lets the router pull the value of p.
Pullable(p) ==
    /\ ~ Used(p)
    /\ clock < p.validBefore
    /\ p.value <= funds[p.payer]

\* Mutant: the router does not mark payments as settled.
SettlesAgain(p) == Used(p) \/ Pullable(p)

\* What the router requires of a transaction: a payment whose authorization was used
\* elsewhere is settled from what the router holds (the recovery flow).
Settles(p) == p \notin settled /\ (Used(p) \/ Pullable(p))

\* The payer of p pays its value, unless its authorization was used before.
Take(p) ==
    IF Used(p)
    THEN UNCHANGED <<taken, funds>>
    ELSE /\ taken' = taken \cup {p}
         /\ funds' = [funds EXCEPT ![p.payer] = @ - p.value]

\* The next transaction of account a is mined.  Even one that the router could settle
\* may revert: in the hook, for want of gas, or because the router does not hold the
\* value of an authorization used elsewhere.
Mine(a) ==
    /\ mempool[a] # <<>>
    /\ LET r == Head(mempool[a])
           p == PaymentOf[r]
       IN  \/ /\ Settles(p)
              /\ tx' = [tx EXCEPT ![r] = "success"]
              /\ settled' = settled \cup {p}
              /\ Take(p)
           \/ /\ tx' = [tx EXCEPT ![r] = "reverted"]
              /\ UNCHANGED <<settled, taken, funds>>
    /\ mempool' = [mempool EXCEPT ![a] = Tail(@)]
    /\ UNCHANGED <<poolVars, phase, response, checkedAt, strayed, elsewhere, clock>>

TimePasses ==
    /\ clock < MaxTime
    /\ clock' = clock + 1
    /\ UNCHANGED <<poolVars, phase, response, checkedAt, tx, mempool, settled, taken,
                   strayed, funds, elsewhere>>

-----------------------------------------------------------------------------
(* What the payer does without this facilitator *)

\* The payer parts with an amount of its tokens.
Lose(payer, amount) ==
    /\ amount <= funds[payer]
    /\ elsewhere[payer] + amount <= MaxElsewhere
    /\ funds' = [funds EXCEPT ![payer] = @ - amount]
    /\ elsewhere' = [elsewhere EXCEPT ![payer] = @ + amount]
    /\ UNCHANGED <<poolVars, phase, response, checkedAt, tx, mempool, taken, clock>>

\* A plain transfer.
SpendElsewhere(payer) ==
    /\ \E amount \in 1 .. funds[payer] : Lose(payer, amount)
    /\ UNCHANGED <<settled, strayed>>

\* The token carries out a message with the nonce of p that no facilitator of the router
\* sent: the payment itself, handed to the token directly, another transfer, or the
\* cancellation of the authorization.
UseElsewhere(p) ==
    /\ ~ Used(p)
    /\ \E amount \in 0 .. funds[p.payer] : Lose(p.payer, amount)
    /\ strayed' = strayed \cup {p}
    /\ UNCHANGED settled

\* Another facilitator has the router settle p.
SettleElsewhere(p) ==
    /\ Settles(p)
    /\ Lose(p.payer, IF Used(p) THEN 0 ELSE p.value)
    /\ strayed' = strayed \cup {p}
    /\ settled' = settled \cup {p}

Around ==
    \/ \E payer \in DOMAIN InitialFunds : SpendElsewhere(payer)
    \/ \E p \in Strays : UseElsewhere(p) \/ SettleElsewhere(p)

ServiceNext ==
    \/ \E r \in Requests : Handle(r) \/ Answer(r)
    \/ \E a \in Accounts : \/ Pool(StartNext(a)) \/ Pool(FreeSlot(a))
                           \/ \E r \in Requests : Job(a, r)
                           \/ Mine(a)
    \/ TimePasses
    \/ Around

\* The event loop runs, and every await of a job ends, in a timeout at the latest.
\* Nothing is assumed of the chain or of the payers.
ServiceFairness ==
    /\ \A a \in Accounts : /\ WF_vars(Pool(StartNext(a)))
                           /\ WF_vars(Pool(FreeSlot(a)))
                           /\ WF_vars(\E r \in Requests : Job(a, r))
    /\ \A r \in Requests : WF_vars(Answer(r))

ServiceSpec == ServiceInit /\ [][ServiceNext]_vars /\ ServiceFairness

-----------------------------------------------------------------------------
(* Properties *)

\* What a response says is so: success is only reported of a payment that this very
\* transaction settled, and a failure with a hash only of a transaction that reverted,
\* however the receipt, the timeout and other retries of the payment interleave.
ResponsesTrue ==
    \A r \in Requests :
        /\ response[r] = "success" => tx[r] = "success" /\ PaymentOf[r] \in settled
        /\ response[r] = "reverted" => tx[r] = "reverted"
        /\ response[r] = "insufficient" => tx[r] = "none"

\* The requests with this payment whose transaction succeeded.
Successes(p) == {s \in Requests : PaymentOf[s] = p /\ tx[s] = "success"}

\* A payer is charged once for a payment, whatever number of requests carried it, in
\* whatever order their transactions are mined and whoever else uses the authorization
\* meanwhile: one transaction at the most succeeds, none if another facilitator settles
\* the payment; only a success takes its value; and what a payer has spent nowhere else
\* it is short of by exactly the payments taken.
ChargedOncePerPayment ==
    /\ \A r \in Requests : Cardinality(Successes(PaymentOf[r])) <= 1
    /\ \A p \in settled : Successes(p) = {} => p \in strayed
    /\ \A p \in taken : Successes(p) # {} /\ p \notin strayed
    /\ \A payer \in DOMAIN InitialFunds :
          funds[payer] + elsewhere[payer]
            + Total({p \in taken : p.payer = payer}, [p \in taken |-> p.value])
              = InitialFunds[payer]

\* A request given up without a hash whose transaction was sent.
Abandoned(r) == response[r] = "no_hash" /\ tx[r] # "none"

\* What the payer of r has spent without this facilitator since r was checked.
SpentSince(r) == elsewhere[PayerOf[r]] - checkedAt[r]

\* What the payer lock does for the balance check, and what it does not: between a passed
\* check and the sending of the transaction no other request takes the payer's funds,
\* except one that the facilitator had given up waiting for; but nothing stops the payer
\* from spending them elsewhere, and the check is never short by more than that.
FundsStayChecked ==
    \A r \in Requests :
        phase[r] = "funded" /\ status[r] = "running" =>
            \/ funds[PayerOf[r]] + SpentSince(r) >= Required(PaymentOf[r])
            \/ \E s \in Requests \ {r} : PayerOf[s] = PayerOf[r] /\ Abandoned(s)

\* How the sender of a request sees it: a request whose job is done is answered when
\* execute returns, and all failures without a hash look the same.
SeenAs(r) ==
    CASE status[r] = "new" -> "new"
      [] status[r] \in {"duplicate", "overloaded"} -> "refused"
      [] status[r] = "released" -> "answered"
      [] OTHER -> "accepted"

SeenAnswer(r) ==
    CASE SeenAs(r) = "refused" -> "refused"
      [] SeenAs(r) = "answered" -> IF response[r] \in {"success", "reverted"}
                                   THEN response[r] ELSE "failed"
      [] OTHER -> "none"

Outcome == INSTANCE SettleOutcome WITH
    request <- [r \in Requests |-> SeenAs(r)],
    answer <- [r \in Requests |-> SeenAnswer(r)]

\* Seen from outside, the service does to a request what module SettleOutcome says:
\* at most one transaction, none once it is answered, none for a refused request, and
\* an answer with a hash that agrees with the chain.
ImplementsOutcome == Outcome!Spec

=============================================================================
