------------------------------ MODULE Checkout ------------------------------
(***************************************************************************)
(* A payment from the application's button to the books: the client        *)
(* library's execute (client.ts, prepare.ts, sign.ts, settle.ts), the      *)
(* React hook that shows how it goes (useExecute.ts), the facilitator's    *)
(* checks in front of the settlement (hook-validation.ts,                  *)
(* fee-validation.ts, routes/settle.ts) and the records it keeps of        *)
(* settlements (transaction-record.ts).  What the settlement makes of an   *)
(* admitted request is module SettleOutcome.                               *)
(*                                                                         *)
(* An execution signs an authorization of its own (a fresh salt) and posts *)
(* one request; executions of one component may overlap.  The price of a   *)
(* settlement moves at any time.                                           *)
(*                                                                         *)
(* A request has two places for the hook and the fee: the requirements'    *)
(* extra, which the facilitator validates, and the payload's extensions,   *)
(* which it prefers when it settles.  The library fills only the first;    *)
(* other programs that post requests fill either, both or none.            *)
(***************************************************************************)
EXTENDS SettleOutcome, FeeRule

CONSTANTS
    PayerOf,        \* [Requests -> payers]
    Hooks,
    AllowedHooks,   \* the facilitator's whitelist
    Waits,          \* executions called with waitForConfirmation
    Fees,           \* fees that may come to be required
    OtherPosts,     \* requests as other programs may post them
    NoFee,          \* nothing cached
    NoHook,         \* none chosen yet, or an extra that is not of settlement mode
    NoTerms,        \* a payload without the router's extension
    NoExecution

Terms == [hook: Hooks, fee: Fees \cup {0}]

ASSUME CheckoutAssumption ==
    /\ DOMAIN PayerOf = Requests
    /\ AllowedHooks \subseteq Hooks
    /\ Waits \subseteq Requests
    /\ Fees \subseteq Nat \ {0} /\ Fees # {}
    /\ NoFee \notin Nat
    /\ OtherPosts \subseteq [hook: Hooks \cup {NoHook}, fee: Fees \cup {0},
                             extension: Terms \cup {NoTerms}]
    /\ NoExecution \notin Requests /\ NoHook \notin Hooks /\ NoTerms \notin Terms

VARIABLES
    phase,       \* phase[execution]: how far execute is, see Phases
    reason,      \* reason[execution]: why it failed
    hook,        \* hook[request]: the hook in its requirements
    fee,         \* fee[request]: the facilitator fee in its requirements
    extension,   \* extension[request]: both as its payload's extension has them
    feeCache,    \* feeCache[hook]: the client's cached fee quote
    required,    \* the facilitator's minimum fee at present
    record,      \* record[request]: what the facilitator has noted of it
    shown        \* the state of the component: its status, result and error

clientVars == <<phase, reason, hook, fee, extension, feeCache, shown>>
vars == <<outcomeVars, clientVars, required, record>>

\* "settling": it waits for the headers of the answer; "reading": for its body;
\* "posted": it is not an execution but the request of another program.
Phases == {"idle", "quoting", "signing", "settling", "reading", "confirming", "succeeded",
           "failed", "posted"}

\* "lost": the body of the answer did not arrive whole.
Reasons == {"none", "rejected", "timeout", "lost", "refused", "reverted", "failed",
            "unconfirmed"}

\* "due": the answer has been sent; "counted": in the hook's statistics; "listed": in
\* the transactions as well.
Records == {"none", "due", "counted", "listed"}

TypeOK ==
    /\ request \in [Requests -> RequestStates]
    /\ answer \in [Requests -> Answers]
    /\ tx \in [Requests -> {"none", "pending", "success", "reverted"}]
    /\ phase \in [Requests -> Phases]
    /\ reason \in [Requests -> Reasons]
    /\ hook \in [Requests -> Hooks \cup {NoHook}]
    /\ fee \in [Requests -> Fees \cup {0}]
    /\ extension \in [Requests -> Terms \cup {NoTerms}]
    /\ feeCache \in [Hooks -> Fees \cup {NoFee}]
    /\ required \in Fees
    /\ record \in [Requests -> Records]
    /\ shown \in [status: {"idle", "preparing", "success", "error"},
                  result: Requests \cup {NoExecution},
                  error: Requests \cup {NoExecution}]

CheckoutInit ==
    /\ Init
    /\ phase = [e \in Requests |-> "idle"]
    /\ reason = [e \in Requests |-> "none"]
    /\ hook = [e \in Requests |-> NoHook]
    /\ fee = [e \in Requests |-> 0]
    /\ extension = [e \in Requests |-> NoTerms]
    /\ feeCache = [h \in Hooks |-> NoFee]
    /\ required \in Fees
    /\ record = [e \in Requests |-> "none"]
    /\ shown = [status |-> "idle", result |-> NoExecution, error |-> NoExecution]

-----------------------------------------------------------------------------
(* execute, as the component sees it end *)

Enter(e, ph) == phase' = [phase EXCEPT ![e] = ph]

Succeed(e) ==
    /\ Enter(e, "succeeded")
    /\ shown' = [shown EXCEPT !.status = "success", !.result = e]
    /\ UNCHANGED <<reason, hook, fee, extension, feeCache>>

\* An error of any step is thrown through execute into the component.
Fail(e, why) ==
    /\ Enter(e, "failed")
    /\ reason' = [reason EXCEPT ![e] = why]
    /\ shown' = [shown EXCEPT !.status = "error", !.error = e]
    /\ UNCHANGED <<hook, fee, extension, feeCache>>

-----------------------------------------------------------------------------
(* prepareSettlement and signAuthorization *)

\* The component starts an execution with hook h, whether or not another is under way.
\* The fee is the caller's own, or is taken from the cache, or has to be asked for.
Start(e, h) ==
    /\ phase[e] = "idle"
    /\ hook' = [hook EXCEPT ![e] = h]
    /\ shown' = [status |-> "preparing", result |-> NoExecution, error |-> NoExecution]
    /\ \/ Enter(e, "signing") /\ \E f \in Fees \cup {0} : fee' = [fee EXCEPT ![e] = f]
       \/ /\ feeCache[h] # NoFee
          /\ Enter(e, "signing") /\ fee' = [fee EXCEPT ![e] = feeCache[h]]
       \/ feeCache[h] = NoFee /\ Enter(e, "quoting") /\ UNCHANGED fee
    /\ UNCHANGED <<outcomeVars, reason, extension, feeCache, required, record>>

\* Parameters that are not valid.
StartInvalid(e) ==
    /\ phase[e] = "idle"
    /\ Enter(e, "failed")
    /\ reason' = [reason EXCEPT ![e] = "rejected"]
    /\ shown' = [status |-> "error", result |-> NoExecution, error |-> e]
    /\ UNCHANGED <<outcomeVars, hook, fee, extension, feeCache, required, record>>

\* The facilitator quotes the fee it requires at present.
FeeQuoted(e) ==
    /\ phase[e] = "quoting"
    /\ hook[e] \in AllowedHooks
    /\ Enter(e, "signing")
    /\ fee' = [fee EXCEPT ![e] = required]
    /\ feeCache' = [feeCache EXCEPT ![hook[e]] = required]
    /\ UNCHANGED <<outcomeVars, reason, hook, extension, shown, required, record>>

\* The query fails, or answers that the hook is not allowed: the execution goes on
\* with no fee.
FeeUnknown(e) ==
    /\ phase[e] = "quoting"
    /\ Enter(e, "signing")
    /\ fee' = [fee EXCEPT ![e] = 0]
    /\ UNCHANGED <<outcomeVars, reason, hook, extension, feeCache, shown, required, record>>

\* The payer signs and the request is on its way: hook and fee in its requirements, no
\* extension.
Sign(e) ==
    /\ phase[e] = "signing"
    /\ Enter(e, "settling")
    /\ UNCHANGED <<outcomeVars, reason, hook, fee, extension, feeCache, shown, required,
                   record>>

Reject(e) ==
    /\ phase[e] = "signing"
    /\ Fail(e, "rejected")
    /\ UNCHANGED <<outcomeVars, required, record>>

\* A quote is cached for a minute.
QuoteExpires(h) ==
    /\ feeCache' = [feeCache EXCEPT ![h] = NoFee]
    /\ UNCHANGED <<outcomeVars, phase, reason, hook, fee, extension, shown, required, record>>

RequirementMoves ==
    /\ required' \in Fees
    /\ UNCHANGED <<outcomeVars, clientVars, record>>

\* Another program posts a request.
PostOther(e, p) ==
    /\ phase[e] = "idle"
    /\ Enter(e, "posted")
    /\ hook' = [hook EXCEPT ![e] = p.hook]
    /\ fee' = [fee EXCEPT ![e] = p.fee]
    /\ extension' = [extension EXCEPT ![e] = p.extension]
    /\ UNCHANGED <<outcomeVars, reason, feeCache, shown, required, record>>

-----------------------------------------------------------------------------
(* The facilitator's POST /settle *)

\* The request has been sent, whether or not its sender still waits.
Posted(e) ==
    \/ phase[e] \in {"settling", "reading", "confirming", "succeeded", "posted"}
    \/ phase[e] = "failed" /\ reason[e] # "rejected"

\* Another request of the payer is in the account pools.
Busy(e) == \E s \in Requests \ {e} : PayerOf[s] = PayerOf[e] /\ request[s] = "accepted"

\* Mutant: an empty fee passes.
PassesWithoutFee(e) ==
    hook[e] \in AllowedHooks /\ (fee[e] = 0 \/ FeeSuffices(fee[e], required))

SettlementMode(e) == hook[e] # NoHook

\* What the hook and the fee validation let through: they look at the requirements, and
\* at nothing if these are not of settlement mode.
Passes(e) == SettlementMode(e) => hook[e] \in AllowedHooks /\ FeeSuffices(fee[e], required)

InRequirements(e) == [hook |-> hook[e], fee |-> fee[e]]

\* Parameters for the settlement are found.
Parses(e) == extension[e] # NoTerms \/ SettlementMode(e)

\* The parameters it is settled with: those of the extension come first.
SettledWith(e) == IF extension[e] # NoTerms THEN extension[e] ELSE InRequirements(e)

\* Rate limiter, hook, fee, duplicate payer, full queue or no pool: refused ahead of
\* the job.
RefuseRequest(e) ==
    /\ Posted(e)
    /\ Refuse(e)
    /\ UNCHANGED <<clientVars, required, record>>

AdmitRequest(e) ==
    /\ Posted(e)
    /\ Passes(e)
    /\ ~ Busy(e)
    /\ Admit(e)
    /\ UNCHANGED <<clientVars, required, record>>

\* The job's transaction.
Transact(e) ==
    /\ (Parses(e) /\ Broadcast(e)) \/ Mine(e)
    /\ UNCHANGED <<clientVars, required, record>>

\* Mutant: a settlement is noted whatever its answer.
NoteEveryAnswer(e) == record' = [record EXCEPT ![e] = "due"]

\* The answer is inspected on its way out and noted if it names a transaction.
NoteAnswer(e) ==
    record' = IF answer'[e] \in {"success", "reverted"}
              THEN [record EXCEPT ![e] = "due"] ELSE record

RespondRequest(e) ==
    /\ Respond(e)
    /\ NoteAnswer(e)
    /\ UNCHANGED <<clientVars, required>>

\* recodeTransaction, not awaited by the answer: the hook's statistics first, and the
\* transaction only if they were written.  Either may fail, or the process end, and is
\* not tried again.
CountHook(e) ==
    /\ record[e] = "due"
    /\ record' = [record EXCEPT ![e] = "counted"]
    /\ UNCHANGED <<outcomeVars, clientVars, required>>

ListTransaction(e) ==
    /\ record[e] = "counted"
    /\ record' = [record EXCEPT ![e] = "listed"]
    /\ UNCHANGED <<outcomeVars, clientVars, required>>

-----------------------------------------------------------------------------
(* settle and waitForTransaction *)

\* Mutant: any answer with the status 200 counts as success.
SettledAnswers200 == {"success", "reverted", "failed"}

\* The answers that settle does not throw on.
SettledAnswers == {"success"}

\* The headers of the answer arrive in time, and the timer is cleared.
ReceiveHeaders(e) ==
    /\ phase[e] = "settling"
    /\ answer[e] # "none"
    /\ Enter(e, "reading")
    /\ UNCHANGED <<outcomeVars, reason, hook, fee, extension, feeCache, shown, required,
                   record>>

\* The body arrives, whenever it does.
Receive(e) ==
    /\ phase[e] = "reading"
    /\ IF answer[e] \notin SettledAnswers THEN Fail(e, answer[e])
       ELSE IF e \in Waits
            THEN /\ Enter(e, "confirming")
                 /\ UNCHANGED <<reason, hook, fee, extension, feeCache, shown>>
            ELSE Succeed(e)
    /\ UNCHANGED <<outcomeVars, required, record>>

\* The connection is lost under it.
ReceiveFails(e) ==
    /\ phase[e] = "reading"
    /\ Fail(e, "lost")
    /\ UNCHANGED <<outcomeVars, required, record>>

\* Mutant: the wait for the answer has no limit.
TimeoutOnceAnswered(e) ==
    /\ phase[e] = "settling"
    /\ answer[e] # "none"
    /\ Fail(e, "timeout")
    /\ UNCHANGED <<outcomeVars, required, record>>

\* Mutant: every failure of the request is taken for a refusal.
TimeoutAsRefusal(e) ==
    /\ phase[e] = "settling"
    /\ Fail(e, "refused")
    /\ UNCHANGED <<outcomeVars, required, record>>

\* No headers in time, or no connection: the request may still be on its way.
Timeout(e) ==
    /\ phase[e] = "settling"
    /\ Fail(e, "timeout")
    /\ UNCHANGED <<outcomeVars, required, record>>

Confirm(e) ==
    /\ phase[e] = "confirming"
    /\ tx[e] = "success"
    /\ Succeed(e)
    /\ UNCHANGED <<outcomeVars, required, record>>

\* No receipt in time, or a wallet that cannot wait for one.
ConfirmFails(e) ==
    /\ phase[e] = "confirming"
    /\ Fail(e, "unconfirmed")
    /\ UNCHANGED <<outcomeVars, required, record>>

\* The component is reset, whatever is under way.
Reset ==
    /\ shown' = [status |-> "idle", result |-> NoExecution, error |-> NoExecution]
    /\ UNCHANGED <<outcomeVars, phase, reason, hook, fee, extension, feeCache, required,
                   record>>

CheckoutNext ==
    \/ \E e \in Requests :
          \/ (\E h \in Hooks : Start(e, h)) \/ StartInvalid(e)
          \/ (\E p \in OtherPosts : PostOther(e, p))
          \/ FeeQuoted(e) \/ FeeUnknown(e) \/ Sign(e) \/ Reject(e)
          \/ RefuseRequest(e) \/ AdmitRequest(e) \/ Transact(e) \/ RespondRequest(e)
          \/ CountHook(e) \/ ListTransaction(e)
          \/ ReceiveHeaders(e) \/ Receive(e) \/ ReceiveFails(e) \/ Timeout(e)
          \/ Confirm(e) \/ ConfirmFails(e)
    \/ \E h \in Hooks : QuoteExpires(h)
    \/ RequirementMoves
    \/ Reset

\* Two waits of execute have timers, those for the headers of the answer and for the
\* receipt; the reading of the body has none, and neither that nor the payer, the
\* facilitator and the chain need get anywhere.
CheckoutFairness ==
    \A e \in Requests :
        /\ WF_vars(ReceiveHeaders(e) \/ Timeout(e))
        /\ WF_vars(Confirm(e) \/ ConfirmFails(e))

CheckoutSpec == CheckoutInit /\ [][CheckoutNext]_vars /\ CheckoutFairness

-----------------------------------------------------------------------------
(* Properties *)

\* An execution that failed for any of these may be repeated: with a fresh salt the
\* payer is not charged twice, since the first payment is not and never will be
\* settled.  After a timeout, a failure without a hash or a missing receipt it may.
SafeToRepeat ==
    \A e \in Requests :
        reason[e] \in {"rejected", "refused", "reverted"} => tx[e] \in {"none", "reverted"}

\* What the component shows is so, however executions and resets overlap: a success is
\* that of a payment settled on chain, an error that of an execution that failed, and
\* nothing is shown to be under way when nothing is.
ShownIsTrue ==
    LET st == shown.status IN
    /\ st = "success" => shown.result # NoExecution /\ tx[shown.result] = "success"
    /\ st = "error" => shown.error # NoExecution /\ phase[shown.error] = "failed"
    /\ st = "preparing" =>
          \E e \in Requests :
              phase[e] \in {"quoting", "signing", "settling", "reading", "confirming"}
    /\ st = "idle" => shown.result = NoExecution /\ shown.error = NoExecution

\* Terms that the validation lets through at some time.
Sufficient(t) ==
    /\ t.hook \in AllowedHooks
    /\ t.fee > 0 /\ \E r \in Fees : t.fee >= Threshold(r)

\* An extension that says something else than the requirements, or stands alone.
Diverges(e) == extension[e] \notin {NoTerms, InRequirements(e)}

\* No transaction is sent with a fee below what could have been required, nor for a hook
\* off the whitelist, so none for an execution that went on without a quote: the terms
\* that were checked are those that are used.  The requests of other programs are held
\* to it as far as their two places for the terms agree, and no further: what a divergent
\* extension says is used unchecked.
PaidAsRequired ==
    \A e \in Requests :
        tx[e] # "none" =>
            Sufficient(SettledWith(e)) \/ (phase[e] = "posted" /\ Diverges(e))

\* Whatever enters the books has been mined, also when its execution gave up on it.
BooksReal ==
    \A e \in Requests : record[e] # "none" => tx[e] \in {"success", "reverted"}

\* Once the payer has signed, execute ends, in a result or an error, whatever becomes of
\* the facilitator and the chain, unless the body of the answer never ends: the timer of
\* the request does not cover it.
SignedEnds ==
    \A e \in Requests :
        \/ phase[e] = "settling" ~> phase[e] \in {"succeeded", "failed"}
        \/ <>[](phase[e] = "reading")

=============================================================================
