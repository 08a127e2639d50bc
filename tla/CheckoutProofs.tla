--------------------------- MODULE CheckoutProofs ---------------------------
(***************************************************************************)
(* Proofs about Checkout, for any number of overlapping executions, any    *)
(* hooks and any fees.                                                     *)
(***************************************************************************)
EXTENDS Checkout, TLAPS

-----------------------------------------------------------------------------
(* The inductive invariant *)

\* What an answer, once given, says of the transaction.
OutcomeSound ==
    \A e \in Requests :
        /\ request[e] \in {"new", "refused"} => tx[e] = "none"
        /\ request[e] \in {"new", "accepted"} => answer[e] = "none"
        /\ request[e] = "refused" => answer[e] = "refused"
        /\ request[e] = "answered" => answer[e] # "refused"
        /\ answer[e] \in {"success", "reverted"} => tx[e] = answer[e]

NewUntilPosted == \A e \in Requests : ~ Posted(e) => request[e] = "new"

ReasonSound ==
    \A e \in Requests :
        /\ phase[e] # "failed" => reason[e] = "none"
        /\ reason[e] \in {"refused", "reverted"} => answer[e] = reason[e]

SettledSound == \A e \in Requests : phase[e] \in {"confirming", "succeeded"} => tx[e] = "success"

ShownSound ==
    /\ shown.status = "success" =>
          shown.result # NoExecution /\ phase[shown.result] = "succeeded"
    /\ shown.status = "error" =>
          shown.error # NoExecution /\ phase[shown.error] = "failed"
    /\ shown.status = "preparing" =>
          \E e \in Requests :
              phase[e] \in {"quoting", "signing", "settling", "reading", "confirming"}
    /\ shown.status = "idle" => shown.result = NoExecution /\ shown.error = NoExecution

AdmittedAsRequired ==
    \A e \in Requests :
        request[e] \in {"accepted", "answered"} =>
            (SettlementMode(e) => Sufficient(InRequirements(e)))

\* A transaction has terms, and only another program fills the extension.
TermsFound ==
    \A e \in Requests :
        /\ tx[e] # "none" => Parses(e)
        /\ extension[e] # NoTerms => phase[e] = "posted"

NotedWasAnswered ==
    \A e \in Requests : record[e] # "none" => answer[e] \in {"success", "reverted"}

IInv ==
    /\ TypeOK
    /\ OutcomeSound
    /\ NewUntilPosted
    /\ ReasonSound
    /\ SettledSound
    /\ ShownSound
    /\ AdmittedAsRequired
    /\ TermsFound
    /\ NotedWasAnswered

LEMMA ThresholdTyped == \A r \in Nat : Threshold(r) \in Nat
<1>1. SUFFICES ASSUME NEW r \in Nat PROVE Threshold(r) \in Nat
  OBVIOUS
<1>2. Whole \in Nat \ {0} /\ Whole - Tolerance \in Nat
  BY FeeRuleAssumption
<1>3. \A a, b \in Nat, c \in Nat \ {0} : (a * b) \div c \in Nat
  BY Z3
<1>. QED  BY <1>2, <1>3 DEF Threshold

LEMMA InitIInv == ASSUME CheckoutInit PROVE IInv
<1>. USE DEF CheckoutInit, Init
<1>1. TypeOK
  BY DEF TypeOK, RequestStates, Answers, Phases, Reasons, Records
<1>2. /\ OutcomeSound /\ NewUntilPosted /\ ReasonSound /\ SettledSound
      /\ AdmittedAsRequired /\ NotedWasAnswered
  BY DEF OutcomeSound, NewUntilPosted, ReasonSound, SettledSound, AdmittedAsRequired,
         NotedWasAnswered
<1>3. ShownSound
  BY DEF ShownSound
<1>4. TermsFound
  BY DEF TermsFound
<1>. QED  BY <1>1, <1>2, <1>3, <1>4 DEF IInv

-----------------------------------------------------------------------------
(* The client *)

\* A step of one execution at the client that leaves the facilitator's side alone.
LEMMA ClientKeeps ==
    ASSUME IInv, NEW e \in Requests, NEW ph \in Phases, NEW why \in Reasons,
           UNCHANGED <<outcomeVars, record>>,
           phase' = [phase EXCEPT ![e] = ph], reason' = [reason EXCEPT ![e] = why],
           TypeOK',
           phase[e] # "failed",
           ph # "failed" => why = "none",
           why \in {"refused", "reverted"} => answer[e] = why,
           ph \in {"confirming", "succeeded"} => tx[e] = "success",
           request[e] # "new" =>
               /\ ph \in {"settling", "reading", "confirming", "succeeded", "failed", "posted"}
               /\ why # "rejected" /\ hook' = hook /\ fee' = fee /\ extension' = extension,
           extension'[e] # NoTerms => ph = "posted",
           \A s \in Requests \ {e} :
               hook'[s] = hook[s] /\ fee'[s] = fee[s] /\ extension'[s] = extension[s],
           ShownSound'
    PROVE  IInv'
<1>1. /\ phase \in [Requests -> Phases] /\ reason \in [Requests -> Reasons]
  BY DEF IInv, TypeOK
<1>2. OutcomeSound' /\ NotedWasAnswered'
  BY DEF IInv, OutcomeSound, NotedWasAnswered, outcomeVars
<1>3. NewUntilPosted'
  BY <1>1 DEF IInv, NewUntilPosted, Posted, outcomeVars
<1>4. ReasonSound' /\ SettledSound'
  BY <1>1 DEF IInv, ReasonSound, SettledSound, outcomeVars
<1>5. AdmittedAsRequired'
  BY DEF IInv, AdmittedAsRequired, SettlementMode, Sufficient, InRequirements, outcomeVars
<1>6. TermsFound'
  <2>1. \A s \in Requests : tx[s] # "none" => request[s] # "new"
    BY DEF IInv, OutcomeSound
  <2>. QED  BY <1>1, <2>1 DEF IInv, TermsFound, Parses, SettlementMode, outcomeVars
<1>. QED  BY <1>2, <1>3, <1>4, <1>5, <1>6 DEF IInv

\* What the component shows stays true when an execution moves on.
LEMMA ShownKeeps ==
    ASSUME IInv, NEW e \in Requests, NEW ph \in Phases,
           phase' = [phase EXCEPT ![e] = ph],
           phase[e] \notin {"succeeded", "failed"},
           \/ /\ shown' = shown
              /\ ph \in {"quoting", "signing", "settling", "reading", "confirming"}
           \/ shown' = shown /\ phase[e] = "idle"
           \/ shown' = [shown EXCEPT !.status = "success", !.result = e] /\ ph = "succeeded"
           \/ shown' = [shown EXCEPT !.status = "error", !.error = e] /\ ph = "failed"
           \/ /\ shown' = [status |-> "error", result |-> NoExecution, error |-> e]
              /\ ph = "failed"
           \/ /\ shown' = [status |-> "preparing", result |-> NoExecution, error |-> NoExecution]
              /\ ph \in {"quoting", "signing"}
    PROVE  ShownSound'
<1>1. /\ phase \in [Requests -> Phases] /\ NoExecution \notin Requests
      /\ shown \in [status: {"idle", "preparing", "success", "error"},
                    result: Requests \cup {NoExecution}, error: Requests \cup {NoExecution}]
  BY CheckoutAssumption DEF IInv, TypeOK
<1>2. phase'[e] = ph /\ \A s \in Requests \ {e} : phase'[s] = phase[s]
  BY <1>1
<1>3. ShownSound
  BY DEF IInv
<1>4. CASE /\ shown' = shown
           /\ ph \in {"quoting", "signing", "settling", "reading", "confirming"}
  BY <1>1, <1>2, <1>3, <1>4 DEF ShownSound
<1>9. CASE shown' = shown /\ phase[e] = "idle"
  BY <1>1, <1>2, <1>3, <1>9 DEF ShownSound
<1>5. CASE shown' = [shown EXCEPT !.status = "success", !.result = e] /\ ph = "succeeded"
  BY <1>1, <1>2, <1>5 DEF ShownSound
<1>6. CASE shown' = [shown EXCEPT !.status = "error", !.error = e] /\ ph = "failed"
  BY <1>1, <1>2, <1>6 DEF ShownSound
<1>7. CASE shown' = [status |-> "error", result |-> NoExecution, error |-> e] /\ ph = "failed"
  BY <1>1, <1>2, <1>7 DEF ShownSound
<1>8. CASE /\ shown' = [status |-> "preparing", result |-> NoExecution, error |-> NoExecution]
           /\ ph \in {"quoting", "signing"}
  BY <1>1, <1>2, <1>8 DEF ShownSound
<1>. QED  BY <1>4, <1>5, <1>6, <1>7, <1>8, <1>9

\* An execution that has not failed, and one that has not signed.
LEMMA Unfinished ==
    ASSUME IInv, NEW e \in Requests, phase[e] # "failed"
    PROVE  /\ reason[e] = "none" /\ reason = [reason EXCEPT ![e] = "none"]
           /\ phase[e] \in {"idle", "quoting", "signing"} => request[e] = "new"
           /\ phase[e] # "posted" => extension[e] = NoTerms
<1>1. reason \in [Requests -> Reasons] /\ reason[e] = "none"
  BY DEF IInv, TypeOK, ReasonSound
<1>. QED  BY <1>1 DEF IInv, NewUntilPosted, Posted, TermsFound

LEMMA StartKeeps == ASSUME IInv, NEW e \in Requests, NEW h \in Hooks, Start(e, h) PROVE IInv'
<1>. USE DEF Start, Enter
<1>1. phase[e] = "idle" /\ request[e] = "new" /\ reason' = [reason EXCEPT ![e] = "none"]
      /\ extension[e] = NoTerms
  BY Unfinished
<1>2. TypeOK'
  <2>1. \/ phase' = [phase EXCEPT ![e] = "signing"] \/ phase' = [phase EXCEPT ![e] = "quoting"]
    OBVIOUS
  <2>2. fee' \in [Requests -> Fees \cup {0}]
    <3>1. CASE \E f \in Fees \cup {0} : fee' = [fee EXCEPT ![e] = f]
      BY <3>1 DEF IInv, TypeOK
    <3>2. CASE feeCache[h] # NoFee /\ fee' = [fee EXCEPT ![e] = feeCache[h]]
      BY <3>2 DEF IInv, TypeOK
    <3>. QED  BY <3>1, <3>2 DEF IInv, TypeOK
  <2>. QED  BY <2>1, <2>2 DEF IInv, TypeOK, Phases, outcomeVars
<1>3. \A s \in Requests \ {e} :
          hook'[s] = hook[s] /\ fee'[s] = fee[s] /\ extension'[s] = extension[s]
  BY DEF IInv, TypeOK
<1>4. PICK ph \in {"quoting", "signing"} : phase' = [phase EXCEPT ![e] = ph]
  OBVIOUS
<1>5. ShownSound'
  BY <1>1, <1>4, ShownKeeps DEF Phases
<1>. QED  BY <1>1, <1>2, <1>3, <1>4, <1>5, ClientKeeps DEF Phases, Reasons

LEMMA StartInvalidKeeps == ASSUME IInv, NEW e \in Requests, StartInvalid(e) PROVE IInv'
<1>. USE DEF StartInvalid, Enter
<1>1. phase[e] = "idle" /\ request[e] = "new" /\ extension[e] = NoTerms
  BY Unfinished
<1>2. TypeOK'
  BY DEF IInv, TypeOK, Phases, Reasons, outcomeVars
<1>3. ShownSound'
  BY <1>1, ShownKeeps DEF Phases
<1>. QED  BY <1>1, <1>2, <1>3, ClientKeeps DEF Phases, Reasons

LEMMA QuoteKeeps ==
    ASSUME IInv, NEW e \in Requests, FeeQuoted(e) \/ FeeUnknown(e)
    PROVE  IInv'
<1>. USE DEF FeeQuoted, FeeUnknown, Enter
<1>1. /\ phase[e] = "quoting" /\ request[e] = "new" /\ reason' = [reason EXCEPT ![e] = "none"]
      /\ phase' = [phase EXCEPT ![e] = "signing"] /\ extension[e] = NoTerms
  BY Unfinished
<1>2. TypeOK'
  BY DEF IInv, TypeOK, Phases, outcomeVars
<1>3. \A s \in Requests \ {e} :
          hook'[s] = hook[s] /\ fee'[s] = fee[s] /\ extension'[s] = extension[s]
  BY DEF IInv, TypeOK
<1>4. ShownSound'
  BY <1>1, ShownKeeps DEF Phases
<1>. QED  BY <1>1, <1>2, <1>3, <1>4, ClientKeeps DEF Phases, Reasons

LEMMA SignKeeps == ASSUME IInv, NEW e \in Requests, Sign(e) PROVE IInv'
<1>. USE DEF Sign, Enter
<1>1. /\ phase[e] = "signing" /\ request[e] = "new" /\ reason' = [reason EXCEPT ![e] = "none"]
      /\ phase' = [phase EXCEPT ![e] = "settling"] /\ extension[e] = NoTerms
  BY Unfinished
<1>2. TypeOK'
  BY DEF IInv, TypeOK, Phases, outcomeVars
<1>3. ShownSound'
  BY <1>1, ShownKeeps DEF Phases
<1>. QED  BY <1>1, <1>2, <1>3, ClientKeeps DEF Phases, Reasons

LEMMA PostOtherKeeps ==
    ASSUME IInv, NEW e \in Requests, NEW p \in OtherPosts, PostOther(e, p)
    PROVE  IInv'
<1>. USE DEF PostOther, Enter
<1>1. /\ phase[e] = "idle" /\ request[e] = "new" /\ reason' = [reason EXCEPT ![e] = "none"]
      /\ phase' = [phase EXCEPT ![e] = "posted"]
  BY Unfinished
<1>2. TypeOK'
  <2>1. /\ p.hook \in Hooks \cup {NoHook} /\ p.fee \in Fees \cup {0}
        /\ p.extension \in Terms \cup {NoTerms}
    BY CheckoutAssumption
  <2>. QED  BY <2>1 DEF IInv, TypeOK, Phases, outcomeVars
<1>3. \A s \in Requests \ {e} :
          hook'[s] = hook[s] /\ fee'[s] = fee[s] /\ extension'[s] = extension[s]
  BY DEF IInv, TypeOK
<1>4. ShownSound'
  BY <1>1, ShownKeeps DEF Phases
<1>. QED  BY <1>1, <1>2, <1>3, <1>4, ClientKeeps DEF Phases, Reasons

LEMMA HeadersKeep == ASSUME IInv, NEW e \in Requests, ReceiveHeaders(e) PROVE IInv'
<1>. USE DEF ReceiveHeaders, Enter
<1>1. /\ phase[e] = "settling" /\ reason' = [reason EXCEPT ![e] = "none"]
      /\ phase' = [phase EXCEPT ![e] = "reading"] /\ extension[e] = NoTerms
  BY Unfinished
<1>2. TypeOK'
  BY DEF IInv, TypeOK, Phases, outcomeVars
<1>3. ShownSound'
  BY <1>1, ShownKeeps DEF Phases
<1>. QED  BY <1>1, <1>2, <1>3, ClientKeeps DEF Phases, Reasons

\* Every failure after the start.
LEMMA FailKeeps ==
    ASSUME IInv, NEW e \in Requests, NEW why \in Reasons, Fail(e, why),
           UNCHANGED <<outcomeVars, required, record>>,
           phase[e] \notin {"succeeded", "failed", "posted"},
           why \in {"refused", "reverted"} => answer[e] = why,
           request[e] # "new" => why # "rejected"
    PROVE  IInv'
<1>. USE DEF Fail, Enter
<1>3. extension[e] = NoTerms
  BY Unfinished
<1>1. TypeOK'
  BY DEF IInv, TypeOK, Phases, outcomeVars
<1>2. ShownSound'
  BY ShownKeeps DEF Phases
<1>. QED  BY <1>1, <1>2, <1>3, ClientKeeps DEF Phases, Reasons

LEMMA SucceedKeeps ==
    ASSUME IInv, NEW e \in Requests, Succeed(e),
           UNCHANGED <<outcomeVars, required, record>>,
           phase[e] \in {"reading", "confirming"}, tx[e] = "success"
    PROVE  IInv'
<1>. USE DEF Succeed, Enter
<1>1. reason' = [reason EXCEPT ![e] = "none"] /\ extension[e] = NoTerms
  BY Unfinished
<1>2. TypeOK'
  BY DEF IInv, TypeOK, Phases, outcomeVars
<1>3. ShownSound'
  BY ShownKeeps DEF Phases
<1>. QED  BY <1>1, <1>2, <1>3, ClientKeeps DEF Phases, Reasons

LEMMA ReceiveKeeps == ASSUME IInv, NEW e \in Requests, Receive(e) PROVE IInv'
<1>1. /\ phase[e] = "reading" /\ answer[e] \in Answers
      /\ UNCHANGED <<outcomeVars, required, record>>
      /\ answer[e] = "success" => tx[e] = "success"
  BY DEF Receive, IInv, TypeOK, OutcomeSound
<1>2. CASE answer[e] \notin SettledAnswers
  BY <1>1, <1>2, FailKeeps DEF Receive, SettledAnswers, Answers, Reasons
<1>3. CASE answer[e] \in SettledAnswers /\ e \in Waits
  <2>1. /\ phase' = [phase EXCEPT ![e] = "confirming"]
        /\ UNCHANGED <<reason, hook, fee, extension, feeCache, shown>>
    BY <1>3 DEF Receive, Enter
  <2>2. reason' = [reason EXCEPT ![e] = "none"] /\ extension[e] = NoTerms
    BY <1>1, <2>1, Unfinished
  <2>3. TypeOK'
    BY <1>1, <2>1 DEF IInv, TypeOK, Phases, outcomeVars
  <2>4. ShownSound'
    BY <1>1, <2>1, ShownKeeps DEF Phases
  <2>. QED  BY <1>1, <1>3, <2>1, <2>2, <2>3, <2>4, ClientKeeps DEF Phases, Reasons, SettledAnswers
<1>4. CASE answer[e] \in SettledAnswers /\ e \notin Waits
  BY <1>1, <1>4, SucceedKeeps DEF Receive, SettledAnswers
<1>. QED  BY <1>2, <1>3, <1>4

LEMMA EndKeeps ==
    ASSUME IInv, NEW e \in Requests,
           Reject(e) \/ Timeout(e) \/ ReceiveFails(e) \/ Confirm(e) \/ ConfirmFails(e)
    PROVE  IInv'
<1>1. CASE Reject(e)
  <2>1. request[e] = "new"
    BY <1>1, Unfinished DEF Reject
  <2>. QED  BY <1>1, <2>1, FailKeeps DEF Reject, Reasons
<1>2. CASE Timeout(e)       BY <1>2, FailKeeps DEF Timeout, Reasons
<1>3. CASE Confirm(e)       BY <1>3, SucceedKeeps DEF Confirm
<1>4. CASE ConfirmFails(e)  BY <1>4, FailKeeps DEF ConfirmFails, Reasons
<1>5. CASE ReceiveFails(e)  BY <1>5, FailKeeps DEF ReceiveFails, Reasons
<1>. QED  BY <1>1, <1>2, <1>3, <1>4, <1>5

LEMMA AsideKeeps ==
    ASSUME IInv, (\E h \in Hooks : QuoteExpires(h)) \/ RequirementMoves \/ Reset
    PROVE  IInv'
<1>. USE DEF QuoteExpires, RequirementMoves, Reset, clientVars, outcomeVars
<1>1. TypeOK'
  BY DEF IInv, TypeOK
<1>2. UNCHANGED <<outcomeVars, phase, reason, hook, fee, extension, record>>
  OBVIOUS
<1>3. ShownSound'
  BY DEF IInv, ShownSound
<1>4. AdmittedAsRequired' /\ TermsFound'
  BY <1>2 DEF IInv, AdmittedAsRequired, SettlementMode, Sufficient, InRequirements, TermsFound,
              Parses
<1>. QED  BY <1>1, <1>2, <1>3, <1>4 DEF IInv, OutcomeSound, NewUntilPosted, Posted, ReasonSound,
                                        SettledSound, NotedWasAnswered

-----------------------------------------------------------------------------
(* The facilitator *)

\* What the validation lets through pays a fee of at least the threshold, and above zero.
LEMMA PassedFee ==
    ASSUME TypeOK, NEW e \in Requests, Passes(e), SettlementMode(e)
    PROVE  Sufficient(InRequirements(e))
<1>1. required \in Fees /\ fee[e] \in Fees \cup {0}
  BY DEF TypeOK
<1>2. required \in Nat /\ fee[e] \in Nat
  BY <1>1, CheckoutAssumption
<1>3. Threshold(required) \in Nat
  BY <1>2, ThresholdTyped
<1>4. fee[e] >= Threshold(required) /\ Threshold(required) # 0
  BY DEF Passes, FeeSuffices
<1>5. fee[e] > 0
  BY <1>2, <1>3, <1>4
<1>. QED  BY <1>1, <1>4, <1>5 DEF Passes, Sufficient, InRequirements

\* A step of the facilitator or the chain for one request.
LEMMA ServiceKeeps ==
    ASSUME IInv, NEW e \in Requests,
           UNCHANGED clientVars, TypeOK',
           \A s \in Requests \ {e} :
               /\ request'[s] = request[s] /\ answer'[s] = answer[s]
               /\ tx'[s] = tx[s] /\ record'[s] = record[s],
           Posted(e),
           request'[e] \in {"new", "refused"} => tx'[e] = "none",
           request'[e] \in {"new", "accepted"} => answer'[e] = "none",
           request'[e] = "refused" => answer'[e] = "refused",
           request'[e] = "answered" => answer'[e] # "refused",
           answer'[e] \in {"success", "reverted"} => tx'[e] = answer'[e],
           answer[e] # "none" => answer'[e] = answer[e],
           tx[e] = "success" => tx'[e] = "success",
           tx[e] = "none" /\ tx'[e] # "none" => Parses(e),
           request'[e] \in {"accepted", "answered"} =>
               request[e] = "accepted" \/ request'[e] = request[e] \/ Passes(e),
           record'[e] # "none" => answer'[e] \in {"success", "reverted"}
    PROVE  IInv'
<1>. USE DEF clientVars
<1>1. OutcomeSound'
  BY DEF IInv, OutcomeSound
<1>2. NewUntilPosted'
  BY DEF IInv, NewUntilPosted, Posted
<1>3. ReasonSound' /\ SettledSound' /\ ShownSound'
  BY DEF IInv, ReasonSound, SettledSound, ShownSound
<1>4. AdmittedAsRequired'
  <2>1. SettlementMode(e)' <=> SettlementMode(e)
    BY DEF SettlementMode
  <2>2. SettlementMode(e) /\ request'[e] \in {"accepted", "answered"}
            => Sufficient(InRequirements(e))
    BY PassedFee DEF IInv, AdmittedAsRequired
  <2>. QED  BY <2>1, <2>2 DEF IInv, AdmittedAsRequired, SettlementMode, Sufficient, InRequirements
<1>5. NotedWasAnswered'
  BY DEF IInv, NotedWasAnswered
<1>6. TermsFound'
  BY DEF IInv, TermsFound, Parses, SettlementMode
<1>. QED  BY <1>1, <1>2, <1>3, <1>4, <1>5, <1>6 DEF IInv

LEMMA FacilitatorKeeps ==
    ASSUME IInv, NEW e \in Requests,
           \/ RefuseRequest(e) \/ AdmitRequest(e) \/ Transact(e) \/ RespondRequest(e)
           \/ CountHook(e) \/ ListTransaction(e)
    PROVE  IInv'
<1>1. /\ request \in [Requests -> RequestStates] /\ answer \in [Requests -> Answers]
      /\ tx \in [Requests -> {"none", "pending", "success", "reverted"}]
      /\ record \in [Requests -> Records]
      /\ request[e] \in {"new", "refused"} => tx[e] = "none"
      /\ request[e] \in {"new", "accepted"} => answer[e] = "none"
      /\ request[e] = "refused" => answer[e] = "refused"
      /\ request[e] = "answered" => answer[e] # "refused"
      /\ answer[e] \in {"success", "reverted"} => tx[e] = answer[e]
      /\ record[e] # "none" => answer[e] \in {"success", "reverted"}
      /\ request[e] # "new" => Posted(e)
  BY DEF IInv, TypeOK, OutcomeSound, NotedWasAnswered, NewUntilPosted
<1>. USE <1>1
<1>2. CASE RefuseRequest(e)
  <2>1. TypeOK'
    BY <1>2 DEF RefuseRequest, Refuse, IInv, TypeOK, RequestStates, Answers, clientVars
  <2>. QED  BY <1>2, <2>1, ServiceKeeps DEF RefuseRequest, Refuse
<1>3. CASE AdmitRequest(e)
  <2>1. TypeOK'
    BY <1>3 DEF AdmitRequest, Admit, IInv, TypeOK, RequestStates, clientVars
  <2>. QED  BY <1>3, <2>1, ServiceKeeps DEF AdmitRequest, Admit
<1>4. CASE Transact(e)
  <2>1. TypeOK'
    BY <1>4 DEF Transact, Broadcast, Mine, IInv, TypeOK, clientVars
  <2>2. CASE Parses(e) /\ Broadcast(e)
    BY <1>4, <2>1, <2>2, ServiceKeeps DEF Transact, Broadcast, RequestStates
  <2>3. CASE Mine(e)
    BY <1>4, <2>1, <2>3, ServiceKeeps DEF Transact, Mine, RequestStates
  <2>. QED  BY <1>4, <2>2, <2>3 DEF Transact
<1>5. CASE RespondRequest(e)
  <2>1. TypeOK'
    BY <1>5 DEF RespondRequest, Respond, NoteAnswer, IInv, TypeOK, RequestStates, Answers,
                Records, clientVars
  <2>. QED  BY <1>5, <2>1, ServiceKeeps DEF RespondRequest, Respond, NoteAnswer
<1>6. CASE CountHook(e) \/ ListTransaction(e)
  <2>1. TypeOK'
    BY <1>6 DEF CountHook, ListTransaction, IInv, TypeOK, Records, clientVars, outcomeVars
  <2>2. answer[e] \in {"success", "reverted"} /\ Posted(e)
    BY <1>6 DEF CountHook, ListTransaction
  <2>. QED  BY <1>6, <2>1, <2>2, ServiceKeeps DEF CountHook, ListTransaction, outcomeVars
<1>. QED  BY <1>2, <1>3, <1>4, <1>5, <1>6

LEMMA StutterKeeps == ASSUME IInv, UNCHANGED vars PROVE IInv'
BY DEF vars, clientVars, outcomeVars, IInv, TypeOK, OutcomeSound, NewUntilPosted, Posted,
       ReasonSound, SettledSound, ShownSound, AdmittedAsRequired, SettlementMode, Sufficient,
       InRequirements, TermsFound, Parses, NotedWasAnswered

LEMMA NextKeeps == ASSUME IInv, [CheckoutNext]_vars PROVE IInv'
<1>1. ASSUME NEW e \in Requests, (\E h \in Hooks : Start(e, h)) \/ StartInvalid(e)
      PROVE  IInv'
  BY <1>1, StartKeeps, StartInvalidKeeps
<1>2. ASSUME NEW e \in Requests,
             \/ FeeQuoted(e) \/ FeeUnknown(e) \/ Sign(e) \/ ReceiveHeaders(e) \/ Receive(e)
             \/ \E p \in OtherPosts : PostOther(e, p)
      PROVE  IInv'
  BY <1>2, QuoteKeeps, SignKeeps, PostOtherKeeps, HeadersKeep, ReceiveKeeps
<1>3. ASSUME NEW e \in Requests,
             Reject(e) \/ Timeout(e) \/ ReceiveFails(e) \/ Confirm(e) \/ ConfirmFails(e)
      PROVE  IInv'
  BY <1>3, EndKeeps
<1>4. ASSUME NEW e \in Requests,
             \/ RefuseRequest(e) \/ AdmitRequest(e) \/ Transact(e) \/ RespondRequest(e)
             \/ CountHook(e) \/ ListTransaction(e)
      PROVE  IInv'
  BY <1>4, FacilitatorKeeps
<1>5. CASE (\E h \in Hooks : QuoteExpires(h)) \/ RequirementMoves \/ Reset
  BY <1>5, AsideKeeps
<1>6. CASE UNCHANGED vars
  BY <1>6, StutterKeeps
<1>. QED  BY <1>1, <1>2, <1>3, <1>4, <1>5, <1>6 DEF CheckoutNext

-----------------------------------------------------------------------------
(* Theorems *)

LEMMA Inductive == CheckoutSpec => []IInv
<1>1. CheckoutInit => IInv
  BY InitIInv
<1>2. IInv /\ [CheckoutNext]_vars => IInv'
  BY NextKeeps
<1>. QED  BY <1>1, <1>2, PTL DEF CheckoutSpec

\* Every reachable state of the checkout is well typed.
THEOREM CheckoutTypeCorrect == CheckoutSpec => []TypeOK
<1>1. IInv => TypeOK
  BY DEF IInv
<1>. QED  BY <1>1, Inductive, PTL

\* An execution that was rejected, refused or reverted has not been charged and never
\* will be, for any number of overlapping executions.
THEOREM RepeatingIsSafe == CheckoutSpec => []SafeToRepeat
<1>1. ASSUME IInv PROVE SafeToRepeat
  <2>1. SUFFICES ASSUME NEW e \in Requests, reason[e] \in {"rejected", "refused", "reverted"}
                 PROVE  tx[e] \in {"none", "reverted"}
    BY DEF SafeToRepeat
  <2>2. CASE reason[e] = "rejected"
    <3>1. request[e] = "new"
      BY <1>1, <2>2 DEF IInv, NewUntilPosted, Posted, ReasonSound
    <3>. QED  BY <1>1, <3>1 DEF IInv, OutcomeSound
  <2>3. CASE reason[e] = "refused"
    <3>1. answer[e] = "refused" /\ request[e] \in RequestStates
      BY <1>1, <2>3 DEF IInv, ReasonSound, TypeOK
    <3>2. request[e] = "refused"
      BY <1>1, <3>1 DEF IInv, OutcomeSound, RequestStates
    <3>. QED  BY <1>1, <3>2 DEF IInv, OutcomeSound
  <2>4. CASE reason[e] = "reverted"
    BY <1>1, <2>4 DEF IInv, ReasonSound, OutcomeSound
  <2>. QED  BY <2>1, <2>2, <2>3, <2>4
<1>. QED  BY <1>1, Inductive, PTL

\* What the component shows is true of the executions, however many overlap and whenever
\* it is reset (useExecute.ts:95).
THEOREM ShownTruth == CheckoutSpec => []ShownIsTrue
<1>1. ASSUME IInv PROVE ShownIsTrue
  <2>1. shown.result \in Requests \cup {NoExecution}
    BY <1>1 DEF IInv, TypeOK
  <2>. QED  BY <1>1, <2>1 DEF IInv, ShownIsTrue, ShownSound, SettledSound
<1>. QED  BY <1>1, Inductive, PTL

\* No transaction is sent for less than some fee that may be required, nor for a hook
\* that is not allowed, unless another program posted it with an extension that differs
\* from the requirements (settlement.ts:512 prefers the extension, and
\* fee-validation.ts:84 reads the requirements).
THEOREM NoneForLess == CheckoutSpec => []PaidAsRequired
<1>1. ASSUME IInv PROVE PaidAsRequired
  <2>1. SUFFICES ASSUME NEW e \in Requests, tx[e] # "none"
                 PROVE  Sufficient(SettledWith(e)) \/ (phase[e] = "posted" /\ Diverges(e))
    BY DEF PaidAsRequired
  <2>2. request[e] \in RequestStates /\ hook[e] \in Hooks \cup {NoHook}
    BY <1>1 DEF IInv, TypeOK
  <2>3. request[e] \in {"accepted", "answered"}
    BY <1>1, <2>1, <2>2 DEF IInv, OutcomeSound, RequestStates
  <2>4. SettlementMode(e) => Sufficient(InRequirements(e))
    BY <1>1, <2>3 DEF IInv, AdmittedAsRequired
  <2>5. Parses(e) /\ (extension[e] # NoTerms => phase[e] = "posted")
    BY <1>1, <2>1 DEF IInv, TermsFound
  <2>6. CASE extension[e] = NoTerms
    BY <2>4, <2>5, <2>6 DEF SettledWith, Parses
  <2>7. CASE extension[e] = InRequirements(e) /\ extension[e] # NoTerms
    <3>1. extension[e] \in Terms
      BY <1>1, <2>7 DEF IInv, TypeOK
    <3>2. extension[e].hook = hook[e] /\ extension[e].hook \in Hooks
      BY <2>7, <3>1 DEF Terms, InRequirements
    <3>3. SettlementMode(e)
      BY <3>2, CheckoutAssumption DEF SettlementMode
    <3>. QED  BY <2>4, <2>7, <3>3 DEF SettledWith
  <2>8. CASE extension[e] \notin {NoTerms, InRequirements(e)}
    BY <2>5, <2>8 DEF Diverges
  <2>. QED  BY <2>6, <2>7, <2>8
<1>. QED  BY <1>1, Inductive, PTL

\* Only mined transactions enter the books.
THEOREM BooksAreReal == CheckoutSpec => []BooksReal
<1>1. IInv => BooksReal
  BY DEF IInv, BooksReal, NotedWasAnswered, OutcomeSound
<1>. QED  BY <1>1, Inductive, PTL

=============================================================================
