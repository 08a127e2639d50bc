--------------------------- MODULE SettleOutcome ----------------------------
(***************************************************************************)
(* What a settle request may come to, without the pool, the balance check  *)
(* and the order on the chain: it is refused without a transaction, or it  *)
(* is accepted, may send one transaction, and is answered.  An answer that *)
(* names a transaction tells what became of it; one that names none says   *)
(* nothing.                                                                *)
(***************************************************************************)
CONSTANT Requests

VARIABLES
    request,   \* request[r], see RequestStates
    answer,    \* answer[r]: what its sender is told, see Answers
    tx         \* tx[r]: its transaction

outcomeVars == <<request, answer, tx>>

RequestStates == {"new", "refused", "accepted", "answered"}

\* "failed": no transaction is named.
Answers == {"none", "refused", "success", "reverted", "failed"}

Init ==
    /\ request = [r \in Requests |-> "new"]
    /\ answer = [r \in Requests |-> "none"]
    /\ tx = [r \in Requests |-> "none"]

Refuse(r) ==
    /\ request[r] = "new"
    /\ request' = [request EXCEPT ![r] = "refused"]
    /\ answer' = [answer EXCEPT ![r] = "refused"]
    /\ UNCHANGED tx

Admit(r) ==
    /\ request[r] = "new"
    /\ request' = [request EXCEPT ![r] = "accepted"]
    /\ UNCHANGED <<answer, tx>>

Broadcast(r) ==
    /\ request[r] = "accepted"
    /\ tx[r] = "none"
    /\ tx' = [tx EXCEPT ![r] = "pending"]
    /\ UNCHANGED <<request, answer>>

Mine(r) ==
    /\ tx[r] = "pending"
    /\ \E fate \in {"success", "reverted"} : tx' = [tx EXCEPT ![r] = fate]
    /\ UNCHANGED <<request, answer>>

Respond(r) ==
    /\ request[r] = "accepted"
    /\ request' = [request EXCEPT ![r] = "answered"]
    /\ \E a \in {"success", "reverted", "failed"} :
          /\ a # "failed" => a = tx[r]
          /\ answer' = [answer EXCEPT ![r] = a]
    /\ UNCHANGED tx

Next ==
    \E r \in Requests : Refuse(r) \/ Admit(r) \/ Broadcast(r) \/ Mine(r) \/ Respond(r)

Spec == Init /\ [][Next]_outcomeVars

=============================================================================
