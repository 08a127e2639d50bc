--------------------------- MODULE PaymentEscrow ----------------------------
(***************************************************************************)
(* What the settlement router promises, without its mechanism: a custodian *)
(* that takes each payment at most once, hands on everything but the fee   *)
(* in one step with the settlement, and keeps the fee for the facilitator  *)
(* that settled.  What it holds covers the fees it owes and the payments   *)
(* it has received and not yet settled, except for what was handed on for  *)
(* payments their payers had called off and that never arrived.            *)
(***************************************************************************)
EXTENDS UnitCounting

CONSTANTS
    Facilitators,
    Tokens,
    Payments      \* records with at least the fields token, value and fee

VARIABLES
    phase,   \* phase[payment], see Phases
    owed,    \* owed[facilitator][token]
    held     \* held[token]

vars == <<phase, owed, held>>

\* "void": called off by its payer, who can send it no more; "revived": settled all
\* the same.
Phases == {"signed", "void", "escrowed", "settled", "revived"}

Init ==
    /\ phase = [p \in Payments |-> "signed"]
    /\ owed = [f \in Facilitators |-> [t \in Tokens |-> 0]]
    /\ held \in [Tokens -> Nat]

\* Only payment p changes its phase, to ph.
Becomes(p, ph) ==
    /\ phase'[p] = ph
    /\ phase' = [phase EXCEPT ![p] = ph]

\* The custodian has amount more of token t, and may have been sent more than that.
Gains(t, amount) ==
    /\ held'[t] >= held[t] + amount
    /\ held' = [held EXCEPT ![t] = held'[t]]

\* The payment reaches the custodian ahead of its settlement.
Deposit(p) ==
    /\ phase[p] = "signed"
    /\ Becomes(p, "escrowed")
    /\ Gains(p.token, p.value)
    /\ UNCHANGED owed

\* The payer calls the payment off before it has reached the custodian; part of it may
\* arrive all the same.
CallOff(p) ==
    /\ phase[p] = "signed"
    /\ Becomes(p, "void")
    /\ Gains(p.token, 0)
    /\ UNCHANGED owed

\* The payment is settled: only the fee of it stays.
Settle(f, p) ==
    /\ phase[p] \in {"signed", "escrowed"}
    /\ p.fee <= p.value
    /\ Becomes(p, "settled")
    /\ owed' = [owed EXCEPT ![f][p.token] = @ + p.fee]
    /\ held' = [held EXCEPT ![p.token] =
                   IF phase[p] = "escrowed" THEN @ - (p.value - p.fee) ELSE @ + p.fee]

\* A payment that never arrived is handed on out of what is held for others.
Revive(f, p) ==
    /\ phase[p] = "void"
    /\ p.fee <= p.value /\ p.value <= held[p.token]
    /\ Becomes(p, "revived")
    /\ owed' = [owed EXCEPT ![f][p.token] = @ + p.fee]
    /\ held' = [held EXCEPT ![p.token] = @ - (p.value - p.fee)]

\* A facilitator is paid what it is owed in some tokens, or has it left with the
\* custodian for good.
Withdraw(f, ts) ==
    /\ UNCHANGED phase
    /\ owed' = [owed EXCEPT ![f] = [t \in Tokens |-> IF t \in ts THEN 0 ELSE owed[f][t]]]
    /\ \/ held' = [t \in Tokens |-> IF t \in ts THEN held[t] - owed[f][t] ELSE held[t]]
       \/ UNCHANGED held

\* The custodian is given tokens unasked.
Receive(t) ==
    /\ Gains(t, 0)
    /\ UNCHANGED <<phase, owed>>

Next ==
    \/ \E p \in Payments : Deposit(p) \/ CallOff(p)
    \/ \E f \in Facilitators, p \in Payments : Settle(f, p) \/ Revive(f, p)
    \/ \E f \in Facilitators, ts \in SUBSET Tokens : Withdraw(f, ts)
    \/ \E t \in Tokens : Receive(t)

Spec == Init /\ [][Next]_vars

InPhase(t, ph) == {p \in Payments : p.token = t /\ phase[p] = ph}

\* What the custodian holds, with what was handed on for revived payments, covers the
\* fees owed and the payments in escrow.
HeldCovers ==
    \A t \in Tokens :
        Total(Facilitators, [f \in Facilitators |-> owed[f][t]])
        + Total(InPhase(t, "escrowed"), [p \in Payments |-> p.value])
            <= held[t] + Total(InPhase(t, "revived"), [p \in Payments |-> p.value])

=============================================================================
