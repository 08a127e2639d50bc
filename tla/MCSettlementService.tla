------------------------ MODULE MCSettlementService -------------------------
(* Instances of SettlementService for TLC: two payments of one payer, the     *)
(* first of them retried, and payments of other payers.                       *)
EXTENDS SettlementService, TLC

CONSTANTS r1, r2, r3, r4, r5, alice, bob, carol
CONSTANTS FundsAlice, FundsBob, FundsCarol

Pay(payer, value, before, salt) ==
    [payer |-> payer, value |-> value, fee |-> 1, validBefore |-> before, salt |-> salt]

MCPaymentOf ==
    [r \in Requests |-> IF r \in {r1, r2} THEN Pay(alice, 2, 1, 1)
                       ELSE IF r = r3 THEN Pay(alice, 3, 2, 2)
                       ELSE IF r = r4 THEN Pay(bob, 2, 1, 1) ELSE Pay(carol, 1, 1, 1)]
\* The payment that is also retried may be used without the facilitator.
MCStrays == {MCPaymentOf[r1]}
NoStrays == {}
MCPayerOf == [r \in Requests |-> MCPaymentOf[r].payer]
MCInitialFunds == (alice :> FundsAlice) @@ (bob :> FundsBob) @@ (carol :> FundsCarol)
=============================================================================
