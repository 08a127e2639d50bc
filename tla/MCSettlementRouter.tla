------------------------- MODULE MCSettlementRouter -------------------------
(* Instances of SettlementRouter for TLC. *)
EXTENDS SettlementRouter, TLC

CONSTANTS router, alice, bob, fac1, fac2, shop, hook, op   \* addresses
CONSTANTS usdc, skim                                       \* tokens
CONSTANTS n1, n2, n3, n4, n5                               \* nonces
CONSTANTS PaymentIds, SignedIds, CancellableIds            \* subsets of 1 .. 5
CONSTANTS ElsewhereIds, PartIds                            \* and of SignedIds

MCAccounts == {router, alice, bob, fac1, fac2, shop, hook, op}

Pay(t, from, value, before, salt, payTo, fee, h) ==
    [token |-> t, from |-> from, value |-> value, validAfter |-> 0,
     validBefore |-> before, salt |-> salt, payTo |-> payTo, fee |-> fee, hook |-> h]

\* 1: an ordinary payment; 2: its payee is the router, so its hook must keep the money;
\* 3: all fee, no hook; 4: payment 1 with a fee its payer did not sign; 5: in the token
\* that withholds.
PaymentList ==
    << Pay(usdc, alice, 2, 1, 1, shop,   1, hook),
       Pay(usdc, bob,   3, 2, 2, router, 1, hook),
       Pay(usdc, alice, 1, 2, 3, shop,   1, NoHook),
       Pay(usdc, alice, 2, 1, 1, shop,   2, hook),
       Pay(skim, bob,   3, 2, 5, shop,   1, hook) >>
NonceList == <<n1, n2, n3, n4, n5>>

MCPayments == {PaymentList[i] : i \in PaymentIds}
MCCommitment == [p \in MCPayments |-> NonceList[CHOOSE i \in PaymentIds : PaymentList[i] = p]]
MCNonces == {NonceList[i] : i \in PaymentIds}
\* What payers sign: the payments; for some of them the same nonce also for a transfer
\* of nothing to themselves, or for a transfer of all but a unit to the router.
MCAuthorizations ==
    {AuthorizationOf(PaymentList[i]) : i \in SignedIds}
    \cup {[AuthorizationOf(PaymentList[i]) EXCEPT !.to = PaymentList[i].from, !.value = 0] :
              i \in ElsewhereIds}
    \cup {[AuthorizationOf(PaymentList[i]) EXCEPT !.value = @ - 1] : i \in PartIds}
MCCancellable ==
    {<<PaymentList[i].token, PaymentList[i].from, NonceList[i]>> : i \in CancellableIds}
MCInitialBalance ==
    [t \in Tokens |-> [a \in MCAccounts |-> IF a \in {alice, bob} THEN 4 ELSE
                                            IF a = op /\ t = usdc THEN 1 ELSE 0]]
MCShortfall == [t \in Tokens |-> IF t = skim THEN 1 ELSE 0]
=============================================================================
