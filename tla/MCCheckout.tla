----------------------------- MODULE MCCheckout -----------------------------
(* An instance of Checkout for TLC. *)
EXTENDS Checkout, TLC

CONSTANTS e1, e2, alice, transfer, custom

Said(h, f) == [hook |-> h, fee |-> f]

\* Both places with the same terms, with different ones, one of them, and none.
MCOtherPosts ==
    {[hook |-> transfer, fee |-> 4, extension |-> Said(transfer, 4)],
     [hook |-> transfer, fee |-> 6, extension |-> Said(custom, 0)],
     [hook |-> NoHook, fee |-> 0, extension |-> Said(transfer, 0)],
     [hook |-> custom, fee |-> 6, extension |-> NoTerms],
     [hook |-> NoHook, fee |-> 0, extension |-> NoTerms]}

MCPayerOf == [e \in Requests |-> alice]
=============================================================================
