---------------------------- MODULE MCPaidRoute -----------------------------
(* An instance of PaidRoute for TLC. *)
EXTENDS PaidRoute, TLC

CONSTANTS b1, b2, c, alice

MCClientOf == [b \in Requests |-> c]
MCPayerOf == c :> alice

\* Less than the price; less than its own fee; less than the fee that is required.
MCOwnTerms ==
    {[fee |-> 6, amount |-> 8], [fee |-> 6, amount |-> 5], [fee |-> 4, amount |-> 10]}
=============================================================================
