----------------------------- MODULE MCFeeQuote -----------------------------
(* An instance of FeeQuote for TLC: the gas price doubles. *)
EXTENDS FeeQuote, TLC

CONSTANTS x1, u1, u2, alias, caip, gasKey

MCUpdaterKey == [u \in Updaters |-> IF u = u2 THEN caip ELSE gasKey]
MCTTL == [k \in Keys |-> IF k = gasKey THEN 1 ELSE 2]
MCGas == [t \in Times |-> IF t >= 2 THEN 4 ELSE 2]
MCToken == [t \in Times |-> IF t = 0 THEN 9 ELSE 10]
=============================================================================
