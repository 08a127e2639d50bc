------------------------------ MODULE FeeRule -------------------------------
(* The comparison of facilitator/src/middleware/fee-validation.ts. *)
EXTENDS Integers

CONSTANTS
    Whole,       \* 10000 basis points
    Tolerance    \* validationTolerance, in the same unit

ASSUME FeeRuleAssumption ==
    /\ Whole \in Nat \ {0}
    /\ Tolerance \in 0 .. Whole

\* The least fee that passes where the given fee is required.
Threshold(required) == (required * (Whole - Tolerance)) \div Whole

\* A threshold of zero refuses every fee: the margin that is logged on success divides
\* by it, and the error is answered with a refusal.
FeeSuffices(fee, required) ==
    /\ fee >= Threshold(required)
    /\ Threshold(required) # 0

=============================================================================
