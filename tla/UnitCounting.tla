---------------------------- MODULE UnitCounting ----------------------------
(***************************************************************************)
(* Sums of natural numbers over a finite index set, written as the number  *)
(* of units in a disjoint union.  Token amounts are integers counted in    *)
(* base units, so the total of an amount function g over S is the number   *)
(* of pairs <<s, n>> with n in 1..g[s].  In this form the facts about sums *)
(* that the ledger proofs need follow from the theorems on cardinalities   *)
(* of finite sets.                                                         *)
(***************************************************************************)
EXTENDS FiniteSets, Integers

\* The units that g assigns to the elements of S, each tagged by its owner.
Units(S, g) == UNION {{s} \X (1 .. g[s]) : s \in S}

\* The sum of g over S.
Total(S, g) == Cardinality(Units(S, g))

=============================================================================
