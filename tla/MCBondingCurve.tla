--------------------------- MODULE MCBondingCurve ---------------------------
(* An instance of BondingCurve for TLC: eight positions, k = 1.5. *)
EXTENDS BondingCurve, TLC

\* 8 * exp(1.5 * x / 8), rounded down.
MCExp == 0 :> 8 @@ 1 :> 9 @@ 2 :> 11 @@ 3 :> 14 @@ 4 :> 16 @@ 5 :> 20 @@ 6 :> 24
         @@ 7 :> 29 @@ 8 :> 35

MCLeft == 0 :> 9 @@ 1 :> 4 @@ 2 :> 2 @@ 3 :> 1 @@ 4 :> 0
=============================================================================
