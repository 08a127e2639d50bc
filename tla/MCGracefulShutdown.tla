------------------------- MODULE MCGracefulShutdown -------------------------
(* Instances of GracefulShutdown for TLC.  Requests of the two connection kinds *)
(* are interchangeable among themselves.                                       *)
EXTENDS GracefulShutdown

CONSTANTS r1, r2, r3
=============================================================================
