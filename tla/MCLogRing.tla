----------------------------- MODULE MCLogRing ------------------------------
(***************************************************************************)
(* TLC instances of LogRing.                                                *)
(***************************************************************************)
EXTENDS LogRing

CONSTANTS p1, p2
=============================================================================
