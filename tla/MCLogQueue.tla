----------------------------- MODULE MCLogQueue -----------------------------
(***************************************************************************)
(* TLC instances of LogQueue.                                               *)
(***************************************************************************)
EXTENDS LogQueue

CONSTANTS p1, p2
=============================================================================
