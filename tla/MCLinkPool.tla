----------------------------- MODULE MCLinkPool -----------------------------
(***************************************************************************)
(* TLC instances of LinkPool.                                               *)
(***************************************************************************)
EXTENDS LinkPool

CONSTANTS t1, t2, t3
=============================================================================
