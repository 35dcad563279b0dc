--------------------------- MODULE MCThreadPool ---------------------------
(***************************************************************************)
(* A TLC instance of ThreadPool.                                           *)
(***************************************************************************)
EXTENDS ThreadPool

CONSTANTS p1, p2, t1, t2, t3, t4
=============================================================================
