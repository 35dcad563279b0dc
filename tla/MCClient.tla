------------------------------ MODULE MCClient ------------------------------
(***************************************************************************)
(* A TLC instance of Client.                                               *)
(***************************************************************************)
EXTENDS Client

CONSTANTS s1, t1
=============================================================================
