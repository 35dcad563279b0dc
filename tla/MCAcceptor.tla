----------------------------- MODULE MCAcceptor -----------------------------
(***************************************************************************)
(* A TLC instance of Acceptor.                                             *)
(***************************************************************************)
EXTENDS Acceptor

CONSTANTS p1, p2
=============================================================================
