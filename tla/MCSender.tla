------------------------------ MODULE MCSender ------------------------------
(***************************************************************************)
(* TLC instances of Sender.                                                *)
(***************************************************************************)
EXTENDS Sender

CONSTANTS m1, m2, m3, m4

MCSize == [m \in Messages |-> IF m = m2 THEN 3 ELSE 2]
=============================================================================
