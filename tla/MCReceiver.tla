----------------------------- MODULE MCReceiver -----------------------------
(***************************************************************************)
(* TLC instances of Receiver.  Lengths are scaled down: headers of 2 bytes,  *)
(* frames of 4 to 5, a 4-bit length field.                                    *)
(***************************************************************************)
EXTENDS Receiver

CONSTANTS b1, b2, b3, b4, b5

MCPool == <<b1>>

Good(n) == [magic |-> TRUE, len |-> n, body |-> "good"]

\* Frames that fit the default buffer or not, every way to be refused, and the
\* two lengths that wrap.
AllHeaders ==
  {Good(n) : n \in {2, 3, 1, 4, LenMod - 2, LenMod - 1}} \cup
  {[magic |-> TRUE, len |-> 2, body |-> "bad_crc"],
   [magic |-> TRUE, len |-> 2, body |-> "bad_cmd"],
   [magic |-> FALSE, len |-> 2, body |-> "good"]}

FewHeaders ==
  {Good(2), Good(3), Good(1), [magic |-> TRUE, len |-> 2, body |-> "bad_crc"]}

GoodHeaders == {Good(2), Good(3)}
=============================================================================
