------------------------------ MODULE MCCodec -------------------------------
(***************************************************************************)
(* TLC instance of Codec: bytes of two bits, so that an integer of 4 bytes   *)
(* has 8 bits, the CRC table of the polynomial x^4 + x + 1 in the place of    *)
(* that of x^16 + x^12 + x^5 + 1, and messages of every command.               *)
(***************************************************************************)
EXTENDS Codec

MCCrcTable == <<3, 6, 5>> @@ (0 :> 0)

Strings == UNION {[1 .. n -> 1 .. ByteMod - 1] : n \in 0 .. 3}

Sample(type, i) ==
  CASE type = "u8" -> i % ByteMod
    [] type = "u32" -> (37 * i) % ByteMod ^ 4
    [] type = "str" -> SubSeq(<<1, 2, 3>>, 1 + (i % 2), i % 4)

\* A body of the types of the command; the i-th one has its own values and lengths.
Filled(cmd, i) ==
  [cmd |-> cmd, vals |-> [k \in DOMAIN Body(cmd) |-> Sample(Body(cmd)[k], i * k + k)]]

MCMessages ==
  {[cmd |-> c, vals |-> <<s>>] : c \in {BIND_CMD, BIND_CMD_RSP}, s \in Strings} \cup
  {[cmd |-> c, vals |-> <<>>] : c \in {ACT_CMD, ACT_CMD_RSP}} \cup
  {Filled(c, i) : c \in {DELIVER_MSG_CMD, DELIVER_MSG_CMD_RSP, AUDIT_TOKEN_CMD}, i \in 0 .. 39}
=============================================================================
