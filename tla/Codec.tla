------------------------------- MODULE Codec --------------------------------
(***************************************************************************)
(* MsgBuffer as a byte stream (net/msgbuffer.cpp), the messages of            *)
(* src/protocol/proto.cpp that are written to and read from it, and the        *)
(* frames that Application and Client put around them.  A buffer of the pool    *)
(* carries one message after the other: it is encoded into the buffer out, the  *)
(* bytes are received into the buffer in and decoded there, and both buffers    *)
(* are recycled.                                                                 *)
(*                                                                               *)
(* A byte is a digit below ByteMod.  An integer has 1, 2 or 4 bytes in network   *)
(* order, a string is a sequence of bytes that are not zero.                      *)
(***************************************************************************)
EXTENDS Integers, Sequences, SequencesExt, Bitwise

CONSTANTS
  ByteMod,      \* 256
  DefaultSize,  \* m_default_buffer_size
  MaxPackage,   \* m_package_len_max
  CrcTable,     \* crc16table
  Messages      \* what is sent: [cmd, vals], vals the fields of the body

ASSUME CodecAssumption ==
  /\ ByteMod \in Nat \ {0, 1}
  /\ DefaultSize \in Nat /\ DefaultSize >= 12
  /\ MaxPackage \in Nat /\ MaxPackage < ByteMod ^ 4
  /\ CrcTable \in [0 .. ByteMod - 1 -> 0 .. ByteMod * ByteMod - 1]

VARIABLES
  out,     \* the sender's MsgBuffer: [mem, head, tail, over]
  in,      \* the receiver's
  phase,   \* "pooled", "encoded", "decoded"
  msg,     \* the message under way
  got      \* what was decoded: [ok, len, cmd, vals, rest]

vars == <<out, in, phase, msg, got>>

-----------------------------------------------------------------------------
(* MsgBuffer; over says that a byte was written past the end of the vector.   *)
Zeros(n) == [i \in 1 .. n |-> 0]
NewBuffer == [mem |-> Zeros(DefaultSize), head |-> 0, tail |-> 0, over |-> FALSE]

\* MsgBuffer::clear
Clear(b) == [mem |-> Zeros(DefaultSize), head |-> 0, tail |-> 0, over |-> b.over]

Available(b) == b.tail - b.head
Content(b) == SubSeq(b.mem, b.head + 1, b.tail)
Seek(b, n) == [b EXCEPT !.head = @ + n, !.tail = @ + n]
Consume(b, n) == [b EXCEPT !.head = @ + n]
Vomit(b, n) == IF n > b.head THEN b ELSE [b EXCEPT !.head = @ - n]

\* MsgBuffer::adjust.  A bug: one byte of room is counted twice.
AdjustOneShort(b, n) ==
  LET size == Len(b.mem) IN
  IF size - b.tail + 1 >= n THEN b
  ELSE [b EXCEPT !.mem = @ \o Zeros(IF size >= n THEN size ELSE n)]

Adjust(b, n) ==
  LET size == Len(b.mem) IN
  IF size - b.tail >= n THEN b
  ELSE [b EXCEPT !.mem = @ \o Zeros(IF size >= n THEN size ELSE n)]

\* std::copy to a place of the vector; nothing checks that it is one.
Overwrite(b, at, s) ==
  [b EXCEPT !.mem = [i \in DOMAIN @ |-> IF i \in at + 1 .. at + Len(s) THEN s[i - at] ELSE @[i]],
            !.over = @ \/ at + Len(s) > Len(b.mem)]

\* append(const char*, size_t)
Put(b, s) ==
  LET a == Adjust(b, Len(s)) IN
  [Overwrite(a, a.tail, s) EXCEPT !.tail = @ + Len(s)]

\* reset(offset, v)
Reset(b, off, s) == Overwrite(b, b.head + off, s)

\* fetch(offset, count, handler): the handler is not called outside of the buffer.
Fetch(b, off, n) ==
  IF off > b.tail \/ off + n > Len(b.mem) THEN <<>>
  ELSE SubSeq(b.mem, b.head + off + 1, b.head + off + n)

-----------------------------------------------------------------------------
(* Fields: operator <<, operator >>                                         *)
Width == [u8 |-> 1, u16 |-> 2, u32 |-> 4]


\* htons, htonl
BigEndian(n, v) == [i \in 1 .. n |-> (v \div ByteMod ^ (n - i)) % ByteMod]

Value(s) == FoldLeft(LAMBDA a, d : a * ByteMod + d, 0, s)

Bytes(type, val) == IF type = "str" THEN Append(val, 0) ELSE BigEndian(Width[type], val)

\* strlen(memory())
StrLen(b) == CHOOSE k \in 0 .. Len(b.mem) :
               b.mem[b.head + k + 1] = 0 /\ \A j \in 1 .. k : b.mem[b.head + j] # 0

\* One field is read: acc is [buf, vals].
GetField(acc, type) ==
  LET b == acc.buf
      n == IF type = "str" THEN StrLen(b) ELSE Width[type]
      s == Fetch(b, 0, n) IN
  IF type = "str" THEN [buf |-> Consume(b, n + 1), vals |-> Append(acc.vals, s)]
  ELSE [buf |-> Consume(b, n), vals |-> Append(acc.vals, Value(s))]

GetFields(b, types) == FoldLeft(GetField, [buf |-> b, vals |-> <<>>], types)

-----------------------------------------------------------------------------
(* Messages: the commands, and the fields of the bodies.                    *)
ResponseBit == ByteMod ^ 4 \div 2
BIND_CMD == 1
ACT_CMD == 2
DELIVER_MSG_CMD == 3
AUDIT_TOKEN_CMD == 4
BIND_CMD_RSP == ResponseBit + 1
ACT_CMD_RSP == ResponseBit + 2
DELIVER_MSG_CMD_RSP == ResponseBit \div 16 + 3   \* 0x8000003, one digit short of the others

Requests == {BIND_CMD, ACT_CMD, DELIVER_MSG_CMD}

BindBody == <<"str">>
DeliverBody == <<"str", "str", "str", "u32", "u8", "str", "str", "u32", "str", "str", "u32", "str",
                 "str", "str", "str", "u8", "str", "str", "u32">>
DeliverRespBody == <<"u32", "str", "u8", "u32", "str", "str", "str", "str", "str", "str", "u32">>
AuditBody == <<"str", "str", "str", "u8", "u32", "u32", "str", "str", "u8", "str", "str", "str", "str",
               "str", "str", "str", "u32", "str", "str", "str", "str", "u8", "u32", "u8">>

Body(cmd) ==
  CASE cmd \in {BIND_CMD, BIND_CMD_RSP} -> BindBody
    [] cmd = DELIVER_MSG_CMD            -> DeliverBody
    [] cmd = DELIVER_MSG_CMD_RSP        -> DeliverRespBody
    [] cmd = AUDIT_TOKEN_CMD            -> AuditBody
    [] OTHER                            -> <<>>

\* encode_body
BodyBytes(m) == LET types == Body(m.cmd) IN
                FlattenSeq([i \in DOMAIN types |-> Bytes(types[i], m.vals[i])])

PutBody(b, m) == LET types == Body(m.cmd) IN
                 FoldLeft(LAMBDA c, i : Put(c, Bytes(types[i], m.vals[i])), b,
                          [i \in 1 .. Len(types) |-> i])

-----------------------------------------------------------------------------
(* Frames: magic number, length, command, body, CRC.                        *)
Magic == <<ByteMod - 1, 2, 1, 2>>
HeadSize == 8
CrcSize == 2
U32(v) == BigEndian(4, v)

\* crc16, crc[i] being that of the first i bytes.
Crc16(s) ==
  LET crc[i \in 0 .. Len(s)] ==
        IF i = 0 THEN 0
        ELSE LET c == crc[i - 1] IN
             ((c % ByteMod) * ByteMod) ^^ CrcTable[(c \div ByteMod) ^^ s[i]]
  IN crc[Len(s)]

PutCrc(b, s) == Put(b, BigEndian(CrcSize, Crc16(s)))

\* ResponseBind, ResponseDeliver and RequestAudit: room for the head, the body,
\* and then the head in front of it.  A bug: the head is written where the body is.
MakeupOver(b, m) ==
  LET body == PutBody(Seek(b, HeadSize), m) IN
  Vomit(Reset(Reset(body, 0, U32(Available(body) + HeadSize)), 4, U32(m.cmd)), HeadSize)

Makeup(b, m) ==
  LET body == PutBody(Seek(b, HeadSize), m)
      front == Vomit(body, HeadSize) IN
  Reset(Reset(front, 0, U32(Available(body) + HeadSize)), 4, U32(m.cmd))

\* ResponseAct
MakeupAct(b, m) == Put(Put(b, U32(HeadSize)), U32(m.cmd))

\* Application::handle_write_msg
Answer(b, m) ==
  LET c == Vomit(IF m.cmd = ACT_CMD_RSP THEN MakeupAct(Seek(b, 4), m) ELSE Makeup(Seek(b, 4), m), 4)
      packlen == Available(c) - 4
      d == Reset(Reset(c, 0, Magic), 4, U32(packlen)) IN
  PutCrc(d, SubSeq(d.mem, d.head + 9, d.head + packlen))

\* Client::handle_timeout
KeepAlive(b) ==
  LET c == Reset(Vomit(Put(Put(Seek(b, 4), U32(12)), U32(ACT_CMD)), 4), 0, Magic) IN
  PutCrc(c, SubSeq(c.mem, c.head + 9, c.tail))

\* The other requests come from peers, in the frame of the keep-alive.
PeerRequest(b, m) ==
  LET tail == U32(m.cmd) \o BodyBytes(m) IN
  PutCrc(Put(b, Magic \o U32(HeadSize + Len(tail)) \o tail), tail)

Encoded(b, m) ==
  CASE m.cmd = ACT_CMD                      -> KeepAlive(b)
    [] m.cmd \in Requests \ {ACT_CMD}       -> PeerRequest(b, m)
    [] m.cmd = AUDIT_TOKEN_CMD              -> Makeup(b, m)
    [] OTHER                                -> Answer(b, m)

-----------------------------------------------------------------------------
(* The receiving side.                                                      *)

\* g_proto_head_len
ProtoHeadLen == 12

\* set_packlen(packlen + 2), in the 32 bits that packlen has.
PackLen(b) == (Value(SubSeq(b.mem, b.head + 5, b.head + 8)) + CrcSize) % ByteMod ^ 4

\* A bug: a package that is just the head and the CRC is refused.
LengthOKStrict(n) == n <= MaxPackage /\ n > ProtoHeadLen + CrcSize

\* The bounds of PackageCheck.
LengthOK(n) == n <= MaxPackage /\ n >= ProtoHeadLen + CrcSize

PackageCheck(b) ==
  CASE Available(b) < ProtoHeadLen                            -> "NEED_HEAD"
    [] SubSeq(b.mem, b.head + 1, b.head + 4) # Magic           -> "INCORRECT"
    [] ~LengthOK(PackLen(b))                                   -> "INCORRECT"
    [] Available(b) < PackLen(b)                               -> "NEED_BODY"
    [] OTHER                                                   -> "WHOLE"

(* handle_read: the head is read first, and then as much as its length asks for.  That  *)
(* either read may come in pieces is the business of Receiver.                            *)
Received(b, s) ==
  LET head == Put(b, SubSeq(s, 1, Min({ProtoHeadLen, Len(s)}))) IN
  IF PackageCheck(head) # "NEED_BODY" THEN head
  ELSE Put(head, SubSeq(s, ProtoHeadLen + 1, Min({PackLen(head), Len(s)})))

\* parse_check: the CRC, and the length as it is without the magic number.
CrcOK(b) ==
  Value(Fetch(b, Available(b) - 2, 2)) = Crc16(Fetch(b, 8, Available(b) - 8 - 2))

ParseCheck(b) == Consume(Reset(b, 4, U32(Available(b) - 6)), 4)

\* Head::decode, and then the body in the order in which the command has it.
DecodedAt(b) ==
  LET head == GetFields(b, <<"u32", "u32">>)
      body == GetFields(head.buf, Body(head.vals[2])) IN
  [buf |-> body.buf, ok |-> TRUE, len |-> head.vals[1], cmd |-> head.vals[2], vals |-> body.vals]

\* handle_read_msg, of a package that handle_read has found whole.
ReadMsg(b) ==
  IF PackageCheck(b) = "WHOLE" /\ CrcOK(b) THEN DecodedAt(ParseCheck(b))
  ELSE [buf |-> b, ok |-> FALSE, len |-> 0, cmd |-> 0, vals |-> <<>>]

\* The peers that get the answers step over the magic number; audit requests have none.
PeerRead(b, m) == DecodedAt(IF m.cmd = AUDIT_TOKEN_CMD THEN b ELSE Consume(b, 4))

Decoded(b, s, m) == IF m.cmd \in Requests THEN ReadMsg(Received(b, s)) ELSE PeerRead(Put(b, s), m)

-----------------------------------------------------------------------------
NoMessage == [cmd |-> 0, vals |-> <<>>]
Nothing == [ok |-> FALSE, len |-> 0, cmd |-> 0, vals |-> <<>>, rest |-> 0]

Init ==
  /\ out = NewBuffer /\ in = NewBuffer
  /\ phase = "pooled" /\ msg = NoMessage /\ got = Nothing

Encode(m) ==
  /\ phase = "pooled"
  /\ phase' = "encoded"
  /\ msg' = m
  /\ out' = Encoded(out, m)
  /\ UNCHANGED <<in, got>>

Decode ==
  /\ phase = "encoded"
  /\ phase' = "decoded"
  /\ LET d == Decoded(in, Content(out), msg) IN
     /\ in' = d.buf
     /\ got' = [ok |-> d.ok, len |-> d.len, cmd |-> d.cmd, vals |-> d.vals, rest |-> Available(d.buf)]
  /\ UNCHANGED <<out, msg>>

\* Connection::recycle
Recycle ==
  /\ phase = "decoded"
  /\ phase' = "pooled"
  /\ out' = Clear(out)
  /\ in' = Clear(in)
  /\ msg' = NoMessage
  /\ got' = Nothing

Next == (\E m \in Messages : Encode(m)) \/ Decode \/ Recycle

Spec == Init /\ [][Next]_vars

-----------------------------------------------------------------------------
(* Whatever was in a buffer before and however often adjust had to make it grow, what    *)
(* append and reset write lies inside the vector, although neither copy is checked; no    *)
(* reader gets past what was received, and a message that is to be sent starts at the     *)
(* first byte.                                                                             *)
InBounds ==
  /\ ~out.over /\ ~in.over
  /\ out.head = 0 /\ out.tail <= Len(out.mem)
  /\ in.head <= in.tail /\ in.tail <= Len(in.mem)

(* What one side encodes the other decodes, field by field: the head that makeup writes   *)
(* in front of the body afterwards leaves the body alone, the length in it is that of     *)
(* head and body on either side, although requests and answers carry different lengths    *)
(* on the wire, and nothing but the CRC is left over.                                      *)
RoundTrip ==
  phase = "decoded" /\ got.ok =>
    /\ got.cmd = msg.cmd /\ got.vals = msg.vals
    /\ got.len = HeadSize + Len(BodyBytes(msg))
    /\ got.rest = IF msg.cmd = AUDIT_TOKEN_CMD THEN 0 ELSE CrcSize

(* PackageCheck and parse_check accept a request if and only if its frame is not longer    *)
(* than m_package_len_max: the length and the CRC are over the bytes that the server takes   *)
(* for them, and no request is below the lower bound of PackageCheck.  The keep-alives of    *)
(* Client are exactly at it: head, command and CRC are 14 bytes.                              *)
FrameSize(m) == ProtoHeadLen + Len(BodyBytes(m)) + CrcSize

RequestAccepted ==
  phase = "decoded" /\ msg.cmd \in Requests => (got.ok <=> FrameSize(msg) <= MaxPackage)
=============================================================================
