--------------------------------- MODULE Dns ----------------------------------
(***************************************************************************)
(* dns.rs: a reply built from a query, over udp and framed over tcp.  A    *)
(* message is the sequence of its bytes; offsets count from 0 as in the    *)
(* code, so the byte at offset p is msg[p + 1].                            *)
(***************************************************************************)
EXTENDS Integers, Sequences

CONSTANTS
  LabelLimit  \* the walk gives up when it has seen more labels (127)

HEADER_LEN == 12
TYPE_A == 1
TYPE_AAAA == 28
CLASS_IN == 1

\* Both parsers return None; an end of a name, or a reply, is never these.
NoEnd == 0
NoReply == <<>>

Be16(b, at) == b[at + 1] * 256 + b[at + 2]

\* `as u16` first, so a length beyond 16 bits is cut.
ToBe16(n) == <<(n \div 256) % 256, n % 256>>

\* A label's length byte with either of its two high bits set is a pointer.
IsPointer(len) == len >= 64

\* The offset behind the name that starts at `start`: the walk is at an offset
\* and has seen a number of labels.
NameEnd(msg, start, limit) ==
  LET end[at \in Nat \X Nat] ==
        LET p == at[1]
            labels == at[2]
            len == msg[p + 1]
        IN  IF p >= Len(msg) THEN NoEnd
            ELSE IF len = 0 THEN p + 1
            ELSE IF IsPointer(len) \/ labels > limit \/ p + 1 + len > Len(msg) THEN NoEnd
            ELSE end[<<p + 1 + len, labels + 1>>]
  IN  end[<<start, 0>>]

\* Slip: QR is not looked at.
PlainEitherWay(msg) == (Be16(msg, 2) \div 2048) % 16 = 0 /\ Be16(msg, 4) = 1

\* QR clear, opcode 0, one question.
PlainQuery(msg) ==
  /\ Be16(msg, 2) < 32768
  /\ (Be16(msg, 2) \div 2048) % 16 = 0
  /\ Be16(msg, 4) = 1

QuestionName(msg) == NameEnd(msg, HEADER_LEN, LabelLimit)

\* parse returns Some.
IsQuery(msg) ==
  /\ Len(msg) >= HEADER_LEN
  /\ PlainQuery(msg)
  /\ QuestionName(msg) # NoEnd
  /\ QuestionName(msg) + 4 <= Len(msg)

Parse(msg) ==
  LET p == QuestionName(msg) IN
  [id |-> Be16(msg, 0), flags |-> Be16(msg, 2),
   qtype |-> Be16(msg, p), qclass |-> Be16(msg, p + 2),
   question |-> SubSeq(msg, HEADER_LEN + 1, p + 4)]

\* Answer: the addresses to hand out (<<>> when not configured) and the ttl, as
\* their bytes.
RData(q, ans) ==
  IF q.qclass # CLASS_IN THEN <<>>
  ELSE IF q.qtype = TYPE_A THEN ans.a
  ELSE IF q.qtype = TYPE_AAAA THEN ans.aaaa
  ELSE <<>>

\* QR set, opcode and RD of the query, RA set.
ReplyFlags(flags) ==
  32768 + ((flags \div 2048) % 16) * 2048 + ((flags \div 256) % 2) * 256 + 128

ReplyHeader(q, answers) ==
  ToBe16(q.id) \o ToBe16(ReplyFlags(q.flags)) \o ToBe16(1) \o ToBe16(answers)
    \o ToBe16(0) \o ToBe16(0)

\* The answer record: a pointer to the question's name, then the data.
AnswerRecord(q, ans, rdata) ==
  <<192, HEADER_LEN>> \o ToBe16(q.qtype) \o ToBe16(CLASS_IN) \o ans.ttl
    \o ToBe16(Len(rdata)) \o rdata

\* Slip: an answer is counted although there is none.
ReplyAlwaysCounts(msg, ans) ==
  LET q == Parse(msg)
      rdata == RData(q, ans)
  IN  IF ~IsQuery(msg) THEN NoReply
      ELSE ReplyHeader(q, 1) \o q.question
             \o IF rdata = <<>> THEN <<>> ELSE AnswerRecord(q, ans, rdata)

Reply(msg, ans) ==
  LET q == Parse(msg)
      rdata == RData(q, ans)
  IN  IF ~IsQuery(msg) THEN NoReply
      ELSE IF rdata = <<>> THEN ReplyHeader(q, 0) \o q.question
      ELSE ReplyHeader(q, 1) \o q.question \o AnswerRecord(q, ans, rdata)

\* The message in a frame: what its length prefix says, or what there is of it.
Unframed(msg) ==
  LET declared == Be16(msg, 0)
      there == Len(msg) - 2
  IN  SubSeq(msg, 3, 2 + IF declared < there THEN declared ELSE there)

ReplyTcp(msg, ans) ==
  LET inner == Reply(Unframed(msg), ans) IN
  IF Len(msg) < 2 \/ inner = NoReply THEN NoReply
  ELSE ToBe16(Len(inner)) \o inner
=============================================================================
