------------------------------ MODULE StreamOps ------------------------------
(***************************************************************************)
(* The `Stream` struct of stream.rs as operators on a record: one          *)
(* direction of one connection, captured as its first `head` bytes and its *)
(* last `tail` bytes.                                                      *)
(*                                                                         *)
(* A byte is named by its position in that direction's stream, 1 for the   *)
(* first one.  Two bytes are never confused, so a file that lost, repeated *)
(* or reordered a byte is visible in the positions it holds.               *)
(***************************************************************************)
EXTENDS Spans

Least(m, n) == IF m <= n THEN m ELSE n

\* Rust's saturating_sub on unsigned integers.
SaturatingSub(m, n) == IF m >= n THEN m - n ELSE 0

FirstOf(s, n) == SubSeq(s, 1, n)
DropFirst(s, n) == SubSeq(s, n + 1, Len(s))
LastOf(s, n) == SubSeq(s, Len(s) - n + 1, Len(s))

-----------------------------------------------------------------------------
\* Slip: a write that does not fit replaces the buffer before it is passed on.
BufForgets(cap, buf, data) == IF Len(data) >= cap THEN data ELSE <<>>

\* BufWriter::write_all with a buffer of `cap` bytes holding buf: what it
\* passes on to the file, and what it keeps.
BufPassed(cap, buf, data) ==
  (IF Len(buf) + Len(data) > cap THEN buf ELSE <<>>)
    \o (IF Len(data) >= cap THEN data ELSE <<>>)

\* Slip: what was passed on stays in the buffer.
BufKeepsPassed(cap, buf, data) == IF Len(data) >= cap THEN <<>> ELSE buf \o data

BufKept(cap, buf, data) ==
  IF Len(data) >= cap THEN <<>>
  ELSE IF Len(buf) + Len(data) > cap THEN data
  ELSE buf \o data

-----------------------------------------------------------------------------
\* Limits: head = 0 keeps everything in the head file, tail = 0 has no ring.
Limits == [head : Nat, tail : Nat]

Unlimited(limits) == limits.head = 0

\* The struct's fields.  `head` (the BufWriter) and the two paths belong to
\* the module that owns the files.
StreamType ==
  [limits : Limits, head_written : Nat, tail : Seq(Nat),
   total : Nat, dropped : Nat, truncating : BOOLEAN]

Create(limits) ==
  [limits |-> limits, head_written |-> 0, tail |-> <<>>,
   total |-> 0, dropped |-> 0, truncating |-> FALSE]

\* Bytes the head file can still take.
Room(st) == SaturatingSub(st.limits.head, st.head_written)

\* What one write sends to the head file, and what is left for the ring.
HeadPart(st, data) ==
  IF Unlimited(st.limits) THEN data
  ELSE FirstOf(data, Least(Room(st), Len(data)))

RingPart(st, data) == DropFirst(data, Len(HeadPart(st, data)))

\* Slip: a write longer than the ring keeps its first bytes, not its last.
OverrunKeepsFront(st, rest) ==
  IF st.limits.tail = 0 THEN st.tail
  ELSE IF Len(rest) >= st.limits.tail THEN FirstOf(rest, st.limits.tail)
  ELSE DropFirst(st.tail, SaturatingSub(Len(st.tail) + Len(rest), st.limits.tail))
       \o rest

\* The ring after `rest` went through it: unused, overrun, or shifted.
PushedTail(st, rest) ==
  IF st.limits.tail = 0 THEN st.tail
  ELSE IF Len(rest) >= st.limits.tail THEN LastOf(rest, st.limits.tail)
  ELSE DropFirst(st.tail, SaturatingSub(Len(st.tail) + Len(rest), st.limits.tail))
       \o rest

\* Slip: an overrun forgets that the ring's old bytes are lost too.
OverrunForgetsRing(st, rest) ==
  IF st.limits.tail = 0 THEN Len(rest)
  ELSE IF Len(rest) >= st.limits.tail THEN Len(rest) - st.limits.tail
  ELSE SaturatingSub(Len(st.tail) + Len(rest), st.limits.tail)

\* Slip: a push that fits in the ring makes the count go down.
LossUnsaturated(st, rest) ==
  IF st.limits.tail = 0 THEN Len(rest)
  ELSE IF Len(rest) >= st.limits.tail
       THEN Len(st.tail) + (Len(rest) - st.limits.tail)
  ELSE Len(st.tail) + Len(rest) - st.limits.tail

\* How many bytes that push loses.
PushLoss(st, rest) ==
  IF st.limits.tail = 0 THEN Len(rest)
  ELSE IF Len(rest) >= st.limits.tail
       THEN Len(st.tail) + (Len(rest) - st.limits.tail)
  ELSE SaturatingSub(Len(st.tail) + Len(rest), st.limits.tail)

\* Stream::write, minus the bytes HeadPart hands to the file.
Write(st, data) ==
  LET rest == RingPart(st, data) IN
  [st EXCEPT
     !.total        = @ + Len(data),
     !.head_written = @ + Len(HeadPart(st, data)),
     !.truncating   = @ \/ rest # <<>>,
     !.tail         = IF rest = <<>> THEN @ ELSE PushedTail(st, rest),
     !.dropped      = IF rest = <<>> THEN @ ELSE @ + PushLoss(st, rest)]

\* Slip: every truncating write announces itself.
AnnouncesEveryTime(st, data) == RingPart(st, data) # <<>>

\* What Stream::write returns.
Announces(st, data) == RingPart(st, data) # <<>> /\ ~st.truncating
=============================================================================
