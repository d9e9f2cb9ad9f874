---------------------------- MODULE CaptureStream ----------------------------
(***************************************************************************)
(* One `Stream` over its life (stream.rs): created with some limits, fed   *)
(* reads of any size, finished.  The head file sits behind a BufWriter, so *)
(* what is on disk lags what was written; the tail lives in memory until   *)
(* finish, and finish may fail to create its file.  The process may be     *)
(* killed in between.                                                      *)
(***************************************************************************)
EXTENDS StreamOps

CONSTANTS
  LimitChoices,  \* the limits a stream may be created with
  MaxTotal,      \* bound: bytes that go through the stream
  BufCap         \* capacity of the BufWriter

ASSUME StreamAssumption ==
  /\ LimitChoices \subseteq Limits
  /\ MaxTotal \in Nat
  /\ BufCap \in Nat \ {0}

VARIABLES
  st,         \* the Stream struct
  buffered,   \* head bytes in the BufWriter
  head_file,  \* head bytes on disk
  tail_file,  \* the tail file, empty when there is none
  tail_path,  \* is Summary.tail_path Some: has the tail file been written?
  announced,  \* how many times the caller was told of the truncation
  phase       \* "open", "finished" or "killed"

vars == <<st, buffered, head_file, tail_file, tail_path, announced, phase>>

TypeOK ==
  /\ st \in StreamType
  /\ buffered \in Seq(Nat)
  /\ head_file \in Seq(Nat)
  /\ tail_file \in Seq(Nat)
  /\ tail_path \in BOOLEAN
  /\ announced \in Nat
  /\ phase \in {"open", "finished", "killed"}

Init ==
  /\ \E limits \in LimitChoices : st = Create(limits)
  /\ buffered = <<>>
  /\ head_file = <<>>
  /\ tail_file = <<>>
  /\ tail_path = FALSE
  /\ announced = 0
  /\ phase = "open"

\* A read of n bytes, the next n of the direction, goes through the stream.
Receive(n) ==
  LET data == Span(st.total + 1, st.total + n)
      part == HeadPart(st, data)
  IN  /\ phase = "open"
      /\ st.total + n <= MaxTotal
      /\ st' = Write(st, data)
      /\ head_file' = head_file \o BufPassed(BufCap, buffered, part)
      /\ buffered' = BufKept(BufCap, buffered, part)
      /\ announced' = announced + IF Announces(st, data) THEN 1 ELSE 0
      /\ UNCHANGED <<tail_file, tail_path, phase>>

\* Slip: finish drops the BufWriter's content instead of flushing it.
FinishWithoutFlush(created) ==
  /\ phase = "open"
  /\ buffered' = <<>>
  /\ tail_path' = (created /\ st.tail # <<>>)
  /\ tail_file' = IF tail_path' THEN st.tail ELSE <<>>
  /\ phase' = "finished"
  /\ UNCHANGED <<st, head_file, announced>>

\* Stream::finish: flush the head, write the ring, if there is one, to a fresh
\* tail file.  When that cannot be created the ring is gone, and all that the
\* Summary says of it is a tail_path of None.
Finish(created) ==
  /\ phase = "open"
  /\ head_file' = head_file \o buffered
  /\ buffered' = <<>>
  /\ tail_path' = (created /\ st.tail # <<>>)
  /\ tail_file' = IF tail_path' THEN st.tail ELSE <<>>
  /\ phase' = "finished"
  /\ UNCHANGED <<st, announced>>

\* The process dies: memory is gone, the files stay as they are.
Kill ==
  /\ phase = "open"
  /\ buffered' = <<>>
  /\ phase' = "killed"
  /\ UNCHANGED <<st, head_file, tail_file, tail_path, announced>>

Ended == phase # "open" /\ UNCHANGED vars

Next ==
  \/ \E n \in 1 .. MaxTotal : Receive(n)
  \/ \E created \in BOOLEAN : Finish(created)
  \/ Kill
  \/ Ended

Spec == Init /\ [][Next]_vars

-----------------------------------------------------------------------------
\* Every byte that went by is in the head, in the ring, or counted as
\* dropped, and in just one of the three (the fields of Summary, on which the
\* truncation report is built).
Accounting == st.total = st.head_written + Len(st.tail) + st.dropped

\* Neither file has a hole: the head is the stream from its first byte on, the
\* ring is the stream up to its last byte, and they never overlap ("the two
\* ends go to two files", stream.rs:8-10).
NoSilentHole ==
  /\ phase # "killed" => head_file \o buffered = Span(1, st.head_written)
  /\ phase = "killed" => head_file = Span(1, Len(head_file))
  /\ st.tail = Span(st.total - Len(st.tail) + 1, st.total)
  /\ st.head_written + Len(st.tail) <= st.total

\* The caller hears of the truncation once, from the write that first exceeds
\* the head cap, whether or not the ring can still keep it all ("returns true
\* exactly once", stream.rs:70).
AnnouncedOnce ==
  announced = IF ~Unlimited(st.limits) /\ st.total > st.limits.head
              THEN 1 ELSE 0

\* What a finished capture is missing can be told from its Summary: `dropped`
\* bytes, and the `tail` bytes of the ring too when tail_path is None.
FinishedTellsTheGap ==
  phase = "finished" =>
    st.total - Len(head_file) - Len(tail_file)
      = st.dropped + IF tail_path THEN 0 ELSE Len(st.tail)

\* The promise: whatever the sizes of the reads, the head and the ring hold the
\* first `head` bytes and the last `tail` of the rest.
Promise == INSTANCE HeadTail WITH
  limits <- st.limits,
  seen <- st.total,
  front <- Span(1, st.head_written),
  back <- st.tail,
  exceeded <- st.truncating

KeepsBothEnds == Promise!Spec
=============================================================================
