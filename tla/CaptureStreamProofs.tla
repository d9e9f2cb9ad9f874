------------------------- MODULE CaptureStreamProofs --------------------------
(***************************************************************************)
(* A capture keeps its promise for any limits, any sizes of reads and any  *)
(* BufWriter capacity.  The inductive invariant says that every field of   *)
(* the Stream is the function of the number of bytes seen that HeadTail    *)
(* states, and that the head file and the buffer together are the head.    *)
(***************************************************************************)
EXTENDS CaptureStream, StreamLemmas

HeadIsCovered ==
  IF phase = "killed" THEN head_file = Span(1, Len(head_file))
  ELSE head_file \o buffered = Span(1, st.head_written)

IInv ==
  /\ TypeOK
  /\ Shape(st)
  /\ HeadIsCovered
  /\ announced = IF st.truncating THEN 1 ELSE 0
  /\ phase = "finished" =>
       buffered = <<>> /\ tail_file = IF tail_path THEN st.tail ELSE <<>>

-----------------------------------------------------------------------------
LEMMA StreamInit == Init => IInv
<1> SUFFICES ASSUME Init PROVE IInv
  OBVIOUS
<1>1. PICK l \in LimitChoices : st = Create(l)
  BY DEF Init
<1>2. l \in Limits /\ l.head \in Nat /\ l.tail \in Nat
  BY StreamAssumption DEF Limits
<1>3. /\ st.limits = l /\ st.total = 0 /\ st.head_written = 0
      /\ st.tail = <<>> /\ st.dropped = 0 /\ st.truncating = FALSE
  BY <1>1 DEF Create
<1>4. Beyond(st) = 0 /\ Least(l.tail, 0) = 0
  BY <1>2, <1>3 DEF Beyond, BeyondOf, SaturatingSub, Least
<1>5. Span(0 + 1, 0) = <<>>
  BY EmptyRun
<1>6. Shape(st)
  BY <1>3, <1>4, <1>5 DEF Shape
<1>7. st \in StreamType
  BY <1>1, <1>2, EmptySeq DEF Create, StreamType
<1>8. TypeOK
  BY <1>7, EmptySeq DEF Init, TypeOK
<1>9. head_file \o buffered = Span(1, st.head_written)
  BY <1>3, <1>5, EmptySeq, ConcatEmptySeq DEF Init
<1> QED BY <1>3, <1>6, <1>8, <1>9 DEF Init, IInv, HeadIsCovered

LEMMA StreamStep == IInv /\ [Next]_vars => IInv'
<1>i. SUFFICES ASSUME IInv, [Next]_vars PROVE IInv'
  OBVIOUS
<1>s. /\ Shape(st) /\ HeadIsCovered
      /\ announced = IF st.truncating THEN 1 ELSE 0
      /\ phase = "finished" =>
           buffered = <<>> /\ tail_file = IF tail_path THEN st.tail ELSE <<>>
  BY <1>i DEF IInv
<1>t. /\ st \in StreamType /\ buffered \in Seq(Nat) /\ head_file \in Seq(Nat)
      /\ tail_file \in Seq(Nat) /\ tail_path \in BOOLEAN /\ announced \in Nat
      /\ phase \in {"open", "finished", "killed"}
  BY <1>i DEF IInv, TypeOK
<1>n. st.head_written \in Nat /\ st.total \in Nat /\ st.truncating \in BOOLEAN
  BY <1>t DEF StreamType
<1>1. ASSUME NEW n \in 1 .. MaxTotal, Receive(n)
      PROVE  IInv'
  <2> DEFINE data == Span(st.total + 1, st.total + n)
             part == HeadPart(st, data)
             pass == BufPassed(BufCap, buffered, part)
             kept == BufKept(BufCap, buffered, part)
  <2>n. n \in Nat \ {0}
    BY StreamAssumption
  <2>1. /\ phase = "open" /\ phase' = "open"
        /\ st' = Write(st, data)
        /\ head_file' = head_file \o pass
        /\ buffered' = kept
        /\ announced' = announced + IF Announces(st, data) THEN 1 ELSE 0
        /\ tail_file' = tail_file /\ tail_path' = tail_path
    BY <1>1 DEF Receive
  <2>2. /\ st' \in StreamType /\ Shape(st')
        /\ part = Span(st.head_written + 1, st'.head_written)
        /\ part \in Seq(Nat)
        /\ st.head_written <= st'.head_written
        /\ Announces(st, data) <=> (st'.truncating /\ ~st.truncating)
        /\ st.truncating => st'.truncating
    <3> DEFINE t == Write(st, data)
    <3>2. /\ t \in StreamType /\ Shape(t)
          /\ part = Span(st.head_written + 1, t.head_written)
          /\ part \in Seq(Nat)
          /\ st.head_written <= t.head_written
          /\ Announces(st, data) <=> (t.truncating /\ ~st.truncating)
          /\ st.truncating => t.truncating
      <4>1. st \in StreamType /\ Shape(st)
        BY <1>t, <1>s
      <4> QED BY <4>1, <2>n, WriteKeepsShape, SMTT(40)
    <3> HIDE DEF t, data, part
    <3>3. st' = t
      BY <2>1 DEF t
    <3> QED BY <3>2, <3>3
  <2> HIDE DEF data, part
  <2>3. pass \in Seq(Nat) /\ kept \in Seq(Nat)
    BY <1>t, <2>2, StreamAssumption, BufferConserves
  <2>c. pass \o kept = buffered \o part
    BY <1>t, <2>2, StreamAssumption, BufferConserves
  <2> HIDE DEF pass, kept
  <2>4. head_file' \in Seq(Nat) /\ buffered' \in Seq(Nat)
    BY <1>t, <2>1, <2>3, ConcatProperties
  <2>5. head_file' \o buffered' = Span(1, st'.head_written)
    <3>0. head_file \in Seq(Nat) /\ buffered \in Seq(Nat) /\ part \in Seq(Nat)
      BY <1>t, <2>2
    <3>p. head_file \in Seq(Nat) /\ pass \in Seq(Nat) /\ kept \in Seq(Nat)
      BY <1>t, <2>3
    <3>1. (head_file \o pass) \o kept = head_file \o (pass \o kept)
      BY <3>p, JoinAssociates, Zenon
    <3>2. (head_file \o buffered) \o part = head_file \o (buffered \o part)
      BY <3>0, JoinAssociates, Zenon
    <3>3. head_file \o buffered = Span(1, st.head_written)
      BY <1>s, <2>1 DEF HeadIsCovered
    <3>4. Span(1, st.head_written) \o part = Span(1, st'.head_written)
      <4>1. /\ 1 \in Nat /\ st.head_written \in Int /\ st'.head_written \in Int
            /\ 1 <= st.head_written + 1
        BY <1>n, <2>2 DEF StreamType
      <4> QED BY <2>2, <4>1, SpanConcat
    <3> QED BY <2>1, <2>c, <3>1, <3>2, <3>3, <3>4
  <2>6. announced' = IF st'.truncating THEN 1 ELSE 0
    <3>1. CASE st.truncating
      BY <3>1, <1>s, <2>1, <2>2
    <3>2. CASE ~st.truncating
      BY <3>2, <1>s, <2>1, <2>2
    <3> QED BY <3>1, <3>2
  <2>7. TypeOK'
    BY <1>t, <2>1, <2>2, <2>4, <2>6 DEF TypeOK
  <2> QED BY <2>1, <2>2, <2>5, <2>6, <2>7 DEF IInv, HeadIsCovered
<1>2. ASSUME NEW created \in BOOLEAN, Finish(created) PROVE IInv'
  <2>1. /\ phase = "open" /\ phase' = "finished" /\ st' = st
        /\ head_file' = head_file \o buffered /\ buffered' = <<>>
        /\ tail_path' \in BOOLEAN /\ announced' = announced
        /\ tail_file' = IF tail_path' THEN st.tail ELSE <<>>
    BY <1>2 DEF Finish
  <2>2. head_file' \in Seq(Nat) /\ buffered' \in Seq(Nat) /\ tail_file' \in Seq(Nat)
    BY <1>t, <2>1, ConcatProperties, EmptySeq DEF StreamType
  <2>3. head_file' \o buffered' = Span(1, st'.head_written)
    BY <1>s, <1>t, <2>1, <2>2, ConcatEmptySeq DEF HeadIsCovered
  <2>4. TypeOK'
    BY <1>t, <2>1, <2>2 DEF TypeOK
  <2>5. Shape(st)' 
    BY <1>s, <2>1 DEF Shape, Beyond, BeyondOf
  <2> QED BY <1>s, <2>1, <2>3, <2>4, <2>5 DEF IInv, HeadIsCovered
<1>3. ASSUME Kill PROVE IInv'
  <2>1. /\ phase = "open" /\ phase' = "killed" /\ st' = st
        /\ head_file' = head_file /\ buffered' = <<>>
        /\ tail_file' = tail_file /\ tail_path' = tail_path
        /\ announced' = announced
    BY <1>3 DEF Kill
  <2>2. head_file \o buffered = Span(1, st.head_written)
    BY <1>s, <2>1 DEF HeadIsCovered
  <2>3. head_file = Span(1, Len(head_file))
    BY <1>t, <1>n, <2>2, PrefixOfRun
  <2>4. TypeOK'
    BY <1>t, <2>1, EmptySeq DEF TypeOK
  <2>5. Shape(st)' 
    BY <1>s, <2>1 DEF Shape, Beyond, BeyondOf
  <2> QED BY <1>s, <2>1, <2>3, <2>4, <2>5 DEF IInv, HeadIsCovered
<1>4. ASSUME UNCHANGED vars PROVE IInv'
  BY <1>i, <1>4 DEF IInv, vars, TypeOK, HeadIsCovered, Shape, Beyond
<1> QED BY <1>i, <1>1, <1>2, <1>3, <1>4 DEF Next, Ended

\* The invariant implies everything the run checks.
LEMMA IInvGivesAll ==
  IInv => TypeOK /\ Accounting /\ NoSilentHole /\ AnnouncedOnce
            /\ FinishedTellsTheGap
<1> SUFFICES ASSUME IInv
    PROVE TypeOK /\ Accounting /\ NoSilentHole /\ AnnouncedOnce
            /\ FinishedTellsTheGap
  OBVIOUS
<1>0. TypeOK /\ st \in StreamType /\ Shape(st)
  BY DEF IInv, TypeOK
<1>1. /\ st.total = st.head_written + Len(st.tail) + st.dropped
      /\ st.tail = Span(st.total - Len(st.tail) + 1, st.total)
      /\ st.head_written + Len(st.tail) <= st.total
      /\ st.truncating <=> ~Unlimited(st.limits) /\ st.total > st.limits.head
  BY <1>0, ShapeNumbers
<1>2. Accounting
  BY <1>1 DEF Accounting
<1>3. NoSilentHole
  BY <1>1 DEF NoSilentHole, IInv, HeadIsCovered
<1>4. AnnouncedOnce
  BY <1>1 DEF AnnouncedOnce, IInv
<1>5. ASSUME phase = "finished"
      PROVE  st.total - Len(head_file) - Len(tail_file)
               = st.dropped + IF tail_path THEN 0 ELSE Len(st.tail)
  <2>1. /\ head_file \o buffered = Span(1, st.head_written)
        /\ tail_file = IF tail_path THEN st.tail ELSE <<>>
        /\ buffered = <<>> /\ head_file \in Seq(Nat) /\ tail_path \in BOOLEAN
    BY <1>5 DEF IInv, HeadIsCovered, TypeOK
  <2>2. head_file = Span(1, st.head_written)
    BY <2>1, ConcatEmptySeq
  <2>3. st.head_written \in Nat /\ st.total \in Nat /\ st.dropped \in Nat
    BY <1>0 DEF StreamType
  <2>4. Len(Span(0 + 1, 0 + st.head_written)) = st.head_written
    BY <2>3, RunType
  <2>5. Len(head_file) = st.head_written
    BY <2>2, <2>3, <2>4
  <2>6. Len(st.tail) \in Nat
    BY <1>0, LenProperties DEF StreamType
  <2>7. Len(tail_file) = IF tail_path THEN Len(st.tail) ELSE 0
    BY <2>1, EmptySeq
  <2> DEFINE h == Len(head_file)
             f == Len(tail_file)
             r == Len(st.tail)
  <2>8. /\ h = st.head_written /\ r \in Nat
        /\ f = IF tail_path THEN r ELSE 0
        /\ st.total = st.head_written + r + st.dropped
    BY <1>1, <2>5, <2>6, <2>7
  <2> HIDE DEF h, f, r
  <2>9. st.total - h - f = st.dropped + IF tail_path THEN 0 ELSE r
    BY <2>1, <2>3, <2>8
  <2> QED BY <2>9 DEF h, f, r
<1> QED BY <1>0, <1>2, <1>3, <1>4, <1>5 DEF FinishedTellsTheGap

LEMMA StreamInvariant == Spec => []IInv
BY StreamInit, StreamStep, PTL DEF Spec

\* Every field of a Stream and both files stay what the struct declares.
THEOREM StreamTypeCorrect == Spec => []TypeOK
BY StreamInvariant, IInvGivesAll, PTL

\* No byte is lost uncounted: each is in the head, in the ring or in dropped
\* (Stream::write), for any limits and any sizes of reads.
THEOREM StreamAccounts == Spec => []Accounting
BY StreamInvariant, IInvGivesAll, PTL

\* Neither file has a hole, whenever the process dies.
THEOREM StreamHasNoSilentHole == Spec => []NoSilentHole
BY StreamInvariant, IInvGivesAll, PTL

\* The truncation is announced once, by the write that first exceeds the head
\* cap, even when the ring keeps every byte of it (Stream::write).
THEOREM StreamAnnouncesOnce == Spec => []AnnouncedOnce
BY StreamInvariant, IInvGivesAll, PTL

\* What a finished capture is missing is what its Summary says: `dropped`, and
\* the ring when tail_path is None (Stream::finish).
THEOREM StreamTellsTheGap == Spec => []FinishedTellsTheGap
BY StreamInvariant, IInvGivesAll, PTL

\* Shape in the words of HeadTail.
LEMMA PromiseHolds ==
  ASSUME NEW s \in StreamType, Shape(s)
  PROVE  /\ Span(1, s.head_written) = Promise!FrontOf(s.limits, s.total)
         /\ s.tail = Promise!BackOf(s.limits, s.total)
         /\ s.truncating = (Promise!BeyondHead(s.limits, s.total) > 0)
<1>0. /\ Promise!BeyondHead(s.limits, s.total) = Beyond(s)
      /\ s.total \in Nat /\ s.limits.head \in Nat
  BY DEF Beyond, BeyondOf, Promise!BeyondHead, Promise!Unlimited, Unlimited,
         Promise!SaturatingSub, SaturatingSub, StreamType, Limits
<1>1. s.truncating = (Promise!BeyondHead(s.limits, s.total) > 0)
  <2>1. s.truncating \in BOOLEAN
    BY DEF StreamType
  <2> QED BY <2>1, <1>0 DEF Shape
<1>2. s.tail = Promise!BackOf(s.limits, s.total)
  BY <1>0 DEF Shape, Promise!BackOf, Promise!Span, Span, Promise!Least, Least
<1>3. Span(1, s.head_written) = Promise!FrontOf(s.limits, s.total)
  <2>0. s.head_written = s.total - Beyond(s)
    BY DEF Shape
  <2>1. CASE Unlimited(s.limits)
    <3>1. s.head_written = s.total
      BY <2>0, <2>1, <1>0 DEF Beyond, BeyondOf
    <3> QED BY <2>1, <3>1 DEF Promise!FrontOf, Promise!Unlimited, Unlimited,
                              Promise!Span, Span
  <2>2. CASE ~Unlimited(s.limits)
    <3>1. s.head_written = Promise!Least(s.limits.head, s.total)
      BY <2>0, <2>2, <1>0 DEF Beyond, BeyondOf, SaturatingSub, Promise!Least
    <3> QED BY <2>2, <3>1 DEF Promise!FrontOf, Promise!Unlimited, Unlimited,
                              Promise!Span, Span
  <2> QED BY <2>1, <2>2
<1> QED BY <1>1, <1>2, <1>3

\* The stream implements HeadTail: what it keeps depends on how much went by,
\* never on how it was cut into reads.
THEOREM StreamKeepsBothEnds == Spec => KeepsBothEnds
<1>1. Init => Promise!Init
  <2> SUFFICES ASSUME Init PROVE Promise!Init
    OBVIOUS
  <2>1. IInv
    BY StreamInit
  <2>2. PICK l \in LimitChoices : st = Create(l)
    BY DEF Init
  <2>3. /\ st.limits = l /\ st.total = 0 /\ st.head_written = 0
        /\ st.tail = <<>> /\ st.truncating = FALSE
    BY <2>2 DEF Create
  <2>4. st \in StreamType /\ Shape(st)
    BY <2>1 DEF IInv, TypeOK
  <2>5. st.limits \in Promise!Limits
    BY <2>4 DEF StreamType, Limits, Promise!Limits
  <2> QED BY <2>3, <2>4, <2>5, PromiseHolds DEF Promise!Init, Promise!Holds
<1>2. IInv /\ IInv' /\ [Next]_vars => [Promise!Receive]_(Promise!vars)
  <2> SUFFICES ASSUME IInv, IInv', [Next]_vars
      PROVE  [Promise!Receive]_(Promise!vars)
    OBVIOUS
  <2>1. ASSUME NEW n \in 1 .. MaxTotal, Receive(n)
        PROVE  Promise!Receive
    <3>1. /\ st \in StreamType /\ Shape(st)
          /\ st' \in StreamType /\ Shape(st')
      BY DEF IInv, TypeOK
    <3>2. st'.limits = st.limits /\ st'.total = st.total + n
      <4>1. n \in Nat \ {0}
        BY StreamAssumption
      <4>2. st' = Write(st, Span(st.total + 1, st.total + n))
        BY <2>1 DEF Receive
      <4> QED BY <3>1, <4>1, <4>2, WriteKeepsShape
    <3>3. st'.total \in Nat /\ st'.total > st.total
      BY <3>1, <3>2, StreamAssumption DEF StreamType
    <3>4. /\ Span(1, st'.head_written) = Promise!FrontOf(st'.limits, st'.total)
          /\ st'.tail = Promise!BackOf(st'.limits, st'.total)
          /\ st'.truncating = (Promise!BeyondHead(st'.limits, st'.total) > 0)
      BY <3>1, PromiseHolds
    <3> QED BY <3>2, <3>3, <3>4 DEF Promise!Receive, Span
  <2>2. ASSUME st' = st PROVE UNCHANGED Promise!vars
    BY <2>2 DEF Promise!vars
  <2>3. CASE (\E created \in BOOLEAN : Finish(created)) \/ Kill \/ Ended
             \/ UNCHANGED vars
    BY <2>2, <2>3 DEF Finish, Kill, Ended, vars
  <2> QED BY <2>1, <2>3 DEF Next
<1> QED BY <1>1, <1>2, StreamInvariant, PTL DEF Spec, KeepsBothEnds, Promise!Spec
=============================================================================
