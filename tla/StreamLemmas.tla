----------------------------- MODULE StreamLemmas -----------------------------
(***************************************************************************)
(* Cutting, joining and extending spans of consecutive positions, what the *)
(* operations of a `Stream` do with them, and joining the sequences of a   *)
(* sequence: the facts that the proofs about captures, the log, relays and *)
(* replies rest on.                                                        *)
(***************************************************************************)
EXTENDS StreamOps, SequenceTheorems, WellFoundedInduction, TLAPS

\* A span is a sequence, of the length one expects.
LEMMA SpanType ==
  ASSUME NEW a \in Nat, NEW b \in Int, a <= b + 1
  PROVE  /\ Span(a, b) \in Seq(Nat)
         /\ Len(Span(a, b)) = b - a + 1
         /\ \A i \in 1 .. b - a + 1 : Span(a, b)[i] = a + i - 1
<1>1. Span(a, b) \in [1 .. b - a + 1 -> Nat]
  BY DEF Span
<1>2. Span(a, b) \in Seq(Nat)
  BY <1>1, SeqDef
<1> QED BY <1>1, <1>2, LenProperties DEF Span

\* A sequence that counts up from a is a span.
LEMMA SpanCharacter ==
  ASSUME NEW a \in Nat, NEW b \in Int, a <= b + 1,
         NEW s \in Seq(Nat), Len(s) = b - a + 1,
         \A i \in 1 .. Len(s) : s[i] = a + i - 1
  PROVE  s = Span(a, b)
<1>1. /\ Span(a, b) \in Seq(Nat) /\ Len(Span(a, b)) = b - a + 1
      /\ \A i \in 1 .. b - a + 1 : Span(a, b)[i] = a + i - 1
  BY SpanType
<1>2. \A i \in 1 .. Len(s) : s[i] = Span(a, b)[i]
  BY <1>1
<1> QED BY <1>1, <1>2, SeqEqual

\* Adjacent spans join into one.
LEMMA SpanConcat ==
  ASSUME NEW a \in Nat, NEW b \in Int, NEW c \in Int, a <= b + 1, b <= c
  PROVE  Span(a, b) \o Span(b + 1, c) = Span(a, c)
<1>1. /\ Span(a, b) \in Seq(Nat) /\ Len(Span(a, b)) = b - a + 1
      /\ \A i \in 1 .. b - a + 1 : Span(a, b)[i] = a + i - 1
  BY SpanType
<1>2. /\ Span(b + 1, c) \in Seq(Nat) /\ Len(Span(b + 1, c)) = c - b
      /\ \A i \in 1 .. c - b : Span(b + 1, c)[i] = b + i
  <2> DEFINE d == b + 1
  <2>1. d \in Nat /\ d <= c + 1 /\ c - d + 1 = c - b
    OBVIOUS
  <2> HIDE DEF d
  <2>2. /\ Span(d, c) \in Seq(Nat) /\ Len(Span(d, c)) = c - d + 1
        /\ \A i \in 1 .. c - d + 1 : Span(d, c)[i] = d + i - 1
    BY <2>1, SpanType
  <2>3. \A i \in 1 .. c - b : d + i - 1 = b + i
    BY DEF d
  <2>4. \A i \in 1 .. c - b : Span(d, c)[i] = b + i
    BY <2>1, <2>2, <2>3
  <2> QED BY <2>1, <2>2, <2>4 DEF d
<1> DEFINE x == Span(a, b)
           y == Span(b + 1, c)
           s == x \o y
<1> HIDE DEF x, y
<1>3. x \in Seq(Nat) /\ y \in Seq(Nat) /\ Len(x) = b - a + 1 /\ Len(y) = c - b
  BY <1>1, <1>2 DEF x, y
<1>4. /\ s \in Seq(Nat) /\ Len(s) = Len(x) + Len(y)
      /\ \A i \in 1 .. Len(x) + Len(y) :
            s[i] = IF i <= Len(x) THEN x[i] ELSE y[i - Len(x)]
  BY <1>3, ConcatProperties
<1> HIDE DEF s
<1>5. \A i \in 1 .. Len(s) : s[i] = a + i - 1
  <2> TAKE i \in 1 .. Len(s)
  <2>1. CASE i <= Len(x)
    <3>1. i \in 1 .. b - a + 1
      BY <2>1, <1>3
    <3>2. s[i] = x[i]
      BY <2>1, <1>4
    <3> QED BY <3>1, <3>2, <1>1 DEF x
  <2>2. CASE i > Len(x)
    <3>1. i - Len(x) \in 1 .. c - b
      BY <2>2, <1>3, <1>4
    <3>2. s[i] = y[i - Len(x)]
      BY <2>2, <1>3, <1>4
    <3>3. s[i] = b + (i - Len(x))
      BY <3>1, <3>2, <1>2 DEF y
    <3> QED BY <3>3, <1>3
  <2> QED BY <2>1, <2>2, <1>3
<1>6. Len(s) = c - a + 1 /\ a <= c + 1
  BY <1>3, <1>4
<1>7. s = Span(a, c)
  BY <1>4, <1>5, <1>6, SpanCharacter
<1> QED BY <1>7 DEF s, x, y

\* A part of a span is a span.
LEMMA SpanSubSeq ==
  ASSUME NEW a \in Nat, NEW b \in Int, a <= b + 1,
         NEW m \in Nat \ {0}, NEW n \in Nat, m <= n + 1, n <= b - a + 1
  PROVE  SubSeq(Span(a, b), m, n) = Span(a + m - 1, a + n - 1)
<1> DEFINE s == SubSeq(Span(a, b), m, n)
           p == a + m - 1
           q == a + n - 1
<1>1. /\ Span(a, b) \in Seq(Nat) /\ Len(Span(a, b)) = b - a + 1
      /\ \A i \in 1 .. b - a + 1 : Span(a, b)[i] = a + i - 1
  BY SpanType
<1>2. \A i \in m .. n : i \in 1 .. b - a + 1
  OBVIOUS
<1>3. \A i \in m .. n : Span(a, b)[i] \in Nat
  BY <1>1, <1>2
<1>4. /\ s \in Seq(Nat) /\ Len(s) = n - m + 1
      /\ \A i \in 1 .. n - m + 1 : s[i] = Span(a, b)[m + i - 1]
  BY <1>3, SubSeqProperties
<1> HIDE DEF s
<1>5. \A i \in 1 .. n - m + 1 : s[i] = p + i - 1
  <2> TAKE i \in 1 .. n - m + 1
  <2> DEFINE j == m + i - 1
  <2>1. j \in 1 .. b - a + 1 /\ a + j - 1 = p + i - 1
    OBVIOUS
  <2>2. s[i] = Span(a, b)[j]
    BY <1>4
  <2> HIDE DEF j, p
  <2>3. Span(a, b)[j] = a + j - 1
    BY <2>1, <1>1
  <2> QED BY <2>1, <2>2, <2>3
<1>6. p \in Nat /\ q \in Int /\ p <= q + 1 /\ Len(s) = q - p + 1
  BY <1>4
<1> HIDE DEF p, q
<1>7. \A i \in 1 .. Len(s) : s[i] = p + i - 1
  BY <1>4, <1>5
<1>8. s = Span(p, q)
  BY <1>4, <1>6, <1>7, SpanCharacter
<1> QED BY <1>8 DEF s, p, q

\* The same two facts, for the n positions after the first a of a stream: the
\* shape every write and every ring has.
LEMMA RunType ==
  ASSUME NEW a \in Nat, NEW n \in Nat
  PROVE  /\ Span(a + 1, a + n) \in Seq(Nat)
         /\ Len(Span(a + 1, a + n)) = n
         /\ Span(a + 1, a + n) = <<>> <=> n = 0
<1> DEFINE p == a + 1
           q == a + n
<1>1. p \in Nat /\ q \in Int /\ p <= q + 1 /\ q - p + 1 = n
  OBVIOUS
<1> HIDE DEF p, q
<1>2. Span(p, q) \in Seq(Nat) /\ Len(Span(p, q)) = n
  BY <1>1, SpanType
<1>3. Span(p, q) = <<>> <=> n = 0
  BY <1>2, EmptySeq
<1> QED BY <1>2, <1>3 DEF p, q

LEMMA RunCut ==
  ASSUME NEW a \in Nat, NEW n \in Nat, NEW k \in 0 .. n
  PROVE  /\ SubSeq(Span(a + 1, a + n), 1, k) = Span(a + 1, a + k)
         /\ SubSeq(Span(a + 1, a + n), k + 1, n) = Span(a + k + 1, a + n)
<1> DEFINE p == a + 1
           q == a + n
           m == k + 1
<1>1. /\ p \in Nat /\ q \in Int /\ p <= q + 1 /\ k \in Nat
      /\ 1 \in Nat \ {0} /\ 1 <= k + 1 /\ k <= q - p + 1
      /\ p + 1 - 1 = p /\ p + k - 1 = a + k
      /\ m \in Nat \ {0} /\ m <= n + 1 /\ n <= q - p + 1
      /\ p + m - 1 = a + k + 1 /\ p + n - 1 = q
  OBVIOUS
<1> HIDE DEF p, q, m
<1>2. SubSeq(Span(p, q), 1, k) = Span(p + 1 - 1, p + k - 1)
  <2>1. p \in Nat /\ q \in Int /\ p <= q + 1
        /\ 1 \in Nat \ {0} /\ k \in Nat /\ 1 <= k + 1 /\ k <= q - p + 1
    BY <1>1
  <2> QED BY ONLY <2>1, SpanSubSeq, ZenonT(30)
<1>3. SubSeq(Span(p, q), m, n) = Span(p + m - 1, p + n - 1)
  <2>1. p \in Nat /\ q \in Int /\ p <= q + 1
        /\ m \in Nat \ {0} /\ n \in Nat /\ m <= n + 1 /\ n <= q - p + 1
    BY <1>1
  <2> QED BY ONLY <2>1, SpanSubSeq, ZenonT(30)
<1>4. SubSeq(Span(p, q), 1, k) = Span(p, a + k)
  BY <1>1, <1>2, Zenon
<1>5. SubSeq(Span(p, q), m, n) = Span(a + k + 1, q)
  BY <1>1, <1>3, Zenon
<1> QED BY <1>4, <1>5 DEF p, q, m

LEMMA RunJoin ==
  ASSUME NEW a \in Nat, NEW k \in Nat, NEW n \in Nat, k <= n
  PROVE  Span(a + 1, a + k) \o Span(a + k + 1, a + n) = Span(a + 1, a + n)
<1> DEFINE p == a + 1
           q == a + k
           r == a + n
<1>1. p \in Nat /\ q \in Int /\ r \in Int /\ p <= q + 1 /\ q <= r
  OBVIOUS
<1> HIDE DEF p, q, r
<1>2. Span(p, q) \o Span(q + 1, r) = Span(p, r)
  BY <1>1, SpanConcat, Zenon
<1> QED BY <1>2 DEF p, q, r

\* A run that lost its first d positions and gained the next r.
LEMMA RunShift ==
  ASSUME NEW a \in Nat, NEW t \in Nat, NEW r \in Nat, NEW d \in 0 .. t
  PROVE  SubSeq(Span(a + 1, a + t), d + 1, t) \o Span(a + t + 1, a + t + r)
           = Span(a + d + 1, a + t + r)
<1> DEFINE b == a + d
           k == t - d
           n == k + r
<1>1. SubSeq(Span(a + 1, a + t), d + 1, t) = Span(a + d + 1, a + t)
  BY RunCut
<1>2. /\ b \in Nat /\ k \in Nat /\ n \in Nat /\ k <= n
      /\ b + k = a + t /\ b + n = a + t + r
  OBVIOUS
<1> HIDE DEF b, k, n
<1>3. Span(b + 1, b + k) \o Span(b + k + 1, b + n) = Span(b + 1, b + n)
  BY <1>2, RunJoin, Zenon
<1>4. Span(b + 1, a + t) \o Span(a + t + 1, a + t + r) = Span(b + 1, a + t + r)
  BY <1>2, <1>3
<1> QED BY <1>1, <1>4 DEF b

\* Concatenation is associative (the instance the head file needs).
LEMMA JoinAssociates ==
  ASSUME NEW h \in Seq(Nat), NEW b \in Seq(Nat), NEW d \in Seq(Nat)
  PROVE  (h \o b) \o d = h \o (b \o d)
BY ConcatAssociative, SMTT(30)

-----------------------------------------------------------------------------
\* The n positions after the first a, by how many there are: what is in a
\* buffer on a stream's way, and how it goes in and comes out.
Run(a, n) == Span(a + 1, a + n)

LEMMA RunIsSeq ==
  ASSUME NEW a \in Nat, NEW n \in Nat
  PROVE  /\ Run(a, n) \in Seq(Nat) /\ Len(Run(a, n)) = n
         /\ Run(a, n) = <<>> <=> n = 0
         /\ \A i \in 1 .. n : Run(a, n)[i] = a + i
<1> DEFINE p == a + 1
           q == a + n
<1>1. p \in Nat /\ q \in Int /\ p <= q + 1 /\ q - p + 1 = n
      /\ \A i \in 1 .. n : p + i - 1 = a + i
  OBVIOUS
<1> HIDE DEF p, q
<1>2. \A i \in 1 .. q - p + 1 : Span(p, q)[i] = p + i - 1
  BY <1>1, SpanType
<1>3. \A i \in 1 .. n : Span(p, q)[i] = a + i
  BY <1>1, <1>2
<1> QED BY <1>3, RunType DEF Run, p, q

LEMMA RunWithin ==
  ASSUME NEW a \in Nat, NEW n \in Nat, NEW m \in Nat, a + n <= m
  PROVE  Run(a, n) \in Seq(1 .. m)
<1>1. /\ Run(a, n) \in Seq(Nat) /\ Len(Run(a, n)) = n
      /\ \A i \in 1 .. n : Run(a, n)[i] = a + i
  BY RunIsSeq
<1>2. \A i \in 1 .. n : Run(a, n)[i] \in 1 .. m
  BY <1>1
<1>3. Run(a, n) \in [1 .. n -> 1 .. m]
  BY <1>1, <1>2, LenProperties
<1> QED BY <1>3, SeqDef

LEMMA RunSplit ==
  ASSUME NEW a \in Nat, NEW n \in Nat, NEW k \in 0 .. n
  PROVE  /\ SubSeq(Run(a, n), 1, k) = Run(a, k)
         /\ SubSeq(Run(a, n), k + 1, n) = Run(a + k, n - k)
<1>1. a + k + (n - k) = a + n
  OBVIOUS
<1>2. /\ SubSeq(Span(a + 1, a + n), 1, k) = Span(a + 1, a + k)
      /\ SubSeq(Span(a + 1, a + n), k + 1, n) = Span(a + k + 1, a + n)
  BY RunCut, ZenonT(30)
<1> QED BY <1>1, <1>2, ZenonT(30) DEF Run

LEMMA RunConcat ==
  ASSUME NEW a \in Nat, NEW k \in Nat, NEW m \in Nat
  PROVE  Run(a, k) \o Run(a + k, m) = Run(a, k + m)
<1> DEFINE n == k + m
<1>1. n \in Nat /\ k <= n /\ a + k + m = a + n
  OBVIOUS
<1> HIDE DEF n
<1>2. Span(a + 1, a + k) \o Span(a + k + 1, a + n) = Span(a + 1, a + n)
  BY <1>1, RunJoin, Zenon
<1> QED BY <1>1, <1>2 DEF Run, n

LEMMA RunFromStart ==
  ASSUME NEW k \in Nat, NEW m \in Nat
  PROVE  Run(0, k) \o Run(k, m) = Run(0, k + m)
<1>1. 0 \in Nat /\ 0 + k = k
  OBVIOUS
<1>2. Run(0, k) \o Run(0 + k, m) = Run(0, k + m)
  BY <1>1, RunConcat, ZenonT(30)
<1> QED BY <1>1, <1>2, ZenonT(30)

\* The bytes after the first k of them, and one more.
LEMMA RunEnds ==
  ASSUME NEW a \in Nat, NEW n \in Nat
  PROVE  /\ Append(Run(a, n), a + n + 1) = Run(a, n + 1)
         /\ n > 0 => Head(Run(a, n)) = a + 1 /\ Tail(Run(a, n)) = Run(a + 1, n - 1)
<1>1. Append(Run(a, n), a + n + 1) = Run(a, n + 1)
  <2> DEFINE s == Append(Run(a, n), a + n + 1)
             t == Run(a, n + 1)
  <2>1. /\ Run(a, n) \in Seq(Nat) /\ Len(Run(a, n)) = n
        /\ \A i \in 1 .. n : Run(a, n)[i] = a + i
        /\ n + 1 \in Nat
    BY RunIsSeq
  <2>2. t \in Seq(Nat) /\ Len(t) = n + 1 /\ \A i \in 1 .. n + 1 : t[i] = a + i
    BY <2>1, RunIsSeq
  <2>3. s \in Seq(Nat) /\ Len(s) = n + 1
        /\ \A i \in 1 .. n : s[i] = Run(a, n)[i]
        /\ s[n + 1] = a + n + 1
    BY <2>1, AppendProperties
  <2>4. \A i \in 1 .. n + 1 : s[i] = a + i
    BY <2>1, <2>3
  <2> HIDE DEF s, t
  <2>5. Len(s) = Len(t) /\ \A i \in 1 .. Len(s) : s[i] = t[i]
    BY <2>2, <2>3, <2>4
  <2>6. s = t
    BY <2>2, <2>3, <2>5, SeqEqual
  <2> QED BY <2>6 DEF s, t
<1>2. ASSUME n > 0
      PROVE  Head(Run(a, n)) = a + 1 /\ Tail(Run(a, n)) = Run(a + 1, n - 1)
  <2> DEFINE r == Run(a, n)
  <2>1. r \in Seq(Nat) /\ Len(r) = n /\ r # <<>> /\ r[1] = a + 1
    BY <1>2, RunIsSeq
  <2>2. Head(r) = a + 1
    BY <2>1, HeadTailProperties
  <2>3. Tail(r) = SubSeq(r, 2, Len(r))
    BY <2>1, TailIsSubSeq
  <2>4. SubSeq(r, 2, n) = Run(a + 1, n - 1)
    <3>1. 1 \in 0 .. n
      BY <1>2
    <3>2. SubSeq(r, 1 + 1, n) = Run(a + 1, n - 1)
      BY <3>1, RunSplit, Zenon
    <3> HIDE DEF r
    <3> QED BY <3>2
  <2> HIDE DEF r
  <2> QED BY <2>1, <2>2, <2>3, <2>4 DEF r
<1> QED BY <1>1, <1>2

-----------------------------------------------------------------------------
\* The Stream struct.

\* How many of n bytes are past the head.
BeyondOf(limits, n) == IF Unlimited(limits) THEN 0 ELSE SaturatingSub(n, limits.head)

Beyond(s) == BeyondOf(s.limits, s.total)

\* The fields of a Stream as functions of its limits and its total.
Shape(s) ==
  /\ s.head_written = s.total - Beyond(s)
  /\ s.tail = Span(s.total - Least(s.limits.tail, Beyond(s)) + 1, s.total)
  /\ s.dropped = Beyond(s) - Least(s.limits.tail, Beyond(s))
  /\ s.truncating <=> (Beyond(s) > 0)

\* How many bytes of a write of n go to the head file.
HeadShare(s, n) == IF Unlimited(s.limits) THEN n ELSE Least(Room(s), n)

\* The BufWriter loses nothing and keeps the order.
LEMMA BufferConserves ==
  ASSUME NEW cap \in Nat \ {0}, NEW buf \in Seq(Nat), NEW data \in Seq(Nat)
  PROVE  /\ BufPassed(cap, buf, data) \in Seq(Nat)
         /\ BufKept(cap, buf, data) \in Seq(Nat)
         /\ BufPassed(cap, buf, data) \o BufKept(cap, buf, data) = buf \o data
<1>0. /\ <<>> \in Seq(Nat) /\ Len(buf) \in Nat /\ Len(data) \in Nat
      /\ \A s \in Seq(Nat) : s \o <<>> = s /\ <<>> \o s = s
  BY EmptySeq, ConcatEmptySeq, LenProperties
<1>1. CASE Len(data) >= cap
  <2>1. BufKept(cap, buf, data) = <<>>
    BY <1>1 DEF BufKept
  <2>2. BufPassed(cap, buf, data) = buf \o data
    <3>1. CASE Len(buf) + Len(data) > cap
      BY <1>1, <3>1 DEF BufPassed
    <3>2. CASE ~(Len(buf) + Len(data) > cap)
      <4>1. buf = <<>>
        BY <1>0, <1>1, <3>2, EmptySeq
      <4> QED BY <1>1, <3>2, <4>1 DEF BufPassed
    <3> QED BY <3>1, <3>2
  <2>3. buf \o data \in Seq(Nat)
    BY ConcatProperties
  <2> QED BY <1>0, <2>1, <2>2, <2>3
<1>2. CASE ~(Len(data) >= cap)
  <2>1. CASE Len(buf) + Len(data) > cap
    <3>1. BufPassed(cap, buf, data) = buf \o <<>>
      BY <1>2, <2>1 DEF BufPassed
    <3>2. BufKept(cap, buf, data) = data
      BY <1>2, <2>1 DEF BufKept
    <3> QED BY <1>0, <3>1, <3>2
  <2>2. CASE ~(Len(buf) + Len(data) > cap)
    <3>1. BufPassed(cap, buf, data) = <<>> \o <<>>
      BY <1>2, <2>2 DEF BufPassed
    <3>2. BufKept(cap, buf, data) = buf \o data
      BY <1>2, <2>2 DEF BufKept
    <3>3. buf \o data \in Seq(Nat) /\ <<>> \o <<>> = <<>>
      BY <1>0, ConcatProperties
    <3> QED BY <1>0, <3>1, <3>2, <3>3
  <2> QED BY <2>1, <2>2
<1> QED BY <1>1, <1>2

\* How one write splits a run of positions between the head and the ring.
LEMMA WriteSplits ==
  ASSUME NEW s \in StreamType, NEW n \in Nat \ {0}
  PROVE  LET data == Span(s.total + 1, s.total + n)
             k == HeadShare(s, n)
         IN
         /\ k \in Nat /\ k <= n
         /\ HeadPart(s, data) = Span(s.total + 1, s.total + k)
         /\ Len(HeadPart(s, data)) = k
         /\ RingPart(s, data) = Span(s.total + k + 1, s.total + n)
         /\ Len(RingPart(s, data)) = n - k
         /\ Len(data) = n
         /\ RingPart(s, data) = <<>> <=> k = n
<1> DEFINE a == s.total
           k == HeadShare(s, n)
           data == Span(a + 1, a + n)
           head == Span(a + 1, a + k)
           rest == Span(a + k + 1, a + n)
<1>0. /\ a \in Nat /\ s.head_written \in Nat /\ s.limits.head \in Nat
      /\ n \in Nat
  BY DEF StreamType, Limits
<1>1. k \in 0 .. n
  BY <1>0 DEF HeadShare, Room, SaturatingSub, Least
<1> HIDE DEF a, k
<1>2. Len(data) = n /\ Len(head) = k
  BY <1>0, <1>1, RunType
<1>3. Len(rest) = n - k /\ (rest = <<>> <=> k = n)
  <2> DEFINE c == a + k
             m == n - k
  <2>1. c \in Nat /\ m \in Nat /\ c + m = a + n /\ (m = 0 <=> k = n)
    BY <1>0, <1>1
  <2> HIDE DEF c, m
  <2>2. Len(Span(c + 1, c + m)) = m /\ (Span(c + 1, c + m) = <<>> <=> m = 0)
    BY <2>1, RunType
  <2>3. Len(Span(c + 1, a + n)) = m /\ (Span(c + 1, a + n) = <<>> <=> k = n)
    BY <2>1, <2>2
  <2> QED BY <2>3 DEF c, m
<1>4. SubSeq(data, 1, k) = head /\ SubSeq(data, k + 1, n) = rest
  BY <1>0, <1>1, RunCut
<1> HIDE DEF data, head, rest
<1>5. HeadPart(s, data) = head
  <2>1. CASE Unlimited(s.limits)
    BY <2>1 DEF HeadPart, HeadShare, k, data, head
  <2>2. CASE ~Unlimited(s.limits)
    <3>1. k = Least(Room(s), Len(data))
      BY <2>2, <1>2 DEF HeadShare, k
    <3> QED BY <2>2, <3>1, <1>4 DEF HeadPart, FirstOf
  <2> QED BY <2>1, <2>2
<1>6. RingPart(s, data) = rest
  BY <1>2, <1>4, <1>5 DEF RingPart, DropFirst
<1>7. k \in Nat /\ k <= n
  BY <1>1
<1> QED BY <1>2, <1>3, <1>5, <1>6, <1>7 DEF data, head, rest, a, k

\* The ring after a run of r positions went through it holds the last `cap`
\* of all that ever did, and counts the others as lost.
LEMMA RingKeepsLast ==
  ASSUME NEW s \in StreamType, NEW e \in Nat, NEW o \in Nat, o <= e,
         NEW r \in Nat \ {0}
  PROVE  LET rest == Span(e + 1, e + r)
             cap == s.limits.tail
         IN
         s.tail = Span(e - Least(cap, o) + 1, e) =>
         /\ PushedTail(s, rest) = Span(e + r - Least(cap, o + r) + 1, e + r)
         /\ PushLoss(s, rest) = (o + r - Least(cap, o + r)) - (o - Least(cap, o))
<1> DEFINE rest == Span(e + 1, e + r)
           cap == s.limits.tail
           T == Least(cap, o)
           a == e - T
<1>h. SUFFICES ASSUME s.tail = Span(e - T + 1, e)
      PROVE  /\ PushedTail(s, rest) = Span(e + r - Least(cap, o + r) + 1, e + r)
             /\ PushLoss(s, rest) = (o + r - Least(cap, o + r)) - (o - T)
  OBVIOUS
<1>0. cap \in Nat /\ r \in Nat /\ r > 0
  BY DEF StreamType, Limits
<1> HIDE DEF cap
<1>1. T \in Nat /\ T <= cap /\ T <= o /\ (T = cap \/ T = o)
  BY <1>0 DEF Least
<1> HIDE DEF T
<1>2. a \in Nat /\ a + T = e /\ e - T + 1 = a + 1
  BY <1>1
<1> HIDE DEF a
<1>3. Len(rest) = r
  BY <1>0, RunType
<1>4. s.tail = Span(a + 1, a + T)
  BY <1>h, <1>2
<1>5. Len(s.tail) = T
  BY <1>1, <1>2, <1>4, RunType
<1>6. CASE cap = 0
  <2>1. T = 0 /\ Least(cap, o + r) = 0
    BY <1>0, <1>1, <1>6 DEF Least
  <2>2. PushedTail(s, rest) = s.tail /\ PushLoss(s, rest) = r
    BY <1>3, <1>6 DEF PushedTail, PushLoss, cap
  <2>3. s.tail = <<>>
    BY <1>2, <1>4, <2>1, RunType
  <2>4. Span((e + r) + 1, (e + r) + 0) = <<>>
    <3> DEFINE f == e + r
    <3>1. f \in Nat
      BY <1>0
    <3> HIDE DEF f
    <3>2. Span(f + 1, f + 0) = <<>>
      BY <3>1, RunType
    <3> QED BY <3>2 DEF f
  <2>5. Span(e + r - 0 + 1, e + r) = <<>>
    BY <1>0, <2>4
  <2> QED BY <1>0, <2>1, <2>2, <2>3, <2>5 DEF T, cap, rest
<1>7. CASE cap # 0 /\ r >= cap
  <2> DEFINE k == r - cap
  <2>1. k \in 0 .. r /\ Least(cap, o + r) = cap
    BY <1>0, <1>7 DEF Least
  <2>2. PushedTail(s, rest) = SubSeq(rest, k + 1, r)
    BY <1>3, <1>7 DEF PushedTail, LastOf, cap
  <2>3. PushLoss(s, rest) = T + (r - cap)
    BY <1>3, <1>5, <1>7 DEF PushLoss, cap
  <2>4. e + k + 1 = e + r - cap + 1
    BY <1>0
  <2> HIDE DEF k
  <2>5. SubSeq(rest, k + 1, r) = Span(e + k + 1, e + r)
    BY <1>0, <2>1, RunCut DEF rest
  <2>6. PushLoss(s, rest) = (o + r - cap) - (o - T)
    BY <1>0, <1>1, <2>3
  <2>7. PushedTail(s, rest) = Span(e + r - cap + 1, e + r)
    BY <2>2, <2>4, <2>5
  <2> HIDE DEF rest
  <2> QED BY <2>1, <2>6, <2>7 DEF T, cap, rest
<1>8. CASE cap # 0 /\ ~(r >= cap)
  <2> DEFINE d == SaturatingSub(T + r, cap)
             m == T - d + r
             keep == SubSeq(s.tail, d + 1, T)
  <2>1. /\ d \in 0 .. T
        /\ Least(cap, o + r) = m
        /\ d = (o + r - m) - (o - T)
    BY <1>0, <1>1, <1>8 DEF SaturatingSub, Least
  <2>2. PushedTail(s, rest) = keep \o rest
    BY <1>3, <1>5, <1>8 DEF PushedTail, DropFirst, cap
  <2>3. PushLoss(s, rest) = d
    BY <1>3, <1>5, <1>8 DEF PushLoss, cap
  <2> HIDE DEF d
  <2>4. keep \o rest = Span(a + d + 1, a + T + r)
    <3>1. a \in Nat /\ T \in Nat /\ r \in Nat /\ d \in 0 .. T
      BY <1>0, <1>1, <1>2, <2>1
    <3>2. SubSeq(Span(a + 1, a + T), d + 1, T) \o Span(a + T + 1, a + T + r)
            = Span(a + d + 1, a + T + r)
      BY ONLY <3>1, RunShift, ZenonT(30)
    <3> QED BY <1>2, <1>4, <3>2 DEF rest
  <2>5. a + d + 1 = e + r - m + 1 /\ a + T + r = e + r
    BY <1>0, <1>1, <1>2, <2>1
  <2> HIDE DEF m, keep, rest
  <2>6. PushedTail(s, rest) = Span(e + r - m + 1, e + r)
    BY <2>2, <2>4, <2>5
  <2> QED BY <2>1, <2>3, <2>6 DEF T, cap, rest
<1> QED BY <1>6, <1>7, <1>8

\* An empty run has no positions, wherever it is.
LEMMA EmptyRun ==
  ASSUME NEW a \in Nat
  PROVE  Span(a + 1, a) = <<>>
<1>1. Span(a + 1, a + 0) = <<>>
  BY RunType
<1> QED BY <1>1

\* The numbers of one write: k positions go to the head, n - k beyond it.
LEMMA WriteNumbers ==
  ASSUME NEW s \in StreamType, NEW n \in Nat \ {0},
         s.head_written = s.total - Beyond(s)
  PROVE  LET b == BeyondOf(s.limits, s.total + n)
             k == HeadShare(s, n)
         IN
         /\ Beyond(s) \in Nat /\ Beyond(s) <= s.total
         /\ k <= n
         /\ b = Beyond(s) + (n - k)
         /\ k = n => Beyond(s) = 0
         /\ k > 0 => Beyond(s) = 0
BY SMTT(30)
   DEF HeadShare, StreamType, Limits, Unlimited, Room, SaturatingSub, Least, Beyond,
       BeyondOf

\* One write of any size keeps every field where the promise wants it.
LEMMA WriteKeepsShape ==
  ASSUME NEW s \in StreamType, Shape(s), NEW n \in Nat \ {0}
  PROVE  LET data == Span(s.total + 1, s.total + n)
             t == Write(s, data)
         IN
         /\ t \in StreamType
         /\ t.limits = s.limits
         /\ t.total = s.total + n
         /\ Shape(t)
         /\ HeadPart(s, data) = Span(s.head_written + 1, t.head_written)
         /\ HeadPart(s, data) \in Seq(Nat)
         /\ s.head_written <= t.head_written
         /\ Announces(s, data) <=> (t.truncating /\ ~s.truncating)
         /\ s.truncating => t.truncating
<1> DEFINE data == Span(s.total + 1, s.total + n)
           t == Write(s, data)
           k == HeadShare(s, n)
           rest == RingPart(s, data)
           o == Beyond(s)
           cap == s.limits.tail
           e == s.total + k
<1>0. /\ s.limits \in Limits /\ cap \in Nat /\ s.total \in Nat
      /\ s.head_written \in Nat /\ s.dropped \in Nat
      /\ s.truncating \in BOOLEAN /\ s.tail \in Seq(Nat) /\ n \in Nat
  BY DEF StreamType, Limits
<1>s. /\ s.head_written = s.total - o
      /\ s.tail = Span(s.total - Least(cap, o) + 1, s.total)
      /\ s.dropped = o - Least(cap, o)
      /\ s.truncating <=> (o > 0)
  BY DEF Shape
<1>1. /\ HeadPart(s, data) = Span(s.total + 1, s.total + k)
      /\ Len(HeadPart(s, data)) = k
      /\ rest = Span(s.total + k + 1, s.total + n)
      /\ Len(data) = n
      /\ rest = <<>> <=> k = n
  BY WriteSplits
<1>2. /\ k \in Nat /\ k <= n /\ o \in Nat /\ o <= s.total
      /\ s.total \in Nat /\ n \in Nat \ {0} /\ cap \in Nat
      /\ s.head_written = s.total - o
      /\ BeyondOf(s.limits, s.total + n) = o + (n - k)
      /\ k = n => o = 0
      /\ k > 0 => o = 0
  <2>1. k \in Nat
    BY WriteSplits
  <2> QED BY <1>0, <1>s, <2>1, WriteNumbers
<1> HIDE DEF k, rest, data, o, cap
<1>3. t = [s EXCEPT
             !.total        = s.total + n,
             !.head_written = s.head_written + k,
             !.truncating   = s.truncating \/ rest # <<>>,
             !.tail         = IF rest = <<>> THEN s.tail ELSE PushedTail(s, rest),
             !.dropped      = IF rest = <<>> THEN s.dropped
                              ELSE s.dropped + PushLoss(s, rest)]
  BY <1>1 DEF Write, rest
<1> HIDE DEF t
<1>4. /\ t.limits = s.limits /\ t.total = s.total + n
      /\ t.head_written = s.head_written + k
      /\ t.tail = IF rest = <<>> THEN s.tail ELSE PushedTail(s, rest)
      /\ t.dropped = IF rest = <<>> THEN s.dropped
                     ELSE s.dropped + PushLoss(s, rest)
  BY <1>3 DEF StreamType
<1>t. t.truncating <=> (s.truncating \/ rest # <<>>)
  BY <1>3 DEF StreamType
<1>b. Beyond(t) = o + (n - k)
  BY <1>2, <1>4 DEF Beyond
<1>5. t.truncating <=> (Beyond(t) > 0)
  <2>1. (o > 0 \/ k # n) <=> Beyond(t) > 0
    BY <1>2, <1>b
  <2>2. (s.truncating \/ rest # <<>>) <=> (o > 0 \/ k # n)
    BY <1>s, <1>1, Zenon
  <2> QED BY <1>t, <2>1, <2>2, Zenon
<1>6. /\ t.tail = Span(t.total - Least(cap, Beyond(t)) + 1, t.total)
      /\ t.dropped = Beyond(t) - Least(cap, Beyond(t))
  <2>1. CASE k = n
    <3>1. o = 0 /\ Beyond(t) = 0 /\ Least(cap, 0) = 0
      BY <2>1, <1>2, <1>b DEF Least
    <3>2. t.tail = s.tail /\ t.dropped = s.dropped
      BY <2>1, <1>1, <1>4
    <3>3. s.tail = <<>> /\ s.dropped = 0
      <4>1. Span(s.total + 1, s.total) = <<>>
        BY <1>0, EmptyRun
      <4>2. s.total - 0 + 1 = s.total + 1
        BY <1>0
      <4> QED BY <1>s, <3>1, <4>1, <4>2
    <3>4. Span(t.total - 0 + 1, t.total) = <<>>
      <4>1. t.total \in Nat
        BY <1>0, <1>4
      <4>2. Span(t.total + 1, t.total) = <<>>
        BY <4>1, EmptyRun
      <4>3. t.total - 0 + 1 = t.total + 1
        BY <4>1
      <4> QED BY <4>2, <4>3
    <3> QED BY <3>1, <3>2, <3>3, <3>4
  <2>2. CASE k # n
    <3> DEFINE r == n - k
    <3>1. /\ e \in Nat /\ r \in Nat \ {0} /\ o <= e /\ e + r = s.total + n
          /\ Beyond(t) = o + r
      BY <2>2, <1>2, <1>b
    <3>2. rest = Span(e + 1, e + r) /\ rest # <<>>
      BY <2>2, <1>1, <3>1
    <3>3. s.tail = Span(e - Least(cap, o) + 1, e)
      <4>1. CASE k = 0
        BY <4>1, <1>0, <1>s
      <4>2. CASE k # 0
        <5>1. o = 0 /\ Least(cap, o) = 0
          BY <4>2, <1>0, <1>2 DEF Least
        <5>2. Span(s.total + 1, s.total) = <<>> /\ Span(e + 1, e) = <<>>
          BY <1>0, <3>1, EmptyRun
        <5>3. s.total - 0 + 1 = s.total + 1 /\ e - 0 + 1 = e + 1
          BY <1>2
        <5> QED BY <1>s, <5>1, <5>2, <5>3
      <4> QED BY <4>1, <4>2
    <3> HIDE DEF e, r
    <3>4. /\ PushedTail(s, rest) = Span(e + r - Least(cap, o + r) + 1, e + r)
          /\ PushLoss(s, rest) = (o + r - Least(cap, o + r)) - (o - Least(cap, o))
      <4>1. o \in Nat /\ e \in Nat /\ r \in Nat \ {0} /\ o <= e
        BY <1>2, <3>1
      <4> QED BY <3>2, <3>3, <4>1, RingKeepsLast, ZenonT(30) DEF cap
    <3>5. /\ t.tail = PushedTail(s, rest)
          /\ t.dropped = s.dropped + PushLoss(s, rest)
      BY <1>4, <3>2
    <3> DEFINE m == Least(cap, o + r)
    <3>6. Least(cap, o) \in Int /\ m \in Int
      BY <1>0, <1>2, <3>1 DEF Least
    <3>7. Least(cap, Beyond(t)) = m
      BY <3>1
    <3>8. /\ PushedTail(s, rest) = Span(e + r - m + 1, e + r)
          /\ PushLoss(s, rest) = (o + r - m) - (o - Least(cap, o))
      BY <3>4
    <3> HIDE DEF m
    <3>9. t.dropped = Beyond(t) - m
      BY <1>s, <1>2, <3>1, <3>5, <3>6, <3>8
    <3>10. t.tail = Span(t.total - m + 1, t.total)
      <4>1. t.total = e + r
        BY <1>4, <3>1
      <4> QED BY <3>1, <3>5, <3>6, <3>8, <4>1
    <3> QED BY <3>7, <3>9, <3>10
  <2> QED BY <2>1, <2>2
<1>7. t.head_written = t.total - Beyond(t)
  BY <1>2, <1>4, <1>b
<1>8. Shape(t)
  BY <1>4, <1>5, <1>6, <1>7 DEF Shape, cap
<1>9. t \in StreamType
  <2> DEFINE T == Least(cap, Beyond(t))
             a == t.total - T
  <2>1. /\ T \in Nat /\ T <= t.total /\ t.total \in Nat /\ t.dropped \in Nat
        /\ T <= Beyond(t)
    <3>1. /\ t.total \in Nat /\ Beyond(t) \in Nat /\ Beyond(t) <= t.total
      BY <1>2, <1>4, <1>b
    <3>2. T \in Nat /\ T <= Beyond(t)
      BY <1>2, <3>1 DEF Least
    <3> QED BY <1>6, <3>1, <3>2
  <2>2. a \in Nat /\ a + T = t.total /\ a + 1 = t.total - T + 1
    BY <2>1
  <2>3. t.tail \in Seq(Nat)
    <3> HIDE DEF a, T
    <3>1. Span(a + 1, a + T) \in Seq(Nat)
      BY <2>1, <2>2, RunType
    <3>2. t.tail = Span(a + 1, a + T)
      BY <1>6, <2>2 DEF T
    <3> QED BY <3>1, <3>2
  <2>4. t.truncating \in BOOLEAN
    BY <1>3, <1>0 DEF StreamType
  <2>5. t.head_written \in Nat
    BY <1>0, <1>2, <1>4
  <2> QED BY <1>0, <1>3, <1>4, <2>1, <2>3, <2>4, <2>5 DEF StreamType
<1>10. HeadPart(s, data) = Span(s.head_written + 1, t.head_written)
  <2>1. CASE k = 0
    <3>1. Span(s.total + 1, s.total) = <<>>
          /\ Span(s.head_written + 1, s.head_written) = <<>>
      BY <1>0, EmptyRun
    <3>2. t.head_written = s.head_written /\ s.total + k = s.total
      BY <2>1, <1>0, <1>4
    <3> QED BY <3>1, <3>2, <1>1
  <2>2. CASE k # 0
    <3>1. s.head_written = s.total
      BY <2>2, <1>0, <1>2, <1>s
    <3> QED BY <3>1, <1>1, <1>4
  <2> QED BY <2>1, <2>2
<1>11. HeadPart(s, data) \in Seq(Nat)
  BY <1>0, <1>1, RunType
<1>12. Announces(s, data) <=> (t.truncating /\ ~s.truncating)
  <2>1. t.truncating <=> (s.truncating \/ rest # <<>>)
    BY <1>t, Zenon
  <2> QED BY <2>1, Zenon DEF Announces, rest
<1>13. s.head_written <= t.head_written
  BY <1>2, <1>4
<1>14. s.truncating => t.truncating
  BY <1>t, Zenon
<1> QED BY <1>4, <1>8, <1>9, <1>10, <1>11, <1>12, <1>13, <1>14 DEF t, data

-----------------------------------------------------------------------------
\* What Shape says of the numbers, without the positions.
LEMMA ShapeNumbers ==
  ASSUME NEW s \in StreamType, Shape(s)
  PROVE  /\ Beyond(s) \in Nat /\ Beyond(s) <= s.total
         /\ s.head_written <= s.total
         /\ s.total = s.head_written + Len(s.tail) + s.dropped
         /\ s.tail = Span(s.total - Len(s.tail) + 1, s.total)
         /\ s.head_written + Len(s.tail) <= s.total
         /\ s.truncating
              <=> ~Unlimited(s.limits) /\ s.total > s.limits.head
<1> DEFINE o == Beyond(s)
           T == Least(s.limits.tail, o)
           a == s.total - T
<1>1. /\ s.total \in Nat /\ s.limits.tail \in Nat /\ s.limits.head \in Nat
      /\ s.head_written \in Nat /\ s.dropped \in Nat
  BY DEF StreamType, Limits
<1>2. /\ o \in Nat /\ o <= s.total
      /\ o > 0 <=> ~Unlimited(s.limits) /\ s.total > s.limits.head
  BY <1>1 DEF Beyond, BeyondOf, Unlimited, SaturatingSub
<1>3. T \in Nat /\ T <= o
  BY <1>1, <1>2 DEF Least
<1>4. /\ s.head_written = s.total - o /\ s.dropped = o - T
      /\ s.tail = Span(s.total - T + 1, s.total)
      /\ s.truncating <=> (o > 0)
  BY DEF Shape
<1> HIDE DEF o, T
<1>5. a \in Nat /\ a + T = s.total /\ s.total - T + 1 = a + 1
  BY <1>1, <1>2, <1>3
<1> HIDE DEF a
<1>6. Len(s.tail) = T
  BY <1>3, <1>4, <1>5, RunType
<1>7. s.total = s.head_written + Len(s.tail) + s.dropped
  BY <1>1, <1>2, <1>3, <1>4, <1>6
<1>8. s.head_written + Len(s.tail) <= s.total
  BY <1>1, <1>2, <1>3, <1>4, <1>6
<1>10. s.head_written <= s.total
  BY <1>1, <1>2, <1>4
<1> QED BY <1>2, <1>4, <1>6, <1>7, <1>8, <1>10 DEF o

\* The first bytes of a head file that has no hole have none either.
LEMMA PrefixOfRun ==
  ASSUME NEW x \in Seq(Nat), NEW y \in Seq(Nat), NEW n \in Nat,
         x \o y = Span(1, n)
  PROVE  x = Span(1, Len(x))
<1>1. Len(x) \in Nat /\ Len(y) \in Nat
  BY LenProperties
<1>2. /\ Len(Span(1, n)) = n
      /\ \A i \in 1 .. n : Span(1, n)[i] = i
  <2>1. n - 1 + 1 = n /\ \A i \in 1 .. n : 1 + i - 1 = i
    OBVIOUS
  <2>2. /\ Len(Span(1, n)) = n - 1 + 1
        /\ \A i \in 1 .. n - 1 + 1 : Span(1, n)[i] = 1 + i - 1
    <3>1. 1 \in Nat /\ n \in Int /\ 1 <= n + 1
      OBVIOUS
    <3> QED BY <3>1, SpanType, Zenon
  <2> QED BY <2>1, <2>2
<1>3. /\ Len(x \o y) = Len(x) + Len(y)
      /\ \A i \in 1 .. Len(x) + Len(y) :
           (x \o y)[i] = IF i <= Len(x) THEN x[i] ELSE y[i - Len(x)]
  BY ConcatProperties
<1>4. n = Len(x) + Len(y)
  BY <1>2, <1>3
<1>5. \A i \in 1 .. Len(x) : x[i] = 1 + i - 1
  <2> TAKE i \in 1 .. Len(x)
  <2>1. i \in 1 .. n /\ i \in 1 .. Len(x) + Len(y) /\ i <= Len(x)
    BY <1>1, <1>4
  <2>2. (x \o y)[i] = x[i]
    BY <2>1, <1>3
  <2>3. Span(1, n)[i] = i
    BY <2>1, <1>2
  <2>4. x[i] = i
    BY <2>2, <2>3
  <2> QED BY <2>1, <2>4
<1>6. Len(x) = Len(x) - 1 + 1 /\ 1 <= Len(x) + 1
  BY <1>1
<1> QED BY <1>1, <1>5, <1>6, SpanCharacter

-----------------------------------------------------------------------------
\* Induction, with the set of the numbers a fact holds of.

LEMMA LeastNumber ==
  ASSUME NEW T, T \subseteq Nat, T # {}
  PROVE  \E n \in T : \A m \in T : n <= m
<1> DEFINE R == OpToRel(<, Nat)
<1>1. IsWellFoundedOn(R, Nat)
  BY NatLessThanWellFounded
<1>2. \A x, y \in Nat : x < y => <<x, y>> \in R
  BY DEF OpToRel
<1> HIDE DEF R
<1>3. PICK n \in T : \A m \in T : ~(<<m, n>> \in R)
  BY <1>1, WFMin
<1>4. \A m \in T : ~(m < n)
  BY <1>2, <1>3
<1>5. \A m \in T : n <= m
  BY <1>4
<1> QED BY <1>3, <1>5

LEMMA EveryNumber ==
  ASSUME NEW T, 0 \in T, \A n \in Nat : n \in T => n + 1 \in T
  PROVE  \A n \in Nat : n \in T
<1> DEFINE C == Nat \ T
<1>1. SUFFICES ASSUME C # {} PROVE FALSE
  OBVIOUS
<1>2. C \subseteq Nat
  OBVIOUS
<1> HIDE DEF C
<1>3. PICK n \in C : \A m \in C : n <= m
  BY <1>1, <1>2, LeastNumber
<1>4. n \in Nat /\ n # 0 /\ n - 1 \in Nat /\ ~(n <= n - 1) /\ n - 1 + 1 = n
  BY <1>3 DEF C
<1>5. n - 1 \in T
  BY <1>3, <1>4 DEF C
<1> QED BY <1>3, <1>4, <1>5 DEF C

-----------------------------------------------------------------------------
\* A sequence, its beginning and the rest of it.

LEMMA BeginningOf ==
  ASSUME NEW S, NEW x \in Seq(S), NEW y \in Seq(S)
  PROVE  SubSeq(x \o y, 1, Len(x)) = x
<1>1. Len(x) \in Nat /\ Len(y) \in Nat /\ (Len(x) = 0 <=> x = <<>>)
  BY LenProperties, EmptySeq
<1>2. CASE Len(x) = 0
  <2>1. SubSeq(x \o y, 1, 0) = <<>>
    <3>1. 1 > 0
      OBVIOUS
    <3> QED BY <3>1, SubSeqEmpty
  <2> QED BY <1>1, <1>2, <2>1
<1>3. CASE Len(x) # 0
  <2>1. 1 \in 1 .. Len(x) /\ Len(x) \in 1 .. Len(x)
    BY <1>1, <1>3
  <2>2. SubSeq(x \o y, 1, Len(x)) = SubSeq(x, 1, Len(x))
    BY ONLY <2>1, x \in Seq(S), y \in Seq(S), SubSeqOfConcat1, ZenonT(30)
  <2> QED BY <2>2, SubSeqFull
<1> QED BY <1>2, <1>3

LEMMA CutInTwo ==
  ASSUME NEW S, NEW s \in Seq(S), NEW n \in 0 .. Len(s)
  PROVE  SubSeq(s, 1, n) \o SubSeq(s, n + 1, Len(s)) = s
<1> DEFINE k == Len(s)
<1>1. k \in Nat
  BY LenProperties
<1>2. 1 \in 1 .. k + 1 /\ n \in 1 - 1 .. k /\ k \in n .. k
  BY <1>1
<1>3. SubSeq(s, 1, n) \o SubSeq(s, n + 1, k) = SubSeq(s, 1, k)
  BY ONLY <1>2, s \in Seq(S), ConcatAdjacentSubSeq, ZenonT(30)
<1> QED BY <1>3, SubSeqFull

-----------------------------------------------------------------------------
\* Joining the sequences of a sequence, one after the other.

\* The first k of them, joined.
Joins(F, ss, n) == F = [i \in 1 .. n |-> IF i = 1 THEN ss[i] ELSE F[i - 1] \o ss[i]]

LEMMA JoinsExist ==
  ASSUME NEW ss, NEW n \in Nat
  PROVE  \E F : Joins(F, ss, n)
<1> DEFINE T == {k \in Nat : \E F : Joins(F, ss, k)}
<1>1. 0 \in T
  <2> DEFINE F == [i \in 1 .. 0 |-> 0]
  <2>1. F = [i \in 1 .. 0 |-> IF i = 1 THEN ss[i] ELSE F[i - 1] \o ss[i]]
    OBVIOUS
  <2> QED BY <2>1 DEF Joins
<1>2. ASSUME NEW k \in Nat, k \in T PROVE k + 1 \in T
  <2>1. PICK F : Joins(F, ss, k)
    BY <1>2
  <2> DEFINE G == [i \in 1 .. k + 1 |-> IF i = 1 THEN ss[i] ELSE F[i - 1] \o ss[i]]
  <2>2. \A i \in 1 .. k : G[i] = F[i]
    <3> DEFINE E(i) == IF i = 1 THEN ss[i] ELSE F[i - 1] \o ss[i]
    <3>1. G = [i \in 1 .. k + 1 |-> E(i)] /\ F = [i \in 1 .. k |-> E(i)]
      BY <2>1 DEF Joins
    <3>2. \A i \in 1 .. k : i \in 1 .. k + 1
      OBVIOUS
    <3> HIDE DEF E, G
    <3> QED BY <3>1, <3>2
  <2>3. \A i \in 1 .. k + 1 : i # 1 => i - 1 \in 1 .. k
    OBVIOUS
  <2>4. \A i \in 1 .. k + 1 :
          (IF i = 1 THEN ss[i] ELSE F[i - 1] \o ss[i]) = IF i = 1 THEN ss[i] ELSE G[i - 1] \o ss[i]
    <3> HIDE DEF G
    <3> QED BY <2>2, <2>3
  <2>5. G = [i \in 1 .. k + 1 |-> IF i = 1 THEN ss[i] ELSE G[i - 1] \o ss[i]]
    <3> DEFINE H(i) == IF i = 1 THEN ss[i] ELSE G[i - 1] \o ss[i]
               E(i) == IF i = 1 THEN ss[i] ELSE F[i - 1] \o ss[i]
    <3>1. G = [i \in 1 .. k + 1 |-> E(i)]
      OBVIOUS
    <3>2. \A i \in 1 .. k + 1 : E(i) = H(i)
      BY <2>4
    <3> HIDE DEF G, H, E
    <3>3. G = [i \in 1 .. k + 1 |-> H(i)]
      BY <3>1, <3>2
    <3> QED BY <3>3 DEF H
  <2>6. Joins(G, ss, k + 1)
    <3> HIDE DEF G
    <3> QED BY <2>5 DEF Joins
  <2> QED BY <2>6
<1> HIDE DEF T
<1>3. n \in T
  BY <1>1, <1>2, EveryNumber
<1> QED BY <1>3 DEF T

\* The first of them, and one more of them.
LEMMA JoinsFirst ==
  ASSUME NEW F, NEW ss, NEW n, 1 \in 1 .. n, Joins(F, ss, n)
  PROVE  F[1] = ss[1]
<1> DEFINE E(i) == IF i = 1 THEN ss[i] ELSE F[i - 1] \o ss[i]
<1>1. F = [i \in 1 .. n |-> E(i)]
  BY DEF Joins
<1> HIDE DEF E
<1>2. F[1] = E(1)
  BY <1>1
<1> QED BY <1>2 DEF E

LEMMA JoinsNext ==
  ASSUME NEW F, NEW ss, NEW n \in Nat, Joins(F, ss, n), NEW k \in 1 .. n, k + 1 \in 1 .. n
  PROVE  F[k + 1] = F[k] \o ss[k + 1]
<1> DEFINE m == k + 1
           E(i) == IF i = 1 THEN ss[i] ELSE F[i - 1] \o ss[i]
<1>1. m \in 1 .. n /\ m # 1 /\ m - 1 = k
  OBVIOUS
<1>2. F = [i \in 1 .. n |-> E(i)]
  BY DEF Joins
<1> HIDE DEF E, m
<1>3. F[m] = E(m)
  BY <1>1, <1>2
<1>4. E(m) = F[m - 1] \o ss[m]
  BY <1>1 DEF E
<1> QED BY <1>1, <1>3, <1>4 DEF m

LEMMA JoinsTypes ==
  ASSUME NEW S, NEW ss \in Seq(Seq(S)), NEW F, Joins(F, ss, Len(ss))
  PROVE  \A i \in 1 .. Len(ss) : F[i] \in Seq(S)
<1> DEFINE n == Len(ss)
           T == {k \in Nat : k \in 1 .. n => F[k] \in Seq(S)}
<1>1. n \in Nat /\ \A i \in 1 .. n : ss[i] \in Seq(S)
  BY LenProperties, ElementOfSeq
<1>2. Joins(F, ss, n)
  OBVIOUS
<1> HIDE DEF n
<1>3. 0 \in T
  OBVIOUS
<1>4. ASSUME NEW k \in Nat, k \in T PROVE k + 1 \in T
  <2> SUFFICES ASSUME k + 1 \in 1 .. n PROVE F[k + 1] \in Seq(S)
    OBVIOUS
  <2>1. CASE k = 0
    <3>1. 1 \in 1 .. n /\ k + 1 = 1
      BY <2>1, <1>1
    <3>2. F[1] = ss[1]
      BY <3>1, <1>2, JoinsFirst
    <3> QED BY <3>1, <3>2, <1>1
  <2>2. CASE k # 0
    <3>1. k \in 1 .. n /\ F[k] \in Seq(S) /\ ss[k + 1] \in Seq(S)
      BY <2>2, <1>1, <1>4
    <3>2. F[k + 1] = F[k] \o ss[k + 1]
      BY <3>1, <1>1, <1>2, JoinsNext, ZenonT(30)
    <3>3. F[k] \o ss[k + 1] \in Seq(S)
      BY <3>1, ConcatProperties, Zenon
    <3> QED BY <3>2, <3>3, Zenon
  <2> QED BY <2>1, <2>2
<1> HIDE DEF T
<1>5. \A k \in Nat : k \in T
  BY <1>3, <1>4, EveryNumber
<1> QED BY <1>1, <1>5 DEF T, n

\* The first sequences of one that is longer are joined as before.
LEMMA JoinsAgree ==
  ASSUME NEW S, NEW ss \in Seq(Seq(S)), NEW x \in Seq(S), NEW F, NEW G,
         Joins(F, ss, Len(ss)), Joins(G, Append(ss, x), Len(ss) + 1)
  PROVE  \A i \in 1 .. Len(ss) : G[i] = F[i]
<1> DEFINE n == Len(ss)
           m == n + 1
           tt == Append(ss, x)
           T == {k \in Nat : k \in 1 .. n => G[k] = F[k]}
<1>1. n \in Nat /\ \A i \in 1 .. n : tt[i] = ss[i]
  BY LenProperties, AppendProperties
<1>2. Joins(F, ss, n) /\ Joins(G, tt, m)
  OBVIOUS
<1> HIDE DEF tt, n
<1>3. m \in Nat \ {0} /\ \A i \in 1 .. n : i \in 1 .. m
  BY <1>1
<1> HIDE DEF m
<1>4. 0 \in T
  OBVIOUS
<1>5. ASSUME NEW k \in Nat, k \in T PROVE k + 1 \in T
  <2> SUFFICES ASSUME k + 1 \in 1 .. n PROVE G[k + 1] = F[k + 1]
    OBVIOUS
  <2>1. CASE k = 0
    <3>1. 1 \in 1 .. n /\ 1 \in 1 .. m /\ k + 1 = 1
      BY <2>1, <1>1, <1>3
    <3>2. F[1] = ss[1]
      BY <3>1, <1>2, JoinsFirst, Zenon
    <3>3. G[1] = tt[1]
      BY <3>1, <1>2, JoinsFirst, Zenon
    <3> QED BY <3>1, <3>2, <3>3, <1>1
  <2>2. CASE k # 0
    <3>1. k \in 1 .. n /\ k \in 1 .. m /\ k + 1 \in 1 .. m /\ m \in Nat
      BY <2>2, <1>1, <1>3
    <3>2. F[k + 1] = F[k] \o ss[k + 1]
      BY <3>1, <1>1, <1>2, JoinsNext, ZenonT(30)
    <3>3. G[k + 1] = G[k] \o tt[k + 1]
      BY <3>1, <1>2, JoinsNext, ZenonT(30)
    <3>4. G[k] = F[k] /\ tt[k + 1] = ss[k + 1]
      BY <3>1, <1>1, <1>5
    <3> QED BY <3>2, <3>3, <3>4, Zenon
  <2> QED BY <2>1, <2>2
<1> HIDE DEF T
<1>6. \A k \in Nat : k \in T
  BY <1>4, <1>5, EveryNumber
<1> QED BY <1>1, <1>6 DEF T, n

\* The sequences of ss, joined (FlattenSeq of the community modules).
Flattened(ss) ==
  IF Len(ss) = 0 THEN ss
  ELSE LET flatten[i \in 1 .. Len(ss)] == IF i = 1 THEN ss[i] ELSE flatten[i - 1] \o ss[i]
       IN  flatten[Len(ss)]

LEMMA FlattenedIsLast ==
  ASSUME NEW S, NEW ss \in Seq(Seq(S)), ss # <<>>
  PROVE  \E F : Joins(F, ss, Len(ss)) /\ Flattened(ss) = F[Len(ss)]
<1> DEFINE n == Len(ss)
           F == CHOOSE f : f = [i \in 1 .. n |-> IF i = 1 THEN ss[i] ELSE f[i - 1] \o ss[i]]
<1>1. n \in Nat \ {0}
  BY EmptySeq
<1>2. Flattened(ss) = F[n]
  BY <1>1 DEF Flattened
<1>3. \E f : f = [i \in 1 .. n |-> IF i = 1 THEN ss[i] ELSE f[i - 1] \o ss[i]]
  <2> HIDE DEF n
  <2> QED BY <1>1, JoinsExist DEF Joins
<1>4. F = [i \in 1 .. n |-> IF i = 1 THEN ss[i] ELSE F[i - 1] \o ss[i]]
  BY <1>3, Zenon
<1> HIDE DEF F
<1> QED BY <1>2, <1>4 DEF Joins

LEMMA FlattenedEmpty == Flattened(<<>>) = <<>>
BY DEF Flattened

LEMMA FlattenedType ==
  ASSUME NEW S, NEW ss \in Seq(Seq(S))
  PROVE  Flattened(ss) \in Seq(S)
<1>1. CASE ss = <<>>
  BY <1>1, FlattenedEmpty, EmptySeq
<1>2. CASE ss # <<>>
  <2>1. PICK F : Joins(F, ss, Len(ss)) /\ Flattened(ss) = F[Len(ss)]
    BY <1>2, FlattenedIsLast
  <2>2. Len(ss) \in 1 .. Len(ss)
    BY <1>2, EmptySeq
  <2> QED BY <2>1, <2>2, JoinsTypes
<1> QED BY <1>1, <1>2

\* One sequence more is joined behind the others.
LEMMA FlattenedAppend ==
  ASSUME NEW S, NEW ss \in Seq(Seq(S)), NEW x \in Seq(S)
  PROVE  Flattened(Append(ss, x)) = Flattened(ss) \o x
<1> DEFINE n == Len(ss)
           m == n + 1
           tt == Append(ss, x)
<1>1. /\ tt \in Seq(Seq(S)) /\ tt # <<>> /\ Len(tt) = m /\ tt[m] = x
      /\ n \in Nat /\ m \in Nat \ {0}
  BY AppendProperties, LenProperties
<1>2. PICK G : Joins(G, tt, Len(tt)) /\ Flattened(tt) = G[Len(tt)]
  BY <1>1, FlattenedIsLast
<1>3. Joins(G, tt, m)
  BY <1>1, <1>2
<1>4. CASE ss = <<>>
  <2>1. m = 1 /\ 1 \in 1 .. m
    BY <1>4
  <2> HIDE DEF m, tt
  <2>2. G[1] = tt[1]
    BY <2>1, <1>3, JoinsFirst
  <2>3. Flattened(ss) = <<>> /\ <<>> \o x = x
    BY <1>4, FlattenedEmpty, ConcatEmptySeq
  <2> QED BY <1>1, <1>2, <2>1, <2>2, <2>3 DEF tt
<1>5. CASE ss # <<>>
  <2>1. PICK F : Joins(F, ss, n) /\ Flattened(ss) = F[n]
    BY <1>5, FlattenedIsLast
  <2>2. n \in 1 .. n
    BY <1>5, EmptySeq
  <2>3. G[n] = F[n]
    BY <1>3, <2>1, <2>2, JoinsAgree
  <2>4. n \in 1 .. m /\ n + 1 \in 1 .. m /\ m = n + 1
    BY <2>2
  <2> HIDE DEF n, m, tt
  <2>5. G[n + 1] = G[n] \o tt[n + 1]
    <3>1. m \in Nat /\ Joins(G, tt, m) /\ n \in 1 .. m /\ n + 1 \in 1 .. m
      BY <1>1, <1>3, <2>4
    <3> QED BY ONLY <3>1, JoinsNext, ZenonT(30)
  <2> QED BY <1>1, <1>2, <2>1, <2>3, <2>4, <2>5 DEF tt
<1> QED BY <1>4, <1>5
=============================================================================
