------------------------------- MODULE Logger --------------------------------
(***************************************************************************)
(* The Logger (log.rs) as its callers use it: one task per connection      *)
(* calls open, data and close, listeners log a line; each call turns into  *)
(* charges against the disk budget and, for those granted, one critical    *)
(* section under the `sinks` mutex.  The main task flushes at ctrl-c while *)
(* the connection tasks go on; a task may die where it prints, and the     *)
(* process may be killed.                                                  *)
(*                                                                         *)
(* A call is a queue `todo` of items, taken in order: "raw" bytes for a    *)
(* stream, an "event" for events.jsonl, "finish" for the streams of a      *)
(* closing connection.  A critical section is one step, so the mutex is    *)
(* implicit; the budget's atomics are not, they are the steps of Budget.   *)
(***************************************************************************)
EXTENDS Budget, StreamOps

CONSTANTS
  OptionChoices,  \* the capture options a run may have
  EventSize,      \* bytes of one line of events.jsonl
  Chunks,         \* how many bytes one data() call may carry
  MaxSent,        \* bound: bytes of all connections together
  BufCap          \* capacity of the BufWriters

\* The sum of a function of naturals, as the size of a set.
Total(f) == Cardinality(UNION {{k} \X (1 .. f[k]) : k \in DOMAIN f})

Dirs == {"rx", "tx"}
Streams == Tasks \X Dirs

ASSUME LoggerAssumption ==
  /\ OptionChoices \subseteq [raw : BOOLEAN, jsonl : BOOLEAN, limits : Limits]
  /\ EventSize \in Sizes
  /\ Chunks \subseteq Sizes
  /\ MaxSent \in Nat
  /\ BufCap \in Nat \ {0}

VARIABLES
  opts,       \* the Options of the run
  life,       \* each connection: "new", "open", "closed", "dead"
  todo,       \* each connection's task: items of the call it is in
  sent,       \* bytes handed to data(), per stream
  first,      \* what st.write returned to the call each task is in
  raw,        \* sinks.raw: the open streams, each with its BufWriter
  head_file,  \* stem.bin on disk
  tail_file,  \* stem.tail.bin on disk
  jsonl,      \* events.jsonl on disk (flushed line by line)
  main,       \* main: "running", "flushing", "stopping", "exited"
  drained,    \* streams flush() took out of sinks.raw and has yet to finish
  killed,     \* has the process been killed?
  issued,     \* history: events each connection tried to write
  reached,    \* history: last byte that reached a Stream, per stream
  unopened,   \* history: streams whose file could not be opened once
  untailed    \* history: ring bytes whose tail file could not be created

appVars == <<life, todo, sent, first, issued>>
sinkVars == <<raw, head_file, tail_file, reached, unopened, untailed>>
mainVars == <<opts, main, drained, killed>>
loggerVars == <<budgetVars, appVars, sinkVars, jsonl, mainVars>>

-----------------------------------------------------------------------------
\* Items and events.

Event(kind, conn, dir, upto) ==
  [event |-> kind, conn |-> conn, dir |-> dir, upto |-> upto]

RawItem(dir, data) == [what |-> "raw", dir |-> dir, data |-> data]
EventItem(ev) == [what |-> "event", ev |-> ev]
FinishItem == [what |-> "finish"]

Events == [event : {"open", "notice", "data", "truncated", "close"}, conn : Tasks,
           dir : Dirs \cup {"none"}, upto : Nat]

Items ==
  [what : {"raw"}, dir : Dirs, data : Seq(Nat)]
    \cup [what : {"event"}, ev : Events] \cup {FinishItem}

OpenStreams == [st : StreamType, buf : Seq(Nat)]

\* What an open stream holds in memory: a buffer and a ring, both bounded.
Bounded(s) == Len(s.buf) <= BufCap /\ Len(s.st.tail) <= opts.limits.tail

LoggerTypeOK ==
  /\ BudgetTypeOK
  /\ opts \in OptionChoices
  /\ life \in [Tasks -> {"new", "open", "closed", "dead"}]
  /\ todo \in [Tasks -> Seq(Items)]
  /\ sent \in [Streams -> Nat]
  /\ first \in [Tasks -> BOOLEAN]
  /\ DOMAIN raw \subseteq Streams
  /\ \A k \in DOMAIN raw : raw[k] \in OpenStreams /\ Bounded(raw[k])
  /\ head_file \in [Streams -> Seq(Nat)]
  /\ tail_file \in [Streams -> Seq(Nat)]
  /\ jsonl \in Seq(Events)
  /\ main \in {"running", "flushing", "stopping", "exited"}
  /\ DOMAIN drained \subseteq Streams
  /\ \A k \in DOMAIN drained : drained[k] \in OpenStreams /\ Bounded(drained[k])
  /\ killed \in BOOLEAN
  /\ issued \in [Tasks -> Seq(Events)]
  /\ reached \in [Streams -> Nat]
  /\ unopened \subseteq Streams
  /\ untailed \in [Streams -> Nat]

NoStreams == [k \in {} |-> 0]

LoggerInit ==
  /\ BudgetInit
  /\ opts \in OptionChoices
  /\ life = [c \in Tasks |-> "new"]
  /\ todo = [c \in Tasks |-> <<>>]
  /\ sent = [k \in Streams |-> 0]
  /\ first = [c \in Tasks |-> FALSE]
  /\ raw = NoStreams
  /\ head_file = [k \in Streams |-> <<>>]
  /\ tail_file = [k \in Streams |-> <<>>]
  /\ jsonl = <<>>
  /\ main = "running"
  /\ drained = NoStreams
  /\ killed = FALSE
  /\ issued = [c \in Tasks |-> <<>>]
  /\ reached = [k \in Streams |-> 0]
  /\ unopened = {}
  /\ untailed = [k \in Streams |-> 0]

\* The process runs: neither exited nor killed.
Alive == main # "exited" /\ ~killed

-----------------------------------------------------------------------------
\* The calls a connection's task makes, one at a time.

\* Logger::open
Open(c) ==
  /\ Alive /\ life[c] = "new"
  /\ life' = [life EXCEPT ![c] = "open"]
  /\ todo' = [todo EXCEPT ![c] = <<EventItem(Event("open", c, "none", 0))>>]
  /\ UNCHANGED <<budgetVars, sent, first, issued, sinkVars, jsonl, mainVars>>

\* Logger::listening, warn and error: the task of a listener emits one line.
Notice(c) ==
  /\ Alive /\ life[c] = "new"
  /\ life' = [life EXCEPT ![c] = "closed"]
  /\ todo' = [todo EXCEPT ![c] = <<EventItem(Event("notice", c, "none", 0))>>]
  /\ UNCHANGED <<budgetVars, sent, first, issued, sinkVars, jsonl, mainVars>>

\* Slip: the index line is written before the bytes it points to.
DataIndexFirst(c, dir, data) ==
  <<EventItem(Event("data", c, dir, data[Len(data)])), RawItem(dir, data)>>

\* Logger::data writes the bytes first, then the line that indexes them.
DataItems(c, dir, data) ==
  <<RawItem(dir, data), EventItem(Event("data", c, dir, data[Len(data)]))>>

Data(c, dir, n) ==
  LET data == Span(sent[<<c, dir>>] + 1, sent[<<c, dir>>] + n) IN
  /\ Alive /\ life[c] = "open" /\ todo[c] = <<>>
  /\ Total(sent) + n <= MaxSent
  /\ sent' = [sent EXCEPT ![<<c, dir>>] = @ + n]
  /\ todo' = [todo EXCEPT ![c] = DataItems(c, dir, data)]
  /\ UNCHANGED <<budgetVars, life, first, issued, sinkVars, jsonl, mainVars>>

\* Logger::close: close_raw, then the close event.
Close(c) ==
  /\ Alive /\ life[c] = "open" /\ todo[c] = <<>>
  /\ life' = [life EXCEPT ![c] = "closed"]
  /\ todo' = [todo EXCEPT ![c] =
       <<FinishItem, EventItem(Event("close", c, "none", 0))>>]
  /\ UNCHANGED <<budgetVars, sent, first, issued, sinkVars, jsonl, mainVars>>

-----------------------------------------------------------------------------
\* Working off the items.

At(c, what) == Alive /\ todo[c] # <<>> /\ Head(todo[c]).what = what

Done(c) == todo' = [todo EXCEPT ![c] = Tail(@)]

\* raw_write is over when the call reaches its event, and its line printed.
Printed(c) == first' = [first EXCEPT ![c] = FALSE]

\* emit and raw_write return at once when their sink is off.
SkipItem(c) ==
  /\ (At(c, "event") /\ ~opts.jsonl) \/ (At(c, "raw") /\ ~opts.raw)
  /\ call[c].at = "idle"
  /\ Done(c)
  /\ Printed(c)
  /\ UNCHANGED <<budgetVars, life, sent, issued, sinkVars, jsonl, mainVars>>

\* emit: charge the line.
EmitBegin(c) ==
  /\ At(c, "event") /\ opts.jsonl
  /\ BeginCharge(c, EventSize)
  /\ issued' = [issued EXCEPT ![c] = Append(@, Head(todo[c]).ev)]
  /\ Printed(c)
  /\ UNCHANGED <<life, todo, sent, sinkVars, jsonl, mainVars>>

\* emit: granted, so write the line and flush it, under the lock.
EmitCommit(c) ==
  /\ At(c, "event") /\ call[c].at = "granted"
  /\ EndCharge(c)
  /\ jsonl' = Append(jsonl, Head(todo[c]).ev)
  /\ Done(c)
  /\ UNCHANGED <<life, sent, first, issued, sinkVars, mainVars>>

\* raw_write: charge the bytes.
RawBegin(c) ==
  /\ At(c, "raw") /\ opts.raw
  /\ BeginCharge(c, Len(Head(todo[c]).data))
  /\ UNCHANGED <<appVars, sinkVars, jsonl, mainVars>>

\* The open stream of k, created on its first bytes (Entry::Vacant).
StreamOf(k) ==
  IF k \in DOMAIN raw THEN raw[k] ELSE [st |-> Create(opts.limits), buf |-> <<>>]

WithStream(k, s) == [j \in DOMAIN raw \cup {k} |-> IF j = k THEN s ELSE raw[j]]

\* raw_write: granted, so the bytes go through the Stream, under the lock.
RawCommit(c) ==
  LET item == Head(todo[c])
      k == <<c, item.dir>>
      s == StreamOf(k)
      part == HeadPart(s.st, item.data)
  IN  /\ At(c, "raw") /\ call[c].at = "granted"
      /\ EndCharge(c)
      /\ raw' = WithStream(k, [st |-> Write(s.st, item.data),
                               buf |-> BufKept(BufCap, s.buf, part)])
      /\ head_file' = [head_file EXCEPT ![k] =
                         @ \o BufPassed(BufCap, s.buf, part)]
      /\ reached' = [reached EXCEPT ![k] = item.data[Len(item.data)]]
      /\ first' = [first EXCEPT ![c] = Announces(s.st, item.data)]
      /\ Done(c)
      /\ UNCHANGED <<life, sent, issued, tail_file, unopened, untailed, jsonl,
                     mainVars>>

\* raw_write: Stream::create fails, the bytes are charged and go nowhere.
RawOpenFails(c) ==
  LET k == <<c, Head(todo[c]).dir>> IN
  /\ At(c, "raw") /\ call[c].at = "granted"
  /\ k \notin DOMAIN raw
  /\ EndCharge(c)
  /\ unopened' = unopened \cup {k}
  /\ Done(c)
  /\ UNCHANGED <<life, sent, first, issued, raw, head_file, tail_file, reached,
                 untailed, jsonl, mainVars>>

\* charge said no: the item is dropped.
Refused(c) ==
  /\ At(c, "event") \/ At(c, "raw")
  /\ call[c].at = "refused"
  /\ EndCharge(c)
  /\ Done(c)
  /\ UNCHANGED <<life, sent, first, issued, sinkVars, jsonl, mainVars>>

\* The streams of c among `streams`.
StreamsOf(c, streams) == {k \in DOMAIN streams : k[1] = c}

Without(streams, ks) == [k \in DOMAIN streams \ ks |-> streams[k]]

\* Stream::finish on the streams ks of `streams`: what the two files hold.
FinishedHeads(streams, ks) ==
  [k \in Streams |-> IF k \in ks THEN head_file[k] \o streams[k].buf
                     ELSE head_file[k]]

\* A ring goes to a fresh tail file, unless that file cannot be created: then
\* nothing is left of it, and tail_path is None.
FinishedTails(streams, ks, failed) ==
  [k \in Streams |-> IF k \in ks \ failed /\ streams[k].st.tail # <<>>
                     THEN streams[k].st.tail ELSE tail_file[k]]

LostTails(streams, failed) ==
  [k \in Streams |-> untailed[k] + IF k \in failed THEN Len(streams[k].st.tail)
                                   ELSE 0]

\* Those of ks that have a tail file to create.
WithRing(streams, ks) == {k \in ks : streams[k].st.tail # <<>>}

\* The truncated event of stream k, when it dropped anything; a ring that went
\* nowhere is no reason for one.
Report(k) ==
  IF k \in DOMAIN raw /\ raw[k].st.dropped > 0
  THEN <<EventItem(Event("truncated", k[1], k[2], raw[k].st.total))>>
  ELSE <<>>

\* Slip: the gaps are reported after the close event.
ReportsLast(c) == Tail(todo[c]) \o Report(<<c, "rx">>) \o Report(<<c, "tx">>)

\* What is left to emit after close_raw: the gaps, then the close event.
ReportsFirst(c) == Report(<<c, "rx">>) \o Report(<<c, "tx">>) \o Tail(todo[c])

\* close_raw: take both streams out and finish them, under the lock; the tail
\* files of those in `failed` cannot be created.
CloseRaw(c, failed) ==
  LET ks == StreamsOf(c, raw) IN
  /\ At(c, "finish")
  /\ failed \subseteq WithRing(raw, ks)
  /\ todo' = [todo EXCEPT ![c] = IF opts.raw THEN ReportsFirst(c) ELSE Tail(@)]
  /\ raw' = Without(raw, ks)
  /\ head_file' = FinishedHeads(raw, ks)
  /\ tail_file' = FinishedTails(raw, ks, failed)
  /\ untailed' = LostTails(raw, failed)
  /\ UNCHANGED <<budgetVars, life, sent, first, issued, reached, unopened, jsonl,
                 mainVars>>

\* A step inside charge.
Charging(c) ==
  /\ Alive /\ ChargeStep(c)
  /\ UNCHANGED <<appVars, sinkVars, jsonl, mainVars>>

\* Where the calls print a line of the console: data and close before anything
\* else, close_raw before each report, raw_write after the write that first
\* exceeds the head cap.
Prints(c) ==
  \/ todo[c] = <<>>
  \/ At(c, "event") /\ (first[c] \/ Head(todo[c]).ev.event = "truncated")

\* println! panics when nobody reads stdout: the task ends where it is, its
\* streams stay in the map.  (None of these lines is printed under the lock, so
\* nothing else stops.)
Die(c) ==
  /\ Alive /\ life[c] \in {"open", "closed"} /\ call[c].at = "idle" /\ Prints(c)
  /\ life[c] = "closed" => todo[c] # <<>>
  /\ life' = [life EXCEPT ![c] = "dead"]
  /\ todo' = [todo EXCEPT ![c] = <<>>]
  /\ Printed(c)
  /\ UNCHANGED <<budgetVars, sent, issued, sinkVars, jsonl, mainVars>>

-----------------------------------------------------------------------------
\* The main task, and the end of the process.

\* ctrl-c, then the critical section of flush().
FlushDrain ==
  /\ Alive /\ main = "running"
  /\ main' = "flushing"
  /\ drained' = raw
  /\ raw' = NoStreams
  /\ UNCHANGED <<budgetVars, appVars, head_file, tail_file, reached, unopened,
                 untailed, jsonl, opts, killed>>

\* flush() finishes a drained stream, outside the lock; if it is in `failed`,
\* its tail file cannot be created.
FlushFinish(k, failed) ==
  /\ Alive /\ main = "flushing" /\ k \in DOMAIN drained
  /\ failed \subseteq WithRing(drained, {k})
  /\ head_file' = FinishedHeads(drained, {k})
  /\ tail_file' = FinishedTails(drained, {k}, failed)
  /\ untailed' = LostTails(drained, failed)
  /\ drained' = Without(drained, {k})
  /\ UNCHANGED <<budgetVars, appVars, raw, reached, unopened, jsonl, opts, main,
                 killed>>

\* summary() is printed and block_on returns.
Summary ==
  /\ Alive /\ main = "flushing" /\ DOMAIN drained = {}
  /\ main' = "stopping"
  /\ UNCHANGED <<budgetVars, appVars, sinkVars, jsonl, opts, drained, killed>>

\* main prints a line between ctrl-c and flush(), and panics there if nobody
\* reads stdout: unwinding drops the runtime and then the streams.
MainDies ==
  /\ Alive /\ main = "running"
  /\ main' = "stopping"
  /\ UNCHANGED <<budgetVars, appVars, sinkVars, jsonl, opts, drained, killed>>

\* The runtime is dropped once no task is inside a call; streams created after
\* the drain are dropped with it: their BufWriter is flushed, their tail lost.
Exit ==
  /\ Alive /\ main = "stopping"
  /\ \A c \in Tasks : todo[c] = <<>>
  /\ main' = "exited"
  /\ head_file' = FinishedHeads(raw, DOMAIN raw)
  /\ raw' = NoStreams
  /\ UNCHANGED <<budgetVars, appVars, tail_file, reached, unopened, untailed,
                 jsonl, opts, drained, killed>>

\* kill -9, or the machine: what is in memory is gone, the calls with it.
Kill ==
  /\ Alive
  /\ killed' = TRUE
  /\ raw' = NoStreams
  /\ drained' = NoStreams
  /\ todo' = [c \in Tasks |-> <<>>]
  /\ call' = [c \in Tasks |-> Idle]
  /\ UNCHANGED <<max_run_bytes, disk_used, disk_stopped, admitted, limit_lines,
                 life, sent, first, issued, head_file, tail_file, reached,
                 unopened, untailed, jsonl, opts, main>>

Ended == ~Alive /\ UNCHANGED loggerVars

LoggerNext ==
  \/ \E c \in Tasks :
       \/ Open(c) \/ Close(c) \/ Notice(c) \/ Die(c)
       \/ \E dir \in Dirs, n \in Chunks : Data(c, dir, n)
       \/ SkipItem(c) \/ EmitBegin(c) \/ EmitCommit(c)
       \/ RawBegin(c) \/ RawCommit(c) \/ RawOpenFails(c)
       \/ Refused(c) \/ Charging(c)
       \/ \E failed \in SUBSET StreamsOf(c, raw) : CloseRaw(c, failed)
  \/ FlushDrain \/ MainDies \/ Summary \/ Exit \/ Kill
  \/ \E k \in Streams, failed \in SUBSET DOMAIN drained : FlushFinish(k, failed)
  \/ Ended

LoggerSpec == LoggerInit /\ [][LoggerNext]_loggerVars

-----------------------------------------------------------------------------
\* How many of the first i lines of events.jsonl are connection c's.
LinesOf(c, i) == Cardinality({j \in 1 .. i : jsonl[j].conn = c})

\* A line once refused, nothing later of that connection is written: the index
\* may stop early but never skips an event, whatever the other connections
\* charge and refund meanwhile (emit and charge).
EventsArePrefix ==
  \A i \in 1 .. Len(jsonl) :
    LET c == jsonl[i].conn
        n == LinesOf(c, i)
    IN  n <= Len(issued[c]) /\ jsonl[i] = issued[c][n]

\* Up to ctrl-c every .bin is the direction from its first byte on and every
\* tail its last bytes, through refused writes, closes and kills, as long as
\* the file could be opened ("never concatenated", stream.rs:8-10).
RawIsGapless ==
  main = "running" => \A k \in Streams \ unopened :
    IF k \in DOMAIN raw
    THEN /\ head_file[k] \o raw[k].buf = Span(1, raw[k].st.head_written)
         /\ raw[k].st.tail = Span(reached[k] - Len(raw[k].st.tail) + 1, reached[k])
    ELSE /\ head_file[k] = Span(1, Len(head_file[k]))
         /\ tail_file[k] = Span(reached[k] - Len(tail_file[k]) + 1, reached[k])

\* Every data line in the index describes bytes that went to the capture
\* ("events.jsonl is the index; the .bin files are the full-fidelity copy",
\* log.rs:468).
EventsHaveBytes ==
  opts.raw => \A i \in 1 .. Len(jsonl) :
    LET e == jsonl[i] IN
    e.event = "data" /\ <<e.conn, e.dir>> \notin unopened
      => e.upto <= reached[<<e.conn, e.dir>>]

\* Bytes of stream k that are in neither file.
Missing(k) == reached[k] - Len(head_file[k]) - Len(tail_file[k])

Reported(k, before) ==
  \E i \in 1 .. before - 1 :
    jsonl[i] = Event("truncated", k[1], k[2], reached[k])

\* Up to ctrl-c, a close line in the index follows the report of every gap that
\* a connection's captures have, but for rings that got no tail file: those are
\* all that may be missing without a report (close_raw).  That is the
\* one way in which a capture may read as complete that is not, against the
\* comment at log.rs:291-292: the ring had kept all there was beyond the head,
\* so nothing was dropped, and its tail file could not be created.
ClosedMeansReported ==
  main = "running" /\ opts.raw => \A j \in 1 .. Len(jsonl) :
    jsonl[j].event = "close" =>
      \A k \in Streams \ unopened :
        k[1] = jsonl[j].conn /\ Missing(k) > untailed[k] => Reported(k, j)

\* Bytes of stream k that `streams` holds in memory.
InMemory(streams, k) ==
  IF k \in DOMAIN streams THEN Len(streams[k].buf) + Len(streams[k].st.tail) ELSE 0

\* Bytes of each stream, in its files and on the way there.
Held ==
  [k \in Streams |-> Len(head_file[k]) + Len(tail_file[k])
                       + InMemory(raw, k) + InMemory(drained, k)]

CapturedBytes == Len(jsonl) * EventSize + Total(Held)

\* All the files of the run together never outgrow --max-run-bytes.
DiskWithinCap == max_run_bytes > 0 => CapturedBytes <= max_run_bytes

-----------------------------------------------------------------------------
\* What the code says of its captures and does not keep; checked to be violated.

\* The head files hold no silent hole when the process is gone: "a single .bin
\* with a silent hole in it would be parsed as contiguous" (stream.rs:8-9).
NoHoleAtExit ==
  main = "exited" => \A k \in Streams \ unopened :
    head_file[k] = Span(1, Len(head_file[k]))

\* "Truncation is always announced, on the console and in events.jsonl"
\* (README.md:222): so are the gaps of the streams that flush() finished.
TruncationInIndex ==
  Alive /\ main = "stopping" /\ opts.raw /\ opts.jsonl /\ ~disk_stopped =>
    \A k \in Streams \ (unopened \cup DOMAIN raw) :
      Missing(k) > 0 => Reported(k, Len(jsonl) + 1)
=============================================================================
