# A TLA+ model of kls

kls is a capture honeypot: it listens on TCP and UDP ports, records every byte a peer sends,
answers from a profile or forwards to an upstream, and writes an index (`events.jsonl`) and
raw captures (`NNNN-proto-peer.rx.bin`, `.tail.bin`) under a per-run directory and a disk
budget. This directory models the parts of it that keep state, checks them with TLC on small
instances, and proves the central ones with TLAPS for every instance. Paths and line numbers
refer to the repository (`stream.rs` is `src/stream.rs`, `udp.rs` is `src/listener/udp.rs`).

## Inventory

| Component | State it keeps | Operations | Hard behaviour | What makes it correct |
|---|---|---|---|---|
| Capture stream (`stream.rs`) | head budget, ring, counters, a BufWriter | create, write, finish | reads of any size against two limits; a crash before finish | first `head` and last `tail` bytes are kept without a hole, the gap is counted and announced once; a tail file that cannot be created shows in the summary |
| Disk budget (`log.rs`, `charge`) | `disk_used`, `disk_stopped` | charge | no lock: atomics of many tasks interleave | never more than the cap granted; once stopped, stopped |
| Logger (`log.rs`) | `sinks`: the index, the map of open streams | open, data, close, flush, summary | tasks race with each other, with ctrl-c and with the end of the process | the index is a prefix of what happened, points only at captured bytes, and reports gaps before the close |
| UDP listener (`udp.rs`) | peer table, overflow stream and count | recv, reply, sweep | replies suspend the loop; table limits; idle time | each conn is opened and closed once, datagrams are all accounted, replies bounded |
| TCP answering (`tcp.rs`, `serve`, `send`) | `first`, the reply in hand | connect, read, reply, hang up | client half-closes or resets mid-reply, slow readers | the log is the exchange; replies belong to the read that drew them; the connection ends |
| TCP forwarding (`tcp.rs`, `forward`, `pump`) | per direction: bytes read and not yet written | connect, two pumps | independent directions, half-close, resets, back pressure | each direction is a FIFO; EOF only after the last byte; the log is what was relayed |
| Profiles (`profile.rs`) | none after load | load, matches, eval, responds, max_response_bytes | first match wins over partial matchers; the warning is computed apart from the replies | the start-up warning bounds what a datagram draws of fixed replies |
| DNS answers (`dns.rs`) | none | parse, reply, reply_tcp | offsets and lengths of the peer's making, cut anywhere | exactly the queries are answered, the asker can read the answer |
| Classifier (`classify.rs`) | none | classify | lengths inside lengths, in a read that may end anywhere | a hint names what the peer asked for, and a whole hello gets one |
| Supervisor (`main.rs`) | the set of listener tasks, the ctrl-c receiver of this pass | spawn, join, ctrl-c, flush, exit | listeners that fail or panic; a signal while a join is handled; a closed console | the loop is left when there is a reason to, and then |
| Configuration, original destination, socket options, timestamps, hexdump | none | text and system calls | none that lasts | not modelled |

How they interact: `main` spawns one task per listener; a TCP listener spawns one task per
connection, a UDP listener serves all its peers in one task. All of them call the one
`Logger`, whose `emit` and `raw_write` first charge the budget without a lock and then write
under the `sinks` mutex; `raw_write` feeds one `Stream` per connection and direction. At
ctrl-c `main` calls `flush` and `summary` while the connection tasks are still running on
other workers, and then drops the runtime.

## Modules

| Module | Models | Checked by |
|---|---|---|
| `Spans` | runs of positions, by which a file's bytes are named | through its users |
| `StreamOps` | the `Stream` struct as operators on a record, and BufWriter | through its users |
| `HeadTail` | abstract: what a capture promises, as a function of how many bytes went by | refined by `CaptureStream` |
| `CaptureStream` | one `Stream` over its life, with kills | run `stream` |
| `StreamLemmas`, `CaptureStreamProofs` | proofs | tlapm |
| `Budget` | `Logger::charge`, one action per atomic operation | run `budget` |
| `Logger` (extends `Budget`, `StreamOps`) | the Logger, the tasks that call it, ctrl-c, exit, kill | run `logger` and two refutations |
| `LoggerProofs` | proofs, of `Budget` as well | tlapm |
| `UdpListener` | the UDP task, its socket and its clocks | run `udp` |
| `UdpListenerProofs` | proofs | tlapm |
| `TcpServe` | an answered connection and its client | run `tcp_serve` |
| `TcpServeProofs` | proofs | tlapm |
| `Relay` | abstract: one direction of a relay | refined twice by `Forward` |
| `Forward` | a forwarded connection and both ends | run `tcp_forward` |
| `ForwardProofs` | proofs | tlapm |
| `Dns` | `dns.rs` on sequences of bytes | through `Answering` |
| `Profile` | `profile.rs`: matchers, `eval`, compiled actions, `max_response_bytes` | through `Answering` |
| `Classify` (extends `Dns`) | `classify.rs`: the TLS and the DNS hint | through `Answering` |
| `Answering` (extends `Classify`, `Profile`) | what a listener with a profile replies to a peer, and what the log line says | run `answers` and one refutation |
| `AnsweringProofs` | proofs | tlapm |
| `Supervisor` | `main.rs` from the first spawn to the exit status | run `supervisor` and one refutation |
| `SupervisorProofs` | proofs | tlapm |
| `MC...` | the constants of the run of the same name | |

The definitions keep the names of the code where they can. A definition whose comment begins
with *Slip* is not part of a specification: it is the definition that follows it as a
plausible mistake would have it, and it documents which property notices. The correspondence
with source lines is in `PROJECT.json` under `map`.

### Capture stream

A byte is named by its position in its direction, so two bytes are never equal and a file
that lost, repeated or reordered one shows it. `Write` is `Stream::write` on the record of
the struct's fields; `HeadPart` and `RingPart` are the slices it hands to the head file and
the ring; `PushedTail` and `PushLoss` are the three branches of the ring (no ring, overrun,
shift). BufWriter is modelled by what it passes on and what it keeps (`BufPassed`,
`BufKept`), so that a kill loses exactly what a kill can lose. `Finish` has two outcomes for
a ring: its tail file is created and written, or `File::create` fails (stream.rs:126), the ring is
in no file, and `tail_path` is None. Errors of a write after a file was opened, which the code
ignores (`let _ =`), are not modelled.

`KeepsBothEnds` is the refinement of `HeadTail`: after n bytes the head is the first
`min(head, n)`, the ring the last `min(tail, n - head)` of the rest, however the n bytes were
cut into reads. `Accounting`, `NoSilentHole`, `AnnouncedOnce` and `FinishedTellsTheGap` relate
it to the files, to the caller's announcement and to the summary: what a finished capture lacks is
`dropped`, and the ring's `tail` bytes as well if there is no `tail_path`. The announcement comes when
the total first exceeds the head cap, as stream.rs:70 says, which with a ring may be before anything is
dropped.

### Disk budget

Load, fetch_add, fetch_sub and swap are actions of their own, so every interleaving of the
atomics is explored. `late` in a call remembers whether the run had already stopped when it
began, `admitted` sums what was granted. A write can be refused because of another one's
transient charge, and after `LIMIT` was printed a call that had already passed the load may
still be granted: both are in the model, and `CapHolds`, `UsedIsGranted` and
`LateCallsRefused` say what remains true.

### Logger

A call is a queue of items worked off in order, since a task is sequential: `data` is the raw
bytes, then the index line; `close` finishes the streams, then emits the gaps, then the close
line. Each item charges the budget (the steps of `Budget`) and then takes one critical
section. `flush` drains the map in one critical section and finishes the streams outside of
it, with the tasks still going; `Exit` drops what was created after the drain, with Rust's
Drop flushing the BufWriter and the ring lost. `RawOpenFails` is a `Stream::create` that
fails; `CloseRaw` and `FlushFinish` choose the streams whose tail files cannot be created
(`failed`), and `untailed` remembers how many bytes went with them: `close_raw` reports a gap
when bytes were dropped and does not look at `tail_path` for that (`Report`). Index lines have one size (`EventSize`) and are identified by kind, connection,
direction and last byte. `Notice` stands for `listening`, `warn` and `error`, which emit one
line each from a listener's task. `Total` adds up the sizes of files by counting their bytes,
so that it needs no recursion. A `println!` panics when nobody reads stdout any more: `Die`
ends a connection's task at each place where `data`, `close`, `raw_write` and `close_raw`
print (`Prints`; `raw_write` prints after the write that first exceeds the head cap, which
`first` remembers), with its streams left in the map, and `MainDies` ends `main` between ctrl-c and
`flush`. These lines are not printed under the lock. One message is: the `eprintln!` of a
stream that cannot be opened (log.rs:253), on stderr; with that closed as well it would panic there,
poison the mutex and silence the log, which is not modelled. The statistics and the text of the
console are left out.

`EventsArePrefix` and `RawIsGapless` are the reason for the sticky stop flag: with another
task's refund between two writes of one connection, the index could skip an event and a file
could have a hole. `EventsHaveBytes` and `ClosedMeansReported` relate index and files: before
a close line every gap is reported, up to the bytes that are `untailed`. Those are a disagreement of
code and comment: log.rs:291 calls a truncated capture that does not say so worse than no capture,
and when the tail file cannot be created (no file descriptor left) while the ring had kept everything
beyond the head, `dropped` is 0, no `truncated` event is written, and the close line follows a
capture that lacks its end. The property states it as its one exception beside `unopened`.

### UDP listener

One action per branch of the `select!` and one per reply, because a reply is where the task
is suspended: time passes and datagrams queue up, but neither a receive nor a sweep runs. Time is
counted in ticks; ages stop at `idle`, beyond which they make no difference. The sweep's
interval runs on the monotonic clock, `last_seen` on the wall clock, so `SetClock` may move all
ages at once, ahead or back; `saturating_sub` is the `Max` in `Expired`. A sweep may be
taken any time after it is due, so an interval of one tick (`SweepEvery = 1`) covers longer
ones as far as safety goes. What a rule answers depends on data, so every reply of a profile
that has rules may or may not happen, and each may fail.

With `--udp-max-peers 0` the table is always full, and the test at udp.rs:157 is never true: the
overflow stream that the first datagram opens is never closed, although the table is empty, and every
later burst is folded into it, which the comment at udp.rs:155 wants to avoid. The safety
properties hold for that value as well and are proved for it; `AllRetired` does not, and is checked for
tables of one and two.

### TCP

`TcpServe` is the task from `tokio::spawn` to the close line, with the client as environment.
Reads take any part of what the socket holds and writes go out in any pieces that fit, so the
client acts at every await. A rule is what decides whether it matches (every read, the first
only, or some) and its action; `Eval` is the first match over that. Dropping a socket with
unread bytes resets it, so the client may lose what it has not read: that is the system's
behaviour and is in `Return`.

`Forward` has one pump per direction over bounded socket buffers. A reset may lose what was
on the way in either direction. An unreachable upstream counts as an end that reset.
`RelaysBothWays` is the conjunction of two instances of `Relay`: no matter what the other
direction does, the destination reads the source's bytes in order and reads EOF only after
the last one, unless the connection broke.

### Answering: profiles, DNS, hints

`UdpListener` and `TcpServe` say when a reply is sent; `Answering` says which bytes. `Hear` is
one message through `classify`, `eval` and `reply`/`send`; the peer repeats one message, and
`Bounce` hands the last reply back as a message, as a second listener or a forged source
address would. `Profile`, `Dns` and `Classify` translate the functions branch by branch, on
sequences of bytes with offsets from 0 as in the code, at the code's own limits (127 and 63
labels). Each message carries what it is `meant` to be: `Encoded` and `Framed` say which bytes
a query has, and `AnsweringAssumption` that a message meant as one has those, or what a single
read got of them. `MCAnswering` encodes the hellos.
A query is spelled field by field: each flag and the byte of RA, Z, AD, CD and rcode, the four
counts, the question, what follows it (an EDNS record, say), and what follows a frame in the same
read; so every message that `parse` accepts can be spelled as one. The properties compare the outcome with that and never with the parser itself.
Two coincidences are exempt and named: a query in the wrong framing may by chance be
another query (`Misframed`), and a long query whose id is 0x1603 may read as a TLS
record (`LooksLikeTls`).

The HTTP hint and the guesses at text formats are left out. A message that starts with an
HTTP method has a DNS opcode other than 0, so `http` takes nothing from `dns` that it would
recognise; `other` comes last.

The start-up warning of the UDP listener says two things. Of fixed replies it names a number of
bytes, and `FixedRepliesAsAnnounced` says that no datagram draws more. Of the others, profiles that
echo or answer DNS, it says that replies mirror the request size; that is `RepliesMirrorRequest`, which
a run refutes.

### Supervisor

A listener's task returns an error before its loop (`Bind`) or panics at a console line. The
`select!` is a pass in two steps: `Listen` is the first poll of a new `ctrl_c()`, `Join` or
`Asked` the branch taken; `join_next` may be polled first, so `Join` is also possible before
`Listen`. A signal is noted by the handler (`Press`) and told to the receivers of that moment
by the runtime's driver (`Tell`): one that comes while `main` handles a join is told to nobody, and
the default action is gone once the handler is installed. `PressingAgainEnds` is what
remains true. A reading of the exit status: main.rs:296 says "every listener failed to start"
also when one failed to bind and the others came up and panicked later.

## Runs

| Run | Instance | Shows |
|---|---|---|
| `stream` | 16 limits (head and tail 0..3), 8 bytes, BufWriter of 2 | no read size, in any order, breaks the promise: 8 bytes overrun every ring at least once and shift it several times |
| `budget` | 3 tasks, writes of 1..3, caps 0, 1, 3, 5 | three is the least number at which one task's transient charge refuses another while a third is past the load; the caps end the run at the first, second or third write |
| `logger` | 2 connections, 3 bytes between them in reads of 1 or 2, no cap and a cap of 4; a ring, raw files without limits and without an index, or an index only | the races of two tasks and of `main`, and panics and kills at every point; with head 1 and tail 1 three bytes leave a gap, and a cap of 4 stops the run at every point of a call |
| `udp` | 3 sources, table of 1 or 2, idle 1, 4 datagrams, the clock set back by 1 or ahead by 2 | four datagrams are the least with which the table fills, overflows, drains, fills and overflows again |
| `tcp_serve` | 5 profiles, 4 bytes, socket buffers of 2 | replies longer than the buffer's room, several reads per connection, each kind of action and close |
| `tcp_forward` | 3 bytes each way, socket buffers of 2 | both pumps blocked, half-closes and resets at each point |
| `answers` | 7 profiles; queries with every combination of QR, AA, TC, RD, two opcodes and three values of the second flag byte (none, AD, all); of 0 to 2 questions and 0 or 1 of each other record, with an EDNS record and without; of two ids, three types, two classes and names up to one label past each limit; queries and hellos cut at every byte; bare and framed, with and without a message behind the frame; 3 bounces | every branch of the parsers, with the byte before and the byte after |
| `supervisor` | 3 listeners | one can fail, one panic and one stay up at the same time |
| `hole_at_exit` | as `logger`, head only, no cap | refutes `NoHoleAtExit` |
| `flush_not_indexed` | as `logger`, head only, no cap | refutes `TruncationInIndex` |
| `ctrl_c_skips_flush` | as `supervisor` | refutes `CtrlCFlushes` |
| `replies_exceed_request` | as `answers` | refutes `RepliesMirrorRequest` |

All bounds are constants with *bound* in their comment (`MaxTotal`, `MaxSent`,
`MaxDatagrams`, `MaxQueue`, `MaxBehind`, `MaxHops`), in the guards of the environment's actions only. Connections of
the Logger run are interchangeable and permuted by symmetry; runs that check liveness use
none. A run whose idle time is 1 and whose clock may jump ahead of it covers an idle time of 0.
Deadlock is checked except in `answers` and `replies_exceed_request`, where a listener that hung up is at its end.

The four refutations:

* **A late write leaves a hole.** `flush` takes the streams out of the map while connection
  tasks run. A `raw_write` after it creates a new `Stream` on the same path, in append mode
  and with a whole new head budget, so later bytes follow a head that had been cut. The
  comment at stream.rs:8 describes just that file as the thing to avoid.
* **`flush` does not index the gap.** README.md:222 says truncation is always announced on
  the console and in `events.jsonl`; `flush` only prints.
* **ctrl-c without `flush`.** `main` prints an empty line before it flushes. In `kls tcp:9000 |
  tee out` the same ctrl-c ends `tee`; if it is gone first, `println!` panics and no stream
  that is open gets its tail file or its report, which is what log.rs:566 has `flush` for.
* **Replies that do not mirror the request.** udp.rs:57 prints "replies mirror the request size"
  and profile.rs:136 says that such a profile "tracks the request size rather than exceeding it". A
  DNS answer with an address is 16 or 28 bytes longer than its query, and a banner before an echo
  comes on top of it.

## Fairness

Safety needs none. For liveness: `udp` assumes that time passes, that a ready receive or
reply is polled (weak fairness), and that a due sweep is not starved by receives (strong
fairness: `select!` picks at random among ready branches); a clock that is set back for ever
is the exception `AllRetired` names. `supervisor` assumes that the runtime runs `main`, each
bind and its signal driver; nobody has to press ctrl-c, and `PressingAgainEnds` speaks of who
does. `tcp_serve` and `tcp_forward`
assume that the runtime polls a task that can go on; in `tcp_forward` each pump by itself,
since `join!` polls both. Nothing in the code bounds how long a peer may refuse to read, so
liveness also assumes that the peers read what they are sent; they need not send, end or
reset. No client is assumed to end: `ServeEnds` and `ForwardEnds` speak of what follows when
it does, because a silent open connection stays open by design.

## Proofs

`LoggerProofs` proves first, of `Budget`, for any finite set of tasks, any sizes and any cap, that the types
hold, `UsedIsGranted`, `CapHolds`, `LateCallsRefused` and `LimitAnnouncedOnce`. The invariant
is their conjunction with two facts that make it inductive: without a cap nobody stops, and a
call marked late began after the stop. The sum of the charges in the middle of a refund is
the cardinality of a disjoint union (`Overcharge`), so the steps are facts about finite sets
and the sum needs no recursion.

`CaptureStreamProofs` proves for all limits, all buffer sizes and all reads that the types
hold, each of the four other invariants of the run, and `Spec => KeepsBothEnds`. The inductive invariant
says the fields are functions of `total`: `head_written` is the least of head and total, the
ring is a run of positions that ends at `total`, its length the least of tail and what is
beyond the head, `dropped` the rest; and that the head file with the buffer is the run from 1
on. `NoSilentHole` alone is not inductive: it does not say that the ring is full when
something was dropped, which the next push relies on. `StreamLemmas` holds what is needed
about runs of positions (cut, join, shift); the relay's proofs use it as well. It also holds the
form of induction that the others use: a set of numbers with 0 and with the successor of each
of its members has all of them (`EveryNumber`), because what it lacks would have a least one.
With it, a sequence of sequences has exactly one join, and a line appended to it is appended to
the join (`FlattenedAppend`).

Of `Logger` it proves for any finite set of tasks, any options, sizes and cap, and any buffer
the six invariants of the run: the types, `EventsArePrefix`, `RawIsGapless`,
`EventsHaveBytes`, `ClosedMeansReported` and `DiskWithinCap`. The argument follows one
connection, and a step of another one leaves alone what it is about (`Only`, `ConnStep`). What
`LInv` adds to the properties:

* a task's queue says where in which call it is (`Queues`), and a charge is for the item at its
  head (`CallsInStep`), so what the task still has to do says what it has done;
* as long as nothing was refused, the streams have seen all that was sent but for what waits
  (`Reaching`) and the index has all that was issued but for the line at hand
  (`IndexInStep`); after a refusal the run has stopped, and a task that begins a call then
  (`CutOff`) is granted nothing more. None of the properties is inductive without this: a
  second grant after a refused write would be a hole, and only the stop flag excludes it;
* an open stream holds everything that reached it (`StreamsWhole`, by the lemmas of the
  capture stream), and is there until the connection's `close_raw`;
* a gap that `close_raw` leaves, but for a ring that got no tail file, is in the queue or in the
  index until the close line (`GapsReported`), which is the last one (`CloseIsLast`);
* the lines of the index, what the streams hold in files and in memory, and what was granted
  and is not written yet are together no more than what was admitted (`SpaceIsGranted`), which
  `CapHolds` of `Budget` bounds. Flush, exit and kill only take away from it.

`UdpListenerProofs` proves for any sources, any table size, any number of datagrams and any
settings of the clock the types, `OverflowOnlyWhenFull`, `OpenConnsAreLive`,
`DatagramsAccounted`, `RepliesBounded` and, as an action property, `ClosedIsFinal`. What the
invariant `UdpInv` adds is why they hold: conns are numbered in the order they were opened,
at most one per datagram received, so a new one was never used (`IdsInOrder`); each entry of
the table has an open conn of its own, and each open conn its entry (`TableIsOpen`); the
reply in hand goes to a conn that is still in the table, since no sweep runs while it waits
(`HandIsTracked`); and the overflow count was reset with its conn (`NoOverflowNoCount`), without
which `DatagramsAccounted` is not inductive: a count left over would be added to the next stream.

`TcpServeProofs` proves for any profile, any amounts and any socket buffers the types,
`RepliesAnswerReads` and `TranscriptIsFaithful`. The log tells what happened before a reply, not what will come, so the
invariant `ServeInv` says for each place of the task which reads the reply in hand answers,
which lines may be at the end of the log there, and what `first` and a reply that hangs up
still allow. For the transcript, `TranscriptInv` says where the bytes are that the log does not
have: those sent are the ones logged and then the ones in the socket (`IntakeOk`), those
handed to the kernel are the ones the client got and then the ones on the way (`OutgoOk`), and they
are also the ones the log has and then the written part of the reply in hand (`ReplyOk`), until
an error leaves open how many were written.

`ForwardProofs` proves for any amounts, any socket buffers and any resets the types,
`LogIsTheRelay`, and that a step of `Forward` is a step of `Relay` or a stutter in each
direction (`RelaysBothWays`). The invariant `FInv` has one part per direction, `InOrder`: what
the destination got, what is in its socket, what the pump holds and what is in the source's
socket are consecutive runs of the bytes sent, with gaps only where a reset discarded some;
`PumpsInStep` says what a pump that finished has seen (its source's EOF and an empty
socket), and `OutcomeTells` carries that past the return of `join!`, when the pumps are gone.

`SupervisorProofs` proves `LeavesForAReason` for any number of listeners. The set and the
count of failures are all `main` remembers, so the invariant says what they mean: a listener that
was joined has ended (`JoinedHaveEnded`), the count is positive exactly if a joined one could
not bind (`FailedIsCounted`), and the loop goes on while there is one to join
(`LoopHasListeners`).

`AnsweringProofs` proves three of the four invariants of `answers` and a part of the fourth, for any
profiles, any messages, any settings of the limits up to 1000 labels, and any number of replies
that come back.

* `FixedRepliesAsAnnounced`. What `load` leaves in a profile (`LoadedOk`) makes `max_response_bytes` an upper
  bound of each rule's reply and of the banner's, and at most one of each is sent.
* `AnswersQueriesOnly`. `parse` and the encoding are two descriptions of one layout. The walk
  over a name is a recursive function of a position, which is shown to exist from the end
  of the message backwards (`WalkExists`); laid out label by label, a name of the
  right number of labels is walked to its end and no further (`NameFound`), and so a query is
  parsed exactly if it is `Answerable`, wherever a read cut it (`QueryParsed`). What
  a parsed query draws has QR set and is therefore no query, in a frame or out of it
  (`NoReplyIsQuery`). The invariant `DrawsInv` needs that: it says that what was said is the
  answer to what was heard last, and that a reply that came back draws nothing. Without
  the second part a reply to a reply could not be told from an answer.
* `AnswersAreReadable`. What `reply` joins is taken apart again word by word (`ReplySays`), from
  the layout of the query it was made from, the record's pointer, type, class, ttl and length included
  (`RecordHead`); of the query's flags, whatever they are, RD alone comes back (`FlagsRead`); the frame of a reply fits
  16 bits.
* `QueriesAreHinted`, the first conjunct of `HintIsTrue`. The classifier has a walk of its own, with
  its own limit, which collects the labels: from the same layout, the list it makes of a name
  that is all there is the name (`LabelsFound`). A query can only be taken for a hello if its id is
  0x1603 and it has the 47 bytes of a hello without extensions (`ShortNoHello`).

Assumptions are the named ASSUMEs of the modules: `BudgetAssumption` (tasks finite, sizes
positive), `StreamAssumption` (limits are pairs of naturals, a buffer of at least one byte),
`LoggerAssumption` (lines and reads are sizes, the options have the three fields),
`UdpAssumption` (sources finite, the overflow pseudo-peer none of them, limits naturals),
`TcpServeAssumption`, `ForwardAssumption` and `SupervisorAssumption` (sizes are naturals, listeners
finite), and `AnsweringAssumption`: profiles have the types of the structs, with addresses of 4 and
16 bytes; a message meant as a query is the beginning of its encoding, with any header bits and
counts, any labels of 1 to 63 bytes, at most 65535 bytes in all, and any bytes behind its frame; and the bytes of anything else are not by chance those of a
query. TLC evaluates it for each of the messages of its run.

Only model-checked:

* what `HintIsTrue` says beyond `QueriesAreHinted`. For any messages it has more exceptions than the
  ones it names: the classifier looks for a bare query only, so a framed one of 5635 (0x1603)
  bytes, or one whose bytes read as another query, may get a hint by chance. What is left to
  prove needs for hellos, with their lengths inside lengths, what the proofs of the DNS
  answers do for queries, and the encoding of a hello is only in `MCAnswering`;
* liveness (`AllRetired`, `ServeEnds`, `ForwardEnds`, `PressingAgainEnds` and their like), which
  is beyond the proof system;
* the four refutations, which are about what does not hold.

## Not modelled

* Configuration: specs and a TOML file become a list at start-up; no state, no interaction.
* Original destination, socket options: one system call each, whose result is text in a log
  line or an error of the bind (`Bind` has that outcome).
* Timestamps, hexdump, `human`, `parse_size`: formatting. That two runs of the same second share
  a directory (log.rs:142) takes two processes and the text of a stamp to show.
* In `profile.rs` the escapes and hex of the TOML strings, and `resolve`; in `classify.rs` the
  HTTP hint and the text guesses; in `main.rs` the command line and the `profiles` and
  `transparent` commands, which print and exit.
* The accept loop, which keeps no state: errors are lines of the log.
* Datagrams of no bytes, as far as the Logger is concerned: a call of `data` has at least one byte, so
  that an index line without bytes in the capture does not occur there (`Answering` has such
  datagrams); errors of a write to a
  file that could be opened; the poisoning of the `sinks` mutex by a panic under it (log.rs:253).

## Plan

Modelling is done as far as it pays, and so are the proofs of all safety properties but a part of
one. What
is left, in this order:

1. All of `HintIsTrue` as a theorem: the chance readings named as `LooksLikeTls` is, the encoding of a
   hello in `Answering`, and lemmas like those of `QueryParsed` for the list of extensions.
2. `HeadTail`: that the promise itself never takes back a byte of the head.
