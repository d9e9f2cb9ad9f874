------------------------------- MODULE TcpServe -------------------------------
(***************************************************************************)
(* One answered TCP connection (listener/tcp.rs: serve, send, and the task *)
(* that run spawns around them) and the client at its other end.  The task *)
(* is sequential; what makes it hard is everything that happens at its     *)
(* awaits: the client sends, reads, half-closes or resets while a reply is *)
(* half written, and neither socket buffer is unbounded, so a reply waits  *)
(* for a client that does not read.  A sleep before a reply (delay_ms) is  *)
(* one more wait before its first byte is written.                         *)
(***************************************************************************)
EXTENDS Integers, Sequences

LOCAL INSTANCE SequencesExt

CONSTANTS
  Profiles,  \* the profiles a listener may have, as below
  MaxSent,   \* bound: bytes the client sends, numbered from 1
  Window     \* bytes each socket buffer holds

\* A rule of a profile: whether it matches every read, only the first one or
\* some (its matchers decide), and its action.  A banner is the action taken on
\* connect.  A byte of the profile is 0.
Acting(whens) ==
  [when : whens, kind : {"silent", "fixed", "echo", "dns"}, close : BOOLEAN]
Rules == Acting({"any", "first", "some"})
Banners == Acting({"connect"})
NoRule == [when |-> "never", kind |-> "silent", close |-> FALSE]

ASSUME TcpServeAssumption ==
  /\ Profiles \subseteq [on_connect : Banners \cup {NoRule}, rules : Seq(Rules)]
  /\ MaxSent \in Nat
  /\ Window \in Nat \ {0}

VARIABLES
  profile,     \* on_connect and the rules, in order
  sent,        \* bytes the client has sent
  client_end,  \* the client's side: "open", "eof" (half-closed) or "reset"
  inbox,       \* received by the socket, not yet read
  outbox,      \* written to the socket, not yet read by the client
  got,         \* read by the client
  pc,          \* where the task is
  first,       \* serve's flag: no read has been evaluated yet
  job,         \* send's state: the rule, its payload, what is left to write
  why,         \* serve's outcome
  log,         \* the log lines of the connection
  handed       \* history: every byte written to the socket

clientVars == <<sent, client_end, got>>
serveVars == <<profile, clientVars, inbox, outbox, pc, first, job, why, log, handed>>

Bytes == 0 .. MaxSent
Causes == Rules \cup Banners \cup {NoRule}
Line(what, data, rule) == [what |-> what, data |-> data, rule |-> rule]
NoJob == [rule |-> NoRule, payload |-> <<>>, rest |-> <<>>]

TcpServeTypeOK ==
  /\ profile \in Profiles
  /\ sent \in 0 .. MaxSent
  /\ client_end \in {"open", "eof", "reset"}
  /\ \A s \in {inbox, outbox, got, handed} : s \in Seq(Bytes)
  /\ Len(inbox) <= Window /\ Len(outbox) <= Window
  /\ pc \in {"connect", "read", "write", "failed", "returned", "done"}
  /\ first \in BOOLEAN
  /\ job \in [rule : Causes, payload : Seq(Bytes), rest : Seq(Bytes)]
  /\ why \in {"none", "profile close", "peer eof", "error"}
  /\ log \in Seq([what : {"rx", "tx", "error", "close"}, data : Seq(Bytes),
                  rule : Causes])

TcpServeInit ==
  /\ profile \in Profiles
  /\ sent = 0 /\ client_end = "open"
  /\ inbox = <<>> /\ outbox = <<>> /\ got = <<>> /\ handed = <<>>
  /\ pc = "connect" /\ first = TRUE /\ job = NoJob /\ why = "none"
  /\ log = <<>>

\* serve owns the socket.
Serving == pc \in {"connect", "read", "write"}

-----------------------------------------------------------------------------
\* The client.

ClientSend ==
  /\ Serving /\ client_end = "open"
  /\ sent < MaxSent /\ Len(inbox) < Window
  /\ sent' = sent + 1
  /\ inbox' = Append(inbox, sent')
  /\ UNCHANGED <<profile, client_end, got, outbox, pc, first, job, why, log, handed>>

ClientRead ==
  /\ outbox # <<>> /\ client_end # "reset"
  /\ got' = Append(got, Head(outbox))
  /\ outbox' = Tail(outbox)
  /\ UNCHANGED <<profile, sent, client_end, inbox, pc, first, job, why, log, handed>>

\* shutdown of its writing side, or its end of a finished exchange
ClientEof ==
  /\ client_end = "open"
  /\ client_end' = "eof"
  /\ UNCHANGED <<profile, sent, got, inbox, outbox, pc, first, job, why, log, handed>>

\* A reset: what was on its way to the client is lost, and what was on its way
\* from it may be.
ClientReset ==
  /\ Serving /\ client_end # "reset"
  /\ client_end' = "reset"
  /\ outbox' = <<>>
  /\ inbox' \in {inbox, <<>>}
  /\ UNCHANGED <<profile, sent, got, pc, first, job, why, log, handed>>

-----------------------------------------------------------------------------
\* serve returns and drops the socket, with `left` unread: closing a socket
\* with unread bytes resets it, and what the client has not read may be lost.
Return(outcome, left) ==
  /\ pc' = IF outcome = "error" THEN "failed" ELSE "returned"
  /\ why' = outcome
  /\ inbox' = <<>>
  /\ outbox' \in {outbox, IF left = <<>> THEN outbox ELSE <<>>}

\* The payloads send may build: dns answers only what it can parse.
Payloads(r, received) ==
  CASE r.kind = "silent" -> {<<>>}
    [] r.kind = "fixed" -> {<<0, 0>>}
    [] r.kind = "echo" -> {received}
    [] r.kind = "dns" -> {<<>>, <<0>>}

\* send, up to its first write: with nothing to write it returns at once.
Respond(r, payload, left) ==
  \/ /\ payload # <<>>
     /\ pc' = "write"
     /\ job' = [rule |-> r, payload |-> payload, rest |-> payload]
     /\ inbox' = left
     /\ UNCHANGED <<outbox, why>>
  \/ /\ payload = <<>> /\ r.close
     /\ Return("profile close", left)
     /\ UNCHANGED job
  \/ /\ payload = <<>> /\ ~r.close
     /\ pc' = "read"
     /\ inbox' = left
     /\ UNCHANGED <<outbox, job, why>>

Connect ==
  /\ pc = "connect"
  /\ \/ /\ profile.on_connect = NoRule
        /\ pc' = "read"
        /\ UNCHANGED <<inbox, outbox, job, why>>
     \/ /\ profile.on_connect # NoRule
        /\ \E payload \in Payloads(profile.on_connect, <<>>) :
             Respond(profile.on_connect, payload, inbox)
  /\ UNCHANGED <<profile, clientVars, first, log, handed>>

MayMatch(r) == r.when = "first" => first
MayFail(r) == r.when = "some" \/ (r.when = "first" /\ ~first)

\* Profile::eval: the rules that can be the first to match this read.
Eval ==
  LET rules == profile.rules IN
  {rules[i] : i \in {k \in DOMAIN rules :
                       MayMatch(rules[k]) /\ \A j \in 1 .. k - 1 : MayFail(rules[j])}}
NoneMatches == \A i \in DOMAIN profile.rules : MayFail(profile.rules[i])

\* Slip: the flag is never cleared.
FirstForGood == first

\* serve's flag after a read: nothing looks at it before send is done.
FirstAfterRead == FALSE

\* read gives any part of what the socket holds; it is logged, then evaluated.
Read ==
  /\ pc = "read"
  /\ \E n \in 1 .. Len(inbox) :
       LET data == SubSeq(inbox, 1, n)
           left == SubSeq(inbox, n + 1, Len(inbox))
       IN  /\ log' = Append(log, Line("rx", data, NoRule))
           /\ \/ \E r \in Eval : \E payload \in Payloads(r, data) :
                   Respond(r, payload, left)
              \/ NoneMatches /\ Respond(NoRule, <<>>, left)
  /\ first' = FirstAfterRead
  /\ UNCHANGED <<profile, clientVars, handed>>

\* Slip: a read of 0 is a read like another, and the loop goes on.
NeverAtEof == FALSE

\* read returns 0.
AtEof == inbox = <<>> /\ client_end = "eof"

ReadEof ==
  /\ pc = "read" /\ AtEof
  /\ Return("peer eof", <<>>)
  /\ UNCHANGED <<profile, clientVars, first, job, log, handed>>

\* read or write_all fails: `?` returns the error.
Fail ==
  /\ client_end = "reset"
  /\ (pc = "read" /\ inbox = <<>>) \/ pc = "write"
  /\ Return("error", inbox)
  /\ UNCHANGED <<profile, clientVars, first, job, log, handed>>

\* Slip: room for one write more than the buffer takes.
RoomAndOne == Window - Len(outbox) + 1

OutboxRoom == Window - Len(outbox)

\* One write of write_all: as much as the buffer takes.
WritePart ==
  /\ pc = "write" /\ client_end # "reset"
  /\ \E n \in 1 .. Len(job.rest) :
       /\ n <= OutboxRoom
       /\ outbox' = outbox \o SubSeq(job.rest, 1, n)
       /\ handed' = handed \o SubSeq(job.rest, 1, n)
       /\ job' = [job EXCEPT !.rest = SubSeq(@, n + 1, Len(@))]
  /\ UNCHANGED <<profile, clientVars, inbox, pc, first, why, log>>

\* Slip: one write is taken for all.
WriteBegun == job.rest # job.payload

AllWritten == job.rest = <<>>

\* write_all is done: log the reply, then hang up if the action says so.
Written ==
  /\ pc = "write" /\ AllWritten
  /\ log' = Append(log, Line("tx", job.payload, job.rule))
  /\ job' = NoJob
  /\ \/ job.rule.close /\ Return("profile close", inbox)
     \/ ~job.rule.close /\ pc' = "read" /\ UNCHANGED <<inbox, outbox, why>>
  /\ UNCHANGED <<profile, clientVars, first, handed>>

\* The task around serve logs the error, if there was one, then the close.
LogError ==
  /\ pc = "failed"
  /\ pc' = "returned"
  /\ log' = Append(log, Line("error", <<>>, NoRule))
  /\ UNCHANGED <<profile, clientVars, inbox, outbox, first, job, why, handed>>

LogClose ==
  /\ pc = "returned"
  /\ pc' = "done"
  /\ log' = Append(log, Line("close", <<>>, NoRule))
  /\ UNCHANGED <<profile, clientVars, inbox, outbox, first, job, why, handed>>

Ended == pc = "done" /\ UNCHANGED serveVars

TaskStep ==
  Connect \/ Read \/ ReadEof \/ Fail \/ WritePart \/ Written \/ LogError \/ LogClose

TcpServeNext ==
  \/ ClientSend \/ ClientRead \/ ClientEof \/ ClientReset
  \/ TaskStep \/ Ended

\* The runtime polls a task that can go on.  A client that never reads can hold
\* a reply forever (there is no write timeout), so it is assumed to read.
TcpServeSpec ==
  /\ TcpServeInit /\ [][TcpServeNext]_serveVars
  /\ WF_serveVars(TaskStep) /\ WF_serveVars(ClientRead)

-----------------------------------------------------------------------------
\* The bytes of the rx or the tx lines, in order.
Logged(what) ==
  FlattenSeq([i \in DOMAIN log |-> IF log[i].what = what THEN log[i].data ELSE <<>>])

InFlight ==
  IF pc = "write" THEN SubSeq(job.payload, 1, Len(job.payload) - Len(job.rest))
  ELSE <<>>

ClientSent == [i \in 1 .. sent |-> i]

\* The transcript is the exchange: no byte read goes unlogged and none is logged
\* twice, and the tx lines are what was written, less a reply that is being
\* written or that the client cut short (an error line follows it).
TranscriptIsFaithful ==
  /\ IsPrefix(Logged("rx"), ClientSent)
  /\ Serving /\ client_end # "reset" => Logged("rx") \o inbox = ClientSent
  /\ why # "error" => handed = Logged("tx") \o InFlight
  /\ why = "error" => IsPrefix(Logged("tx"), handed)
  /\ IsPrefix(got, handed)

\* A reply belongs to the read before it: the banner comes before everything, a
\* rule's reply right after the read that drew it, first_only's after the first
\* read only, an echo is that read and no other bytes; after a reply that
\* closes, and after an error, only the close line follows.
RepliesAnswerReads ==
  \A i \in DOMAIN log :
    LET l == log[i] IN
    /\ l.what = "tx" =>
         IF l.rule.when = "connect" THEN i = 1
         ELSE /\ i > 1 /\ log[i - 1].what = "rx"
              /\ l.rule.kind = "echo" => l.data = log[i - 1].data
              /\ l.rule.when = "first" =>
                   \A j \in 1 .. i - 2 : log[j].what # "rx"
    /\ l.rule.close \/ l.what = "error" =>
         \A j \in i + 1 .. Len(log) : j = i + 1 /\ log[j].what = "close"
    /\ l.what = "close" => i = Len(log)

\* Once the client has ended its side, however it did, the connection ends.
ServeEnds == client_end # "open" ~> pc = "done"
=============================================================================
