------------------------------- MODULE Forward --------------------------------
(***************************************************************************)
(* One forwarded TCP connection (listener/tcp.rs: forward, pump): the task *)
(* connects to the upstream, then runs two pumps, one per direction, until *)
(* both are done.  Either end may send, read slowly, half-close or reset   *)
(* at any point; socket buffers are bounded, so a pump waits for a slow    *)
(* destination while the other one goes on.                                *)
(***************************************************************************)
EXTENDS Integers, Sequences

LOCAL INSTANCE SequencesExt

CONSTANTS
  MaxSent,  \* bound: bytes each end sends, numbered from 1
  Window    \* bytes each socket buffer holds

ASSUME ForwardAssumption == MaxSent \in Nat /\ Window \in Nat \ {0}

Ends == {"client", "upstream"}
\* As in the log: rx is what the client sent, tx is what came back.
Dirs == {"rx", "tx"}
Source(d) == IF d = "rx" THEN "client" ELSE "upstream"
Dest(d) == IF d = "rx" THEN "upstream" ELSE "client"

VARIABLES
  pc,      \* the task: "connecting", "pumping", "returned", "done"
  why,     \* forward's outcome
  side,    \* each end: "open", "eof" (half-closed), "reset" (or unreachable)
  sent,    \* bytes the source of each direction has sent
  from,    \* received from the source, not yet read by the pump
  pump,    \* each pump: "read", "write", "done"
  buf,     \* read and logged, not yet written
  to,      \* written, not yet read by the destination
  fin,     \* has the destination's socket been shut down for writing?
  got,     \* read by the destination
  saw,     \* has the destination read EOF?
  logged,  \* the bytes of the log's data lines
  lines    \* the log's other lines

endVars == <<side, sent, got, saw>>
pumpVars == <<from, pump, buf, to, fin, logged>>
forwardVars == <<pc, why, endVars, pumpVars, lines>>

ForwardTypeOK ==
  /\ pc \in {"connecting", "pumping", "returned", "done"}
  /\ why \in {"none", "upstream unreachable", "both directions closed"}
  /\ side \in [Ends -> {"open", "eof", "reset"}]
  /\ sent \in [Dirs -> 0 .. MaxSent]
  /\ \A f \in {from, buf, to, got, logged} : f \in [Dirs -> Seq(1 .. MaxSent)]
  /\ \A d \in Dirs : Len(from[d]) <= Window /\ Len(to[d]) <= Window
  /\ pump \in [Dirs -> {"read", "write", "done"}]
  /\ fin \in [Dirs -> BOOLEAN]
  /\ saw \in [Dirs -> BOOLEAN]
  /\ lines \in Seq({"error", "close"})

Nothing == [d \in Dirs |-> <<>>]

ForwardInit ==
  /\ pc = "connecting" /\ why = "none"
  /\ side = [e \in Ends |-> "open"]
  /\ sent = [d \in Dirs |-> 0]
  /\ from = Nothing /\ buf = Nothing /\ to = Nothing /\ got = Nothing
  /\ pump = [d \in Dirs |-> "read"]
  /\ fin = [d \in Dirs |-> FALSE]
  /\ saw = [d \in Dirs |-> FALSE]
  /\ logged = Nothing /\ lines = <<>>

\* The task holds both sockets (the client's only, while it connects).
Connected(e) == pc = "pumping" \/ (pc = "connecting" /\ e = "client")

-----------------------------------------------------------------------------
\* The two ends.

Send(d) ==
  /\ Connected(Source(d)) /\ side[Source(d)] = "open"
  /\ sent[d] < MaxSent /\ Len(from[d]) < Window
  /\ sent' = [sent EXCEPT ![d] = @ + 1]
  /\ from' = [from EXCEPT ![d] = Append(@, sent'[d])]
  /\ UNCHANGED <<pc, why, side, got, saw, pump, buf, to, fin, logged, lines>>

HalfClose(e) ==
  /\ Connected(e) /\ side[e] = "open"
  /\ side' = [side EXCEPT ![e] = "eof"]
  /\ UNCHANGED <<pc, why, sent, got, saw, pumpVars, lines>>

\* What was on its way to e is lost, what was on its way from it may be.
Reset(e) ==
  /\ Connected(e) /\ side[e] # "reset"
  /\ side' = [side EXCEPT ![e] = "reset"]
  /\ to' = [d \in Dirs |-> IF Dest(d) = e THEN <<>> ELSE to[d]]
  /\ from' \in {from, [d \in Dirs |-> IF Source(d) = e THEN <<>> ELSE from[d]]}
  /\ UNCHANGED <<pc, why, sent, got, saw, pump, buf, fin, logged, lines>>

\* The destination reads a byte, or the EOF after the last one.
Receive(d) ==
  /\ side[Dest(d)] # "reset" /\ to[d] # <<>>
  /\ got' = [got EXCEPT ![d] = Append(@, Head(to[d]))]
  /\ to' = [to EXCEPT ![d] = Tail(@)]
  /\ UNCHANGED <<pc, why, side, sent, saw, from, pump, buf, fin, logged, lines>>

ReceiveEof(d) ==
  /\ side[Dest(d)] # "reset" /\ to[d] = <<>> /\ fin[d] /\ ~saw[d]
  /\ saw' = [saw EXCEPT ![d] = TRUE]
  /\ UNCHANGED <<pc, why, side, sent, got, pumpVars, lines>>

-----------------------------------------------------------------------------
\* forward: connect, or log that it failed and give up.

ConnectOk ==
  /\ pc = "connecting"
  /\ pc' = "pumping"
  /\ UNCHANGED <<why, endVars, pumpVars, lines>>

ConnectFails ==
  /\ pc = "connecting"
  /\ pc' = "returned" /\ why' = "upstream unreachable"
  /\ side' = [side EXCEPT !["upstream"] = "reset"]
  /\ from' = Nothing
  /\ fin' = [fin EXCEPT !["tx"] = TRUE]
  /\ lines' = Append(lines, "error")
  /\ UNCHANGED <<sent, got, saw, pump, buf, to, logged>>

-----------------------------------------------------------------------------
\* pump, for direction d.

Pumping(d, step) == pc = "pumping" /\ pump[d] = step

\* Slip: what its reader will never get is not logged.
LogIfHeard(d, data) ==
  IF side[Dest(d)] = "reset" THEN logged ELSE [logged EXCEPT ![d] = @ \o data]

Log(d, data) == [logged EXCEPT ![d] = @ \o data]

\* A read gives any part of what the socket holds, and is logged.
PumpRead(d) ==
  /\ Pumping(d, "read")
  /\ \E n \in 1 .. Len(from[d]) :
       /\ buf' = [buf EXCEPT ![d] = SubSeq(from[d], 1, n)]
       /\ from' = [from EXCEPT ![d] = SubSeq(@, n + 1, Len(@))]
       /\ logged' = Log(d, buf'[d])
  /\ pump' = [pump EXCEPT ![d] = "write"]
  /\ UNCHANGED <<pc, why, endVars, to, fin, lines>>

\* Slip: a read error is tried again.
OnlyAtEof(d) == from[d] = <<>> /\ side[Source(d)] = "eof"

\* read gives 0, or fails.
AtEnd(d) == from[d] = <<>> /\ side[Source(d)] # "open"

\* Slip: the far side is not told.
LeftOpen(d) == fin

ShutDown(d) == [fin EXCEPT ![d] = TRUE]

\* EOF, or a read error, which is taken for one: shut the far side down.
PumpEnd(d) ==
  /\ Pumping(d, "read") /\ AtEnd(d)
  /\ fin' = ShutDown(d)
  /\ pump' = [pump EXCEPT ![d] = "done"]
  /\ UNCHANGED <<pc, why, endVars, from, buf, to, logged, lines>>

\* Slip: room for one write more than the buffer takes.
FreeAndOne(d) == Window - Len(to[d]) + 1

Free(d) == Window - Len(to[d])

\* One write of write_all: as much as the destination's buffer takes.
PumpWrite(d) ==
  /\ Pumping(d, "write") /\ side[Dest(d)] # "reset"
  /\ \E n \in 1 .. Len(buf[d]) :
       /\ n <= Free(d)
       /\ to' = [to EXCEPT ![d] = @ \o SubSeq(buf[d], 1, n)]
       /\ buf' = [buf EXCEPT ![d] = SubSeq(@, n + 1, Len(@))]
       /\ pump' = [pump EXCEPT ![d] = IF n = Len(buf[d]) THEN "read" ELSE @]
  /\ UNCHANGED <<pc, why, endVars, from, fin, logged, lines>>

\* A write error ends the direction; the bytes in hand are logged and lost.
PumpWriteFails(d) ==
  /\ Pumping(d, "write") /\ side[Dest(d)] = "reset"
  /\ pump' = [pump EXCEPT ![d] = "done"]
  /\ buf' = [buf EXCEPT ![d] = <<>>]
  /\ UNCHANGED <<pc, why, endVars, from, to, fin, logged, lines>>

PumpStep(d) == PumpRead(d) \/ PumpEnd(d) \/ PumpWrite(d) \/ PumpWriteFails(d)

\* Slip: select! where join! is meant.
EitherDone == \E d \in Dirs : pump[d] = "done"

BothDone == \A d \in Dirs : pump[d] = "done"

\* join!: both pumps are done; the sockets are dropped.  What was left unread
\* resets the end that sent it, which may then lose what it has not read.
Return ==
  /\ pc = "pumping" /\ BothDone
  /\ pc' = "returned" /\ why' = "both directions closed"
  /\ from' = Nothing
  /\ to' \in {to, [d \in Dirs |->
       IF \E r \in Dirs : Source(r) = Dest(d) /\ from[r] # <<>> THEN <<>> ELSE to[d]]}
  /\ fin' = [d \in Dirs |-> TRUE]
  /\ UNCHANGED <<endVars, pump, buf, logged, lines>>

LogClose ==
  /\ pc = "returned"
  /\ pc' = "done"
  /\ lines' = Append(lines, "close")
  /\ UNCHANGED <<why, endVars, pumpVars>>

Ended == pc = "done" /\ UNCHANGED forwardVars

TaskStep == ConnectOk \/ ConnectFails \/ Return \/ LogClose

ForwardNext ==
  \/ \E e \in Ends : HalfClose(e) \/ Reset(e)
  \/ \E d \in Dirs : Send(d) \/ Receive(d) \/ ReceiveEof(d) \/ PumpStep(d)
  \/ TaskStep \/ Ended

\* join! polls each pump that can go on, whatever the other waits for.  An end
\* that never reads can hold its direction forever, so both are assumed to read.
ForwardSpec ==
  /\ ForwardInit /\ [][ForwardNext]_forwardVars
  /\ WF_forwardVars(TaskStep)
  /\ \A d \in Dirs :
       /\ WF_forwardVars(PumpStep(d))
       /\ WF_forwardVars(Receive(d) \/ ReceiveEof(d))

-----------------------------------------------------------------------------
Sent(d) == [i \in 1 .. sent[d] |-> i]
Broken == \E e \in Ends : side[e] = "reset"

\* "rx is what the client sent, tx is what came back" (tcp.rs:192-193): what a
\* pump has read is what is logged, what is delivered was logged first, nothing
\* is lost in between while the destination lives, and a connection that closes
\* without a reset has logged and passed on everything.
LogIsTheRelay ==
  /\ \A d \in Dirs :
       /\ IsPrefix(logged[d], Sent(d))
       /\ pc = "pumping" /\ side[Source(d)] # "reset" =>
            logged[d] \o from[d] = Sent(d)
       /\ IsPrefix(got[d], logged[d])
       /\ pc = "pumping" /\ side[Dest(d)] # "reset" =>
            got[d] \o to[d] \o buf[d] = logged[d]
  /\ why = "both directions closed" /\ ~Broken =>
       \A d \in Dirs : got[d] \o to[d] = Sent(d) /\ side[Source(d)] = "eof"

\* Each direction is a Relay, whatever happens in the other.
Rx == INSTANCE Relay WITH
        sent <- sent["rx"], ended <- side["client"] # "open", broken <- Broken,
        delivered <- got["rx"], told <- saw["rx"]
Tx == INSTANCE Relay WITH
        sent <- sent["tx"], ended <- side["upstream"] # "open", broken <- Broken,
        delivered <- got["tx"], told <- saw["tx"]

RelaysBothWays == Rx!Spec /\ Tx!Spec

\* "A client that half-closes still receives the full response" (README.md:120):
\* an end that ends its side is heard at the other even if that one keeps its
\* own side open for good, and the other way round.
EofReachesTheOther ==
  \A d \in Dirs : side[Source(d)] = "eof" ~> saw[d] \/ Broken

\* Once both ends have ended their sides, however they did, the connection is
\* closed in the log.
ForwardEnds == (\A e \in Ends : side[e] # "open") ~> pc = "done"
=============================================================================
