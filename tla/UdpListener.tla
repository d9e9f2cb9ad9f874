----------------------------- MODULE UdpListener ------------------------------
(***************************************************************************)
(* The UDP listener (listener/udp.rs): one task that takes datagrams off   *)
(* its socket, keeps a table of the sources it has seen, answers the       *)
(* tracked ones, and every few seconds retires the idle ones.  Replies     *)
(* suspend the task (a delay, the send), so while one is pending the loop  *)
(* neither receives nor sweeps, but time goes by and datagrams queue up.   *)
(* Idleness is measured on the wall clock, which may be set meanwhile.     *)
(***************************************************************************)
EXTENDS Integers, Sequences, FiniteSets

LOCAL INSTANCE FiniteSetsExt

CONSTANTS
  Sources,       \* the source addresses
  PeerChoices,   \* values --udp-max-peers may have
  IdleChoices,   \* values of --udp-idle, in ticks
  Profiles,      \* the profiles: is there a banner, is there a rule?
  SweepEvery,    \* ticks between two sweeps (SWEEP_SECS)
  ClockSteps,    \* by how many ticks the wall clock may be set ahead or back
  MaxBehind,     \* bound: ticks the clock is ever behind a last_seen
  MaxDatagrams,  \* bound: datagrams that arrive
  MaxQueue       \* bound: datagrams waiting in the socket

\* Who an overflow stream is for: no source of its own.
Overflow == "overflow"

ASSUME UdpAssumption ==
  /\ IsFiniteSet(Sources)
  /\ Overflow \notin Sources
  /\ PeerChoices \subseteq Nat
  /\ IdleChoices \subseteq Nat
  /\ Profiles \subseteq [banner : BOOLEAN, rule : BOOLEAN]
  /\ SweepEvery \in Nat \ {0}
  /\ ClockSteps \subseteq Int
  /\ MaxBehind \in Nat
  /\ MaxDatagrams \in Nat
  /\ MaxQueue \in Nat

\* Ids a listener can hand out; the table of conns stands for the log.
ConnIds == 1 .. MaxDatagrams
NoConn == 0

VARIABLES
  max_peers, idle,  \* the options
  profile,          \* does on_connect answer, can a rule answer?
  arrived,          \* datagrams that have arrived so far
  socket,           \* datagrams waiting in the socket, by source
  peers,            \* the peer table: source -> conn, age of last_seen
  overflow_conn,    \* the overflow stream's conn, or NoConn
  overflow_count,   \* datagrams folded into it
  replies,          \* replies still to send to the datagram in hand
  current,          \* its source and conn
  next_conn,        \* the Logger's next id
  log,              \* what the log says of each conn
  since_sweep, due  \* the interval: ticks since it fired, is it due?

udpVars == <<max_peers, idle, profile, arrived, socket, peers, overflow_conn,
             overflow_count, replies, current, next_conn, log, since_sweep, due>>

options == <<max_peers, idle, profile>>
clock == <<since_sweep, due>>
table == <<peers, overflow_conn, overflow_count>>
hand == <<replies, current>>

Tracked == DOMAIN peers

\* A conn's log: nothing yet, or who it is for, rx and tx lines, close note.
Unused == [state |-> "unused", who |-> Overflow, rx |-> 0, tx |-> 0, note |-> 0]

UdpTypeOK ==
  /\ max_peers \in PeerChoices
  /\ idle \in IdleChoices
  /\ profile \in Profiles
  /\ arrived \in 0 .. MaxDatagrams
  /\ socket \in Seq(Sources)
  /\ Tracked \subseteq Sources
  /\ \A a \in Tracked : peers[a] \in [conn : ConnIds, age : -MaxBehind .. idle]
  /\ overflow_conn \in ConnIds \cup {NoConn}
  /\ overflow_count \in 0 .. MaxDatagrams
  /\ replies \in Seq({"on_connect", "rule"})
  /\ current \in [who : Sources, conn : ConnIds] \cup {Unused}
  /\ next_conn \in 1 .. MaxDatagrams + 1
  /\ log \in [ConnIds -> [state : {"unused", "open", "closed"},
                          who : Sources \cup {Overflow},
                          rx : Nat, tx : Nat, note : Nat]]
  /\ since_sweep \in 0 .. SweepEvery - 1
  /\ due \in BOOLEAN

\* Slip: conns are numbered from 0.
FromZero == 0

\* The id the Logger gives to its first conn.
FirstConn == 1

UdpInit ==
  /\ max_peers \in PeerChoices
  /\ idle \in IdleChoices
  /\ profile \in Profiles
  /\ arrived = 0
  /\ socket = <<>>
  /\ peers = [a \in {} |-> 0]
  /\ overflow_conn = NoConn
  /\ overflow_count = 0
  /\ replies = <<>>
  /\ current = Unused
  /\ next_conn = FirstConn
  /\ log = [i \in ConnIds |-> Unused]
  /\ since_sweep = 0
  /\ due = FALSE

\* The loop is at its select!.
Selecting == replies = <<>>

-----------------------------------------------------------------------------
\* The world: datagrams arrive, time passes.

Arrive(a) ==
  /\ arrived < MaxDatagrams
  /\ Len(socket) < MaxQueue
  /\ arrived' = arrived + 1
  /\ socket' = Append(socket, a)
  /\ UNCHANGED <<options, table, hand, next_conn, log, clock>>

\* The ages of the peers after `ticks` more on the wall clock.  They stop at
\* `idle`: older makes no difference to the sweep.
Aged(ticks) ==
  [a \in Tracked |-> [peers[a] EXCEPT !.age = Min({@ + ticks, idle})]]

\* The interval runs on the monotonic clock and misses no beat.
Tick ==
  /\ peers' = Aged(1)
  /\ since_sweep' = (since_sweep + 1) % SweepEvery
  /\ due' = (due \/ since_sweep' = 0)
  /\ UNCHANGED <<options, arrived, socket, overflow_conn, overflow_count, hand,
                 next_conn, log>>

\* The wall clock, which last_seen is read from, is set.
SetClock(ticks) ==
  /\ \A a \in Tracked : peers[a].age + ticks >= -MaxBehind
  /\ peers' = Aged(ticks)
  /\ UNCHANGED <<options, arrived, socket, overflow_conn, overflow_count, hand,
                 next_conn, log, clock>>

-----------------------------------------------------------------------------
\* The log lines of the listener, as changes to the table of conns.

Opened(l, id, who) == [l EXCEPT ![id] = [Unused EXCEPT !.state = "open", !.who = who]]
Rx(l, id) == [l EXCEPT ![id].rx = @ + 1]
Tx(l, id) == [l EXCEPT ![id].tx = @ + 1]
Closed(l, ids) ==
  [i \in ConnIds |-> IF i \in ids THEN [l[i] EXCEPT !.state = "closed"] ELSE l[i]]

\* Past the cap, a new source is captured but neither tracked nor answered.
PastCap(a) == a \notin Tracked /\ Cardinality(Tracked) >= max_peers

\* Slip: a new overflow stream for every datagram.
AlwaysAnew == TRUE

\* Does the datagram open the overflow stream, or join it?
OpensOverflow == overflow_conn = NoConn

\* Slip: the datagram that opens the stream is not counted.
CountedAfterFirst == IF OpensOverflow THEN 0 ELSE overflow_count + 1

Counted == overflow_count + 1

\* recv_from gives a datagram of an untracked source with the table full.
ReceiveOverflow ==
  LET id == IF OpensOverflow THEN next_conn ELSE overflow_conn
  IN  /\ Selecting /\ socket # <<>> /\ PastCap(Head(socket))
      /\ socket' = Tail(socket)
      /\ overflow_conn' = id
      /\ next_conn' = next_conn + IF OpensOverflow THEN 1 ELSE 0
      /\ log' = Rx(IF OpensOverflow THEN Opened(log, id, Overflow) ELSE log, id)
      /\ overflow_count' = Counted
      /\ UNCHANGED <<options, arrived, peers, hand, clock>>

\* Slip: every datagram counts as its source's first.
BannerToAny(first) == profile.banner

BannerDue(first) == first /\ profile.banner

\* The replies a datagram may draw: the banner if it is its source's first,
\* then the rule that matches, if one does.
RepliesTo(first) ==
  {banner \o rule :
     banner \in {IF BannerDue(first) THEN <<"on_connect">> ELSE <<>>},
     rule \in IF profile.rule THEN {<<>>, <<"rule">>} ELSE {<<>>}}

\* recv_from gives a datagram of a source that is, or can be, tracked.
Receive ==
  LET a == Head(socket)
      first == a \notin Tracked
      id == IF first THEN next_conn ELSE peers[a].conn
  IN  /\ Selecting /\ socket # <<>> /\ ~PastCap(Head(socket))
      /\ socket' = Tail(socket)
      /\ peers' = [b \in Tracked \cup {a} |->
                     IF b = a THEN [conn |-> id, age |-> 0] ELSE peers[b]]
      /\ next_conn' = next_conn + IF first THEN 1 ELSE 0
      /\ log' = Rx(IF first THEN Opened(log, id, a) ELSE log, id)
      /\ replies' \in RepliesTo(first)
      /\ current' = IF replies' = <<>> THEN Unused ELSE [who |-> a, conn |-> id]
      /\ UNCHANGED <<options, arrived, overflow_conn, overflow_count, clock>>

\* reply(): the payload goes out and is logged, or there is none to send, or
\* send_to fails and only an error line is logged.
Reply ==
  /\ ~Selecting
  /\ log' \in {Tx(log, current.conn), log}
  /\ replies' = Tail(replies)
  /\ current' = IF replies' = <<>> THEN Unused ELSE current
  /\ UNCHANGED <<options, arrived, socket, table, next_conn, clock>>

\* saturating_sub: a peer seen later than now, by a clock set back, is new.
Expired == {a \in Tracked : Max({0, peers[a].age}) >= idle}

\* Slip: a sweep runs while a reply is pending, as it would in a task of its own.
DueIsEnough == due

CanSweep == Selecting /\ due

\* Slip: the overflow stream is closed only when the table is empty.
NoneKept(kept) == kept = {}

\* Slip: one entry is kept free.
RoomForTwo(kept) == Cardinality(kept) + 1 < max_peers

\* With these kept, is there room in the table again?
HasRoom(kept) == Cardinality(kept) < max_peers

\* The sweep: retire the idle peers, then close the overflow stream if there
\* is room in the table again.
Sweep ==
  LET kept == Tracked \ Expired
      over == overflow_conn # NoConn /\ HasRoom(kept)
      retired == {peers[a].conn : a \in Expired}
  IN  /\ CanSweep
      /\ peers' = [a \in kept |-> peers[a]]
      /\ log' = [Closed(log, retired \cup IF over THEN {overflow_conn} ELSE {})
                   EXCEPT ![IF over THEN overflow_conn ELSE 1].note =
                     IF over THEN overflow_count ELSE @]
      /\ overflow_conn' = IF over THEN NoConn ELSE overflow_conn
      /\ overflow_count' = IF over THEN 0 ELSE overflow_count
      /\ due' = FALSE
      /\ UNCHANGED <<options, arrived, socket, hand, next_conn, since_sweep>>

UdpNext ==
  \/ \E a \in Sources : Arrive(a)
  \/ Tick
  \/ \E ticks \in ClockSteps : SetClock(ticks)
  \/ ReceiveOverflow \/ Receive \/ Reply \/ Sweep

\* Time passes, and the task is scheduled when one of its branches is ready:
\* select! picks among the ready ones at random, so neither starves the other.
UdpFairness ==
  /\ WF_udpVars(Tick)
  /\ WF_udpVars(ReceiveOverflow \/ Receive)
  /\ WF_udpVars(Reply)
  /\ SF_udpVars(Sweep)

UdpSpec == UdpInit /\ [][UdpNext]_udpVars /\ UdpFairness

-----------------------------------------------------------------------------
OpenConns == {i \in ConnIds : log[i].state = "open"}

\* The table never outgrows --udp-max-peers, and the overflow stream is open
\* only while the table is full (a flood of forged sources is bounded).
OverflowOnlyWhenFull ==
  /\ Cardinality(Tracked) <= max_peers
  /\ overflow_conn # NoConn => Cardinality(Tracked) = max_peers

\* The conns the log has opened and not closed are those of the table and the
\* overflow stream: none leaks, none is closed twice, none is shared.
OpenConnsAreLive ==
  /\ OpenConns = {peers[a].conn : a \in Tracked}
                   \cup ({overflow_conn} \ {NoConn})
  /\ \A a \in Tracked : log[peers[a].conn].who = a
  /\ overflow_conn # NoConn => log[overflow_conn].who = Overflow

\* The rx lines of the log, each by its conn and its number there.
RxLines == UNION {{i} \X (1 .. log[i].rx) : i \in ConnIds}

\* Every datagram taken off the socket is one rx line of one conn, and the
\* count a closed overflow stream reports is the number of its rx lines.
DatagramsAccounted ==
  /\ Cardinality(RxLines) = arrived - Len(socket)
  /\ overflow_conn # NoConn => overflow_count = log[overflow_conn].rx
  /\ \A i \in ConnIds : log[i].state = "closed" /\ log[i].who = Overflow =>
       log[i].note = log[i].rx

\* A conn gets at most one banner and one answer per datagram it sent, and an
\* untracked source gets none: the listener reflects no more than that.
RepliesBounded ==
  \A i \in ConnIds :
    LET pending == IF ~Selecting /\ current.conn = i THEN Len(replies) ELSE 0
        banners == IF profile.banner THEN 1 ELSE 0
    IN  log[i].tx + pending <=
          IF log[i].who = Overflow THEN 0
          ELSE banners + IF profile.rule THEN log[i].rx ELSE 0

\* A conn that was closed is closed for good: no reply that was pending, no
\* late datagram writes to it again.
ClosedIsFinal ==
  [][\A i \in ConnIds : log[i].state = "closed" => log'[i] = log[i]]_udpVars

\* Once datagrams stop, every peer is retired and the overflow stream closed:
\* only a clock that is set back again and again can put it off.
AllRetired ==
  []<><<\E ticks \in ClockSteps : ticks < 0 /\ SetClock(ticks)>>_udpVars
    \/ <>[](OpenConns = {})

=============================================================================
