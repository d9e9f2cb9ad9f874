-------------------------- MODULE UdpListenerProofs ---------------------------
(***************************************************************************)
(* The UDP listener's table and its log agree, for any finite set of       *)
(* sources, any limits, any clock and any number of datagrams.  A conn's   *)
(* line in the log says who it is for, so the table and the log determine  *)
(* each other: an open conn is the entry of its own source, or the         *)
(* overflow stream.  While a reply is pending no sweep runs, so the conn   *)
(* in hand is still that of its source.                                    *)
(***************************************************************************)
EXTENDS UdpListener, FiniteSetTheorems, SequenceTheorems, TLAPS

LOCAL INSTANCE FiniteSetsExt

Conns == [state : {"unused", "open", "closed"}, who : Sources \cup {Overflow},
          rx : Nat, tx : Nat, note : Nat]

\* Ids are handed out in order, one for a datagram received at most.
IdsInOrder ==
  /\ \A i \in ConnIds :
       /\ log[i].state = "unused" <=> i >= next_conn
       /\ log[i].state = "unused" => log[i] = Unused
  /\ next_conn - 1 <= arrived - Len(socket)
  /\ overflow_count <= arrived - Len(socket)

\* Every entry of the table has an open conn of its own, and the other way round.
TableIsOpen ==
  /\ \A a \in Tracked : log[peers[a].conn].state = "open" /\ log[peers[a].conn].who = a
  /\ overflow_conn # NoConn =>
       log[overflow_conn].state = "open" /\ log[overflow_conn].who = Overflow
  /\ \A i \in ConnIds : log[i].state = "open" =>
       \/ i = overflow_conn
       \/ log[i].who \in Tracked /\ peers[log[i].who].conn = i

\* The reply in hand goes to a source of the table, on its conn.
HandIsTracked ==
  ~Selecting => /\ current.who \in Tracked
                /\ current.conn = peers[current.who].conn

\* With no overflow stream open its count is zero.
NoOverflowNoCount == overflow_conn = NoConn => overflow_count = 0

LinesFinite == IsFiniteSet(RxLines)

\* What a step does not do: write to a closed conn.
ClosedStay == \A i \in ConnIds : log[i].state = "closed" => log'[i] = log[i]

UdpInv ==
  /\ UdpTypeOK
  /\ IdsInOrder
  /\ TableIsOpen
  /\ HandIsTracked
  /\ OverflowOnlyWhenFull
  /\ NoOverflowNoCount
  /\ LinesFinite
  /\ DatagramsAccounted
  /\ RepliesBounded

-----------------------------------------------------------------------------
\* One more rx line of one conn is one more line of the log.
LEMMA LinesGrow ==
  ASSUME log \in [ConnIds -> Conns], log' \in [ConnIds -> Conns],
         NEW id \in ConnIds, \A j \in ConnIds \ {id} : log'[j].rx = log[j].rx,
         log'[id].rx = log[id].rx + 1, LinesFinite
  PROVE  LinesFinite' /\ Cardinality(RxLines)' = Cardinality(RxLines) + 1
<1> DEFINE line == <<id, log[id].rx + 1>>
<1>1. \A j \in ConnIds : log[j].rx \in Nat
  BY DEF Conns
<1>2. RxLines' = RxLines \cup {line}
  <2>1. {id} \X (1 .. log'[id].rx) = ({id} \X (1 .. log[id].rx)) \cup {line}
    BY <1>1
  <2>2. \A j \in ConnIds \ {id} : {j} \X (1 .. log'[j].rx) = {j} \X (1 .. log[j].rx)
    OBVIOUS
  <2> QED BY <2>1, <2>2 DEF RxLines
<1>3. line \notin RxLines
  <2>1. \A j \in ConnIds : line \notin {j} \X (1 .. log[j].rx)
    BY <1>1
  <2> QED BY <2>1 DEF RxLines
<1> HIDE DEF line
<1>4. IsFiniteSet(RxLines)
  BY DEF LinesFinite
<1>5. /\ IsFiniteSet(RxLines \cup {line})
      /\ Cardinality(RxLines \cup {line}) = Cardinality(RxLines) + 1
  BY <1>3, <1>4, FS_AddElement
<1> QED BY <1>2, <1>5 DEF LinesFinite

\* A log whose rx counts stay has the lines it had.
LEMMA LinesKept ==
  ASSUME \A j \in ConnIds : log'[j].rx = log[j].rx
  PROVE  RxLines' = RxLines
BY DEF RxLines

\* What a datagram taken off the socket does, whoever it is from: the line of
\* conn `id` counts it, and the conn is `who`'s from then on.
Logs(id, who) ==
  /\ log' = [log EXCEPT ![id] = [state |-> "open", who |-> who, rx |-> log[id].rx + 1,
                                tx |-> log[id].tx, note |-> log[id].note]]
  /\ \/ id = next_conn /\ next_conn' = next_conn + 1
     \/ log[id].state = "open" /\ next_conn' = next_conn
  /\ socket # <<>> /\ socket' = Tail(socket) /\ arrived' = arrived

\* One more rx line, and nothing else of the conn, is what Rx writes.
LEMMA NextLine ==
  ASSUME NEW l \in [ConnIds -> Conns], NEW id \in ConnIds, l[id].state = "open"
  PROVE  Rx(l, id) = [l EXCEPT ![id] = [state |-> "open", who |-> l[id].who,
                        rx |-> l[id].rx + 1, tx |-> l[id].tx, note |-> l[id].note]]
<1> DEFINE old == l[id]
           new == [old EXCEPT !.rx = old.rx + 1]
           same == [state |-> "open", who |-> old.who, rx |-> old.rx + 1,
                    tx |-> old.tx, note |-> old.note]
<1>1. old \in Conns
  OBVIOUS
<1>2. Rx(l, id) = [l EXCEPT ![id] = new]
  BY DEF Rx
<1>3. old.rx + 1 \in Nat
  BY <1>1 DEF Conns
<1>4. old.state = "open"
  OBVIOUS
<1> HIDE DEF old
<1>5. /\ new \in Conns /\ new.state = old.state /\ new.who = old.who
      /\ new.rx = old.rx + 1 /\ new.tx = old.tx /\ new.note = old.note
  BY <1>1, <1>3 DEF Conns
<1>6. same \in Conns
  BY <1>1, <1>3 DEF Conns
<1>7. new = same
  <2> HIDE DEF new
  <2> QED BY <1>4, <1>5, <1>6 DEF Conns
<1> QED BY <1>2, <1>7 DEF old

LEMMA FirstLine ==
  ASSUME NEW l \in [ConnIds -> Conns], NEW id \in ConnIds, l[id] = Unused,
         NEW who \in Sources \cup {Overflow}
  PROVE  Rx(Opened(l, id, who), id) =
           [l EXCEPT ![id] = [state |-> "open", who |-> who,
              rx |-> l[id].rx + 1, tx |-> l[id].tx, note |-> l[id].note]]
<1> DEFINE new == [state |-> "open", who |-> who, rx |-> 0, tx |-> 0, note |-> 0]
           m == [l EXCEPT ![id] = new]
<1>1. new \in Conns
  BY DEF Conns
<1>2. Opened(l, id, who) = m
  <2> DEFINE u == [Unused EXCEPT !.state = "open", !.who = who]
  <2>1. Unused \in Conns /\ Unused.rx = 0 /\ Unused.tx = 0 /\ Unused.note = 0
    BY DEF Conns, Unused
  <2>2. /\ u \in Conns /\ u.state = "open" /\ u.who = who
        /\ u.rx = 0 /\ u.tx = 0 /\ u.note = 0
    BY <2>1 DEF Conns
  <2>3. u = new
    <3> HIDE DEF u
    <3> QED BY <1>1, <2>2 DEF Conns
  <2> QED BY <2>3 DEF Opened
<1>3. m \in [ConnIds -> Conns] /\ m[id] = new
  BY <1>1
<1> HIDE DEF m
<1>4. Rx(m, id) = [m EXCEPT ![id] = [state |-> "open", who |-> m[id].who,
                     rx |-> m[id].rx + 1, tx |-> m[id].tx, note |-> m[id].note]]
  BY <1>3, NextLine
<1>5. [state |-> "open", who |-> m[id].who, rx |-> m[id].rx + 1,
       tx |-> m[id].tx, note |-> m[id].note]
        = [state |-> "open", who |-> who, rx |-> l[id].rx + 1,
           tx |-> l[id].tx, note |-> l[id].note]
  BY <1>3 DEF Unused
<1>6. \A v : [m EXCEPT ![id] = v] = [l EXCEPT ![id] = v]
  BY DEF m
<1> QED BY <1>2, <1>4, <1>5, <1>6

LEMMA IdFits ==
  ASSUME UdpTypeOK, IdsInOrder, socket # <<>>
  PROVE  next_conn \in ConnIds /\ log[next_conn] = Unused
<1>1. Len(socket) \in Nat \ {0}
  BY EmptySeq DEF UdpTypeOK
<1>2. next_conn \in ConnIds
  BY <1>1, UdpAssumption DEF UdpTypeOK, IdsInOrder, ConnIds
<1> QED BY <1>2 DEF UdpTypeOK, IdsInOrder, ConnIds

LEMMA DatagramLogged ==
  ASSUME UdpTypeOK, IdsInOrder, LinesFinite,
         Cardinality(RxLines) = arrived - Len(socket),
         NEW id \in ConnIds, NEW who \in Sources \cup {Overflow}, Logs(id, who)
  PROVE  /\ log' \in [ConnIds -> Conns]
         /\ next_conn' \in 1 .. MaxDatagrams + 1
         /\ socket' \in Seq(Sources)
         /\ arrived' - Len(socket') = arrived - Len(socket) + 1
         /\ \A i \in ConnIds :
              /\ log'[i].state = "unused" <=> i >= next_conn'
              /\ log'[i].state = "unused" => log'[i] = Unused
         /\ next_conn' - 1 <= arrived' - Len(socket')
         /\ LinesFinite'
         /\ Cardinality(RxLines)' = arrived' - Len(socket')
<1>1. /\ log \in [ConnIds -> Conns] /\ next_conn \in 1 .. MaxDatagrams + 1
      /\ socket \in Seq(Sources) /\ arrived \in 0 .. MaxDatagrams
  BY DEF UdpTypeOK, Conns
<1>2. /\ socket' \in Seq(Sources) /\ Len(socket') = Len(socket) - 1
      /\ Len(socket) \in Nat \ {0}
  BY <1>1, HeadTailProperties, EmptySeq DEF Logs
<1>3. /\ log[id].rx \in Nat /\ log[id].tx \in Nat /\ log[id].note \in Nat
  BY <1>1 DEF Conns
<1>4. log' \in [ConnIds -> Conns]
  BY <1>1, <1>3 DEF Logs, Conns
<1>5. /\ \A j \in ConnIds \ {id} : log'[j] = log[j]
      /\ log'[id].state = "open" /\ log'[id].rx = log[id].rx + 1
  BY <1>1 DEF Logs
<1>6. LinesFinite' /\ Cardinality(RxLines)' = Cardinality(RxLines) + 1
  BY <1>1, <1>4, <1>5, LinesGrow
<1>7. arrived' - Len(socket') = arrived - Len(socket) + 1
  BY <1>1, <1>2 DEF Logs
<1>8. next_conn' - 1 <= arrived' - Len(socket')
  BY <1>1, <1>2, <1>7 DEF Logs, IdsInOrder
<1>9. next_conn' \in 1 .. MaxDatagrams + 1
  BY <1>1, UdpAssumption DEF Logs, ConnIds
<1>10. ASSUME NEW i \in ConnIds
       PROVE  /\ log'[i].state = "unused" <=> i >= next_conn'
              /\ log'[i].state = "unused" => log'[i] = Unused
  <2>1. /\ log[i].state = "unused" <=> i >= next_conn
        /\ log[i].state = "unused" => log[i] = Unused
        /\ log[id].state = "unused" <=> id >= next_conn
    BY DEF IdsInOrder
  <2>2. CASE i = id
    BY <1>1, <1>5, <2>1, <2>2 DEF Logs, ConnIds
  <2>3. CASE i # id
    <3>1. log'[i] = log[i]
      BY <1>5, <2>3
    <3>2. i >= next_conn <=> i >= next_conn'
      BY <1>1, <2>3 DEF Logs, ConnIds
    <3> QED BY <2>1, <3>1, <3>2
  <2> QED BY <2>2, <2>3
<1> QED BY <1>2, <1>4, <1>6, <1>7, <1>8, <1>9, <1>10

-----------------------------------------------------------------------------
\* RepliesBounded in its parts: what is still to go out on conn i, and what
\* the conn of a line may get in all.
PendingOf(pending, hand_conn, i) ==
  IF pending # <<>> /\ hand_conn.conn = i THEN Len(pending) ELSE 0
Banners(prof) == IF prof.banner THEN 1 ELSE 0
Answers(prof, n) == IF prof.rule THEN n ELSE 0
Quota(prof, line) ==
  IF line.who = Overflow THEN 0 ELSE Banners(prof) + Answers(prof, line.rx)

LEMMA RepliesParts ==
  RepliesBounded <=>
    \A i \in ConnIds : log[i].tx + PendingOf(replies, current, i) <= Quota(profile, log[i])
BY DEF RepliesBounded, PendingOf, Quota, Banners, Answers, Selecting

LEMMA RepliesPartsNext ==
  RepliesBounded' <=>
    \A i \in ConnIds : log'[i].tx + PendingOf(replies', current', i) <= Quota(profile', log'[i])
BY DEF RepliesBounded, PendingOf, Quota, Banners, Answers, Selecting

LEMMA PartTypes ==
  ASSUME NEW prof, NEW n \in Nat
  PROVE  /\ Banners(prof) \in Nat /\ Answers(prof, n) \in Nat
         /\ Answers(prof, n + 1) >= Answers(prof, n)
         /\ prof.rule => Answers(prof, n + 1) = Answers(prof, n) + 1
BY DEF Banners, Answers

LEMMA TableSize ==
  ASSUME UdpTypeOK
  PROVE  IsFiniteSet(Tracked) /\ Cardinality(Tracked) \in Nat
BY UdpAssumption, FS_Subset, FS_CardinalityType DEF UdpTypeOK

\* A datagram of an untracked source, with the table full.
LEMMA ReceiveOverflowStep == UdpInv /\ ReceiveOverflow => UdpInv' /\ ClosedStay
<1> SUFFICES ASSUME UdpInv, ReceiveOverflow PROVE UdpInv' /\ ClosedStay
  OBVIOUS
<1> USE DEF UdpInv
<1> DEFINE id == IF OpensOverflow THEN next_conn ELSE overflow_conn
<1>1. /\ Selecting /\ socket # <<>> /\ PastCap(Head(socket))
      /\ socket' = Tail(socket) /\ overflow_conn' = id
      /\ next_conn' = next_conn + IF OpensOverflow THEN 1 ELSE 0
      /\ log' = Rx(IF OpensOverflow THEN Opened(log, id, Overflow) ELSE log, id)
      /\ overflow_count' = overflow_count + 1
      /\ UNCHANGED <<max_peers, idle, profile, arrived, peers, replies, current,
                     since_sweep, due>>
  BY DEF ReceiveOverflow, Counted, options, hand, clock
<1>2. next_conn \in ConnIds /\ log[next_conn] = Unused
  BY <1>1, IdFits
<1>3. log \in [ConnIds -> Conns] /\ next_conn \in Nat
  BY DEF UdpTypeOK, Conns
<1>4. /\ id \in ConnIds /\ id # NoConn /\ log[id].who = Overflow
      /\ \A a \in Tracked : peers[a].conn # id
  <2>1. CASE OpensOverflow
    <3>1. \A a \in Tracked : log[peers[a].conn].state # "unused"
      BY DEF TableIsOpen
    <3>2. id = next_conn
      BY <2>1
    <3> QED BY <1>2, <3>1, <3>2 DEF Unused, NoConn, ConnIds
  <2>2. CASE ~OpensOverflow
    <3>1. id = overflow_conn /\ overflow_conn # NoConn /\ overflow_conn \in ConnIds
      BY <2>2 DEF OpensOverflow, UdpTypeOK
    <3>2. \A a \in Tracked : log[peers[a].conn].who # Overflow
      BY UdpAssumption DEF TableIsOpen, UdpTypeOK
    <3> QED BY <3>1, <3>2 DEF TableIsOpen
  <2> QED BY <2>1, <2>2
<1>5. Logs(id, Overflow)
  <2>1. CASE OpensOverflow
    <3>1. /\ id = next_conn /\ log' = Rx(Opened(log, id, Overflow), id)
          /\ next_conn' = next_conn + 1
      BY <1>1, <2>1
    <3> HIDE DEF id
    <3>2. log[id] = Unused
      BY <1>2, <3>1
    <3>3. log' = [log EXCEPT ![id] = [state |-> "open", who |-> Overflow,
                    rx |-> log[id].rx + 1, tx |-> log[id].tx, note |-> log[id].note]]
      <4>1. log \in [ConnIds -> Conns] /\ id \in ConnIds /\ Overflow \in Sources \cup {Overflow}
        BY <1>3, <1>4
      <4>2. Rx(Opened(log, id, Overflow), id) =
              [log EXCEPT ![id] = [state |-> "open", who |-> Overflow,
                 rx |-> log[id].rx + 1, tx |-> log[id].tx, note |-> log[id].note]]
        BY <3>2, <4>1, FirstLine
      <4> QED BY <3>1, <4>2, Zenon
    <3> QED BY <1>1, <3>1, <3>3 DEF Logs
  <2>2. CASE ~OpensOverflow
    <3>1. id = overflow_conn /\ log' = Rx(log, id) /\ next_conn' = next_conn + 0
      BY <1>1, <2>2
    <3> HIDE DEF id
    <3>2. log[id].state = "open"
      BY <1>4, <3>1 DEF TableIsOpen
    <3>3. log' = [log EXCEPT ![id] = [state |-> "open", who |-> log[id].who,
                    rx |-> log[id].rx + 1, tx |-> log[id].tx, note |-> log[id].note]]
      BY <1>3, <1>4, <3>1, <3>2, NextLine, Zenon
    <3>4. next_conn' = next_conn
      BY <1>3, <3>1
    <3> QED BY <1>1, <1>4, <3>2, <3>3, <3>4 DEF Logs
  <2> QED BY <2>1, <2>2
<1> HIDE DEF id
<1>6. /\ log' \in [ConnIds -> Conns]
      /\ next_conn' \in 1 .. MaxDatagrams + 1
      /\ socket' \in Seq(Sources)
      /\ arrived' - Len(socket') = arrived - Len(socket) + 1
      /\ \A i \in ConnIds :
           /\ log'[i].state = "unused" <=> i >= next_conn'
           /\ log'[i].state = "unused" => log'[i] = Unused
      /\ next_conn' - 1 <= arrived' - Len(socket')
      /\ LinesFinite'
      /\ Cardinality(RxLines)' = arrived' - Len(socket')
  BY <1>4, <1>5, DatagramLogged DEF DatagramsAccounted
<1>7. /\ \A j \in ConnIds \ {id} : log'[j] = log[j]
      /\ log'[id].state = "open" /\ log'[id].who = Overflow
      /\ log'[id].rx = log[id].rx + 1 /\ log'[id].tx = log[id].tx
  BY <1>3, <1>4, <1>5 DEF Logs
<1>8. IdsInOrder'
  <2>1. overflow_count' <= arrived' - Len(socket')
    BY <1>1, <1>6, UdpAssumption DEF IdsInOrder, UdpTypeOK
  <2> QED BY <1>6, <2>1 DEF IdsInOrder
<1>9. UdpTypeOK'
  <2>1. overflow_count' \in 0 .. MaxDatagrams
    <3>1. overflow_count \in Nat /\ arrived \in 0 .. MaxDatagrams /\ Len(socket') \in Nat
      BY <1>6, LenProperties DEF UdpTypeOK
    <3> QED BY <1>1, <1>6, <1>8, <3>1, UdpAssumption DEF IdsInOrder
  <2>2. overflow_conn' \in ConnIds \cup {NoConn}
    BY <1>1, <1>4
  <2> QED BY <1>1, <1>6, <2>1, <2>2 DEF UdpTypeOK, Tracked, Conns
<1>10. TableIsOpen'
  <2>1. \A a \in Tracked : log'[peers[a].conn] = log[peers[a].conn]
    BY <1>4, <1>7 DEF UdpTypeOK
  <2>2. \A i \in ConnIds \ {id} : log'[i] = log[i]
    BY <1>7
  <2>3. \A i \in ConnIds \ {id} : i # overflow_conn \/ overflow_conn = NoConn
    BY DEF OpensOverflow, id
  <2>4. \A i \in ConnIds : log'[i].state = "open" =>
          i = id \/ (log'[i].who \in Tracked /\ peers[log'[i].who].conn = i)
    BY <2>2, <2>3 DEF TableIsOpen, ConnIds, NoConn
  <2> QED BY <1>1, <1>7, <2>1, <2>4 DEF TableIsOpen, Tracked
<1>11. HandIsTracked'
  BY <1>1 DEF HandIsTracked, Selecting
<1>12. OverflowOnlyWhenFull'
  <2>1. Cardinality(Tracked) >= max_peers /\ max_peers \in Nat
    BY <1>1, UdpAssumption DEF PastCap, UdpTypeOK
  <2>2. Cardinality(Tracked) = max_peers
    BY <2>1, TableSize DEF OverflowOnlyWhenFull
  <2> QED BY <1>1, <2>1, <2>2 DEF OverflowOnlyWhenFull, Tracked
<1>13. DatagramsAccounted'
  <2>1. overflow_conn' # NoConn => overflow_count' = log'[overflow_conn'].rx
    <3>1. CASE OpensOverflow
      <4>1. log[id].rx = 0 /\ overflow_count = 0
        BY <1>2, <3>1 DEF id, Unused, NoOverflowNoCount, OpensOverflow
      <4> QED BY <1>1, <1>7, <4>1
    <3>2. CASE ~OpensOverflow
      BY <1>1, <1>7, <3>2 DEF id, OpensOverflow, DatagramsAccounted
    <3> QED BY <3>1, <3>2
  <2>2. \A i \in ConnIds : log'[i].state = "closed" /\ log'[i].who = Overflow =>
          log'[i].note = log'[i].rx
    BY <1>7 DEF DatagramsAccounted
  <2> QED BY <1>6, <2>1, <2>2 DEF DatagramsAccounted
<1>14. RepliesBounded'
  <2> SUFFICES ASSUME NEW i \in ConnIds
               PROVE  log'[i].tx + PendingOf(replies', current', i) <= Quota(profile', log'[i])
    BY RepliesPartsNext
  <2>1. log[i].tx + PendingOf(replies, current, i) <= Quota(profile, log[i])
    BY RepliesParts
  <2>2. replies' = replies /\ current' = current /\ profile' = profile
    BY <1>1
  <2>3. log'[i].tx = log[i].tx
    BY <1>7
  <2>4. Quota(profile, log'[i]) = Quota(profile, log[i])
    BY <1>4, <1>7 DEF Quota
  <2> QED BY <2>1, <2>2, <2>3, <2>4
<1>15. NoOverflowNoCount'
  BY <1>1, <1>4 DEF NoOverflowNoCount
<1>16. ClosedStay
  <2>1. log[id].state # "closed"
    BY <1>2, <1>5 DEF Logs, Unused
  <2> QED BY <1>7, <2>1 DEF ClosedStay
<1> QED BY <1>6, <1>8, <1>9, <1>10, <1>11, <1>12, <1>13, <1>14, <1>15, <1>16

-----------------------------------------------------------------------------
\* The replies to one datagram: a banner if it is a first one, an answer if
\* there are rules.
LEMMA RepliesToBounded ==
  ASSUME profile \in Profiles, NEW first \in BOOLEAN, NEW r \in RepliesTo(first)
  PROVE  /\ r \in Seq({"on_connect", "rule"})
         /\ Len(r) \in Nat
         /\ Len(r) <= (IF first THEN Banners(profile) ELSE 0) + Answers(profile, 1)
<1> DEFINE S == {"on_connect", "rule"}
           B == {IF BannerDue(first) THEN <<"on_connect">> ELSE <<>>}
           R == IF profile.rule THEN {<<>>, <<"rule">>} ELSE {<<>>}
<1>0. /\ <<>> \in Seq(S) /\ <<"on_connect">> \in Seq(S) /\ <<"rule">> \in Seq(S)
      /\ Len(<<>>) = 0 /\ Len(<<"on_connect">>) = 1 /\ Len(<<"rule">>) = 1
  OBVIOUS
<1>1. \A x \in B : x \in Seq(S) /\ Len(x) <= IF first THEN Banners(profile) ELSE 0
  <2>0. Banners(profile) \in {0, 1}
    BY DEF Banners
  <2>1. CASE BannerDue(first)
    <3>1. first /\ Banners(profile) = 1
      BY <2>1 DEF BannerDue, Banners
    <3>2. B = {<<"on_connect">>}
      BY <2>1
    <3>3. (IF first THEN Banners(profile) ELSE 0) = 1
      BY <3>1
    <3>4. \A x \in B : x = <<"on_connect">>
      BY <3>2
    <3>5. Len(<<"on_connect">>) <= IF first THEN Banners(profile) ELSE 0
      BY <1>0, <3>3
    <3> HIDE DEF B, S
    <3> QED BY <1>0, <3>4, <3>5, Zenon
  <2>2. CASE ~BannerDue(first)
    <3>1. B = {<<>>}
      BY <2>2
    <3>2. 0 <= IF first THEN Banners(profile) ELSE 0
      BY <2>0
    <3> HIDE DEF B
    <3> QED BY <1>0, <3>1, <3>2
  <2> QED BY <2>1, <2>2
<1>2. \A y \in R : y \in Seq(S) /\ Len(y) <= Answers(profile, 1)
  <2>1. CASE profile.rule
    <3>1. R = {<<>>, <<"rule">>} /\ Answers(profile, 1) = 1
      BY <2>1 DEF Answers
    <3>2. <<>> \in Seq(S) /\ Len(<<>>) <= 1 /\ <<"rule">> \in Seq(S) /\ Len(<<"rule">>) <= 1
      BY <1>0
    <3> HIDE DEF R, S
    <3>3. \A y : y = <<>> \/ y = <<"rule">> => y \in Seq(S) /\ Len(y) <= 1
      BY <3>2, Zenon
    <3> QED BY <3>1, <3>3
  <2>2. CASE ~profile.rule
    <3>1. R = {<<>>} /\ Answers(profile, 1) = 0
      BY <2>2 DEF Answers
    <3> HIDE DEF R, S
    <3> QED BY <1>0, <3>1
  <2> QED BY <2>1, <2>2
<1>3. PICK x \in B, y \in R : r = x \o y
  BY DEF RepliesTo
<1> HIDE DEF B, R, S
<1>4. r \in Seq(S) /\ Len(r) = Len(x) + Len(y) /\ Len(x) \in Nat /\ Len(y) \in Nat
  BY <1>1, <1>2, <1>3, ConcatProperties, LenProperties
<1>5. Banners(profile) \in Nat /\ Answers(profile, 1) \in Nat
  BY PartTypes
<1>6. Len(x) <= (IF first THEN Banners(profile) ELSE 0) /\ Len(y) <= Answers(profile, 1)
  BY <1>1, <1>2
<1> QED BY <1>4, <1>5, <1>6 DEF S

\* A datagram of a source that is, or can be, tracked.
LEMMA ReceiveStep == UdpInv /\ Receive => UdpInv' /\ ClosedStay
<1> SUFFICES ASSUME UdpInv, Receive PROVE UdpInv' /\ ClosedStay
  OBVIOUS
<1> USE DEF UdpInv
<1> DEFINE a == Head(socket)
           first == a \notin Tracked
           id == IF first THEN next_conn ELSE peers[a].conn
<1>1. /\ Selecting /\ socket # <<>> /\ ~PastCap(a)
      /\ socket' = Tail(socket)
      /\ peers' = [b \in Tracked \cup {a} |->
                     IF b = a THEN [conn |-> id, age |-> 0] ELSE peers[b]]
      /\ next_conn' = next_conn + IF first THEN 1 ELSE 0
      /\ log' = Rx(IF first THEN Opened(log, id, a) ELSE log, id)
      /\ replies' \in RepliesTo(first)
      /\ current' = IF replies' = <<>> THEN Unused ELSE [who |-> a, conn |-> id]
      /\ UNCHANGED <<max_peers, idle, profile, arrived, overflow_conn, overflow_count,
                     since_sweep, due>>
  BY DEF Receive, options, clock
<1>2. next_conn \in ConnIds /\ log[next_conn] = Unused
  BY <1>1, IdFits
<1>3. /\ log \in [ConnIds -> Conns] /\ next_conn \in Nat
      /\ a \in Sources /\ a # Overflow /\ a \in Sources \cup {Overflow}
  BY <1>1, HeadTailProperties, UdpAssumption DEF UdpTypeOK, Conns
<1> HIDE DEF a
<1>4. /\ id \in ConnIds
      /\ \A b \in Tracked \ {a} : peers[b].conn # id
      /\ overflow_conn # NoConn => overflow_conn # id
      /\ log[id] = Unused \/ (a \in Tracked /\ log[id].who = a /\ log[id].state = "open")
  <2>1. CASE first
    <3>1. \A b \in Tracked : log[peers[b].conn].state # "unused"
      BY DEF TableIsOpen
    <3>2. overflow_conn # NoConn => log[overflow_conn].state # "unused"
      BY DEF TableIsOpen
    <3> QED BY <1>2, <2>1, <3>1, <3>2 DEF Unused
  <2>2. CASE ~first
    <3>1. id = peers[a].conn /\ id \in ConnIds
      BY <2>2 DEF UdpTypeOK
    <3>2. \A b \in Tracked : log[peers[b].conn].who = b /\ log[peers[b].conn].state = "open"
      BY DEF TableIsOpen
    <3>3. overflow_conn # NoConn => log[overflow_conn].who = Overflow
      BY DEF TableIsOpen
    <3> QED BY <1>3, <2>2, <3>1, <3>2, <3>3
  <2> QED BY <2>1, <2>2
<1>5. Logs(id, a)
  <2>1. CASE first
    <3>1. /\ id = next_conn /\ log' = Rx(Opened(log, id, a), id)
          /\ next_conn' = next_conn + 1
      BY <1>1, <2>1
    <3> HIDE DEF id
    <3>2. log[id] = Unused
      BY <1>2, <3>1
    <3>3. log' = [log EXCEPT ![id] = [state |-> "open", who |-> a,
                    rx |-> log[id].rx + 1, tx |-> log[id].tx, note |-> log[id].note]]
      <4>1. log \in [ConnIds -> Conns] /\ id \in ConnIds /\ a \in Sources \cup {Overflow}
        BY <1>3, <1>4
      <4>2. Rx(Opened(log, id, a), id) =
              [log EXCEPT ![id] = [state |-> "open", who |-> a,
                 rx |-> log[id].rx + 1, tx |-> log[id].tx, note |-> log[id].note]]
        BY <3>2, <4>1, FirstLine
      <4> QED BY <3>1, <4>2, Zenon
    <3> QED BY <1>1, <3>1, <3>3 DEF Logs
  <2>2. CASE ~first
    <3>1. /\ log' = Rx(log, id) /\ next_conn' = next_conn + 0 /\ id = peers[a].conn
      BY <1>1, <2>2
    <3>2. log[id].state = "open" /\ log[id].who = a
      BY <2>2 DEF TableIsOpen
    <3> HIDE DEF id
    <3>3. log' = [log EXCEPT ![id] = [state |-> "open", who |-> log[id].who,
                    rx |-> log[id].rx + 1, tx |-> log[id].tx, note |-> log[id].note]]
      BY <1>3, <1>4, <3>1, <3>2, NextLine, Zenon
    <3>4. next_conn' = next_conn
      BY <1>3, <3>1
    <3> QED BY <1>1, <3>2, <3>3, <3>4 DEF Logs
  <2> QED BY <2>1, <2>2
<1> HIDE DEF id
<1>6. /\ log' \in [ConnIds -> Conns]
      /\ next_conn' \in 1 .. MaxDatagrams + 1
      /\ socket' \in Seq(Sources)
      /\ arrived' - Len(socket') = arrived - Len(socket) + 1
      /\ \A i \in ConnIds :
           /\ log'[i].state = "unused" <=> i >= next_conn'
           /\ log'[i].state = "unused" => log'[i] = Unused
      /\ next_conn' - 1 <= arrived' - Len(socket')
      /\ LinesFinite'
      /\ Cardinality(RxLines)' = arrived' - Len(socket')
  BY <1>3, <1>4, <1>5, DatagramLogged DEF DatagramsAccounted
<1>7. /\ \A j \in ConnIds \ {id} : log'[j] = log[j]
      /\ log'[id].state = "open" /\ log'[id].who = a
      /\ log'[id].rx = log[id].rx + 1 /\ log'[id].tx = log[id].tx
  BY <1>3, <1>4, <1>5 DEF Logs
<1>8. /\ Tracked' = Tracked \cup {a}
      /\ peers'[a] = [conn |-> id, age |-> 0]
      /\ \A b \in Tracked \ {a} : peers'[b] = peers[b]
  BY <1>1 DEF Tracked
<1>9. IdsInOrder'
  <2>1. overflow_count' <= arrived' - Len(socket')
    <3>1. arrived \in Nat /\ Len(socket) \in Nat /\ overflow_count \in Nat
      BY LenProperties DEF UdpTypeOK
    <3> QED BY <1>1, <1>6, <3>1 DEF IdsInOrder
  <2> QED BY <1>6, <2>1 DEF IdsInOrder
<1>10. /\ replies' \in Seq({"on_connect", "rule"}) /\ Len(replies') \in Nat
       /\ Len(replies') <= (IF first THEN Banners(profile) ELSE 0) + Answers(profile, 1)
  BY <1>1, RepliesToBounded DEF UdpTypeOK
<1>11. UdpTypeOK'
  <2>1. current' \in [who : Sources, conn : ConnIds] \cup {Unused}
    BY <1>1, <1>3, <1>4
  <2>2. /\ Tracked' \subseteq Sources
        /\ \A b \in Tracked' : peers'[b] \in [conn : ConnIds, age : -MaxBehind .. idle']
    <3>1. idle \in Nat /\ -MaxBehind <= 0 /\ MaxBehind \in Nat
      BY UdpAssumption DEF UdpTypeOK
    <3>2. peers'[a] \in [conn : ConnIds, age : -MaxBehind .. idle]
      BY <1>4, <1>8, <3>1
    <3> QED BY <1>1, <1>3, <1>8, <3>2 DEF UdpTypeOK
  <2> QED BY <1>1, <1>6, <1>10, <2>1, <2>2 DEF UdpTypeOK, Conns
<1>12. TableIsOpen'
  <2>1. \A b \in Tracked' : log'[peers'[b].conn].state = "open" /\ log'[peers'[b].conn].who = b
    <3>1. \A b \in Tracked \ {a} : log'[peers[b].conn] = log[peers[b].conn]
      BY <1>4, <1>7 DEF UdpTypeOK
    <3> QED BY <1>7, <1>8, <3>1 DEF TableIsOpen
  <2>2. overflow_conn' # NoConn =>
          log'[overflow_conn'].state = "open" /\ log'[overflow_conn'].who = Overflow
    BY <1>1, <1>4, <1>7 DEF TableIsOpen, UdpTypeOK
  <2>3. ASSUME NEW i \in ConnIds, log'[i].state = "open"
        PROVE  \/ i = overflow_conn'
               \/ log'[i].who \in Tracked' /\ peers'[log'[i].who].conn = i
    <3>1. CASE i = id
      BY <1>7, <1>8, <3>1
    <3>2. CASE i # id
      <4>1. log'[i] = log[i]
        BY <1>7, <3>2
      <4>2. i = overflow_conn \/ (log[i].who \in Tracked /\ peers[log[i].who].conn = i)
        BY <2>3, <4>1 DEF TableIsOpen
      <4>3. log[i].who \in Tracked /\ peers[log[i].who].conn = i => log[i].who # a
        BY <3>2 DEF id
      <4> QED BY <1>1, <1>8, <4>1, <4>2, <4>3
    <3> QED BY <3>1, <3>2
  <2> QED BY <2>1, <2>2, <2>3 DEF TableIsOpen
<1>13. HandIsTracked'
  BY <1>1, <1>8 DEF HandIsTracked, Selecting
<1>14. OverflowOnlyWhenFull'
  <2>0. max_peers \in Nat
    BY UdpAssumption DEF UdpTypeOK
  <2>1. CASE a \in Tracked
    <3>1. Tracked' = Tracked
      BY <1>8, <2>1
    <3> QED BY <1>1, <3>1 DEF OverflowOnlyWhenFull
  <2>2. CASE a \notin Tracked
    <3>1. Cardinality(Tracked) < max_peers
      BY <1>1, <2>0, <2>2, TableSize DEF PastCap
    <3>2. Cardinality(Tracked \cup {a}) = Cardinality(Tracked) + 1
      BY <2>2, TableSize, FS_AddElement
    <3>3. Cardinality(Tracked)' <= max_peers /\ overflow_conn = NoConn
      BY <1>8, <2>0, <3>1, <3>2, TableSize DEF OverflowOnlyWhenFull
    <3> QED BY <1>1, <3>3 DEF OverflowOnlyWhenFull
  <2> QED BY <2>1, <2>2
<1>15. DatagramsAccounted'
  <2>1. overflow_conn' # NoConn => overflow_count' = log'[overflow_conn'].rx
    BY <1>1, <1>4, <1>7 DEF DatagramsAccounted, UdpTypeOK
  <2>2. \A i \in ConnIds : log'[i].state = "closed" /\ log'[i].who = Overflow =>
          log'[i].note = log'[i].rx
    BY <1>7 DEF DatagramsAccounted
  <2> QED BY <1>6, <2>1, <2>2 DEF DatagramsAccounted
<1>16. RepliesBounded'
  <2> SUFFICES ASSUME NEW i \in ConnIds
               PROVE  log'[i].tx + PendingOf(replies', current', i) <= Quota(profile', log'[i])
    BY RepliesPartsNext
  <2>1. log[i].tx + PendingOf(replies, current, i) <= Quota(profile, log[i])
    BY RepliesParts
  <2>2. PendingOf(replies, current, i) = 0 /\ log[i].tx \in Nat /\ log[i].rx \in Nat
    BY <1>1, <1>3 DEF PendingOf, Selecting, Conns
  <2>3. /\ Banners(profile) \in Nat /\ Answers(profile, 1) \in Nat
        /\ Answers(profile, log[i].rx + 1) = Answers(profile, log[i].rx) + Answers(profile, 1)
        /\ Answers(profile, log[i].rx) \in Nat
    BY <2>2 DEF Banners, Answers
  <2>4. CASE i = id
    <3>1. Quota(profile', log'[i]) = Banners(profile) + Answers(profile, log[i].rx + 1)
      BY <1>1, <1>3, <1>7, <2>4 DEF Quota
    <3>2. PendingOf(replies', current', i) \in Nat /\ PendingOf(replies', current', i) <= Len(replies')
      BY <1>10 DEF PendingOf
    <3>3. CASE first
      <4>1. log[i].tx = 0
        BY <1>4, <2>4, <3>3 DEF Unused
      <4>2. Len(replies') <= Banners(profile) + Answers(profile, 1)
        BY <1>10, <3>3
      <4> QED BY <1>7, <1>10, <2>3, <2>4, <3>1, <3>2, <4>1, <4>2
    <3>4. CASE ~first
      <4>1. log[i].who = a
        BY <2>4, <3>4 DEF TableIsOpen, id
      <4>2. log[i].tx + 0 <= Banners(profile) + Answers(profile, log[i].rx)
        BY <1>3, <2>1, <2>2, <4>1 DEF Quota
      <4>3. Len(replies') <= 0 + Answers(profile, 1)
        BY <1>10, <3>4
      <4> QED BY <1>7, <1>10, <2>2, <2>3, <2>4, <3>1, <3>2, <4>2, <4>3
    <3> QED BY <3>3, <3>4
  <2>5. CASE i # id
    <3>1. log'[i] = log[i] /\ profile' = profile
      BY <1>1, <1>7, <2>5
    <3>2. PendingOf(replies', current', i) = 0
      BY <1>1, <2>5 DEF PendingOf
    <3> QED BY <2>1, <2>2, <3>1, <3>2
  <2> QED BY <2>4, <2>5
<1>17. NoOverflowNoCount'
  BY <1>1 DEF NoOverflowNoCount
<1>18. ClosedStay
  <2>1. log[id].state # "closed"
    BY <1>2, <1>5 DEF Logs, Unused
  <2> QED BY <1>7, <2>1 DEF ClosedStay
<1> QED BY <1>6, <1>9, <1>11, <1>12, <1>13, <1>14, <1>15, <1>16, <1>17, <1>18

-----------------------------------------------------------------------------
\* A reply goes out on the conn in hand, or fails to, and is no longer due.
LEMMA ReplyStep == UdpInv /\ Reply => UdpInv' /\ ClosedStay
<1> SUFFICES ASSUME UdpInv, Reply PROVE UdpInv' /\ ClosedStay
  OBVIOUS
<1> USE DEF UdpInv
<1> DEFINE c == current.conn
<1>1. /\ replies # <<>> /\ log' \in {Tx(log, c), log}
      /\ replies' = Tail(replies)
      /\ current' = IF replies' = <<>> THEN Unused ELSE current
      /\ UNCHANGED <<max_peers, idle, profile, arrived, socket, peers, overflow_conn,
                     overflow_count, next_conn, since_sweep, due>>
  BY DEF Reply, Selecting, options, table, clock
<1>2. log \in [ConnIds -> Conns] /\ replies \in Seq({"on_connect", "rule"})
  BY DEF UdpTypeOK, Conns
<1>3. /\ current.who \in Tracked /\ c = peers[current.who].conn /\ c \in ConnIds
      /\ log[c].state = "open" /\ log[c].who = current.who /\ log[c].who # Overflow
  BY <1>1, UdpAssumption DEF HandIsTracked, Selecting, UdpTypeOK, TableIsOpen
<1>4. /\ replies' \in Seq({"on_connect", "rule"}) /\ Len(replies') = Len(replies) - 1
      /\ Len(replies) \in Nat \ {0} /\ Len(replies') \in Nat
  BY <1>1, <1>2, HeadTailProperties, EmptySeq
<1> HIDE DEF c
<1>5. /\ log' \in [ConnIds -> Conns]
      /\ \A j \in ConnIds \ {c} : log'[j] = log[j]
      /\ log'[c].state = log[c].state /\ log'[c].who = log[c].who
      /\ log'[c].rx = log[c].rx /\ log'[c].note = log[c].note
      /\ log'[c].tx \in Nat /\ log'[c].tx <= log[c].tx + 1
  <2>1. log[c] \in Conns /\ log[c].tx \in Nat
    BY <1>2, <1>3 DEF Conns
  <2>2. CASE log' = log
    BY <1>2, <2>1, <2>2
  <2>3. CASE log' = Tx(log, c)
    <3>1. log' = [log EXCEPT ![c] = [log[c] EXCEPT !.tx = log[c].tx + 1]]
      BY <2>3 DEF Tx
    <3>2. [log[c] EXCEPT !.tx = log[c].tx + 1] \in Conns
      BY <2>1 DEF Conns
    <3>3. log' \in [ConnIds -> Conns] /\ log'[c] = [log[c] EXCEPT !.tx = log[c].tx + 1]
      BY <1>2, <1>3, <3>1, <3>2
    <3>4. \A j \in ConnIds \ {c} : log'[j] = log[j]
      BY <1>2, <3>1
    <3>5. /\ log'[c].state = log[c].state /\ log'[c].who = log[c].who
          /\ log'[c].rx = log[c].rx /\ log'[c].note = log[c].note
          /\ log'[c].tx = log[c].tx + 1
      BY <2>1, <3>3 DEF Conns
    <3> QED BY <2>1, <3>3, <3>4, <3>5
  <2> QED BY <1>1, <2>2, <2>3
<1>6. /\ \A j \in ConnIds : log'[j].state = log[j].state
      /\ \A j \in ConnIds : log'[j].who = log[j].who
      /\ \A j \in ConnIds : log'[j].rx = log[j].rx
      /\ \A j \in ConnIds : log'[j].note = log[j].note
      /\ \A j \in ConnIds : log'[j].state = "unused" => log'[j] = log[j]
  BY <1>3, <1>5
<1>16. RxLines' = RxLines
  BY <1>6, LinesKept
<1>7. Tracked' = Tracked
  BY <1>1 DEF Tracked
<1>8. UdpTypeOK'
  <2>1. current' \in [who : Sources, conn : ConnIds] \cup {Unused}
    BY <1>1 DEF UdpTypeOK
  <2> QED BY <1>1, <1>4, <1>5, <1>7, <2>1 DEF UdpTypeOK, Conns
<1>9. IdsInOrder'
  <2>1. \A j \in ConnIds : log[j].state = "unused" => log'[j] = log[j]
    BY <1>6
  <2> QED BY <1>1, <1>4, <1>6, <2>1 DEF IdsInOrder
<1>10. TableIsOpen'
  <2>1. /\ \A b \in Tracked : peers[b].conn \in ConnIds
        /\ overflow_conn # NoConn => overflow_conn \in ConnIds
    BY DEF UdpTypeOK
  <2> QED BY <1>1, <1>6, <1>7, <2>1 DEF TableIsOpen
<1>11. HandIsTracked'
  BY <1>1, <1>3, <1>7 DEF HandIsTracked, Selecting, c
<1>12. OverflowOnlyWhenFull' /\ NoOverflowNoCount'
  BY <1>1, <1>7 DEF OverflowOnlyWhenFull, NoOverflowNoCount
<1>13. LinesFinite' /\ DatagramsAccounted'
  <2>1. overflow_conn # NoConn => overflow_conn \in ConnIds
    BY DEF UdpTypeOK
  <2> QED BY <1>1, <1>6, <1>16, <2>1 DEF LinesFinite, DatagramsAccounted
<1>14. RepliesBounded'
  <2> SUFFICES ASSUME NEW i \in ConnIds
               PROVE  log'[i].tx + PendingOf(replies', current', i) <= Quota(profile', log'[i])
    BY RepliesPartsNext
  <2>1. log[i].tx + PendingOf(replies, current, i) <= Quota(profile, log[i])
    BY RepliesParts
  <2>2. Quota(profile', log'[i]) = Quota(profile, log[i])
    BY <1>1, <1>6 DEF Quota
  <2>3. log[i].tx \in Nat /\ log'[i].tx \in Nat /\ log[i].rx \in Nat
    BY <1>2, <1>5 DEF Conns
  <2>4. Quota(profile, log[i]) \in Nat
    BY <2>3, PartTypes DEF Quota
  <2>5. CASE i = c
    <3>1. PendingOf(replies, current, i) = Len(replies)
      BY <1>1, <2>5 DEF PendingOf, c
    <3>2. PendingOf(replies', current', i) \in Nat /\ PendingOf(replies', current', i) <= Len(replies')
      BY <1>4 DEF PendingOf
    <3> QED BY <1>4, <1>5, <2>1, <2>2, <2>3, <2>4, <2>5, <3>1, <3>2
  <2>6. CASE i # c
    <3>1. log'[i] = log[i]
      BY <1>5, <2>6
    <3>2. PendingOf(replies', current', i) = 0 /\ PendingOf(replies, current, i) = 0
      BY <1>1, <2>6 DEF PendingOf, c
    <3> QED BY <2>1, <2>2, <3>1, <3>2
  <2> QED BY <2>5, <2>6
<1>15. ClosedStay
  BY <1>3, <1>5 DEF ClosedStay
<1> QED BY <1>8, <1>9, <1>10, <1>11, <1>12, <1>13, <1>14, <1>15

-----------------------------------------------------------------------------
\* What a sweep leaves of the log: the conns in `ids` are closed, the overflow
\* stream's with its count, and the others are as they were.
SweepLogs(ids, over) ==
  /\ log' \in [ConnIds -> Conns]
  /\ \A j \in ConnIds \ ids : log'[j] = log[j]
  /\ \A j \in ids : log'[j].state = "closed"
  /\ \A j \in ConnIds : log'[j].who = log[j].who
  /\ \A j \in ConnIds : log'[j].rx = log[j].rx
  /\ \A j \in ConnIds : log'[j].tx = log[j].tx
  /\ \A j \in ConnIds : log'[j].note =
       IF over /\ j = overflow_conn THEN overflow_count ELSE log[j].note

LEMMA SameConn ==
  ASSUME NEW r \in Conns, NEW s \in Conns, r.state = s.state, r.who = s.who,
         r.rx = s.rx, r.tx = s.tx, r.note = s.note
  PROVE  r = s
BY DEF Conns

LEMMA ClosedLog ==
  ASSUME NEW l \in [ConnIds -> Conns], NEW ids \in SUBSET ConnIds
  PROVE  /\ Closed(l, ids) \in [ConnIds -> Conns]
         /\ \A j \in ConnIds \ ids : Closed(l, ids)[j] = l[j]
         /\ \A j \in ids : Closed(l, ids)[j].state = "closed"
         /\ \A j \in ConnIds :
              /\ Closed(l, ids)[j].who = l[j].who /\ Closed(l, ids)[j].rx = l[j].rx
              /\ Closed(l, ids)[j].tx = l[j].tx /\ Closed(l, ids)[j].note = l[j].note
<1>1. \A j \in ConnIds :
        Closed(l, ids)[j] = IF j \in ids THEN [l[j] EXCEPT !.state = "closed"] ELSE l[j]
  BY DEF Closed
<1>2. ASSUME NEW r \in Conns
      PROVE  /\ [r EXCEPT !.state = "closed"] \in Conns
             /\ [r EXCEPT !.state = "closed"].state = "closed"
             /\ [r EXCEPT !.state = "closed"].who = r.who
             /\ [r EXCEPT !.state = "closed"].rx = r.rx
             /\ [r EXCEPT !.state = "closed"].tx = r.tx
             /\ [r EXCEPT !.state = "closed"].note = r.note
  BY DEF Conns
<1>3. ASSUME NEW j \in ConnIds
      PROVE  /\ Closed(l, ids)[j] \in Conns
             /\ j \notin ids => Closed(l, ids)[j] = l[j]
             /\ j \in ids => Closed(l, ids)[j].state = "closed"
             /\ Closed(l, ids)[j].who = l[j].who /\ Closed(l, ids)[j].rx = l[j].rx
             /\ Closed(l, ids)[j].tx = l[j].tx /\ Closed(l, ids)[j].note = l[j].note
  <2>1. l[j] \in Conns
    OBVIOUS
  <2> QED BY <1>1, <1>2, <2>1
<1>4. Closed(l, ids) \in [ConnIds -> Conns]
  <2>1. \A j \in ConnIds :
          (IF j \in ids THEN [l[j] EXCEPT !.state = "closed"] ELSE l[j]) \in Conns
    BY <1>1, <1>3
  <2> QED BY <2>1 DEF Closed
<1> QED BY <1>3, <1>4

LEMMA SweepLogged ==
  ASSUME log \in [ConnIds -> Conns], NEW ids \in SUBSET ConnIds, NEW over \in BOOLEAN,
         over => overflow_conn \in ids, overflow_count \in Nat,
         log' = [Closed(log, ids) EXCEPT ![IF over THEN overflow_conn ELSE 1].note =
                   IF over THEN overflow_count ELSE @]
  PROVE  SweepLogs(ids, over)
<1> DEFINE l == Closed(log, ids)
<1>1. /\ l \in [ConnIds -> Conns]
      /\ \A j \in ConnIds \ ids : l[j] = log[j]
      /\ \A j \in ids : l[j].state = "closed"
      /\ \A j \in ConnIds : l[j].who = log[j].who /\ l[j].rx = log[j].rx
                         /\ l[j].tx = log[j].tx /\ l[j].note = log[j].note
  BY ClosedLog
<1>2. log' = [l EXCEPT ![IF over THEN overflow_conn ELSE 1].note =
                IF over THEN overflow_count ELSE @]
  OBVIOUS
<1> HIDE DEF l
<1>3. ASSUME NEW r \in Conns, NEW n \in Nat
      PROVE  /\ [r EXCEPT !.note = n] \in Conns
             /\ [r EXCEPT !.note = n].note = n
             /\ [r EXCEPT !.note = n].state = r.state
             /\ [r EXCEPT !.note = n].who = r.who
             /\ [r EXCEPT !.note = n].rx = r.rx
             /\ [r EXCEPT !.note = n].tx = r.tx
  BY DEF Conns
<1>6. ASSUME NEW f \in [ConnIds -> Conns], NEW k \in ConnIds, NEW v \in Conns
      PROVE  /\ [f EXCEPT ![k] = v] \in [ConnIds -> Conns]
             /\ [f EXCEPT ![k] = v][k] = v
             /\ \A j \in ConnIds : j # k => [f EXCEPT ![k] = v][j] = f[j]
  OBVIOUS
<1>4. CASE over
  <2>1. log' = [l EXCEPT ![overflow_conn] = [l[overflow_conn] EXCEPT !.note = overflow_count]]
    BY <1>2, <1>4
  <2>2. overflow_conn \in ConnIds /\ l[overflow_conn] \in Conns
    BY <1>1, <1>4
  <2> DEFINE new == [l[overflow_conn] EXCEPT !.note = overflow_count]
  <2>3. /\ new \in Conns /\ new.note = overflow_count
        /\ new.state = l[overflow_conn].state /\ new.who = l[overflow_conn].who
        /\ new.rx = l[overflow_conn].rx /\ new.tx = l[overflow_conn].tx
    BY <1>3, <2>2
  <2>4. log' = [l EXCEPT ![overflow_conn] = new]
    BY <2>1
  <2> HIDE DEF new
  <2>5. /\ log' \in [ConnIds -> Conns] /\ log'[overflow_conn] = new
        /\ \A j \in ConnIds : j # overflow_conn => log'[j] = l[j]
    <3>1. l \in [ConnIds -> Conns] /\ overflow_conn \in ConnIds /\ new \in Conns
      BY <1>1, <2>2, <2>3
    <3>2. /\ [l EXCEPT ![overflow_conn] = new] \in [ConnIds -> Conns]
          /\ [l EXCEPT ![overflow_conn] = new][overflow_conn] = new
          /\ \A j \in ConnIds : j # overflow_conn => [l EXCEPT ![overflow_conn] = new][j] = l[j]
      BY <1>6, <3>1, Zenon
    <3> QED BY <2>4, <3>2, Zenon
  <2>6. \A j \in ConnIds : log'[j].state = l[j].state
    BY <2>3, <2>5
  <2>7. \A j \in ConnIds : log'[j].who = l[j].who /\ log'[j].rx = l[j].rx
    BY <2>3, <2>5
  <2>8. \A j \in ConnIds : log'[j].tx = l[j].tx
    BY <2>3, <2>5
  <2>9. \A j \in ConnIds : log'[j].note = IF j = overflow_conn THEN overflow_count ELSE l[j].note
    <3>1. log'[overflow_conn].note = overflow_count
      BY <2>3, <2>5
    <3>2. \A j \in ConnIds : j # overflow_conn => log'[j].note = l[j].note
      BY <2>5
    <3> QED BY <3>1, <3>2
  <2>10. \A j \in ConnIds \ ids : log'[j] = log[j]
    BY <1>1, <1>4, <2>5
  <2> QED BY <1>1, <1>4, <2>5, <2>6, <2>7, <2>8, <2>9, <2>10 DEF SweepLogs
<1>5. CASE ~over
  <2>1. log' = [l EXCEPT ![1] = [l[1] EXCEPT !.note = l[1].note]]
    BY <1>2, <1>5
  <2>2. 1 \in ConnIds => [l[1] EXCEPT !.note = l[1].note] = l[1]
    <3> SUFFICES ASSUME 1 \in ConnIds PROVE [l[1] EXCEPT !.note = l[1].note] = l[1]
      OBVIOUS
    <3> DEFINE old == l[1]
               new == [old EXCEPT !.note = old.note]
    <3>1. old \in Conns /\ old.note \in Nat
      BY <1>1 DEF Conns
    <3> HIDE DEF old
    <3>2. /\ new \in Conns /\ new.note = old.note /\ new.state = old.state
          /\ new.who = old.who /\ new.rx = old.rx /\ new.tx = old.tx
      BY <1>3, <3>1
    <3> HIDE DEF new
    <3>3. new = old
      BY <3>1, <3>2, SameConn
    <3> QED BY <3>3 DEF new, old
  <2>3. log' = l
    BY <1>1, <2>1, <2>2
  <2> QED BY <1>1, <1>5, <2>3 DEF SweepLogs
<1> QED BY <1>4, <1>5

\* The sweep closes what leaves the table, and nothing else.
LEMMA SweepStep == UdpInv /\ Sweep => UdpInv' /\ ClosedStay
<1> SUFFICES ASSUME UdpInv, Sweep PROVE UdpInv' /\ ClosedStay
  OBVIOUS
<1> USE DEF UdpInv
<1> DEFINE kept == Tracked \ Expired
           over == overflow_conn # NoConn /\ HasRoom(kept)
           retired == {peers[a].conn : a \in Expired}
           ids == retired \cup IF over THEN {overflow_conn} ELSE {}
<1>1. /\ Selecting
      /\ peers' = [a \in kept |-> peers[a]]
      /\ log' = [Closed(log, ids) EXCEPT ![IF over THEN overflow_conn ELSE 1].note =
                   IF over THEN overflow_count ELSE @]
      /\ overflow_conn' = IF over THEN NoConn ELSE overflow_conn
      /\ overflow_count' = IF over THEN 0 ELSE overflow_count
      /\ due' = FALSE
      /\ UNCHANGED <<max_peers, idle, profile, arrived, socket, replies, current,
                     next_conn, since_sweep>>
  BY DEF Sweep, CanSweep, options, hand
<1>2. /\ log \in [ConnIds -> Conns] /\ overflow_count \in Nat
      /\ overflow_conn \in ConnIds \cup {NoConn}
      /\ \A a \in Tracked : peers[a].conn \in ConnIds /\ a # Overflow
  BY UdpAssumption DEF UdpTypeOK, Conns
<1>3. Expired \subseteq Tracked
  BY DEF Expired
<1>4. /\ over \in BOOLEAN /\ retired \subseteq ConnIds /\ ids \in SUBSET ConnIds
      /\ over => overflow_conn \in ids
  <2>1. retired \subseteq ConnIds
    BY <1>2, <1>3
  <2>2. over => overflow_conn \in ConnIds
    BY <1>2
  <2> HIDE DEF retired
  <2> QED BY <2>1, <2>2
<1>5. \A i \in ids : log[i].state = "open"
  BY <1>2, <1>3 DEF TableIsOpen
<1>6. \A b \in kept : peers[b].conn \notin ids
  <2>1. \A b \in kept, a \in Expired : peers[b].conn # peers[a].conn
    BY <1>3 DEF TableIsOpen
  <2>2. \A b \in kept : over => peers[b].conn # overflow_conn
    BY <1>2 DEF TableIsOpen
  <2> QED BY <2>1, <2>2
<1>7. \A i \in ids : log[i].who = Overflow => over /\ i = overflow_conn
  <2>1. \A a \in Expired : log[peers[a].conn].who # Overflow
    BY <1>2, <1>3 DEF TableIsOpen
  <2> QED BY <2>1
<1>8. \A a \in Tracked : peers[a].conn \notin ids => a \in kept
  OBVIOUS
<1>9. Tracked' = kept /\ \A b \in kept : peers'[b] = peers[b]
  <2> HIDE DEF kept, ids, over
  <2> QED BY <1>1 DEF Tracked
<1>10. kept \subseteq Tracked
  OBVIOUS
<1>11. /\ ~over => overflow_conn = NoConn \/ Cardinality(kept) >= max_peers
       /\ over => overflow_conn # NoConn
  <2>1. max_peers \in Nat /\ Cardinality(kept) \in Nat
    BY <1>10, TableSize, FS_Subset, FS_CardinalityType, UdpAssumption DEF UdpTypeOK
  <2> HIDE DEF kept
  <2> QED BY <2>1 DEF HasRoom
<1> HIDE DEF kept, over, retired, ids
<1>12. SweepLogs(ids, over)
  BY <1>1, <1>2, <1>4, SweepLogged
<1>13. RxLines' = RxLines
  BY <1>12, LinesKept DEF SweepLogs
<1>14. UdpTypeOK'
  <2>1. /\ overflow_conn' \in ConnIds \cup {NoConn}
        /\ overflow_count' \in 0 .. MaxDatagrams
    BY <1>1, UdpAssumption DEF UdpTypeOK
  <2>2. log' \in [ConnIds -> Conns]
    BY <1>12 DEF SweepLogs
  <2>3. /\ Tracked' \subseteq Sources
        /\ \A a \in Tracked' : peers'[a] \in [conn : ConnIds, age : -MaxBehind .. idle']
    BY <1>1, <1>9, <1>10 DEF UdpTypeOK
  <2> QED BY <1>1, <2>1, <2>2, <2>3 DEF UdpTypeOK, Conns
<1>15. IdsInOrder'
  <2>1. ASSUME NEW i \in ConnIds
        PROVE  /\ log'[i].state = "unused" <=> i >= next_conn
               /\ log'[i].state = "unused" => log'[i] = Unused
    <3>1. CASE i \in ids
      BY <1>5, <1>12, <3>1 DEF SweepLogs, IdsInOrder
    <3>2. CASE i \notin ids
      BY <1>12, <3>2 DEF SweepLogs, IdsInOrder
    <3> QED BY <3>1, <3>2
  <2>2. overflow_count' <= arrived - Len(socket)
    <3>1. arrived \in Nat /\ Len(socket) \in Nat
      BY LenProperties DEF UdpTypeOK
    <3> QED BY <1>1, <1>2, <3>1 DEF IdsInOrder
  <2>3. next_conn - 1 <= arrived - Len(socket)
    BY DEF IdsInOrder
  <2> QED BY <1>1, <2>1, <2>2, <2>3 DEF IdsInOrder
<1>16. TableIsOpen'
  <2>1. \A a \in kept : log'[peers[a].conn] = log[peers[a].conn]
    BY <1>2, <1>6, <1>10, <1>12 DEF SweepLogs
  <2>2. \A a \in Tracked' : log'[peers'[a].conn].state = "open" /\ log'[peers'[a].conn].who = a
    BY <1>9, <1>10, <2>1 DEF TableIsOpen
  <2>3. overflow_conn' # NoConn =>
          log'[overflow_conn'].state = "open" /\ log'[overflow_conn'].who = Overflow
    <3> SUFFICES ASSUME overflow_conn' # NoConn
                 PROVE  log'[overflow_conn'].state = "open" /\ log'[overflow_conn'].who = Overflow
      OBVIOUS
    <3>1. ~over /\ overflow_conn' = overflow_conn /\ overflow_conn \in ConnIds
      BY <1>1, <1>2
    <3>2. overflow_conn \notin ids
      BY <1>7, <3>1 DEF TableIsOpen
    <3> QED BY <1>12, <3>1, <3>2 DEF SweepLogs, TableIsOpen
  <2>4. ASSUME NEW i \in ConnIds, log'[i].state = "open"
        PROVE  \/ i = overflow_conn'
               \/ log'[i].who \in Tracked' /\ peers'[log'[i].who].conn = i
    <3>1. i \notin ids
      BY <1>12, <2>4 DEF SweepLogs
    <3>2. log'[i] = log[i]
      BY <1>12, <3>1 DEF SweepLogs
    <3>3. i = overflow_conn \/ (log[i].who \in Tracked /\ peers[log[i].who].conn = i)
      BY <2>4, <3>2 DEF TableIsOpen
    <3>4. i = overflow_conn => overflow_conn' = overflow_conn
      BY <1>1, <1>4, <3>1
    <3> QED BY <1>8, <1>9, <3>1, <3>2, <3>3, <3>4
  <2> QED BY <2>2, <2>3, <2>4 DEF TableIsOpen
<1>17. HandIsTracked'
  BY <1>1 DEF HandIsTracked, Selecting
<1>18. OverflowOnlyWhenFull'
  <2>1. /\ Cardinality(kept) \in Nat /\ Cardinality(kept) <= Cardinality(Tracked)
        /\ Cardinality(Tracked) \in Nat /\ max_peers \in Nat
    BY <1>10, TableSize, FS_Subset, FS_CardinalityType, UdpAssumption DEF UdpTypeOK
  <2>2. overflow_conn' # NoConn => Cardinality(kept) >= max_peers
    BY <1>1, <1>11
  <2> QED BY <1>1, <1>9, <2>1, <2>2 DEF OverflowOnlyWhenFull
<1>19. NoOverflowNoCount'
  BY <1>1 DEF NoOverflowNoCount
<1>20. LinesFinite'
  BY <1>13 DEF LinesFinite
<1>21. DatagramsAccounted'
  <2>1. overflow_conn' # NoConn => overflow_count' = log'[overflow_conn'].rx
    BY <1>1, <1>2, <1>12 DEF SweepLogs, DatagramsAccounted
  <2>2. ASSUME NEW i \in ConnIds, log'[i].state = "closed", log'[i].who = Overflow
        PROVE  log'[i].note = log'[i].rx
    <3>1. CASE i \in ids
      <4>1. over /\ i = overflow_conn
        BY <1>7, <1>12, <2>2, <3>1 DEF SweepLogs
      <4> QED BY <1>11, <1>12, <4>1 DEF SweepLogs, DatagramsAccounted
    <3>2. CASE i \notin ids
      BY <1>12, <2>2, <3>2 DEF SweepLogs, DatagramsAccounted
    <3> QED BY <3>1, <3>2
  <2> QED BY <1>1, <1>13, <2>1, <2>2 DEF DatagramsAccounted
<1>22. RepliesBounded'
  <2> SUFFICES ASSUME NEW i \in ConnIds
               PROVE  log'[i].tx + PendingOf(replies', current', i) <= Quota(profile', log'[i])
    BY RepliesPartsNext
  <2>1. log[i].tx + PendingOf(replies, current, i) <= Quota(profile, log[i])
    BY RepliesParts
  <2>2. log'[i].tx = log[i].tx /\ log'[i].who = log[i].who /\ log'[i].rx = log[i].rx
    BY <1>12 DEF SweepLogs
  <2>3. Quota(profile', log'[i]) = Quota(profile, log[i])
    BY <1>1, <2>2 DEF Quota
  <2> QED BY <1>1, <2>1, <2>2, <2>3
<1>23. ClosedStay
  BY <1>5, <1>12 DEF ClosedStay, SweepLogs
<1> QED BY <1>14, <1>15, <1>16, <1>17, <1>18, <1>19, <1>20, <1>21, <1>22, <1>23

-----------------------------------------------------------------------------
\* Steps of the world: a datagram joins the queue, peers age, or nothing
\* happens.  The conns of the table and the log are as they were.
LEMMA WorldStep ==
  ASSUME UdpInv,
         arrived' \in 0 .. MaxDatagrams, socket' \in Seq(Sources),
         arrived' - Len(socket') = arrived - Len(socket),
         Tracked' = Tracked,
         \A a \in Tracked : /\ peers'[a] \in [conn : ConnIds, age : -MaxBehind .. idle]
                            /\ peers'[a].conn = peers[a].conn,
         since_sweep' \in 0 .. SweepEvery - 1, due' \in BOOLEAN,
         UNCHANGED <<max_peers, idle, profile, overflow_conn, overflow_count, replies,
                     current, next_conn, log>>
  PROVE  UdpInv'
<1> USE DEF UdpInv
<1>1. RxLines' = RxLines
  BY LinesKept
<1>2. UdpTypeOK'
  BY DEF UdpTypeOK
<1>3. IdsInOrder'
  BY DEF IdsInOrder
<1>4. TableIsOpen'
  BY DEF TableIsOpen
<1>5. HandIsTracked'
  BY DEF HandIsTracked, Selecting
<1>6. OverflowOnlyWhenFull' /\ NoOverflowNoCount'
  BY DEF OverflowOnlyWhenFull, NoOverflowNoCount
<1>7. LinesFinite' /\ DatagramsAccounted'
  BY <1>1 DEF LinesFinite, DatagramsAccounted
<1>8. RepliesBounded'
  BY DEF RepliesBounded, Selecting
<1> QED BY <1>2, <1>3, <1>4, <1>5, <1>6, <1>7, <1>8

\* Growing older keeps a peer's conn, and its age within the bounds.
LEMMA AgedTable ==
  ASSUME UdpTypeOK, NEW ticks \in Int,
         \A a \in Tracked : peers[a].age + ticks >= -MaxBehind,
         peers' = Aged(ticks)
  PROVE  /\ Tracked' = Tracked
         /\ \A a \in Tracked : /\ peers'[a] \in [conn : ConnIds, age : -MaxBehind .. idle]
                               /\ peers'[a].conn = peers[a].conn
<1>1. /\ idle \in Nat /\ MaxBehind \in Nat
      /\ \A a \in Tracked : peers[a] \in [conn : ConnIds, age : -MaxBehind .. idle]
  BY UdpAssumption DEF UdpTypeOK
<1>2. Tracked' = Tracked
  BY DEF Aged, Tracked
<1>3. ASSUME NEW a \in Tracked
      PROVE  /\ peers'[a] \in [conn : ConnIds, age : -MaxBehind .. idle]
             /\ peers'[a].conn = peers[a].conn
  <2> DEFINE p == peers[a]
             age == Min({p.age + ticks, idle})
  <2>1. p \in [conn : ConnIds, age : -MaxBehind .. idle]
    BY <1>1
  <2>2. peers'[a] = [p EXCEPT !.age = age]
    BY DEF Aged
  <2>3. p.age + ticks >= -MaxBehind
    OBVIOUS
  <2> HIDE DEF p
  <2>4. \A x, y \in Int : Min({x, y}) = IF x <= y THEN x ELSE y
    BY DEF Min
  <2>5. p.age \in Int
    BY <2>1
  <2>6. age = IF p.age + ticks <= idle THEN p.age + ticks ELSE idle
    BY <1>1, <2>4, <2>5
  <2> HIDE DEF age
  <2>7. age \in -MaxBehind .. idle
    BY <1>1, <2>3, <2>5, <2>6
  <2>8. [p EXCEPT !.age = age] \in [conn : ConnIds, age : -MaxBehind .. idle]
    BY <2>1, <2>7
  <2>9. [p EXCEPT !.age = age].conn = p.conn
    BY <2>1
  <2> QED BY <2>2, <2>8, <2>9 DEF p
<1> QED BY <1>2, <1>3

LEMMA ArriveStep ==
  ASSUME UdpInv, NEW a \in Sources, Arrive(a)
  PROVE  UdpInv'
<1> USE DEF UdpInv
<1>1. /\ arrived < MaxDatagrams /\ arrived' = arrived + 1 /\ socket' = Append(socket, a)
      /\ UNCHANGED <<max_peers, idle, profile, peers, overflow_conn, overflow_count,
                     replies, current, next_conn, log, since_sweep, due>>
  BY DEF Arrive, options, table, hand, clock
<1>2. /\ arrived' \in 0 .. MaxDatagrams /\ socket' \in Seq(Sources)
      /\ arrived' - Len(socket') = arrived - Len(socket)
  <2>1. socket \in Seq(Sources) /\ arrived \in 0 .. MaxDatagrams
    BY DEF UdpTypeOK
  <2>2. socket' \in Seq(Sources) /\ Len(socket') = Len(socket) + 1 /\ Len(socket) \in Nat
    BY <1>1, <2>1, AppendProperties, LenProperties
  <2> QED BY <1>1, <2>1, <2>2, UdpAssumption
<1>3. /\ Tracked' = Tracked /\ since_sweep' \in 0 .. SweepEvery - 1 /\ due' \in BOOLEAN
      /\ \A b \in Tracked : /\ peers'[b] \in [conn : ConnIds, age : -MaxBehind .. idle]
                            /\ peers'[b].conn = peers[b].conn
  BY <1>1 DEF UdpTypeOK, Tracked
<1> QED BY <1>1, <1>2, <1>3, WorldStep

LEMMA TickStep == UdpInv /\ Tick => UdpInv'
<1> SUFFICES ASSUME UdpInv, Tick PROVE UdpInv'
  OBVIOUS
<1> USE DEF UdpInv
<1>1. /\ peers' = Aged(1)
      /\ since_sweep' = (since_sweep + 1) % SweepEvery
      /\ due' = (due \/ since_sweep' = 0)
      /\ UNCHANGED <<max_peers, idle, profile, arrived, socket, overflow_conn,
                     overflow_count, replies, current, next_conn, log>>
  BY DEF Tick, options, hand
<1>2. since_sweep' \in 0 .. SweepEvery - 1
  <2>1. since_sweep \in Nat /\ SweepEvery \in Nat \ {0}
    BY UdpAssumption DEF UdpTypeOK
  <2> QED BY <1>1, <2>1
<1>3. \A a \in Tracked : peers[a].age + 1 >= -MaxBehind
  BY UdpAssumption DEF UdpTypeOK
<1>4. /\ Tracked' = Tracked
      /\ \A a \in Tracked : /\ peers'[a] \in [conn : ConnIds, age : -MaxBehind .. idle]
                            /\ peers'[a].conn = peers[a].conn
  BY <1>1, <1>3, AgedTable
<1>5. due' \in BOOLEAN
  BY <1>1 DEF UdpTypeOK
<1>6. /\ arrived' \in 0 .. MaxDatagrams /\ socket' \in Seq(Sources)
      /\ arrived' - Len(socket') = arrived - Len(socket)
  BY <1>1 DEF UdpTypeOK
<1> QED BY <1>1, <1>2, <1>4, <1>5, <1>6, WorldStep

LEMMA SetClockStep ==
  ASSUME UdpInv, NEW ticks \in ClockSteps, SetClock(ticks)
  PROVE  UdpInv'
<1> USE DEF UdpInv
<1>1. /\ \A a \in Tracked : peers[a].age + ticks >= -MaxBehind
      /\ peers' = Aged(ticks)
      /\ UNCHANGED <<max_peers, idle, profile, arrived, socket, overflow_conn,
                     overflow_count, replies, current, next_conn, log, since_sweep, due>>
  BY DEF SetClock, options, hand, clock
<1>2. ticks \in Int
  BY UdpAssumption
<1>3. /\ Tracked' = Tracked
      /\ \A a \in Tracked : /\ peers'[a] \in [conn : ConnIds, age : -MaxBehind .. idle]
                            /\ peers'[a].conn = peers[a].conn
  BY <1>1, <1>2, AgedTable
<1>4. /\ arrived' \in 0 .. MaxDatagrams /\ socket' \in Seq(Sources)
      /\ arrived' - Len(socket') = arrived - Len(socket)
      /\ since_sweep' \in 0 .. SweepEvery - 1 /\ due' \in BOOLEAN
  BY <1>1 DEF UdpTypeOK
<1> QED BY <1>1, <1>3, <1>4, WorldStep

-----------------------------------------------------------------------------
LEMMA UdpInitially == UdpInit => UdpInv
<1> SUFFICES ASSUME UdpInit PROVE UdpInv
  OBVIOUS
<1> USE DEF UdpInit
<1>1. /\ Tracked = {} /\ Selecting /\ Cardinality(Tracked) = 0
      /\ \A i \in ConnIds : log[i] = Unused
      /\ Len(socket) = 0 /\ max_peers \in Nat
  BY FS_EmptySet, UdpAssumption DEF Tracked, Selecting
<1>2. RxLines = {}
  <2>1. \A i \in ConnIds : {i} \X (1 .. log[i].rx) = {}
    BY <1>1 DEF Unused
  <2> QED BY <2>1 DEF RxLines
<1>3. UdpTypeOK
  <2>1. Unused \in Conns /\ log \in [ConnIds -> Conns]
    BY DEF Unused, Conns
  <2>2. SweepEvery - 1 \in Nat /\ MaxDatagrams \in Nat
    BY UdpAssumption
  <2>3. next_conn \in 1 .. MaxDatagrams + 1 /\ arrived \in 0 .. MaxDatagrams
        /\ overflow_count \in 0 .. MaxDatagrams /\ since_sweep \in 0 .. SweepEvery - 1
    BY <2>2 DEF FirstConn
  <2>4. socket \in Seq(Sources) /\ replies \in Seq({"on_connect", "rule"})
    OBVIOUS
  <2> QED BY <1>1, <2>1, <2>3, <2>4 DEF UdpTypeOK, Conns
<1>4. IdsInOrder
  BY <1>1 DEF IdsInOrder, Unused, FirstConn, ConnIds
<1>5. TableIsOpen /\ HandIsTracked /\ NoOverflowNoCount
  BY <1>1 DEF TableIsOpen, HandIsTracked, NoOverflowNoCount, Unused
<1>6. OverflowOnlyWhenFull
  BY <1>1 DEF OverflowOnlyWhenFull
<1>7. LinesFinite /\ DatagramsAccounted
  BY <1>1, <1>2, FS_EmptySet DEF LinesFinite, DatagramsAccounted, Unused
<1>8. RepliesBounded
  <2>1. \A i \in ConnIds : log[i].tx + PendingOf(replies, current, i) <= Quota(profile, log[i])
    BY <1>1 DEF PendingOf, Quota, Unused
  <2> QED BY <2>1, RepliesParts
<1> QED BY <1>3, <1>4, <1>5, <1>6, <1>7, <1>8 DEF UdpInv

LEMMA UdpStep == UdpInv /\ [UdpNext]_udpVars => UdpInv' /\ ClosedStay
<1> SUFFICES ASSUME UdpInv, [UdpNext]_udpVars PROVE UdpInv' /\ ClosedStay
  OBVIOUS
<1>1. CASE ReceiveOverflow \/ Receive \/ Reply \/ Sweep
  BY <1>1, ReceiveOverflowStep, ReceiveStep, ReplyStep, SweepStep
<1>2. CASE (\E a \in Sources : Arrive(a)) \/ Tick \/ (\E t \in ClockSteps : SetClock(t))
  <2>1. log' = log
    BY <1>2 DEF Arrive, Tick, SetClock
  <2> QED BY <1>2, <2>1, ArriveStep, TickStep, SetClockStep DEF ClosedStay
<1>3. CASE UNCHANGED udpVars
  BY <1>3, WorldStep DEF udpVars, UdpInv, UdpTypeOK, Tracked, ClosedStay
<1> QED BY <1>1, <1>2, <1>3 DEF UdpNext

LEMMA UdpInvariant == UdpSpec => []UdpInv
BY UdpInitially, UdpStep, PTL DEF UdpSpec

-----------------------------------------------------------------------------
\* Whatever arrives in whatever order, and however the clock is set, the state
\* of the loop and of its table keeps the types it is declared with: a peer's
\* conn is one the Logger handed out.
THEOREM UdpTypes == UdpSpec => []UdpTypeOK
<1>1. UdpInv => UdpTypeOK
  BY DEF UdpInv
<1> QED BY UdpInvariant, <1>1, PTL

\* For any --udp-max-peers the table stays within it, and a stream for the
\* sources past it is open only while the table is full.
THEOREM UdpOverflowOnlyWhenFull == UdpSpec => []OverflowOnlyWhenFull
<1>1. UdpInv => OverflowOnlyWhenFull
  BY DEF UdpInv
<1> QED BY UdpInvariant, <1>1, PTL

\* The conns open in the log are exactly the entries of the table and the
\* overflow stream: a sweep closes each once, and forgets none.
THEOREM UdpOpenConnsAreLive == UdpSpec => []OpenConnsAreLive
<1>1. UdpInv => OpenConnsAreLive
  <2> SUFFICES ASSUME UdpInv PROVE OpenConnsAreLive
    OBVIOUS
  <2> USE DEF UdpInv
  <2> DEFINE live == {peers[a].conn : a \in Tracked} \cup ({overflow_conn} \ {NoConn})
  <2>1. ASSUME NEW i \in OpenConns PROVE i \in live
    BY DEF OpenConns, TableIsOpen, NoConn, ConnIds
  <2>2. ASSUME NEW i \in live PROVE i \in OpenConns
    BY DEF OpenConns, TableIsOpen, UdpTypeOK
  <2>3. OpenConns = live
    BY <2>1, <2>2
  <2> QED BY <2>3 DEF TableIsOpen, OpenConnsAreLive
<1> QED BY UdpInvariant, <1>1, PTL

\* No datagram that recv_from gave is missing from the log or in it twice, and
\* the count in a closed overflow stream's note is that of its rx lines.
THEOREM UdpDatagramsAccounted == UdpSpec => []DatagramsAccounted
<1>1. UdpInv => DatagramsAccounted
  BY DEF UdpInv
<1> QED BY UdpInvariant, <1>1, PTL

\* The listener sends a conn no more than one banner and one answer per
\* datagram, however long its replies are delayed, and an untracked source none.
THEOREM UdpRepliesBounded == UdpSpec => []RepliesBounded
<1>1. UdpInv => RepliesBounded
  BY DEF UdpInv
<1> QED BY UdpInvariant, <1>1, PTL

\* No step writes to a conn the log has closed: a delayed reply finds its conn
\* still in the table, a datagram is logged on an open one or on a new one.
THEOREM UdpClosedIsFinal == UdpSpec => ClosedIsFinal
<1>1. UdpInv /\ [UdpNext]_udpVars => [ClosedStay]_udpVars
  BY UdpStep
<1> QED BY UdpInvariant, <1>1, PTL DEF UdpSpec, ClosedIsFinal, ClosedStay
=============================================================================
