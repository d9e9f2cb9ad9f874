------------------------------- MODULE Answering ------------------------------
(***************************************************************************)
(* What a listener with a profile says to a peer, byte by byte: the rule   *)
(* engine (profile.rs), the DNS replies (dns.rs) and the hint of the log   *)
(* line (classify.rs), as reply() of udp.rs and send() of tcp.rs put them  *)
(* together.  UdpListener and TcpServe model when these answers are sent;  *)
(* here each is sent at once.  The peer sends one message again and again; *)
(* a reply may also come back as a message, because the peer is another    *)
(* listener or its address was forged.                                     *)
(***************************************************************************)
EXTENDS Classify, Profile

LOCAL INSTANCE SequencesExt
LOCAL INSTANCE FiniteSetsExt

CONSTANTS
  Profiles,  \* the profiles, as they are written
  Messages,  \* what a peer may send: its bytes and what they are meant to be
  MaxHops    \* bound: replies that come back in a row

-----------------------------------------------------------------------------
\* A DNS query, field by field: `low` is the second byte of its flags (RA, Z, AD,
\* CD and rcode), `extra` is behind its question, and behind a frame may be the
\* beginning of the next message.
Label == {l \in Seq(Byte) : Len(l) \in 1 .. 63}
Word == {n \in Nat : n < 65536}

Name(labels) == FlattenSeq([i \in DOMAIN labels |-> <<Len(labels[i])>> \o labels[i]]) \o <<0>>

Question(q) == Name(q.labels) \o ToBe16(q.qtype) \o ToBe16(q.qclass)

Flag(set, bit) == IF set THEN bit ELSE 0

Encoded(q) ==
  LET flags == Flag(q.qr, 128) + q.opcode * 8 + Flag(q.aa, 4) + Flag(q.tc, 2) + Flag(q.rd, 1)
  IN  ToBe16(q.id) \o <<flags, q.low>> \o ToBe16(q.qdcount) \o ToBe16(q.ancount)
        \o ToBe16(q.nscount) \o ToBe16(q.arcount) \o Question(q) \o q.extra

Framed(b) == ToBe16(Len(b)) \o b

Sent(q) == IF q.framed THEN Framed(Encoded(q)) \o q.behind ELSE Encoded(q)

\* What is there of a query when its question ends.
Asked(q) == (IF q.framed THEN 14 ELSE 12) + Len(Question(q))

\* A message that is meant as a query is one, or as much of it as one read got;
\* it is whole when its question is.
IsItsQuery(m) ==
  LET q == m.meant IN
  /\ q.id \in Word /\ q.opcode \in 0 .. 15 /\ q.low \in Byte
  /\ q.qr \in BOOLEAN /\ q.aa \in BOOLEAN /\ q.tc \in BOOLEAN /\ q.rd \in BOOLEAN
  /\ q.qdcount \in Word /\ q.ancount \in Word /\ q.nscount \in Word /\ q.arcount \in Word
  /\ q.labels \in Seq(Label) /\ q.qtype \in Word /\ q.qclass \in Word
  /\ q.extra \in Seq(Byte) /\ Len(Encoded(q)) \in Word
  /\ q.framed \in BOOLEAN /\ q.behind \in Seq(Byte)
  /\ q.question = Question(q)
  /\ Len(m.bytes) <= Len(Sent(q)) /\ m.bytes = SubSeq(Sent(q), 1, Len(m.bytes))
  /\ q.whole = (Len(m.bytes) >= Asked(q))
  /\ q.graphic = Printable(q.labels)

\* The bytes of anything else are not by chance a query's.
IsNoQuery(m) ==
  ~IsQuery(m.bytes) /\ (Len(m.bytes) >= 2 => ~IsQuery(Unframed(m.bytes)))

ASSUME AnsweringAssumption ==
  /\ LabelLimit \in Nat /\ LabelLimit <= 1000
  /\ HintLimit \in Nat
  /\ MaxHops \in Nat
  /\ \A p \in Profiles : p \in ProfileType
  /\ \A m \in Messages :
       /\ m.bytes \in Seq(Byte)
       /\ IF m.meant.what = "query" THEN IsItsQuery(m) ELSE IsNoQuery(m)

VARIABLES
  proto,    \* the listener: "udp" or "tcp"
  profile,  \* its profile, loaded
  message,  \* what the peer sends
  state,    \* the connection: "new", "open", "closed"
  first,    \* no message has been evaluated yet
  heard,    \* the last message the listener got
  hint,     \* the hint of its log line
  said,     \* the replies it drew, in order
  hops      \* how many replies in a row have come back

answerVars == <<proto, profile, message, state, first, heard, hint, said, hops>>

Nothing == [bytes |-> <<>>, meant |-> [what |-> "nothing"]]

AnsweringInit ==
  /\ proto \in {"udp", "tcp"}
  /\ profile \in {Load(p) : p \in Profiles}
  /\ message \in Messages
  /\ state = IF proto = "tcp" THEN "new" ELSE "open"
  /\ first = TRUE
  /\ heard = Nothing
  /\ hint = Unrecognised
  /\ said = <<>>
  /\ hops = 0

-----------------------------------------------------------------------------
\* The payload an action makes of a message; dns makes none of what it cannot
\* parse.
Payload(action, received) ==
  LET ans == CHOOSE a \in action.dns : TRUE IN
  IF action.echo THEN received
  ELSE IF action.dns = {} THEN action.payload
  ELSE IF proto = "tcp" THEN ReplyTcp(received, ans)
  ELSE Reply(received, ans)

\* reply and send, for an action if there is one: an empty payload is not sent.
Replies(actions, received) ==
  LET payloads == {Payload(a, received) : a \in actions} \ {<<>>} IN
  IF payloads = {} THEN <<>> ELSE <<CHOOSE b \in payloads : TRUE>>

HangsUp(actions) == proto = "tcp" /\ \E a \in actions : a.close

\* tcp: the banner, before anything is read.
Connect ==
  /\ state = "new"
  /\ said' = Replies(profile.on_connect, <<>>)
  /\ state' = IF HangsUp(profile.on_connect) THEN "closed" ELSE "open"
  /\ UNCHANGED <<proto, profile, message, first, heard, hint, hops>>

\* A read, or a datagram: it is classified and logged, then it is evaluated.
\* The first datagram of a source draws the banner as well.
Hear(m) ==
  LET banner == IF proto = "udp" /\ first THEN profile.on_connect ELSE {}
      rule == Eval(profile, m.bytes, first)
  IN  /\ state = "open"
      /\ proto = "tcp" => m.bytes # <<>>
      /\ heard' = m
      /\ hint' = Hint(m.bytes)
      /\ said' = Replies(banner, m.bytes) \o Replies(rule, m.bytes)
      /\ state' = IF HangsUp(rule) THEN "closed" ELSE "open"
      /\ first' = FALSE
      /\ UNCHANGED <<proto, profile, message>>

Receive == Hear(message) /\ hops' = 0

\* The last reply comes back.
Bounce ==
  /\ said # <<>> /\ hops < MaxHops
  /\ Hear([bytes |-> Last(said), meant |-> [what |-> "reply"]])
  /\ hops' = hops + 1

AnsweringNext == Connect \/ Receive \/ Bounce

AnsweringSpec == AnsweringInit /\ [][AnsweringNext]_answerVars

-----------------------------------------------------------------------------
BytesSaid == Len(FlattenSeq(said))

\* What the start-up warning of the UDP listener says of profiles with fixed
\* replies is true: no datagram draws more than the bytes it announces, banner
\* and rule together; and a profile that is said not to respond is silent
\* (udp.rs:50-58, profile.rs:133-160).
FixedRepliesAsAnnounced ==
  /\ ~Responds(profile) => said = <<>>
  /\ ~TracksRequest(profile) => BytesSaid <= MaxResponseBytes(profile)

\* What it says of the other profiles: "replies mirror the request size"
\* (udp.rs:57).
RepliesMirrorRequest ==
  proto = "udp" /\ TracksRequest(profile) => BytesSaid <= Len(heard.bytes)

\* A profile whose one rule answers everything it can with DNS.
DnsOnly ==
  /\ profile.on_connect = {}
  /\ Len(profile.rules) = 1
  /\ profile.rules[1].matcher = EmptyMatch
  /\ profile.rules[1].action.dns # {} /\ ~profile.rules[1].action.echo

\* What a peer meant as a query this listener has to answer: all of it is there,
\* it asks one question and is not itself a reply.
Answerable(q) ==
  /\ q.what = "query"
  /\ q.whole /\ ~q.qr /\ q.opcode = 0 /\ q.qdcount = 1
  /\ Len(q.labels) <= LabelLimit + 1

\* A query in a frame is for tcp and a bare one for udp: in the wrong place its
\* bytes may by chance be another query's.
Misframed(m) == m.what = "query" /\ m.framed # (proto = "tcp")

\* A dns profile answers what is a query and nothing else: never a reply, its
\* own or another listener's, so that two of them cannot answer each other for
\* ever, and never a message that ends inside its question (dns.rs:38-39).
AnswersQueriesOnly ==
  DnsOnly /\ heard # Nothing /\ ~Misframed(heard.meant) =>
    (said # <<>> <=> Answerable(heard.meant))

\* The address this query should get.
Address(q, ans) ==
  IF q.qclass # 1 THEN <<>>
  ELSE IF q.qtype = 1 THEN ans.a
  ELSE IF q.qtype = 28 THEN ans.aaaa ELSE <<>>

\* The asker can read the answer: the frame is as long as it says, id, RD and
\* question are the query's and no other flag of its comes back; QR and RA are set
\* and there is no error; the records there are are counted; the record points at
\* the name, is for the type asked for and as long as it says, and the message
\* ends with the address (dns.rs:75-137).
AnswersAreReadable ==
  DnsOnly /\ said # <<>> /\ ~Misframed(heard.meant) =>
    LET q == heard.meant
        ans == CHOOSE a \in profile.rules[1].action.dns : TRUE
        address == Address(q, ans)
        count == IF address = <<>> THEN 0 ELSE 1
        frame == IF proto = "tcp" THEN 2 ELSE 0
        r == SubSeq(said[1], frame + 1, Len(said[1]))
        behind == 12 + Len(q.question)
    IN  /\ proto = "tcp" => Be16(said[1], 0) = Len(r)
        /\ Be16(r, 0) = q.id
        /\ r[3] = 128 + Flag(q.rd, 1) /\ r[4] = 128
        /\ Be16(r, 4) = 1 /\ Be16(r, 6) = count /\ Be16(r, 8) = 0 /\ Be16(r, 10) = 0
        /\ SubSeq(r, 13, behind) = q.question
        /\ Len(r) = behind + count * (12 + Len(address))
        /\ count = 1 =>
             SubSeq(r, behind + 1, behind + 12) =
               <<192, 12>> \o ToBe16(q.qtype) \o <<0, 1>> \o ans.ttl \o <<0, Len(address)>>
        /\ SubSeq(r, Len(r) - Len(address) + 1, Len(r)) = address

\* A query whose id reads as a TLS record header: a long one may be taken for a
\* hello, by the shape of its name.
LooksLikeTls(m) == m.meant.what = "query" /\ m.meant.id = 22 * 256 + 3 /\ Len(m.bytes) >= 47

\* A bare query is hinted at by its own name and type, however little of it this
\* read holds, and if it is all there and its name can be printed it gets that
\* hint (classify.rs).
QueriesAreHinted ==
  LET q == heard.meant IN
  q.what = "query" /\ ~q.framed =>
    /\ hint.kind = "query" => ~q.qr /\ hint.name = q.labels /\ hint.qtype = q.qtype
    /\ /\ q.whole /\ ~q.qr /\ q.opcode = 0 /\ q.qdcount = 1 /\ q.ancount = 0
       /\ q.graphic /\ Len(q.labels) \in 1 .. HintLimit + 1
       => hint.kind = "query" \/ LooksLikeTls(heard)

\* A hint names only what the peer meant, however little of the message this
\* read holds: the names asked for or connected to, the versions offered; and a
\* message that is all there gets its hint (classify.rs).
HintIsTrue ==
  LET m == heard.meant IN
  /\ QueriesAreHinted
  /\ hint.kind = "query" =>
       \/ m.what = "query" /\ ~m.framed
       \/ m.what = "reply" /\ ~DnsOnly
  /\ hint.kind = "hello" =>
       \/ /\ m.what = "hello"
          /\ hint.version \in {m.legacy} \cup m.versions
          /\ hint.sni \subseteq m.sni /\ hint.alpn \subseteq m.alpn
          /\ hint.ciphers = m.ciphers
       \/ m.what = "reply" \/ LooksLikeTls(heard)
  /\ m.what = "hello" /\ m.whole =>
       /\ hint.kind = "hello"
       /\ hint.version = Max({m.legacy} \cup m.versions)
       /\ hint.sni = m.sni /\ hint.alpn = m.alpn
=============================================================================
