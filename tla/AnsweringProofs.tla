---------------------------- MODULE AnsweringProofs ----------------------------
(***************************************************************************)
(* What a listener says to a peer is what its profile announced, for any   *)
(* profiles, any messages and any replies that come back.                  *)
(***************************************************************************)
EXTENDS Answering, StreamLemmas

LOCAL INSTANCE SequencesExt
LOCAL INSTANCE FiniteSetsExt

-----------------------------------------------------------------------------
\* The largest of a set of numbers.

Bounded(S, b) == \A n \in S : n <= b

\* A set of numbers with a bound has a largest one.
LEMMA LargestNumber ==
  ASSUME NEW S, S \subseteq Nat, S # {}, NEW b \in Nat, Bounded(S, b)
  PROVE  Max(S) \in S /\ Bounded(S, Max(S))
<1> DEFINE U == {u \in Nat : Bounded(S, u)}
<1>1. U \subseteq Nat /\ U # {}
  OBVIOUS
<1>2. PICK u \in U : \A v \in U : u <= v
  BY <1>1, LeastNumber
<1>3. u \in Nat /\ \A n \in S : n <= u
  BY <1>2 DEF Bounded
<1>4. u \in S
  <2>1. SUFFICES ASSUME u \notin S PROVE FALSE
    OBVIOUS
  <2>2. PICK n \in S : TRUE
    OBVIOUS
  <2>3. u # 0 /\ u - 1 \in Nat
    BY <1>3, <2>1, <2>2
  <2>4. \A m \in S : m <= u - 1
    BY <1>3, <2>1
  <2>5. u - 1 \in U
    BY <2>3, <2>4 DEF Bounded
  <2> QED BY <1>2, <1>3, <2>5
<1>5. \E x \in S : \A y \in S : x >= y
  BY <1>3, <1>4
<1>6. Max(S) \in S /\ \A y \in S : Max(S) >= y
  BY <1>5 DEF Max
<1>7. Max(S) \in Nat /\ \A y \in S : y <= Max(S)
  BY <1>6
<1> QED BY <1>6, <1>7 DEF Bounded

\* The numbers a sequence's places are given have a bound.
LEMMA PlacesBounded ==
  ASSUME NEW n \in Nat, NEW f, \A i \in 1 .. n : f[i] \in Nat
  PROVE  \E b \in Nat : \A i \in 1 .. n : f[i] <= b
<1> DEFINE T == {k \in Nat : \E b \in Nat : \A i \in 1 .. n : i <= k => f[i] <= b}
<1>1. 0 \in T
  OBVIOUS
<1>2. ASSUME NEW k \in Nat, k \in T PROVE k + 1 \in T
  <2>1. PICK b \in Nat : \A i \in 1 .. n : i <= k => f[i] <= b
    BY <1>2
  <2>2. CASE k + 1 \in 1 .. n
    <3> DEFINE c == f[k + 1]
               d == IF b <= c THEN c ELSE b
    <3>1. c \in Nat
      BY <2>2
    <3>2. d \in Nat /\ b <= d /\ c <= d
      <4> HIDE DEF c
      <4> QED BY <3>1
    <3>3. \A i \in 1 .. n : i <= k + 1 => f[i] <= d
      <4>1. ASSUME NEW i \in 1 .. n, i <= k + 1 PROVE f[i] <= d
        <5>1. CASE i = k + 1
          BY <3>2, <5>1
        <5>2. CASE i # k + 1
          <6>1. i <= k
            BY <4>1, <5>2
          <6>2. f[i] <= b /\ f[i] \in Nat
            BY <2>1, <6>1
          <6> HIDE DEF d
          <6> QED BY <3>2, <6>2
        <5> QED BY <5>1, <5>2
      <4> QED BY <4>1
    <3> HIDE DEF d
    <3> QED BY <3>2, <3>3
  <2>3. CASE k + 1 \notin 1 .. n
    <3>1. \A i \in 1 .. n : i <= k + 1 => i <= k
      BY <2>3
    <3>2. \A i \in 1 .. n : i <= k + 1 => f[i] <= b
      BY <2>1, <3>1
    <3>3. k + 1 \in Nat /\ b \in Nat
      OBVIOUS
    <3> QED BY ONLY <3>2, <3>3
  <2> QED BY <2>2, <2>3
<1> HIDE DEF T
<1>3. n \in T
  BY <1>1, <1>2, EveryNumber
<1> QED BY <1>3 DEF T

-----------------------------------------------------------------------------
\* What the start-up warning promises.

\* What compile_respond and load make of a profile.
Compiled(a) ==
  /\ a.payload \in Seq(Byte)
  /\ a.echo \in BOOLEAN /\ a.close \in BOOLEAN
  /\ a.dns \in Optional(Answer)

LoadedOk(q) ==
  /\ \A a \in q.on_connect : Compiled(a)
  /\ \A a, b \in q.on_connect : a = b
  /\ DOMAIN q.rules = 1 .. Len(q.rules) /\ Len(q.rules) \in Nat
  /\ \A i \in DOMAIN q.rules : Compiled(q.rules[i].action)

LEMMA RepeatedType ==
  ASSUME NEW s \in Seq(Byte), NEW n \in Nat
  PROVE  Repeated(s, n) \in Seq(Byte)
<1> DEFINE ss == [i \in 1 .. n |-> s]
<1>1. ss \in Seq(Seq(Byte))
  OBVIOUS
<1> HIDE DEF ss
<1>2. Flattened(ss) \in Seq(Byte)
  BY <1>1, FlattenedType
<1>3. FlattenSeq(ss) = Flattened(ss)
  BY DEF FlattenSeq, Flattened
<1> QED BY <1>2, <1>3 DEF Repeated, ss

LEMMA CompileCompiles ==
  ASSUME NEW r \in Respond
  PROVE  Compiled(Compile(r))
<1>1. /\ r.text \in Seq(Byte) /\ r.hex \in Seq(Byte) /\ r.file \in Seq(Byte)
      /\ r.echo \in BOOLEAN /\ r.close \in BOOLEAN /\ r.repeat \in Optional(Nat)
      /\ r.dns \in Optional(Answer)
  BY DEF Respond
<1> DEFINE once == r.text \o r.hex \o r.file
           n == CHOOSE n \in r.repeat : TRUE
<1>2. once \in Seq(Byte)
  BY <1>1, ConcatProperties
<1>3. r.repeat # {} => n \in Nat
  BY <1>1 DEF Optional
<1> HIDE DEF once, n
<1>4. r.repeat # {} => Repeated(once, n) \in Seq(Byte)
  BY <1>2, <1>3, RepeatedType
<1>5. (IF r.repeat = {} THEN once ELSE Repeated(once, n)) \in Seq(Byte)
  BY <1>2, <1>4
<1> QED BY <1>1, <1>5 DEF Compiled, Compile, once, n

LEMMA NothingIsRespond == EmptyRespond \in Respond
<1>1. {} \in Optional(Nat) /\ {} \in Optional(Answer)
  BY DEF Optional
<1>2. <<>> \in Seq(Byte)
  BY EmptySeq
<1> QED BY <1>1, <1>2 DEF EmptyRespond, Respond

LEMMA LoadLoads ==
  ASSUME NEW p \in ProfileType
  PROVE  LoadedOk(Load(p))
<1>1. /\ p.on_connect \subseteq Respond /\ \A v, w \in p.on_connect : v = w
      /\ p.rules \in Seq([when : Match, respond : Optional(Respond)])
  BY DEF ProfileType, Optional
<1> DEFINE q == Load(p)
           n == Len(p.rules)
<1>2. n \in Nat /\ DOMAIN p.rules = 1 .. n
  BY <1>1, LenProperties
<1>3. \A i \in 1 .. n : p.rules[i] \in [when : Match, respond : Optional(Respond)]
  BY <1>1, <1>2, ElementOfSeq
<1>4. DOMAIN q.rules = 1 .. n
  BY <1>2 DEF Load
<1>5. Len(q.rules) = n
  <2> DEFINE E(i) == [matcher |-> p.rules[i].when,
                      action |-> IF p.rules[i].respond = {} THEN Compile(EmptyRespond)
                                 ELSE Compile(CHOOSE r \in p.rules[i].respond : TRUE)]
             s == [i \in 1 .. n |-> E(i)]
  <2>0. q.rules = s
    BY <1>2 DEF Load
  <2> HIDE DEF E, n
  <2>1. s \in Seq({E(i) : i \in 1 .. n})
    BY <1>2
  <2>2. DOMAIN s = 1 .. Len(s) /\ Len(s) \in Nat /\ DOMAIN s = 1 .. n
    BY <2>1, LenProperties
  <2>3. Len(s) = n
    <3> DEFINE m == Len(s)
    <3>1. m \in Nat /\ 1 .. m = 1 .. n
      BY <2>2
    <3> HIDE DEF m
    <3>2. m = n
      BY <1>2, <3>1
    <3> QED BY <3>2 DEF m
  <2> QED BY <2>0, <2>3
<1>6. /\ \A a \in q.on_connect : Compiled(a)
      /\ \A a, b \in q.on_connect : a = b
  BY <1>1, CompileCompiles DEF Load
<1>7. ASSUME NEW i \in 1 .. n PROVE Compiled(q.rules[i].action)
  <2>1. p.rules[i].respond \subseteq Respond
    BY <1>3 DEF Optional
  <2>2. q.rules[i].action = IF p.rules[i].respond = {} THEN Compile(EmptyRespond)
                            ELSE Compile(CHOOSE r \in p.rules[i].respond : TRUE)
    BY <1>2 DEF Load
  <2>3. p.rules[i].respond # {} => (CHOOSE r \in p.rules[i].respond : TRUE) \in Respond
    BY <2>1
  <2> QED BY <2>2, <2>3, NothingIsRespond, CompileCompiles
<1> HIDE DEF q, n
<1> QED BY <1>2, <1>4, <1>5, <1>6, <1>7 DEF LoadedOk, q

LEMMA EvalIsRule ==
  ASSUME NEW q, NEW data, NEW f
  PROVE  Eval(q, data, f) \subseteq RuleActions(q)
BY DEF Eval, RuleActions

\* The bounds max_response_bytes adds are bounds.
LEMMA LongestIsLongest ==
  ASSUME NEW actions, \A a \in actions : Compiled(a),
         NEW b \in Nat, \A a \in actions : Len(a.payload) <= b
  PROVE  /\ LongestPayload(actions) \in Nat
         /\ \A a \in actions : Len(a.payload) <= LongestPayload(actions)
<1> DEFINE S == {0} \cup {Len(a.payload) : a \in actions}
<1>1. \A a \in actions : Len(a.payload) \in Nat
  BY LenProperties DEF Compiled
<1>2. S \subseteq Nat /\ S # {} /\ 0 \in S
  BY <1>1
<1>3. Bounded(S, b)
  BY DEF Bounded
<1>4. \A a \in actions : Len(a.payload) \in S
  OBVIOUS
<1>5. LongestPayload(actions) = Max(S)
  BY DEF LongestPayload
<1> HIDE DEF S
<1>6. Max(S) \in S /\ Bounded(S, Max(S))
  BY <1>2, <1>3, LargestNumber
<1> QED BY <1>2, <1>4, <1>5, <1>6 DEF Bounded

LEMMA BannerBounded ==
  ASSUME NEW q, LoadedOk(q)
  PROVE  /\ LongestPayload(q.on_connect) \in Nat
         /\ \A a \in q.on_connect : Len(a.payload) <= LongestPayload(q.on_connect)
<1>1. \A a \in q.on_connect : Compiled(a) /\ Len(a.payload) \in Nat
  BY LenProperties DEF LoadedOk, Compiled
<1>2. \E b \in Nat : \A a \in q.on_connect : Len(a.payload) <= b
  <2>1. CASE q.on_connect = {}
    BY <2>1
  <2>2. CASE q.on_connect # {}
    <3>1. PICK c \in q.on_connect : TRUE
      BY <2>2
    <3>2. \A a \in q.on_connect : a = c
      BY <3>1 DEF LoadedOk
    <3>3. Len(c.payload) \in Nat /\ \A a \in q.on_connect : Len(a.payload) <= Len(c.payload)
      BY <1>1, <3>1, <3>2
    <3> QED BY <3>3
  <2> QED BY <2>1, <2>2
<1> QED BY <1>1, <1>2, LongestIsLongest

LEMMA RulesBounded ==
  ASSUME NEW q, LoadedOk(q)
  PROVE  /\ LongestPayload(RuleActions(q)) \in Nat
         /\ \A a \in RuleActions(q) : Len(a.payload) <= LongestPayload(RuleActions(q))
<1> DEFINE n == Len(q.rules)
           f == [i \in 1 .. n |-> Len(q.rules[i].action.payload)]
<1>1. n \in Nat /\ DOMAIN q.rules = 1 .. n
  BY DEF LoadedOk
<1>2. \A i \in 1 .. n : Compiled(q.rules[i].action)
  BY <1>1 DEF LoadedOk
<1> HIDE DEF n
<1>3. \A i \in 1 .. n : f[i] \in Nat /\ f[i] = Len(q.rules[i].action.payload)
  BY <1>2, LenProperties DEF Compiled
<1> HIDE DEF f
<1>4. PICK b \in Nat : \A i \in 1 .. n : f[i] <= b
  BY <1>1, <1>3, PlacesBounded
<1>5. \A a \in RuleActions(q) : Compiled(a) /\ Len(a.payload) <= b
  BY <1>1, <1>2, <1>3, <1>4 DEF RuleActions
<1> QED BY <1>5, LongestIsLongest

\* At most one reply is made, of one of the actions.
LEMMA RepliesAre ==
  ASSUME NEW actions, NEW received
  PROVE  \/ Replies(actions, received) = <<>>
         \/ \E a \in actions : /\ Replies(actions, received) = <<Payload(a, received)>>
                               /\ Payload(a, received) # <<>>
<1> DEFINE payloads == {Payload(a, received) : a \in actions} \ {<<>>}
           b == CHOOSE b \in payloads : TRUE
<1>1. CASE payloads = {}
  BY <1>1 DEF Replies
<1>2. CASE payloads # {}
  <2>1. b \in payloads
    BY <1>2
  <2>2. Replies(actions, received) = <<b>>
    BY <1>2 DEF Replies
  <2> HIDE DEF b
  <2> QED BY <2>1, <2>2
<1> QED BY <1>1, <1>2

LEMMA SilentSaysNothing ==
  ASSUME NEW actions, NEW received, \A a \in actions : IsSilent(a)
  PROVE  Replies(actions, received) = <<>>
<1>1. \A a \in actions : Payload(a, received) = <<>>
  BY DEF IsSilent, Payload
<1> QED BY <1>1, RepliesAre

\* An action with fixed bytes says no more than those.
LEMMA FixedSaysItsPayload ==
  ASSUME NEW actions, NEW received, NEW b \in Nat,
         \A a \in actions : /\ Compiled(a) /\ ~a.echo /\ a.dns = {}
                            /\ Len(a.payload) <= b
  PROVE  \/ Replies(actions, received) = <<>>
         \/ \E s \in Seq(Byte) : Replies(actions, received) = <<s>> /\ Len(s) <= b
<1>1. \A a \in actions : /\ Payload(a, received) = a.payload
                         /\ a.payload \in Seq(Byte) /\ Len(a.payload) <= b
  BY DEF Payload, Compiled
<1> QED BY <1>1, RepliesAre

\* What one or two replies come to.
LEMMA RepliesCounted ==
  ASSUME NEW x, NEW y, NEW m \in Nat, NEW n \in Nat,
         x = <<>> \/ \E s \in Seq(Byte) : x = <<s>> /\ Len(s) <= m,
         y = <<>> \/ \E s \in Seq(Byte) : y = <<s>> /\ Len(s) <= n
  PROVE  Len(FlattenSeq(x \o y)) <= m + n
<1>0. \A ss : FlattenSeq(ss) = Flattened(ss)
  BY DEF FlattenSeq, Flattened
<1>1. \A s \in Seq(Byte) : <<s>> \in Seq(Seq(Byte)) /\ Len(s) \in Nat
  BY LenProperties
<1>2. <<>> \in Seq(Seq(Byte)) /\ <<>> \in Seq(Byte) /\ Len(<<>>) = 0
  BY EmptySeq
<1>3. \A s \in Seq(Byte) : Len(Flattened(<<s>>)) = Len(s)
  <2>1. ASSUME NEW s \in Seq(Byte) PROVE Len(Flattened(<<s>>)) = Len(s)
    <3>1. Flattened(Append(<<>>, s)) = Flattened(<<>>) \o s
      BY <1>2, FlattenedAppend
    <3>2. Append(<<>>, s) = <<s>> /\ <<>> \o s = s
      BY ConcatEmptySeq
    <3> QED BY <3>1, <3>2, FlattenedEmpty
  <2> QED BY <2>1
<1>4. \A s, t \in Seq(Byte) : Len(Flattened(Append(<<s>>, t))) = Len(s) + Len(t)
  <2>1. ASSUME NEW s \in Seq(Byte), NEW t \in Seq(Byte)
        PROVE  Len(Flattened(Append(<<s>>, t))) = Len(s) + Len(t)
    <3>1. Flattened(Append(<<s>>, t)) = Flattened(<<s>>) \o t
      BY <1>1, FlattenedAppend
    <3>3. Flattened(<<s>>) \in Seq(Byte)
      BY <1>1, FlattenedType
    <3>4. Len(Flattened(<<s>>) \o t) = Len(Flattened(<<s>>)) + Len(t)
      BY <3>3, ConcatProperties
    <3> QED BY <1>3, <3>1, <3>4
  <2> QED BY <2>1
<1>5. CASE x = <<>> /\ y = <<>>
  <2>1. x \o y = <<>>
    BY <1>5
  <2> QED BY <1>0, <1>2, <2>1, FlattenedEmpty
<1>6. ASSUME NEW s \in Seq(Byte), x = <<s>>, Len(s) <= m, y = <<>>
      PROVE  Len(FlattenSeq(x \o y)) <= m + n
  <2>1. x \o y = <<s>>
    BY <1>6
  <2>2. Len(Flattened(<<s>>)) = Len(s) /\ Len(s) \in Nat
    BY <1>1, <1>3
  <2> QED BY <1>0, <1>6, <2>1, <2>2
<1>7. ASSUME NEW t \in Seq(Byte), x = <<>>, y = <<t>>, Len(t) <= n
      PROVE  Len(FlattenSeq(x \o y)) <= m + n
  <2>1. x \o y = <<t>>
    BY <1>7
  <2>2. Len(Flattened(<<t>>)) = Len(t) /\ Len(t) \in Nat
    BY <1>1, <1>3
  <2> QED BY <1>0, <1>7, <2>1, <2>2
<1>8. ASSUME NEW s \in Seq(Byte), x = <<s>>, Len(s) <= m,
             NEW t \in Seq(Byte), y = <<t>>, Len(t) <= n
      PROVE  Len(FlattenSeq(x \o y)) <= m + n
  <2>0. Append(<<s>>, t) = <<s>> \o <<t>>
    BY <1>1, AppendIsConcat
  <2>1. x \o y = Append(<<s>>, t)
    BY <1>8, <2>0
  <2>2. Len(Flattened(Append(<<s>>, t))) = Len(s) + Len(t) /\ Len(s) \in Nat /\ Len(t) \in Nat
    BY <1>1, <1>4
  <2>3. Len(FlattenSeq(x \o y)) = Len(s) + Len(t)
    BY <1>0, <2>1, <2>2
  <2> QED BY <1>8, <2>2, <2>3
<1> QED BY <1>5, <1>6, <1>7, <1>8

\* One message draws no more than the profile announces.
LEMMA WarnedOf ==
  ASSUME NEW x, NEW y, NEW f, NEW g,
         NEW banner, banner \subseteq profile.on_connect,
         NEW rule, rule \subseteq RuleActions(profile),
         LoadedOk(profile)
  PROVE  LET all == Replies(banner, x) \o Replies(rule, y) IN
         /\ ~Responds(profile) => all = <<>>
         /\ ~TracksRequest(profile) => Len(FlattenSeq(all)) <= MaxResponseBytes(profile)
<1>1. ASSUME ~Responds(profile)
      PROVE  Replies(banner, x) \o Replies(rule, y) = <<>>
  <2>1. \A a \in banner \cup rule : IsSilent(a)
    BY <1>1 DEF Responds
  <2>2. Replies(banner, x) = <<>> /\ Replies(rule, y) = <<>>
    BY <2>1, SilentSaysNothing
  <2> QED BY <2>2
<1>2. ASSUME ~TracksRequest(profile)
      PROVE  Len(FlattenSeq(Replies(banner, x) \o Replies(rule, y))) <= MaxResponseBytes(profile)
  <2> DEFINE m == LongestPayload(profile.on_connect)
             n == LongestPayload(RuleActions(profile))
  <2>1. /\ m \in Nat /\ \A a \in banner : Len(a.payload) <= m
        /\ n \in Nat /\ \A a \in rule : Len(a.payload) <= n
    BY BannerBounded, RulesBounded
  <2>2. \A a \in banner \cup rule : ~a.echo /\ a.dns = {}
    BY <1>2 DEF TracksRequest
  <2>3. \A a \in banner \cup rule : Compiled(a)
    BY DEF LoadedOk, RuleActions
  <2>4. MaxResponseBytes(profile) = m + n
    BY DEF MaxResponseBytes
  <2> HIDE DEF m, n
  <2>5. \/ Replies(banner, x) = <<>>
        \/ \E s \in Seq(Byte) : Replies(banner, x) = <<s>> /\ Len(s) <= m
    BY <2>1, <2>2, <2>3, FixedSaysItsPayload
  <2>6. \/ Replies(rule, y) = <<>>
        \/ \E s \in Seq(Byte) : Replies(rule, y) = <<s>> /\ Len(s) <= n
    BY <2>1, <2>2, <2>3, FixedSaysItsPayload
  <2> QED BY <2>1, <2>4, <2>5, <2>6, RepliesCounted
<1> QED BY <1>1, <1>2

LEMMA NothingWarnedOf ==
  ASSUME LoadedOk(profile)
  PROVE  ~TracksRequest(profile) => Len(FlattenSeq(<<>>)) <= MaxResponseBytes(profile)
<1>1. Len(FlattenSeq(<<>>)) = 0
  BY FlattenedEmpty DEF FlattenSeq
<1>2. MaxResponseBytes(profile) \in Nat
  BY BannerBounded, RulesBounded DEF MaxResponseBytes
<1> QED BY <1>1, <1>2

WarningInv == LoadedOk(profile) /\ FixedRepliesAsAnnounced

\* The reply, or the banner, a step sends was announced.
LEMMA WarningStep == WarningInv /\ [AnsweringNext]_answerVars => WarningInv'
<1> SUFFICES ASSUME WarningInv, [AnsweringNext]_answerVars PROVE WarningInv'
  OBVIOUS
<1>0. LoadedOk(profile) /\ FixedRepliesAsAnnounced
  BY DEF WarningInv
<1>1. profile' = profile
  BY DEF AnsweringNext, Connect, Receive, Bounce, Hear, answerVars
<1>2. CASE Connect
  <2>1. said' = Replies(profile.on_connect, <<>>) \o Replies({}, <<>>)
    <3>1. Replies({}, <<>>) = <<>>
      BY DEF Replies
    <3>2. said' = Replies(profile.on_connect, <<>>)
      BY <1>2 DEF Connect
    <3>3. said' \o <<>> = said'
      <4>1. said' = <<>> \/ \E b : said' = <<b>>
        BY <3>2, RepliesAre
      <4> QED BY <4>1
    <3> QED BY <3>1, <3>2, <3>3
  <2>2. {} \subseteq RuleActions(profile)
    OBVIOUS
  <2> QED BY <1>0, <1>1, <2>1, <2>2, WarnedOf DEF WarningInv, FixedRepliesAsAnnounced, BytesSaid
<1>3. ASSUME NEW m, Hear(m) PROVE WarningInv'
  <2> DEFINE banner == IF proto = "udp" /\ first THEN profile.on_connect ELSE {}
             rule == Eval(profile, m.bytes, first)
  <2>1. said' = Replies(banner, m.bytes) \o Replies(rule, m.bytes)
    BY <1>3 DEF Hear
  <2>2. banner \subseteq profile.on_connect /\ rule \subseteq RuleActions(profile)
    BY EvalIsRule
  <2> HIDE DEF banner, rule
  <2> QED BY <1>0, <1>1, <2>1, <2>2, WarnedOf DEF WarningInv, FixedRepliesAsAnnounced, BytesSaid
<1>4. CASE UNCHANGED answerVars
  BY <1>0, <1>4 DEF answerVars, WarningInv, FixedRepliesAsAnnounced, BytesSaid
<1> QED BY <1>2, <1>3, <1>4 DEF AnsweringNext, Receive, Bounce

\* What a listener announces at start-up of a profile with fixed replies is
\* true: a profile that does not respond is silent, and no message draws more
\* bytes than were announced, whatever the rules match and however replies come
\* back.
THEOREM AnsweringFixedRepliesAsAnnounced == AnsweringSpec => []FixedRepliesAsAnnounced
<1>1. AnsweringInit => WarningInv
  <2> SUFFICES ASSUME AnsweringInit PROVE WarningInv
    OBVIOUS
  <2>1. LoadedOk(profile)
    BY LoadLoads, AnsweringAssumption DEF AnsweringInit
  <2>2. said = <<>>
    BY DEF AnsweringInit
  <2> QED BY <2>1, <2>2, NothingWarnedOf DEF WarningInv, FixedRepliesAsAnnounced, BytesSaid
<1>2. WarningInv => FixedRepliesAsAnnounced
  BY DEF WarningInv
<1> QED BY <1>1, <1>2, WarningStep, PTL DEF AnsweringSpec

-----------------------------------------------------------------------------
\* The walk over a name's labels.

\* One look at the message: `end` is where the rest of the name ends.
Look(msg, limit, end, at) ==
  LET p == at[1]
      labels == at[2]
      len == msg[p + 1]
  IN  IF p >= Len(msg) THEN NoEnd
      ELSE IF len = 0 THEN p + 1
      ELSE IF IsPointer(len) \/ labels > limit \/ p + 1 + len > Len(msg) THEN NoEnd
      ELSE end[<<p + 1 + len, labels + 1>>]

Walks(f, msg, limit) == f = [at \in Nat \X Nat |-> Look(msg, limit, f, at)]

LEMMA BytesAreNumbers == \A b \in Byte : b \in Nat
BY DEF Byte

\* The walk only goes on.
LEMMA LookAhead ==
  ASSUME NEW msg \in Seq(Byte), NEW limit, NEW f, NEW g, NEW p \in Nat, NEW l \in Nat,
         \A q \in Nat : q > p => f[<<q, l + 1>>] = g[<<q, l + 1>>]
  PROVE  Look(msg, limit, f, <<p, l>>) = Look(msg, limit, g, <<p, l>>)
<1> DEFINE n == Len(msg)
           b == msg[p + 1]
           q == p + 1 + b
           m == l + 1
<1>1. n \in Nat
  BY LenProperties
<1>2. CASE p >= n
  BY <1>2 DEF Look
<1>3. CASE ~(p >= n)
  <2>1. p + 1 \in 1 .. n
    BY <1>1, <1>3
  <2>2. b \in Nat
    <3> DEFINE k == p + 1
    <3>1. k \in 1 .. Len(msg)
      BY <2>1
    <3> HIDE DEF k
    <3>2. msg[k] \in Byte
      BY <3>1, ElementOfSeq
    <3>3. msg[k] \in Nat
      BY ONLY <3>2, BytesAreNumbers
    <3> QED BY <3>3 DEF k
  <2>3. q \in Nat /\ q > p
    <3> HIDE DEF b
    <3> QED BY <2>2
  <2>4. f[<<q, m>>] = g[<<q, m>>]
    <3> HIDE DEF q
    <3> QED BY <2>3
  <2>5. /\ Look(msg, limit, f, <<p, l>>) =
             IF b = 0 THEN p + 1
             ELSE IF IsPointer(b) \/ l > limit \/ q > n THEN NoEnd ELSE f[<<q, m>>]
        /\ Look(msg, limit, g, <<p, l>>) =
             IF b = 0 THEN p + 1
             ELSE IF IsPointer(b) \/ l > limit \/ q > n THEN NoEnd ELSE g[<<q, m>>]
    BY <1>3 DEF Look
  <2> HIDE DEF b, q, m, n
  <2> QED BY <2>4, <2>5
<1> QED BY <1>2, <1>3

\* A walk exists: from the end of the message backwards.
LEMMA WalkExists ==
  ASSUME NEW msg \in Seq(Byte), NEW limit
  PROVE  \E f : Walks(f, msg, limit)
<1> DEFINE n == Len(msg)
           Right(f, p, l) == f[<<p, l>>] = Look(msg, limit, f, <<p, l>>)
           T == {d \in Nat : \E f : \A p, l \in Nat : p + d >= n => Right(f, p, l)}
<1>0. n \in Nat
  BY LenProperties
<1>1. 0 \in T
  <2> DEFINE f == [at \in Nat \X Nat |-> NoEnd]
  <2>1. ASSUME NEW p \in Nat, NEW l \in Nat, p + 0 >= n PROVE Right(f, p, l)
    <3>1. Look(msg, limit, f, <<p, l>>) = NoEnd
      BY <2>1 DEF Look
    <3> QED BY <3>1
  <2> HIDE DEF f, Right
  <2> QED BY <2>1
<1>2. ASSUME NEW d \in Nat, d \in T PROVE d + 1 \in T
  <2>1. PICK f : \A p, l \in Nat : p + d >= n => Right(f, p, l)
    BY <1>2
  <2> DEFINE E(at) == Look(msg, limit, f, at)
             g == [at \in Nat \X Nat |-> E(at)]
  <2>2. \A p, l \in Nat : g[<<p, l>>] = E(<<p, l>>)
    <3> HIDE DEF E
    <3> QED OBVIOUS
  <2>3. ASSUME NEW p \in Nat, NEW l \in Nat, p + (d + 1) >= n PROVE Right(g, p, l)
    <3> HIDE DEF g
    <3>0. l + 1 \in Nat
      OBVIOUS
    <3>1. \A q \in Nat : q > p => q + d >= n
      BY <1>0, <2>3
    <3>2. \A q \in Nat : q > p => f[<<q, l + 1>>] = g[<<q, l + 1>>]
      <4>1. \A q \in Nat : q > p => Right(f, q, l + 1)
        BY <2>1, <3>0, <3>1
      <4> QED BY <2>2, <3>0, <4>1
    <3>3. Look(msg, limit, f, <<p, l>>) = Look(msg, limit, g, <<p, l>>)
      BY <3>2, LookAhead
    <3> QED BY <2>2, <3>3
  <2> HIDE DEF g, Right
  <2>4. \A p, l \in Nat : p + (d + 1) >= n => Right(g, p, l)
    BY <2>3
  <2> QED BY <2>4
<1> HIDE DEF T
<1>3. n \in T
  BY <1>0, <1>1, <1>2, EveryNumber
<1>4. PICK f : \A p, l \in Nat : Right(f, p, l)
  <2>1. PICK f : \A p, l \in Nat : p + n >= n => Right(f, p, l)
    BY <1>3 DEF T
  <2>2. \A p \in Nat : p + n >= n
    BY <1>0
  <2> HIDE DEF Right
  <2>3. \A p, l \in Nat : Right(f, p, l)
    BY <2>1, <2>2
  <2> QED BY <2>3
<1> DEFINE E(at) == Look(msg, limit, f, at)
           g == [at \in Nat \X Nat |-> E(at)]
           H(at) == Look(msg, limit, g, at)
<1>5. \A p, l \in Nat : g[<<p, l>>] = E(<<p, l>>)
  <2> HIDE DEF E
  <2> QED OBVIOUS
<1>6. \A p, l \in Nat : E(<<p, l>>) = H(<<p, l>>)
  <2>1. ASSUME NEW p \in Nat, NEW l \in Nat PROVE E(<<p, l>>) = H(<<p, l>>)
    <3> HIDE DEF g
    <3>1. l + 1 \in Nat
      OBVIOUS
    <3>2. \A q \in Nat : q > p => f[<<q, l + 1>>] = g[<<q, l + 1>>]
      BY <1>4, <1>5, <3>1
    <3> QED BY <3>2, LookAhead
  <2> HIDE DEF E, H
  <2> QED BY <2>1
<1>7. \A at \in Nat \X Nat : E(at) = H(at)
  <2> HIDE DEF E, H
  <2> QED BY <1>6
<1>8. g = [at \in Nat \X Nat |-> H(at)]
  <2>1. g = [at \in Nat \X Nat |-> E(at)]
    OBVIOUS
  <2> HIDE DEF E, H, g
  <2> QED BY <1>7, <2>1
<1> HIDE DEF g
<1>9. Walks(g, msg, limit)
  BY <1>8 DEF Walks
<1> QED BY <1>9

LEMMA NameEndWalks ==
  ASSUME NEW msg \in Seq(Byte), NEW start, NEW limit
  PROVE  \E f : Walks(f, msg, limit) /\ NameEnd(msg, start, limit) = f[<<start, 0>>]
<1> DEFINE f == CHOOSE f : Walks(f, msg, limit)
<1>1. Walks(f, msg, limit)
  <2>1. \E g : Walks(g, msg, limit)
    BY WalkExists
  <2> QED BY <2>1, Zenon
<1>2. NameEnd(msg, start, limit) = f[<<start, 0>>]
  BY Zenon DEF NameEnd, Walks, Look
<1> QED BY <1>1, <1>2

LEMMA WalkLooks ==
  ASSUME NEW msg, NEW limit, NEW f, Walks(f, msg, limit), NEW p \in Nat, NEW l \in Nat
  PROVE  f[<<p, l>>] = Look(msg, limit, f, <<p, l>>)
<1> DEFINE E(at) == Look(msg, limit, f, at)
<1>1. f = [at \in Nat \X Nat |-> E(at)]
  BY DEF Walks
<1> HIDE DEF E
<1>2. f[<<p, l>>] = E(<<p, l>>)
  BY <1>1
<1> QED BY <1>2 DEF E

\* What the walk sees at an offset.
LEMMA LookEnd ==
  ASSUME NEW msg \in Seq(Byte), NEW limit \in Nat, NEW f, Walks(f, msg, limit),
         NEW p \in Nat, NEW l \in Nat
  PROVE  /\ p >= Len(msg) => f[<<p, l>>] = NoEnd
         /\ p < Len(msg) /\ msg[p + 1] = 0 => f[<<p, l>>] = p + 1
<1>1. f[<<p, l>>] = Look(msg, limit, f, <<p, l>>)
  BY WalkLooks
<1>2. Len(msg) \in Nat
  BY LenProperties
<1> QED BY <1>1, <1>2 DEF Look

LabelAt(msg, p, b) == p < Len(msg) /\ b \in 1 .. 63 /\ msg[p + 1] = b

Passes(msg, limit, f, p, l, q) ==
  IF l > limit \/ q > Len(msg) THEN f[<<p, l>>] = NoEnd ELSE f[<<p, l>>] = f[<<q, l + 1>>]

LEMMA LookLabel ==
  ASSUME NEW msg \in Seq(Byte), NEW limit \in Nat, NEW f, Walks(f, msg, limit),
         NEW p \in Nat, NEW l \in Nat, NEW b, LabelAt(msg, p, b)
  PROVE  Passes(msg, limit, f, p, l, p + 1 + b)
<1>1. f[<<p, l>>] = Look(msg, limit, f, <<p, l>>)
  BY WalkLooks
<1>2. Len(msg) \in Nat /\ ~(p >= Len(msg)) /\ ~(b = 0) /\ ~IsPointer(b) /\ msg[p + 1] = b
  BY LenProperties DEF IsPointer, LabelAt
<1>3. Look(msg, limit, f, <<p, l>>) =
        IF IsPointer(b) \/ l > limit \/ p + 1 + b > Len(msg) THEN NoEnd
        ELSE f[<<p + 1 + b, l + 1>>]
  BY <1>2 DEF Look
<1> QED BY <1>1, <1>2, <1>3 DEF Passes

\* A name of L labels, as it is laid out: the i-th label ends at off[i].
LaidOut(off, len, L) ==
  /\ \A i \in 0 .. L : off[i] \in Nat
  /\ \A i \in 0 .. L : i + 1 <= L => len[i + 1] \in 1 .. 63 /\ off[i + 1] = off[i] + 1 + len[i + 1]

\* The message has the name's bytes, as far as it goes.
Carries(msg, off, len, L) ==
  /\ \A i \in 0 .. L : i + 1 <= L /\ off[i] < Len(msg) => msg[off[i] + 1] = len[i + 1]
  /\ off[L] < Len(msg) => msg[off[L] + 1] = 0

LEMMA LaidOutInOrder ==
  ASSUME NEW L \in Nat, NEW off, NEW len, LaidOut(off, len, L)
  PROVE  \A i \in 0 .. L : off[i] <= off[L]
<1> DEFINE T == {k \in Nat : k <= L => off[L - k] <= off[L]}
<1>1. 0 \in T
  <2>1. L - 0 = L /\ off[L] \in Nat
    BY DEF LaidOut
  <2> QED BY <2>1
<1>2. ASSUME NEW k \in Nat, k \in T PROVE k + 1 \in T
  <2>1. SUFFICES ASSUME k + 1 <= L PROVE off[L - (k + 1)] <= off[L]
    OBVIOUS
  <2> DEFINE i == L - (k + 1)
             j == i + 1
  <2>2. i \in 0 .. L /\ j <= L /\ j \in 0 .. L /\ j = L - k
    BY <2>1
  <2>3. k <= L
    BY <2>1
  <2>4. off[j] <= off[L]
    BY <1>2, <2>2, <2>3
  <2> HIDE DEF i
  <2>5. len[j] \in 1 .. 63 /\ off[j] = off[i] + 1 + len[j] /\ off[i] \in Nat /\ off[L] \in Nat
    BY <2>2 DEF LaidOut
  <2> HIDE DEF j
  <2>6. off[i] <= off[L]
    BY <2>4, <2>5
  <2> QED BY <2>6 DEF i
<1> HIDE DEF T
<1>3. \A k \in Nat : k \in T
  BY <1>1, <1>2, EveryNumber
<1>4. ASSUME NEW i \in 0 .. L PROVE off[i] <= off[L]
  <2> DEFINE k == L - i
  <2>1. k \in Nat /\ k <= L /\ L - k = i
    OBVIOUS
  <2> HIDE DEF k
  <2>2. k \in T
    BY <1>3, <2>1
  <2> QED BY <2>1, <2>2 DEF T
<1> QED BY <1>4

\* The walk ends behind a name that is all there and has not too many labels,
\* and gives up on any other.
LEMMA NameFound ==
  ASSUME NEW msg \in Seq(Byte), NEW limit \in Nat, NEW L \in Nat, NEW off, NEW len,
         LaidOut(off, len, L), Carries(msg, off, len, L)
  PROVE  NameEnd(msg, off[0], limit) =
           IF off[L] + 1 <= Len(msg) /\ L <= limit + 1 THEN off[L] + 1 ELSE NoEnd
<1> DEFINE n == Len(msg)
<1>0. n \in Nat /\ L \in 0 .. L /\ 0 \in 0 .. L /\ off[L] \in Nat /\ off[0] \in Nat
  BY LenProperties DEF LaidOut
<1>1. PICK f : Walks(f, msg, limit) /\ NameEnd(msg, off[0], limit) = f[<<off[0], 0>>]
  BY NameEndWalks
<1> DEFINE e == f[<<off[0], 0>>]
\* One label.
<1>2. ASSUME NEW i \in 0 .. L, i + 1 <= L, off[i] < n
      PROVE  f[<<off[i], i>>] = IF i > limit \/ off[i + 1] > n THEN NoEnd ELSE f[<<off[i + 1], i + 1>>]
  <2> DEFINE p == off[i]
             b == len[i + 1]
  <2>1. p \in Nat /\ b \in 1 .. 63 /\ off[i + 1] = p + 1 + b /\ msg[p + 1] = b /\ i \in Nat /\ p < Len(msg)
    BY <1>2 DEF LaidOut, Carries
  <2> HIDE DEF p, b
  <2>2. Passes(msg, limit, f, p, i, p + 1 + b)
    <3>1. /\ msg \in Seq(Byte) /\ limit \in Nat /\ Walks(f, msg, limit) /\ p \in Nat /\ i \in Nat
          /\ LabelAt(msg, p, b)
      BY <1>1, <2>1 DEF LabelAt
    <3> QED BY ONLY <3>1, LookLabel, ZenonT(30)
  <2> QED BY <2>1, <2>2 DEF p, Passes
<1>3. ASSUME off[L] + 1 <= n, L <= limit + 1
      PROVE  e = off[L] + 1
  <2> DEFINE T == {i \in Nat : i <= L => e = f[<<off[i], i>>]}
  <2>1. 0 \in T
    OBVIOUS
  <2>2. ASSUME NEW i \in Nat, i \in T PROVE i + 1 \in T
    <3>1. SUFFICES ASSUME i + 1 <= L PROVE e = f[<<off[i + 1], i + 1>>]
      OBVIOUS
    <3> DEFINE j == i + 1
    <3>2. i \in 0 .. L /\ j \in 0 .. L /\ i <= L
      BY <3>1
    <3>3. e = f[<<off[i], i>>]
      BY <2>2, <3>2
    <3>4. /\ off[i] \in Nat /\ off[j] \in Nat
          /\ off[i] <= off[L] /\ off[j] <= off[L]
      BY <3>2, LaidOutInOrder DEF LaidOut
    <3>5. off[i] < n /\ ~(off[j] > n)
      BY <1>0, <1>3, <3>4
    <3>6. ~(i > limit)
      BY <1>3, <3>1
    <3> HIDE DEF e, n
    <3> QED BY <1>2, <3>1, <3>2, <3>3, <3>5, <3>6
  <2> HIDE DEF T
  <2>3. L \in T
    BY <2>1, <2>2, EveryNumber
  <2>4. e = f[<<off[L], L>>]
    BY <2>3 DEF T
  <2>5. off[L] < n /\ msg[off[L] + 1] = 0
    BY <1>0, <1>3 DEF Carries
  <2> HIDE DEF e
  <2> QED BY <1>0, <1>1, <2>4, <2>5, LookEnd
<1>4. ASSUME e # NoEnd
      PROVE  off[L] + 1 <= n /\ L <= limit + 1
  <2> DEFINE T == {i \in Nat : i <= L => e = f[<<off[i], i>>] /\ i <= limit + 1}
  <2>1. 0 \in T
    OBVIOUS
  <2>2. ASSUME NEW i \in Nat, i \in T PROVE i + 1 \in T
    <3>1. SUFFICES ASSUME i + 1 <= L PROVE e = f[<<off[i + 1], i + 1>>] /\ i + 1 <= limit + 1
      OBVIOUS
    <3>2. i \in 0 .. L /\ i <= L
      BY <3>1
    <3>3. e = f[<<off[i], i>>] /\ off[i] \in Nat
      BY <2>2, <3>2 DEF LaidOut
    <3> HIDE DEF e
    <3>4. off[i] < n
      <4>1. ~(off[i] >= n)
        BY <1>1, <1>4, <3>2, <3>3, LookEnd
      <4> QED BY <1>0, <3>3, <4>1
    <3>5. f[<<off[i], i>>] = IF i > limit \/ off[i + 1] > n THEN NoEnd ELSE f[<<off[i + 1], i + 1>>]
      BY <1>2, <3>1, <3>2, <3>4
    <3>6. ~(i > limit) /\ e = f[<<off[i + 1], i + 1>>]
      BY <1>4, <3>3, <3>5
    <3> QED BY <3>6
  <2> HIDE DEF T
  <2>3. L \in T
    BY <2>1, <2>2, EveryNumber
  <2>4. e = f[<<off[L], L>>] /\ L <= limit + 1
    BY <2>3 DEF T
  <2> HIDE DEF e
  <2>5. ~(off[L] >= n)
    BY <1>0, <1>1, <1>4, <2>4, LookEnd
  <2> QED BY <1>0, <2>4, <2>5
<1> QED BY <1>1, <1>3, <1>4

-----------------------------------------------------------------------------
\* How a name is laid out.

LabelBytes(l) == <<Len(l)>> \o l

LEMMA LabelBytesAre ==
  ASSUME NEW l \in Label
  PROVE  /\ LabelBytes(l) \in Seq(Byte) /\ Len(l) \in 1 .. 63
         /\ Len(LabelBytes(l)) = 1 + Len(l) /\ LabelBytes(l)[1] = Len(l)
<1> DEFINE b == Len(l)
<1>1. l \in Seq(Byte) /\ b \in 1 .. 63
  BY DEF Label
<1>2. b \in Byte
  BY <1>1 DEF Byte
<1> HIDE DEF b
<1>3. <<b>> \in Seq(Byte) /\ Len(<<b>>) = 1 /\ <<b>>[1] = b
  BY <1>2
<1>4. /\ <<b>> \o l \in Seq(Byte) /\ Len(<<b>> \o l) = 1 + b
      /\ \A i \in 1 .. 1 + b : (<<b>> \o l)[i] = IF i <= 1 THEN <<b>>[i] ELSE l[i - 1]
  BY <1>1, <1>3, ConcatProperties DEF b
<1>5. 1 \in 1 .. 1 + b /\ 1 <= 1
  BY <1>1
<1>6. (<<b>> \o l)[1] = b
  <2> DEFINE x == <<b>>
  <2>1. x[1] = b
    OBVIOUS
  <2>2. \A i \in 1 .. 1 + b : (x \o l)[i] = IF i <= 1 THEN x[i] ELSE l[i - 1]
    BY <1>4
  <2> HIDE DEF x
  <2>3. (x \o l)[1] = x[1]
    BY <1>5, <2>2
  <2> QED BY <2>1, <2>3 DEF x
<1>7. LabelBytes(l) = <<b>> \o l
  BY DEF LabelBytes, b
<1>8. b \in 1 .. 63
  BY <1>1 DEF b
<1> QED BY <1>4, <1>6, <1>7, <1>8 DEF b

\* The first m labels, joined, are laid out.
LEMMA LabelsJoined ==
  ASSUME NEW labels \in Seq(Label), NEW ss \in Seq(Seq(Byte)), Len(ss) = Len(labels),
         \A i \in 1 .. Len(labels) : ss[i] = LabelBytes(labels[i]),
         NEW F, Joins(F, ss, Len(ss)), NEW off, off[0] = 0,
         \A i \in 1 .. Len(labels) : off[i] = Len(F[i])
  PROVE  /\ \A i \in 0 .. Len(labels) : i + 1 <= Len(labels) =>
              /\ off[i] \in Nat /\ off[i + 1] = off[i] + 1 + Len(labels[i + 1])
         /\ \A i \in 0 .. Len(labels) : i + 1 <= Len(labels) =>
              \A m \in 1 .. Len(labels) : i + 1 <= m =>
                off[i] + 1 <= Len(F[m]) /\ F[m][off[i] + 1] = Len(labels[i + 1])
         /\ \A m \in 1 .. Len(labels) : Len(F[m]) <= 64 * m
<1> DEFINE n == Len(labels)
           b(i) == Len(labels[i])
<1>1. n \in Nat /\ Len(ss) = n
  BY LenProperties
<1>2. \A i \in 1 .. n : labels[i] \in Label
  BY ElementOfSeq
<1>3. \A i \in 1 .. n : ss[i] \in Seq(Byte) /\ b(i) \in 1 .. 63 /\ Len(ss[i]) = 1 + b(i) /\ ss[i][1] = b(i)
  BY <1>2, LabelBytesAre
<1>4. \A i \in 1 .. n : F[i] \in Seq(Byte) /\ Len(F[i]) \in Nat /\ off[i] = Len(F[i])
  BY JoinsTypes, LenProperties
<1>5. 1 \in 1 .. n => F[1] = ss[1]
  BY <1>1, JoinsFirst
<1>6. ASSUME NEW m \in 1 .. n, m + 1 \in 1 .. n
      PROVE  /\ F[m + 1] = F[m] \o ss[m + 1]
             /\ Len(F[m + 1]) = Len(F[m]) + 1 + b(m + 1)
             /\ \A k \in 1 .. Len(F[m]) : F[m + 1][k] = F[m][k]
             /\ F[m + 1][Len(F[m]) + 1] = b(m + 1)
  <2> DEFINE t == ss[m + 1]
             x == F[m]
             p == Len(x)
             q == b(m + 1)
  <2>1. F[m + 1] = x \o t
    <3>1. n \in Nat /\ Joins(F, ss, n) /\ m \in 1 .. n /\ m + 1 \in 1 .. n
      BY <1>1, <1>6
    <3> HIDE DEF n
    <3> QED BY ONLY <3>1, JoinsNext, ZenonT(30)
  <2>2. x \in Seq(Byte) /\ t \in Seq(Byte) /\ p \in Nat /\ q \in 1 .. 63 /\ Len(t) = 1 + q /\ t[1] = q
    BY <1>3, <1>4, <1>6
  <2> HIDE DEF t, x, q
  <2>3. /\ Len(x \o t) = p + Len(t)
        /\ \A i \in 1 .. p + Len(t) : (x \o t)[i] = IF i <= p THEN x[i] ELSE t[i - p]
    BY <2>2, ConcatProperties
  <2> HIDE DEF p
  <2> DEFINE k == p + 1
  <2>4. k \in 1 .. p + Len(t) /\ ~(k <= p) /\ k - p = 1
    BY <2>2
  <2> HIDE DEF k
  <2>5. (x \o t)[k] = q
    BY <2>2, <2>3, <2>4
  <2>6. \A j \in 1 .. p : (x \o t)[j] = x[j]
    <3>1. \A j \in 1 .. p : j \in 1 .. p + Len(t) /\ j <= p
      BY <2>2
    <3> QED BY <2>3, <3>1
  <2>7. Len(x \o t) = p + 1 + q
    BY <2>2, <2>3
  <2> QED BY <2>1, <2>5, <2>6, <2>7 DEF x, p, q, t, k
\* The offsets.
<1>7. ASSUME NEW i \in 0 .. n, i + 1 <= n
      PROVE  off[i] \in Nat /\ off[i + 1] = off[i] + 1 + b(i + 1)
  <2> HIDE DEF b
  <2>1. CASE i = 0
    <3>1. 1 \in 1 .. n
      BY <1>7, <2>1
    <3>2. off[1] = Len(ss[1]) /\ Len(ss[1]) = 1 + b(1) /\ b(1) \in 1 .. 63
      BY <1>3, <1>4, <1>5, <3>1
    <3>3. off[0] = 0 /\ 0 + 1 = 1
      OBVIOUS
    <3> QED BY <2>1, <3>2, <3>3
  <2>2. CASE i # 0
    <3>1. i \in 1 .. n /\ i + 1 \in 1 .. n
      BY <1>7, <2>2
    <3> QED BY <1>4, <1>6, <3>1
  <2> QED BY <2>1, <2>2
\* The bytes.
<1> DEFINE Holds(m) == /\ \A i \in 0 .. n : i + 1 <= m =>
                            off[i] + 1 <= Len(F[m]) /\ F[m][off[i] + 1] = b(i + 1)
                       /\ Len(F[m]) <= 64 * m
           T == {k \in Nat : k + 1 <= n => Holds(k + 1)}
<1> HIDE DEF b
<1>8. 0 \in T
  <2> SUFFICES ASSUME 0 + 1 <= n PROVE Holds(0 + 1)
    OBVIOUS
  <2>1. 1 \in 1 .. n
    BY <1>1
  <2>2. F[1] = ss[1] /\ b(1) \in 1 .. 63 /\ Len(ss[1]) = 1 + b(1) /\ ss[1][1] = b(1)
    BY <1>3, <1>5, <2>1
  <2>3. \A i \in 0 .. n : i + 1 <= 1 => i = 0 /\ off[i] = 0 /\ off[i] + 1 = 1 /\ i + 1 = 1
    OBVIOUS
  <2>4. 1 <= Len(F[1]) /\ F[1][1] = b(1) /\ Len(F[1]) <= 64 * 1
    <3> DEFINE c == Len(ss[1])
               e == b(1)
    <3>1. c = 1 + e /\ e \in 1 .. 63 /\ Len(F[1]) = c /\ F[1][1] = e
      BY <2>2
    <3> HIDE DEF c, e
    <3>2. 1 <= c /\ c <= 64 * 1
      BY <3>1
    <3> QED BY <3>1, <3>2 DEF e
  <2>5. \A i \in 0 .. n : i + 1 <= 1 => off[i] + 1 <= Len(F[1]) /\ F[1][off[i] + 1] = b(i + 1)
    BY <2>3, <2>4
  <2>6. Holds(1)
    BY <2>4, <2>5
  <2> QED BY <2>6
<1>9. ASSUME NEW k \in Nat, k \in T PROVE k + 1 \in T
  <2> DEFINE m == k + 1
             r == m + 1
  <2> SUFFICES ASSUME r <= n PROVE Holds(r)
    OBVIOUS
  <2>1. m \in 1 .. n /\ r \in 1 .. n /\ m \in 0 .. n /\ m <= n /\ r = m + 1
    BY <1>1
  <2>2. Holds(m)
    BY <1>9, <2>1
  <2> HIDE DEF m, r
  <2> DEFINE c == Len(F[m])
             d == Len(F[r])
             e == b(r)
  <2>3. /\ d = c + 1 + e
        /\ \A j \in 1 .. c : F[r][j] = F[m][j]
        /\ F[r][c + 1] = e
    BY <1>6, <2>1
  <2>4. c \in Nat /\ off[m] = c /\ e \in 1 .. 63
    BY <1>3, <1>4, <2>1
  <2>5. /\ \A i \in 0 .. n : i + 1 <= m => off[i] + 1 <= c /\ F[m][off[i] + 1] = b(i + 1)
        /\ c <= 64 * m
    BY <2>2
  <2> HIDE DEF c, d, e, Holds
  <2>6. d <= 64 * r
    BY <2>1, <2>3, <2>4, <2>5
  <2>7. ASSUME NEW i \in 0 .. n, i + 1 <= r
        PROVE  off[i] + 1 <= d /\ F[r][off[i] + 1] = b(i + 1)
    <3>1. CASE i = m
      <4>1. b(i + 1) = e
        BY <2>1, <3>1 DEF e
      <4>2. off[i] + 1 = c + 1 /\ c + 1 <= d
        BY <2>3, <2>4, <3>1
      <4> QED BY <2>3, <4>1, <4>2
    <3>2. CASE i # m
      <4>1. i + 1 <= m /\ i + 1 <= n
        BY <2>1, <2>7, <3>2
      <4>2. off[i] + 1 <= c /\ F[m][off[i] + 1] = b(i + 1) /\ off[i] \in Nat
        BY <1>7, <2>5, <4>1
      <4> DEFINE j == off[i] + 1
      <4>3. j \in 1 .. c /\ j <= d
        BY <2>3, <2>4, <4>2
      <4> HIDE DEF j
      <4>4. F[r][j] = F[m][j]
        BY <2>3, <4>3
      <4> QED BY <4>2, <4>3, <4>4 DEF j
    <3> QED BY <3>1, <3>2
  <2>8. Holds(r)
    BY <2>6, <2>7 DEF Holds, d
  <2> QED BY <2>8
<1> HIDE DEF T, Holds
<1>10. \A k \in Nat : k \in T
  BY <1>8, <1>9, EveryNumber
<1>11. \A m \in 1 .. n : Holds(m)
  <2>1. ASSUME NEW m \in 1 .. n PROVE Holds(m)
    <3> DEFINE k == m - 1
    <3>1. k \in Nat /\ k + 1 = m /\ k + 1 <= n
      OBVIOUS
    <3> HIDE DEF k
    <3>2. k \in T
      BY <1>10, <3>1
    <3> QED BY <3>1, <3>2 DEF T
  <2> QED BY <2>1
<1> QED BY <1>7, <1>11 DEF Holds, b, n

LEMMA LabelBytesSpell ==
  ASSUME NEW l \in Label, NEW j \in 1 .. Len(l)
  PROVE  LabelBytes(l)[1 + j] = l[j]
<1> DEFINE b == Len(l)
           x == <<b>>
           k == 1 + j
<1>1. l \in Seq(Byte) /\ b \in 1 .. 63
  BY DEF Label
<1>2. x \in Seq(Byte) /\ Len(x) = 1
  BY <1>1 DEF Byte
<1>3. \A i \in 1 .. 1 + b : (x \o l)[i] = IF i <= 1 THEN x[i] ELSE l[i - 1]
  BY <1>1, <1>2, ConcatProperties DEF b
<1>4. k \in 1 .. 1 + b /\ ~(k <= 1) /\ k - 1 = j
  BY <1>1
<1> HIDE DEF x, k
<1>5. (x \o l)[k] = l[j]
  BY <1>3, <1>4
<1> QED BY <1>5 DEF LabelBytes, x, k, b

\* The bytes r have those of a label behind an offset p.
Spelt(r, p, l) == \A j \in 1 .. Len(l) : p + 1 + j <= Len(r) /\ r[p + 1 + j] = l[j]

\* What a label spells stays where it is when another one follows.
LEMMA SpeltStill ==
  ASSUME NEW r \in Seq(Byte), NEW t \in Seq(Byte), NEW p \in Nat, NEW l, Spelt(r, p, l)
  PROVE  Spelt(r \o t, p, l)
<1> DEFINE n == Len(r)
           c == Len(t)
           s == r \o t
<1>1. n \in Nat /\ c \in Nat /\ Len(s) = n + c /\ \A i \in 1 .. n + c : s[i] = IF i <= n THEN r[i] ELSE t[i - n]
  BY ConcatProperties, LenProperties
<1> HIDE DEF s
<1>2. ASSUME NEW j \in 1 .. Len(l) PROVE p + 1 + j <= Len(s) /\ s[p + 1 + j] = l[j]
  <2> DEFINE k == p + 1 + j
  <2>1. k \in Nat /\ k >= 1 /\ k <= n /\ r[k] = l[j]
    <3>1. k <= n /\ r[k] = l[j]
      BY <1>2 DEF Spelt
    <3>2. k \in Nat /\ k >= 1
      OBVIOUS
    <3> QED BY <3>1, <3>2
  <2> HIDE DEF k, n, c
  <2>2. k <= n + c /\ s[k] = r[k]
    BY <1>1, <2>1
  <2> QED BY <1>1, <2>1, <2>2 DEF k
<1> QED BY <1>2 DEF Spelt, s

\* A label that is joined to what is there is spelt behind it.
LEMMA SpeltNext ==
  ASSUME NEW r \in Seq(Byte), NEW l \in Label
  PROVE  Spelt(r \o LabelBytes(l), Len(r), l)
<1> DEFINE n == Len(r)
           t == LabelBytes(l)
           c == Len(l)
           s == r \o t
<1>1. n \in Nat /\ t \in Seq(Byte) /\ Len(t) = 1 + c /\ c \in 1 .. 63
  BY LabelBytesAre, LenProperties
<1>2. Len(s) = n + Len(t) /\ \A i \in 1 .. n + Len(t) : s[i] = IF i <= n THEN r[i] ELSE t[i - n]
  <2>1. r \in Seq(Byte) /\ t \in Seq(Byte)
    BY <1>1
  <2> HIDE DEF t
  <2> QED BY ONLY <2>1, ConcatProperties, ZenonT(30)
<1>3. \A j \in 1 .. c : t[1 + j] = l[j]
  BY LabelBytesSpell
<1> HIDE DEF s, t, n, c
<1>4. ASSUME NEW j \in 1 .. c PROVE n + 1 + j <= Len(s) /\ s[n + 1 + j] = l[j]
  <2> DEFINE k == n + 1 + j
  <2>1. k \in 1 .. n + Len(t) /\ ~(k <= n) /\ k - n = 1 + j
    BY <1>1
  <2> HIDE DEF k
  <2>2. k <= Len(s)
    BY <1>1, <1>2, <2>1
  <2>3. s[k] = t[1 + j]
    <3>1. s[k] = t[k - n]
      BY <1>2, <2>1
    <3> QED BY <2>1, <3>1
  <2> QED BY <1>3, <2>2, <2>3 DEF k
<1> QED BY <1>4 DEF Spelt, s, t, n, c

\* Each of the first m labels, joined, is spelt behind its length.
LEMMA LabelsSpelt ==
  ASSUME NEW labels \in Seq(Label), NEW ss \in Seq(Seq(Byte)), Len(ss) = Len(labels),
         \A i \in 1 .. Len(labels) : ss[i] = LabelBytes(labels[i]),
         NEW F, Joins(F, ss, Len(ss)), NEW off, off[0] = 0,
         \A i \in 1 .. Len(labels) : off[i] = Len(F[i])
  PROVE  \A m \in 1 .. Len(labels) : \A i \in 0 .. Len(labels) :
           i + 1 <= m => Spelt(F[m], off[i], labels[i + 1])
<1> DEFINE n == Len(labels)
           Holds(m) == \A i \in 0 .. n : i + 1 <= m => Spelt(F[m], off[i], labels[i + 1])
           T == {k \in Nat : k + 1 <= n => Holds(k + 1)}
<1>1. n \in Nat /\ Len(ss) = n
  BY LenProperties
<1>2. \A i \in 1 .. n : labels[i] \in Label
  BY ElementOfSeq
<1>3. \A i \in 1 .. n : ss[i] \in Seq(Byte) /\ ss[i] = LabelBytes(labels[i])
  BY <1>2, LabelBytesAre
<1>4. \A i \in 1 .. n : F[i] \in Seq(Byte) /\ Len(F[i]) \in Nat /\ off[i] = Len(F[i])
  BY JoinsTypes, LenProperties
<1>5. \A i \in 0 .. n : off[i] \in Nat
  <2>1. \A i \in 0 .. n : i = 0 \/ i \in 1 .. n
    BY <1>1
  <2> QED BY <1>4, <2>1
<1> HIDE DEF n
<1>6. 0 \in T
  <2>1. SUFFICES ASSUME 1 <= n PROVE Holds(1)
    BY DEF T
  <2>2. 1 \in 1 .. n /\ \A i \in 0 .. n : i + 1 <= 1 => i = 0
    BY <1>1, <2>1
  <2>3. F[1] = LabelBytes(labels[1]) /\ labels[1] \in Label
    BY <1>1, <1>2, <1>3, <2>2, JoinsFirst
  <2> DEFINE x == LabelBytes(labels[1])
  <2>4. x \in Seq(Byte)
    BY <2>3, LabelBytesAre
  <2>5. <<>> \in Seq(Byte) /\ Len(<<>>) = 0
    OBVIOUS
  <2>6. <<>> \o x = x
    BY <2>4
  <2>7. Spelt(<<>> \o x, Len(<<>>), labels[1])
    BY <2>3, <2>5, SpeltNext
  <2>8. Spelt(F[1], off[0], labels[0 + 1])
    BY <2>3, <2>5, <2>6, <2>7
  <2> QED BY <2>2, <2>8
<1>7. ASSUME NEW k \in Nat, k \in T PROVE k + 1 \in T
  <2> DEFINE m == k + 1
  <2>1. SUFFICES ASSUME m + 1 <= n PROVE Holds(m + 1)
    BY DEF T
  <2>2. m \in 1 .. n /\ m + 1 \in 1 .. n /\ m <= n /\ m \in 0 .. n
    BY <1>1, <2>1
  <2>3. Holds(m)
    BY <1>7, <2>2 DEF T
  <2> HIDE DEF m
  <2>4. F[m + 1] = F[m] \o LabelBytes(labels[m + 1])
    <3>1. F[m + 1] = F[m] \o ss[m + 1]
      <4>1. n \in Nat /\ Joins(F, ss, n) /\ m \in 1 .. n /\ m + 1 \in 1 .. n
        BY <1>1, <2>2 DEF n
      <4> QED BY ONLY <4>1, JoinsNext, ZenonT(30)
    <3> QED BY <1>3, <2>2, <3>1
  <2>5. F[m] \in Seq(Byte) /\ labels[m + 1] \in Label /\ off[m] = Len(F[m])
    BY <1>2, <1>4, <2>2
  <2>6. ASSUME NEW i \in 0 .. n, i + 1 <= m + 1 PROVE Spelt(F[m + 1], off[i], labels[i + 1])
    <3>1. CASE i = m
      BY <2>4, <2>5, <3>1, SpeltNext
    <3>2. CASE i # m
      <4>1. i + 1 <= m
        BY <1>1, <2>2, <2>6, <3>2
      <4>2. Spelt(F[m], off[i], labels[i + 1]) /\ off[i] \in Nat
        BY <1>5, <2>3, <4>1
      <4>3. LabelBytes(labels[m + 1]) \in Seq(Byte)
        BY <2>5, LabelBytesAre
      <4> QED BY <2>4, <2>5, <4>2, <4>3, SpeltStill
    <3> QED BY <3>1, <3>2
  <2> QED BY <2>6 DEF m
<1> HIDE DEF T, Holds
<1>8. \A k \in Nat : k \in T
  BY <1>6, <1>7, EveryNumber
<1>9. ASSUME NEW m \in 1 .. n PROVE Holds(m)
  <2> DEFINE k == m - 1
  <2>1. k \in Nat /\ k + 1 = m /\ k + 1 <= n
    BY <1>1
  <2> HIDE DEF k
  <2>2. k \in T
    BY <1>8, <2>1
  <2> QED BY <2>1, <2>2 DEF T
<1> QED BY <1>9 DEF Holds, n

\* A name, laid out from its first byte on.
LayoutOf(labels, off, len) ==
  LET n == Len(labels) IN
  /\ off[0] = 0 /\ LaidOut(off, len, n) /\ Carries(Name(labels), off, len, n)
  /\ Len(Name(labels)) = off[n] + 1
  /\ off[n] <= 64 * n
  /\ \A i \in 0 .. n : i + 1 <= n =>
       len[i + 1] = Len(labels[i + 1]) /\ Spelt(Name(labels), off[i], labels[i + 1])

LEMMA NameLayout ==
  ASSUME NEW labels \in Seq(Label)
  PROVE  Name(labels) \in Seq(Byte) /\ \E off, len : LayoutOf(labels, off, len)
<1> DEFINE n == Len(labels)
           E(i) == LabelBytes(labels[i])
           ss == [i \in 1 .. n |-> E(i)]
           joined == Flattened(ss)
           name == joined \o <<0>>
<1>1. n \in Nat /\ DOMAIN labels = 1 .. n
  BY LenProperties
<1>2. \A i \in 1 .. n : labels[i] \in Label
  BY <1>1, ElementOfSeq
<1>3. \A i \in 1 .. n : E(i) \in Seq(Byte) /\ Len(labels[i]) \in 1 .. 63
  BY <1>2, LabelBytesAre
<1>4. ss \in Seq(Seq(Byte)) /\ Len(ss) = n /\ \A i \in 1 .. n : ss[i] = E(i)
  <2> HIDE DEF E, n
  <2> QED BY <1>1, <1>3
<1>5. Name(labels) = name
  <2>1. [i \in DOMAIN labels |-> <<Len(labels[i])>> \o labels[i]] = ss
    BY <1>1 DEF LabelBytes
  <2>2. Name(labels) = FlattenSeq(ss) \o <<0>>
    BY <2>1 DEF Name
  <2>3. FlattenSeq(ss) = Flattened(ss)
    BY DEF FlattenSeq, Flattened
  <2> QED BY <2>2, <2>3
<1> HIDE DEF E, ss
<1>6. joined \in Seq(Byte) /\ Len(joined) \in Nat
  BY <1>4, FlattenedType, LenProperties
<1> DEFINE k == Len(joined)
<1>7. /\ name \in Seq(Byte) /\ Len(name) = k + 1
      /\ \A i \in 1 .. k : name[i] = joined[i]
      /\ name[k + 1] = 0
  <2>1. 0 \in Byte
    BY DEF Byte
  <2> HIDE DEF joined
  <2>2. name = Append(joined, 0)
    BY <1>6, <2>1, AppendIsConcat
  <2> HIDE DEF name
  <2> QED BY <1>6, <2>1, <2>2, AppendProperties
<1> HIDE DEF name
<1>8. CASE n = 0
  <2> DEFINE off == [i \in 0 .. n |-> 0]
             len == [i \in 1 .. n |-> 0]
  <2>1. ss = <<>>
    BY <1>4, <1>8, EmptySeq
  <2>2. k = 0
    BY <2>1, FlattenedEmpty
  <2>3. off[0] = 0 /\ 0 \in 0 .. n /\ \A i \in 0 .. n : i = 0 /\ off[i] = 0 /\ ~(i + 1 <= n)
    BY <1>1, <1>8
  <2> HIDE DEF off, len, joined
  <2>4. LaidOut(off, len, n)
    BY <2>3 DEF LaidOut
  <2>5. off[n] = 0
    BY <1>8, <2>3
  <2>6. name[0 + 1] = 0 /\ Len(name) = 1
    BY <1>7, <2>2
  <2>7. Carries(name, off, len, n)
    BY <2>3, <2>5, <2>6 DEF Carries
  <2>8. LayoutOf(labels, off, len)
    BY <1>5, <1>8, <2>3, <2>4, <2>5, <2>6, <2>7 DEF LayoutOf
  <2> QED BY <1>5, <1>7, <2>8
<1>9. CASE n # 0
  <2>1. PICK F : Joins(F, ss, n) /\ joined = F[n]
    <3>1. ss # <<>>
      BY <1>1, <1>4, <1>9
    <3> QED BY <1>4, <3>1, FlattenedIsLast
  <2> DEFINE off == [i \in 0 .. n |-> IF i = 0 THEN 0 ELSE Len(F[i])]
             len == [i \in 1 .. n |-> Len(labels[i])]
  <2>2. /\ off[0] = 0 /\ \A i \in 1 .. n : off[i] = Len(F[i]) /\ len[i] = Len(labels[i])
        /\ n \in 1 .. n /\ n \in 0 .. n
    BY <1>1, <1>9
  <2> HIDE DEF off, len, joined
  <2>3. /\ \A i \in 0 .. n : i + 1 <= n =>
             /\ off[i] \in Nat /\ off[i + 1] = off[i] + 1 + Len(labels[i + 1])
        /\ \A i \in 0 .. n : i + 1 <= n =>
             \A m \in 1 .. n : i + 1 <= m =>
               off[i] + 1 <= Len(F[m]) /\ F[m][off[i] + 1] = Len(labels[i + 1])
        /\ \A m \in 1 .. n : Len(F[m]) <= 64 * m
    <3>1. /\ ss \in Seq(Seq(Byte)) /\ Len(ss) = n /\ Joins(F, ss, Len(ss)) /\ off[0] = 0
          /\ \A i \in 1 .. n : ss[i] = LabelBytes(labels[i]) /\ off[i] = Len(F[i])
      BY <1>4, <2>1, <2>2 DEF E
    <3> QED BY <3>1, LabelsJoined
  <2>s. \A m \in 1 .. n : \A i \in 0 .. n : i + 1 <= m => Spelt(F[m], off[i], labels[i + 1])
    <3>1. /\ ss \in Seq(Seq(Byte)) /\ Len(ss) = n /\ Joins(F, ss, Len(ss)) /\ off[0] = 0
          /\ \A i \in 1 .. n : ss[i] = LabelBytes(labels[i]) /\ off[i] = Len(F[i])
      BY <1>4, <2>1, <2>2 DEF E
    <3> QED BY <3>1, LabelsSpelt
  <2>4. off[n] = k /\ k <= 64 * n
    BY <2>1, <2>2, <2>3
  <2>5. \A i \in 0 .. n : i + 1 <= n =>
          /\ off[i] + 1 \in 1 .. k /\ joined[off[i] + 1] = Len(labels[i + 1]) /\ len[i + 1] = Len(labels[i + 1])
    <3>1. \A i \in 0 .. n : i + 1 <= n => i + 1 \in 1 .. n
      BY <1>1
    <3>2. \A i \in 0 .. n : i + 1 <= n =>
            /\ off[i] \in Nat /\ off[i] + 1 <= k /\ joined[off[i] + 1] = Len(labels[i + 1])
      BY <2>1, <2>2, <2>3
    <3> HIDE DEF k, n
    <3>3. \A i \in 0 .. n : i + 1 <= n => off[i] + 1 \in 1 .. k
      BY <1>6, <3>2 DEF k
    <3> QED BY <2>2, <3>1, <3>2, <3>3
  <2>6. LaidOut(off, len, n)
    <3>1. \A i \in 0 .. n : i + 1 <= n => i + 1 \in 1 .. n
      BY <1>1
    <3>2. \A i \in 0 .. n : i + 1 <= n =>
            len[i + 1] \in 1 .. 63 /\ off[i + 1] = off[i] + 1 + len[i + 1]
      BY <1>3, <2>2, <2>3, <3>1
    <3>3. \A i \in 0 .. n : off[i] \in Nat
      BY <1>1, <1>6, <2>3, <2>4
    <3> QED BY <3>2, <3>3 DEF LaidOut
  <2>7. Carries(name, off, len, n)
    <3>1. \A i \in 0 .. n : i + 1 <= n => name[off[i] + 1] = len[i + 1]
      BY <1>7, <2>5
    <3>2. name[off[n] + 1] = 0
      BY <1>7, <2>4
    <3> QED BY <3>1, <3>2 DEF Carries
  <2>8. Len(name) = off[n] + 1
    BY <1>7, <2>4
  <2>9. LayoutOf(labels, off, len)
    <3>1. \A i \in 0 .. n : i + 1 <= n =>
            len[i + 1] = Len(labels[i + 1]) /\ Spelt(name, off[i], labels[i + 1])
      <4>1. ASSUME NEW i \in 0 .. n, i + 1 <= n
            PROVE  len[i + 1] = Len(labels[i + 1]) /\ Spelt(name, off[i], labels[i + 1])
        <5>1. i + 1 \in 1 .. n /\ n \in 1 .. n
          BY <1>1, <4>1
        <5>2. Spelt(joined, off[i], labels[i + 1])
          <6>1. Spelt(F[n], off[i], labels[i + 1])
            BY <2>s, <4>1, <5>1
          <6> QED BY <2>1, <6>1
        <5>3. off[i] \in Nat /\ <<0>> \in Seq(Byte)
          BY <2>3, <4>1 DEF Byte
        <5>4. Spelt(joined \o <<0>>, off[i], labels[i + 1])
          <6> DEFINE t == <<0>>
                     w == off[i]
                     l == labels[i + 1]
          <6>1. joined \in Seq(Byte) /\ t \in Seq(Byte) /\ w \in Nat /\ Spelt(joined, w, l)
            BY <1>6, <5>2, <5>3
          <6> HIDE DEF t, w, l
          <6>2. Spelt(joined \o t, w, l)
            BY ONLY <6>1, SpeltStill, ZenonT(30)
          <6> QED BY <6>2 DEF t, w, l
        <5> QED BY <2>2, <5>1, <5>4 DEF name
      <4> QED BY <4>1
    <3> QED BY <1>5, <2>2, <2>4, <2>6, <2>7, <2>8, <3>1 DEF LayoutOf
  <2> QED BY <1>5, <1>7, <2>9
<1> QED BY <1>8, <1>9

-----------------------------------------------------------------------------
\* Words, one after the other.

\* t begins with s.
Keeps(t, s) == \A i \in 1 .. Len(s) : t[i] = s[i]

LEMMA WordBytes ==
  ASSUME NEW v \in Word
  PROVE  /\ ToBe16(v) \in Seq(Byte) /\ Len(ToBe16(v)) = 2
         /\ ToBe16(v)[1] * 256 + ToBe16(v)[2] = v
<1> DEFINE a == (v \div 256) % 256
           b == v % 256
           c == v \div 256
<1>0. v \in Nat /\ v <= 65535
  BY DEF Word
<1>1. c \in 0 .. 255 /\ b \in 0 .. 255 /\ c * 256 + b = v
  BY <1>0
<1> HIDE DEF c
<1>2. a = c
  BY <1>1 DEF c
<1>3. a \in Byte /\ b \in Byte /\ a * 256 + b = v
  BY <1>1, <1>2 DEF Byte
<1> HIDE DEF a, b
<1>4. <<a, b>> \in Seq(Byte) /\ Len(<<a, b>>) = 2 /\ <<a, b>>[1] = a /\ <<a, b>>[2] = b
  BY <1>3
<1> QED BY <1>3, <1>4 DEF ToBe16, a, b

LEMMA Behind ==
  ASSUME NEW s \in Seq(Byte), NEW t \in Seq(Byte)
  PROVE  /\ s \o t \in Seq(Byte) /\ Len(s \o t) = Len(s) + Len(t)
         /\ Keeps(s \o t, s)
         /\ \A i \in 1 .. Len(t) : (s \o t)[Len(s) + i] = t[i]
<1> DEFINE m == Len(s)
           n == Len(t)
           r == s \o t
<1>1. m \in Nat /\ n \in Nat
  BY LenProperties
<1>2. /\ r \in Seq(Byte) /\ Len(r) = m + n
      /\ \A i \in 1 .. m + n : r[i] = IF i <= m THEN s[i] ELSE t[i - m]
  BY ConcatProperties
<1> HIDE DEF m, n, r
<1>3. \A i \in 1 .. m : r[i] = s[i]
  <2>1. \A i \in 1 .. m : i \in 1 .. m + n /\ i <= m
    BY <1>1
  <2> QED BY <1>2, <2>1
<1>4. ASSUME NEW i \in 1 .. n PROVE r[m + i] = t[i]
  <2> DEFINE j == m + i
  <2>1. j \in 1 .. m + n /\ ~(j <= m) /\ j - m = i
    BY <1>1
  <2> HIDE DEF j
  <2> QED BY <1>2, <2>1 DEF j
<1> QED BY <1>2, <1>3, <1>4 DEF Keeps, m, n, r

\* The word at an offset is the same in what begins with s.
LEMMA WordKept ==
  ASSUME NEW s \in Seq(Byte), NEW t, Keeps(t, s), NEW p \in Nat, p + 2 <= Len(s)
  PROVE  Be16(t, p) = Be16(s, p)
<1>1. Len(s) \in Nat
  BY LenProperties
<1>2. p + 1 \in 1 .. Len(s) /\ p + 2 \in 1 .. Len(s)
  BY <1>1
<1> DEFINE i == p + 1
           j == p + 2
<1>3. i \in 1 .. Len(s) /\ j \in 1 .. Len(s)
  BY <1>2
<1> HIDE DEF i, j
<1>4. t[i] = s[i] /\ t[j] = s[j]
  BY <1>3 DEF Keeps
<1> QED BY <1>4 DEF Be16, i, j

\* One word more.
LEMMA WordBehind ==
  ASSUME NEW s \in Seq(Byte), NEW v \in Word
  PROVE  /\ s \o ToBe16(v) \in Seq(Byte) /\ Len(s \o ToBe16(v)) = Len(s) + 2
         /\ Be16(s \o ToBe16(v), Len(s)) = v
         /\ Keeps(s \o ToBe16(v), s)
<1> DEFINE t == ToBe16(v)
           r == s \o t
           n == Len(s)
<1>1. t \in Seq(Byte) /\ Len(t) = 2 /\ t[1] * 256 + t[2] = v
  BY WordBytes
<1> HIDE DEF t
<1>2. /\ r \in Seq(Byte) /\ Len(r) = n + 2 /\ Keeps(r, s)
      /\ \A i \in 1 .. 2 : r[n + i] = t[i]
  <2>1. /\ r \in Seq(Byte) /\ Len(r) = n + Len(t) /\ Keeps(r, s)
        /\ \A i \in 1 .. Len(t) : r[n + i] = t[i]
    BY <1>1, Behind
  <2> HIDE DEF r, n
  <2> QED BY <1>1, <2>1
<1> HIDE DEF r, n
<1>3. 1 \in 1 .. 2 /\ 2 \in 1 .. 2
  OBVIOUS
<1>4. r[n + 1] = t[1] /\ r[n + 2] = t[2]
  BY <1>2, <1>3
<1>5. Be16(r, n) = v
  BY <1>1, <1>4 DEF Be16
<1> QED BY <1>2, <1>5 DEF r, n, t

\* A header of six words.
Words(a, b, c, d, e, f) ==
  ToBe16(a) \o ToBe16(b) \o ToBe16(c) \o ToBe16(d) \o ToBe16(e) \o ToBe16(f)

Reads(s, a, b, c, d, e, f) ==
  /\ Be16(s, 0) = a /\ Be16(s, 2) = b /\ Be16(s, 4) = c
  /\ Be16(s, 6) = d /\ Be16(s, 8) = e /\ Be16(s, 10) = f

\* The first n of them.
ReadsFirst(s, n, ws) ==
  /\ s \in Seq(Byte) /\ Len(s) = 2 * n
  /\ \A i \in 1 .. n : Be16(s, 2 * i - 2) = ws[i]

LEMMA ReadsNext ==
  ASSUME NEW n \in Nat, NEW m, m = n + 1, NEW ws, NEW s, ReadsFirst(s, n, ws),
         NEW v \in Word, ws[m] = v
  PROVE  ReadsFirst(s \o ToBe16(v), m, ws)
<1> DEFINE r == s \o ToBe16(v)
           k == Len(s)
<1>1. s \in Seq(Byte) /\ k = 2 * n /\ \A i \in 1 .. n : Be16(s, 2 * i - 2) = ws[i]
  BY DEF ReadsFirst
<1>2. r \in Seq(Byte) /\ Len(r) = k + 2 /\ Be16(r, k) = v /\ Keeps(r, s)
  BY <1>1, WordBehind
<1> HIDE DEF r
<1>3. ASSUME NEW i \in 1 .. n PROVE Be16(r, 2 * i - 2) = ws[i]
  <2> DEFINE p == 2 * i - 2
  <2>1. p \in Nat /\ p + 2 <= Len(s)
    BY <1>1
  <2> HIDE DEF p
  <2>2. Be16(r, p) = Be16(s, p)
    BY <1>1, <1>2, <2>1, WordKept
  <2> QED BY <1>1, <2>2 DEF p
<1> HIDE DEF k
<1>4. k = 2 * m - 2 /\ Len(r) = 2 * m /\ \A i \in 1 .. m : i \in 1 .. n \/ i = m
  BY <1>1, <1>2
<1>5. \A i \in 1 .. m : Be16(r, 2 * i - 2) = ws[i]
  BY <1>2, <1>3, <1>4
<1>6. ReadsFirst(r, m, ws)
  BY <1>2, <1>4, <1>5 DEF ReadsFirst
<1> QED BY <1>6 DEF r

AreWords(a, b, c, d, e, f) ==
  a \in Word /\ b \in Word /\ c \in Word /\ d \in Word /\ e \in Word /\ f \in Word

LEMMA HeaderReads ==
  ASSUME NEW a, NEW b, NEW c, NEW d, NEW e, NEW f, AreWords(a, b, c, d, e, f),
         NEW s, s = Words(a, b, c, d, e, f)
  PROVE  s \in Seq(Byte) /\ Len(s) = 12 /\ Reads(s, a, b, c, d, e, f)
<1> DEFINE s1 == ToBe16(a)
           s2 == s1 \o ToBe16(b)
           s3 == s2 \o ToBe16(c)
           s4 == s3 \o ToBe16(d)
           s5 == s4 \o ToBe16(e)
           s6 == s5 \o ToBe16(f)
           ws == <<a, b, c, d, e, f>>
<1>0. s6 = Words(a, b, c, d, e, f)
  BY DEF Words
<1>w. a \in Word /\ b \in Word /\ c \in Word /\ d \in Word /\ e \in Word /\ f \in Word
  BY DEF AreWords
<1>1. ReadsFirst(s1, 1, ws)
  <2>1. s1 \in Seq(Byte) /\ Len(s1) = 2 /\ Be16(s1, 0) = a
    BY <1>w, WordBytes DEF Be16
  <2>2. ws[1] = a
    OBVIOUS
  <2>3. \A i \in 1 .. 1 : i = 1
    OBVIOUS
  <2> HIDE DEF s1, ws
  <2> QED BY <2>1, <2>2, <2>3 DEF ReadsFirst
<1> HIDE DEF s1
<1>2. ws[2] = b /\ ws[3] = c /\ ws[4] = d /\ ws[5] = e /\ ws[6] = f /\ ws[1] = a
  OBVIOUS
<1> HIDE DEF ws
<1>3. /\ 1 \in Nat /\ 2 \in Nat /\ 3 \in Nat /\ 4 \in Nat /\ 5 \in Nat
      /\ 2 = 1 + 1 /\ 3 = 2 + 1 /\ 4 = 3 + 1 /\ 5 = 4 + 1 /\ 6 = 5 + 1
  OBVIOUS
<1>4. ReadsFirst(s2, 2, ws)
  BY ONLY <1>1, <1>2, <1>3, <1>w, ReadsNext, ZenonT(30)
<1> HIDE DEF s2
<1>5. ReadsFirst(s3, 3, ws)
  BY ONLY <1>4, <1>2, <1>3, <1>w, ReadsNext, ZenonT(30)
<1> HIDE DEF s3
<1>6. ReadsFirst(s4, 4, ws)
  BY ONLY <1>5, <1>2, <1>3, <1>w, ReadsNext, ZenonT(30)
<1> HIDE DEF s4
<1>7. ReadsFirst(s5, 5, ws)
  BY ONLY <1>6, <1>2, <1>3, <1>w, ReadsNext, ZenonT(30)
<1> HIDE DEF s5
<1>8. ReadsFirst(s6, 6, ws)
  BY ONLY <1>7, <1>2, <1>3, <1>w, ReadsNext, ZenonT(30)
<1> HIDE DEF s6
<1>9. /\ s6 \in Seq(Byte) /\ Len(s6) = 12
      /\ \A i \in 1 .. 6 : Be16(s6, 2 * i - 2) = ws[i]
  BY <1>8 DEF ReadsFirst
<1>10. Reads(s6, a, b, c, d, e, f)
  <2>1. /\ 1 \in 1 .. 6 /\ 2 \in 1 .. 6 /\ 3 \in 1 .. 6 /\ 4 \in 1 .. 6 /\ 5 \in 1 .. 6 /\ 6 \in 1 .. 6
        /\ 2 * 1 - 2 = 0 /\ 2 * 2 - 2 = 2 /\ 2 * 3 - 2 = 4 /\ 2 * 4 - 2 = 6 /\ 2 * 5 - 2 = 8
        /\ 2 * 6 - 2 = 10
    OBVIOUS
  <2> QED BY <1>2, <1>9, <2>1 DEF Reads
<1> QED BY <1>0, <1>9, <1>10

-----------------------------------------------------------------------------
\* What the parser makes of a query.

QueryOk(q) ==
  /\ q.id \in Word /\ q.opcode \in 0 .. 15 /\ q.low \in Byte
  /\ q.qr \in BOOLEAN /\ q.aa \in BOOLEAN /\ q.tc \in BOOLEAN /\ q.rd \in BOOLEAN
  /\ q.qdcount \in Word /\ q.ancount \in Word /\ q.nscount \in Word /\ q.arcount \in Word
  /\ q.labels \in Seq(Label) /\ q.qtype \in Word /\ q.qclass \in Word
  /\ q.extra \in Seq(Byte)

FlagsOf(qr, o, aa, tc, rd) ==
  Flag(qr, 128) + o * 8 + Flag(aa, 4) + Flag(tc, 2) + Flag(rd, 1)

FlagByte(q) == FlagsOf(q.qr, q.opcode, q.aa, q.tc, q.rd)

FlagWord(q) == FlagByte(q) * 256 + q.low

FlagBits(w, b, low, qr, o, rd) ==
  /\ w \in Word /\ ToBe16(w) = <<b, low>>
  /\ w < 32768 <=> ~qr
  /\ (w \div 2048) % 16 = o
  /\ (w \div 256) % 2 = IF rd THEN 1 ELSE 0

LEMMA FlagsRead ==
  ASSUME NEW qr \in BOOLEAN, NEW aa \in BOOLEAN, NEW tc \in BOOLEAN, NEW rd \in BOOLEAN,
         NEW o \in 0 .. 15, NEW b, b = FlagsOf(qr, o, aa, tc, rd),
         NEW low \in Byte, NEW w, w = b * 256 + low
  PROVE  FlagBits(w, b, low, qr, o, rd)
<1> DEFINE x == Flag(qr, 128)
           a == Flag(aa, 4)
           t == Flag(tc, 2)
           y == Flag(rd, 1)
           m == a + t + y
<1>0. low \in Nat /\ low <= 255
  BY DEF Byte
<1>1. /\ x \in {0, 128} /\ y \in {0, 1} /\ a \in {0, 4} /\ t \in {0, 2} /\ (x = 0 <=> ~qr)
      /\ b = x + o * 8 + a + t + y
  BY DEF FlagsOf, Flag
<1> HIDE DEF x, y, a, t
<1>2. /\ m \in Nat /\ m <= 7 /\ m % 2 = y /\ b = x + 8 * o + m /\ o \in Nat /\ o <= 15
      /\ x \in {0, 128}
  BY <1>1
<1> HIDE DEF m
<1>3. b \in Nat /\ b <= 255 /\ (b < 128 <=> x = 0) /\ b % 2 = y
  <2>1. CASE x = 0
    BY <1>2, <2>1
  <2>2. CASE x = 128
    BY <1>2, <2>2
  <2> QED BY <1>2, <2>1, <2>2
<1>4. (b \div 8) % 16 = o
  <2>1. CASE x = 0
    <3>1. b = 8 * o + m
      BY <1>2, <2>1
    <3>2. b \div 8 = o
      BY <1>2, <3>1
    <3> QED BY <1>2, <3>2
  <2>2. CASE x = 128
    <3>1. b = 8 * (16 + o) + m
      BY <1>2, <2>2
    <3>2. b \div 8 = 16 + o
      BY <1>2, <3>1
    <3> QED BY <1>2, <3>2
  <2> QED BY <1>2, <2>1, <2>2
<1>5. w \in Word /\ (w < 32768 <=> b < 128)
  <2>1. w \in Int /\ 0 <= w /\ w <= 65535 /\ (w < 32768 <=> b < 128)
    BY <1>0, <1>3
  <2> QED BY <2>1 DEF Word
<1>6. w \div 256 = b /\ w % 256 = low /\ b % 256 = b
  BY <1>0, <1>3
<1>7. ToBe16(w) = <<b, low>>
  BY <1>6 DEF ToBe16
<1>8. (w \div 2048) % 16 = o
  <2>1. w \div 2048 = b \div 8
    <3> DEFINE c == b \div 8
               d == b % 8
    <3>1. b = 8 * c + d /\ c \in Nat /\ d \in Nat /\ d <= 7
      BY <1>3
    <3> HIDE DEF c, d
    <3>2. w = 2048 * c + (256 * d + low) /\ 256 * d + low \in Nat /\ 256 * d + low <= 2047
      BY <1>0, <3>1
    <3>3. w \div 2048 = c
      BY <3>1, <3>2
    <3> QED BY <3>3 DEF c
  <2> QED BY <1>4, <2>1
<1>9. (w \div 256) % 2 = y
  BY <1>3, <1>6
<1>10. w < 32768 <=> ~qr
  BY <1>1, <1>3, <1>5
<1>11. (w \div 256) % 2 = IF rd THEN 1 ELSE 0
  BY <1>9 DEF y, Flag
<1> QED BY <1>5, <1>7, <1>8, <1>10, <1>11 DEF FlagBits

LEMMA QueryFlags ==
  ASSUME NEW q, QueryOk(q), NEW w, w = FlagWord(q)
  PROVE  /\ w \in Word /\ ToBe16(w) = <<FlagByte(q), q.low>>
         /\ w < 32768 <=> ~q.qr
         /\ (w \div 2048) % 16 = q.opcode
         /\ (w \div 256) % 2 = IF q.rd THEN 1 ELSE 0
<1> DEFINE b == FlagByte(q)
           low == q.low
           qr == q.qr
           aa == q.aa
           tc == q.tc
           rd == q.rd
           o == q.opcode
<1>1. /\ qr \in BOOLEAN /\ aa \in BOOLEAN /\ tc \in BOOLEAN /\ rd \in BOOLEAN
      /\ o \in 0 .. 15 /\ low \in Byte /\ b = FlagsOf(qr, o, aa, tc, rd)
  BY DEF QueryOk, FlagByte
<1>2. w = b * 256 + low
  BY DEF FlagWord
<1> HIDE DEF b, low, qr, aa, tc, rd, o
<1>3. FlagBits(w, b, low, qr, o, rd)
  BY ONLY <1>1, <1>2, FlagsRead, ZenonT(60)
<1> QED BY <1>3 DEF FlagBits, b, low, qr, rd, o

LEMMA QuestionReads ==
  ASSUME NEW q, QueryOk(q)
  PROVE  /\ Question(q) \in Seq(Byte) /\ Len(Question(q)) = Len(Name(q.labels)) + 4
         /\ Keeps(Question(q), Name(q.labels))
         /\ Be16(Question(q), Len(Name(q.labels))) = q.qtype
         /\ Be16(Question(q), Len(Name(q.labels)) + 2) = q.qclass
<1> DEFINE a == Name(q.labels)
           b == a \o ToBe16(q.qtype)
           c == b \o ToBe16(q.qclass)
           k == Len(a)
<1>1. q.labels \in Seq(Label) /\ q.qtype \in Word /\ q.qclass \in Word
  BY DEF QueryOk
<1>2. a \in Seq(Byte) /\ k \in Nat
  BY <1>1, NameLayout, LenProperties
<1>3. c = Question(q)
  BY DEF Question
<1> HIDE DEF a
<1>4. b \in Seq(Byte) /\ Len(b) = k + 2 /\ Be16(b, k) = q.qtype /\ Keeps(b, a)
  BY <1>1, <1>2, WordBehind
<1> HIDE DEF b
<1>5. c \in Seq(Byte) /\ Len(c) = Len(b) + 2 /\ Be16(c, Len(b)) = q.qclass /\ Keeps(c, b)
  BY <1>1, <1>4, WordBehind
<1> HIDE DEF c
<1>6. Be16(c, k) = Be16(b, k)
  <2>1. k + 2 <= Len(b)
    BY <1>2, <1>4
  <2> QED BY <1>2, <1>4, <1>5, <2>1, WordKept
<1>7. Keeps(c, a)
  <2> HIDE DEF k
  <2>1. \A i \in 1 .. k : i \in 1 .. Len(b)
    BY <1>2, <1>4
  <2> QED BY <1>4, <1>5, <2>1 DEF Keeps, k
<1> HIDE DEF k
<1>8. Len(c) = k + 4 /\ Be16(c, k + 2) = q.qclass
  BY <1>2, <1>4, <1>5
<1> QED BY <1>3, <1>4, <1>5, <1>6, <1>7, <1>8 DEF k, a

\* The beginning of a sequence, and what is behind it.
Holds(r, s, t, u) ==
  /\ r \in Seq(Byte) /\ Len(r) = Len(s) + Len(t) + Len(u)
  /\ Keeps(r, s)
  /\ \A i \in 1 .. Len(t) : r[Len(s) + i] = t[i]
  /\ \A i \in 1 .. Len(u) : r[Len(s) + Len(t) + i] = u[i]

LEMMA Middle ==
  ASSUME NEW s \in Seq(Byte), NEW t \in Seq(Byte), NEW u \in Seq(Byte)
  PROVE  Holds(s \o t \o u, s, t, u)
<1> DEFINE p == s \o t
           r == p \o u
           a == Len(s)
           b == Len(t)
           c == Len(u)
<1>1. a \in Nat /\ b \in Nat /\ c \in Nat
  BY LenProperties
<1>2. /\ p \in Seq(Byte) /\ Len(p) = a + b /\ Keeps(p, s)
      /\ \A i \in 1 .. b : p[a + i] = t[i]
  BY Behind
<1> HIDE DEF p
<1>3. /\ r \in Seq(Byte) /\ Len(r) = Len(p) + c /\ Keeps(r, p)
      /\ \A i \in 1 .. c : r[Len(p) + i] = u[i]
  BY <1>2, Behind
<1> HIDE DEF r, a, b, c
<1>4. \A i \in 1 .. a : r[i] = s[i]
  <2>1. \A i \in 1 .. a : i \in 1 .. Len(p)
    BY <1>1, <1>2
  <2> QED BY <1>2, <1>3, <2>1 DEF Keeps, a
<1>5. ASSUME NEW i \in 1 .. b PROVE r[a + i] = t[i]
  <2> DEFINE j == a + i
  <2>1. j \in 1 .. Len(p)
    BY <1>1, <1>2
  <2> HIDE DEF j
  <2>2. r[j] = p[j]
    BY <1>3, <2>1 DEF Keeps
  <2> QED BY <1>2, <2>2 DEF j
<1>6. Len(r) = a + b + c
  BY <1>1, <1>2, <1>3
<1>7. \A i \in 1 .. c : r[a + b + i] = u[i]
  BY <1>2, <1>3
<1> QED BY <1>3, <1>4, <1>5, <1>6, <1>7 DEF Holds, Keeps, p, r, a, b, c

\* The bytes of a query.
LEMMA EncodedReads ==
  ASSUME NEW q, QueryOk(q)
  PROVE  LET k == Len(Question(q)) IN
         /\ Encoded(q) \in Seq(Byte) /\ Len(Encoded(q)) = 12 + k + Len(q.extra)
         /\ Reads(Encoded(q), q.id, FlagWord(q), q.qdcount, q.ancount, q.nscount, q.arcount)
         /\ \A i \in 1 .. k : Encoded(q)[12 + i] = Question(q)[i]
<1> DEFINE h == Words(q.id, FlagWord(q), q.qdcount, q.ancount, q.nscount, q.arcount)
           t == Question(q)
           u == q.extra
           r == h \o t \o u
           w == FlagWord(q)
<1>1. w \in Word /\ ToBe16(w) = <<FlagByte(q), q.low>>
  <2>1. w = FlagWord(q)
    OBVIOUS
  <2> HIDE DEF w
  <2> QED BY <2>1, QueryFlags
<1>2. r = Encoded(q)
  <2>1. Encoded(q) = ToBe16(q.id) \o <<FlagByte(q), q.low>> \o ToBe16(q.qdcount)
                       \o ToBe16(q.ancount) \o ToBe16(q.nscount) \o ToBe16(q.arcount) \o t \o u
    BY Zenon DEF Encoded, FlagByte, FlagsOf
  <2>2. h = ToBe16(q.id) \o <<FlagByte(q), q.low>> \o ToBe16(q.qdcount) \o ToBe16(q.ancount)
              \o ToBe16(q.nscount) \o ToBe16(q.arcount)
    BY <1>1, Zenon DEF Words
  <2> HIDE DEF h, t, u
  <2> QED BY ONLY <2>1, <2>2, Zenon
<1> HIDE DEF w
<1>3. u \in Seq(Byte)
  BY DEF QueryOk
<1>4. h = Words(q.id, w, q.qdcount, q.ancount, q.nscount, q.arcount)
  BY DEF w
<1>5. /\ h \in Seq(Byte) /\ Len(h) = 12
      /\ Reads(h, q.id, w, q.qdcount, q.ancount, q.nscount, q.arcount)
  <2>1. AreWords(q.id, w, q.qdcount, q.ancount, q.nscount, q.arcount)
    BY <1>1 DEF AreWords, QueryOk
  <2> HIDE DEF h
  <2> QED BY ONLY <1>4, <2>1, HeaderReads, ZenonT(30)
<1>6. t \in Seq(Byte)
  BY QuestionReads
<1> HIDE DEF h, t, u
<1>7. /\ r \in Seq(Byte) /\ Len(r) = Len(h) + Len(t) + Len(u) /\ Keeps(r, h)
      /\ \A i \in 1 .. Len(t) : r[Len(h) + i] = t[i]
  <2>1. Holds(r, h, t, u)
    BY <1>3, <1>5, <1>6, Middle
  <2> HIDE DEF r
  <2> QED BY <2>1 DEF Holds
<1> HIDE DEF r
<1>8. Reads(r, q.id, w, q.qdcount, q.ancount, q.nscount, q.arcount)
  <2>1. /\ 0 \in Nat /\ 2 \in Nat /\ 4 \in Nat /\ 6 \in Nat /\ 8 \in Nat /\ 10 \in Nat
        /\ 0 + 2 <= Len(h) /\ 2 + 2 <= Len(h) /\ 4 + 2 <= Len(h) /\ 6 + 2 <= Len(h)
        /\ 8 + 2 <= Len(h) /\ 10 + 2 <= Len(h)
    BY <1>5
  <2>2. /\ Be16(r, 0) = Be16(h, 0) /\ Be16(r, 2) = Be16(h, 2) /\ Be16(r, 4) = Be16(h, 4)
        /\ Be16(r, 6) = Be16(h, 6) /\ Be16(r, 8) = Be16(h, 8) /\ Be16(r, 10) = Be16(h, 10)
    BY <1>5, <1>7, <2>1, WordKept
  <2> QED BY <1>5, <2>2 DEF Reads
<1>9. Len(r) = 12 + Len(t) + Len(u) /\ \A i \in 1 .. Len(t) : r[12 + i] = t[i]
  BY <1>5, <1>7
<1> QED BY <1>2, <1>7, <1>8, <1>9 DEF t, u, w

\* The name of a query is in the message behind its header, as far as that goes.
NameAt(q, msg, at, len) ==
  LET L == Len(q.labels)
      k == Len(Name(q.labels))
  IN  /\ at[0] = 12 /\ at[L] + 1 = 12 + k
      /\ LaidOut(at, len, L) /\ Carries(msg, at, len, L)
      /\ 12 + k <= Len(msg) =>
           \A i \in 0 .. L : i + 1 <= L =>
             len[i + 1] = Len(q.labels[i + 1]) /\ Spelt(msg, at[i], q.labels[i + 1])

LEMMA NameInMessage ==
  ASSUME NEW q, QueryOk(q), NEW msg \in Seq(Byte), Keeps(Encoded(q), msg)
  PROVE  \E at, len : NameAt(q, msg, at, len)
<1> DEFINE n == Len(msg)
           L == Len(q.labels)
           name == Name(q.labels)
           k == Len(name)
           e == Encoded(q)
           t == Question(q)
           l(i) == q.labels[i]
<1>1. q.labels \in Seq(Label)
  BY DEF QueryOk
<1>2. PICK off, len : LayoutOf(q.labels, off, len)
  BY <1>1, NameLayout
<1>3. /\ n \in Nat /\ L \in Nat /\ k \in Nat
  BY <1>1, NameLayout, LenProperties
<1>4. /\ off[0] = 0 /\ LaidOut(off, len, L) /\ Carries(name, off, len, L) /\ k = off[L] + 1
      /\ \A i \in 0 .. L : i + 1 <= L =>
           len[i + 1] = Len(l(i + 1)) /\ Spelt(name, off[i], l(i + 1))
  BY <1>2 DEF LayoutOf
<1>5. /\ \A i \in 0 .. L : off[i] \in Nat /\ off[i] <= off[L]
      /\ \A i \in 0 .. L : i + 1 <= L =>
           len[i + 1] \in 1 .. 63 /\ off[i + 1] = off[i] + 1 + len[i + 1]
  BY <1>3, <1>4, LaidOutInOrder DEF LaidOut
<1>6. /\ \A i \in 1 .. k : i \in 1 .. Len(t) /\ t[i] = name[i]
      /\ \A i \in 1 .. Len(t) : e[12 + i] = t[i]
  <2>1. Len(t) = k + 4 /\ Keeps(t, name) /\ \A i \in 1 .. Len(t) : e[12 + i] = t[i]
    BY QuestionReads, EncodedReads
  <2> HIDE DEF e, t, name
  <2>2. \A i \in 1 .. k : i \in 1 .. Len(t)
    BY <1>3, <2>1
  <2> QED BY <2>1, <2>2 DEF Keeps
<1>7. \A i \in 1 .. n : e[i] = msg[i]
  BY DEF Keeps
<1> HIDE DEF n, L, name, k, e, t, l
<1>8. \A p \in 0 .. k - 1 : 12 + p < n => msg[12 + p + 1] = name[p + 1]
  <2>1. ASSUME NEW p \in 0 .. k - 1, 12 + p < n PROVE msg[12 + p + 1] = name[p + 1]
    <3> DEFINE j == p + 1
               h == 12 + j
    <3>1. j \in 1 .. k /\ h \in 1 .. n /\ 12 + p + 1 = h
      BY <1>3, <2>1
    <3> HIDE DEF h, j
    <3>2. t[j] = name[j] /\ e[12 + j] = t[j]
      BY <1>6, <3>1
    <3>3. e[h] = msg[h]
      BY <1>7, <3>1
    <3> QED BY <3>1, <3>2, <3>3 DEF h, j
  <2> QED BY <2>1
<1> DEFINE at == [i \in 0 .. L |-> 12 + off[i]]
<1>9. \A i \in 0 .. L : at[i] = 12 + off[i] /\ off[i] \in 0 .. k - 1
  <2>1. ASSUME NEW i \in 0 .. L PROVE off[i] \in 0 .. k - 1
    <3> DEFINE x == off[i]
               y == off[L]
    <3>1. L \in 0 .. L
      BY <1>3
    <3>2. x \in Nat /\ y \in Nat /\ x <= y /\ k = y + 1
      BY <1>4, <1>5, <3>1
    <3> HIDE DEF x, y
    <3>3. x \in 0 .. k - 1
      BY <3>2
    <3> QED BY <3>3 DEF x
  <2> QED BY <2>1
<1> HIDE DEF at
<1>10. LaidOut(at, len, L)
  <2>1. \A i \in 0 .. L : at[i] \in Nat
    BY <1>3, <1>9
  <2>2. ASSUME NEW i \in 0 .. L, i + 1 <= L
        PROVE  len[i + 1] \in 1 .. 63 /\ at[i + 1] = at[i] + 1 + len[i + 1]
    <3>1. i + 1 \in 0 .. L
      BY <1>3, <2>2
    <3> DEFINE j == i + 1
    <3>2. /\ len[j] \in 1 .. 63 /\ off[j] = off[i] + 1 + len[j] /\ off[i] \in Nat
          /\ at[i] = 12 + off[i] /\ at[j] = 12 + off[j]
      BY <1>5, <1>9, <2>2, <3>1
    <3> HIDE DEF j
    <3>3. at[j] = at[i] + 1 + len[j]
      <4> DEFINE a == off[i]
                 b == len[j]
      <4>1. a \in Nat /\ b \in 1 .. 63 /\ at[i] = 12 + a /\ at[j] = 12 + (a + 1 + b)
        BY <3>2
      <4> HIDE DEF a, b
      <4>2. 12 + (a + 1 + b) = (12 + a) + 1 + b
        BY <4>1
      <4> QED BY <4>1, <4>2 DEF b
    <3> QED BY <3>2, <3>3 DEF j
  <2> QED BY <2>1, <2>2 DEF LaidOut
<1>11. Carries(msg, at, len, L)
  <2>1. ASSUME NEW i \in 0 .. L, i + 1 <= L, at[i] < Len(msg)
        PROVE  msg[at[i] + 1] = len[i + 1]
    <3> DEFINE p == off[i]
    <3>1. p \in 0 .. k - 1 /\ at[i] = 12 + p
      BY <1>9
    <3> HIDE DEF p
    <3>2. msg[12 + p + 1] = name[p + 1]
      BY <1>8, <2>1, <3>1 DEF n
    <3>3. name[p + 1] = len[i + 1]
      <4>1. p < Len(name)
        BY <1>3, <3>1 DEF k
      <4> QED BY <1>4, <2>1, <4>1 DEF Carries, p
    <3> QED BY <3>1, <3>2, <3>3
  <2>2. ASSUME at[L] < Len(msg) PROVE msg[at[L] + 1] = 0
    <3> DEFINE p == off[L]
    <3>1. p \in 0 .. k - 1 /\ at[L] = 12 + p
      BY <1>3, <1>9
    <3> HIDE DEF p
    <3>2. msg[12 + p + 1] = name[p + 1]
      BY <1>8, <2>2, <3>1 DEF n
    <3>3. name[p + 1] = 0
      <4>1. p < Len(name)
        BY <1>3, <3>1 DEF k
      <4> QED BY <1>4, <4>1 DEF Carries, p
    <3> QED BY <3>1, <3>2, <3>3
  <2> QED BY <2>1, <2>2 DEF Carries
<1>12. at[0] = 12 /\ at[L] + 1 = 12 + k
  BY <1>3, <1>4, <1>9
<1>13. ASSUME 12 + k <= n, NEW i \in 0 .. L, i + 1 <= L
       PROVE  Spelt(msg, at[i], l(i + 1))
  <2> DEFINE p == off[i]
             x == l(i + 1)
  <2>1. p \in 0 .. k - 1 /\ at[i] = 12 + p /\ Spelt(name, p, x)
    BY <1>4, <1>9, <1>13
  <2> HIDE DEF p, x
  <2>2. ASSUME NEW j \in 1 .. Len(x)
        PROVE  12 + p + 1 + j <= Len(msg) /\ msg[12 + p + 1 + j] = x[j]
    <3> DEFINE a == p + j
               h == p + 1 + j
               b == 12 + p + 1 + j
    <3>1. h <= k /\ name[h] = x[j]
      BY <2>1 DEF Spelt, k
    <3>2. a \in 0 .. k - 1 /\ 12 + a < n /\ 12 + a + 1 = b /\ a + 1 = h /\ b <= n
      BY <1>3, <1>13, <2>1, <3>1
    <3> HIDE DEF a, h, b
    <3>3. msg[12 + a + 1] = name[a + 1]
      BY <1>8, <3>2
    <3> QED BY <3>1, <3>2, <3>3 DEF b, n
  <2> QED BY <2>1, <2>2 DEF Spelt, x
<1>14. NameAt(q, msg, at, len)
  BY <1>4, <1>10, <1>11, <1>12, <1>13 DEF NameAt, n, L, k, name, l
<1> QED BY <1>14

\* It is found where the message has all of it.
LEMMA QuestionFound ==
  ASSUME NEW q, QueryOk(q), NEW msg \in Seq(Byte), Keeps(Encoded(q), msg),
         NEW limit \in Nat
  PROVE  NameEnd(msg, 12, limit) =
           IF 12 + Len(Name(q.labels)) <= Len(msg) /\ Len(q.labels) <= limit + 1
           THEN 12 + Len(Name(q.labels)) ELSE NoEnd
<1> DEFINE L == Len(q.labels)
           k == Len(Name(q.labels))
<1>1. PICK at, len : NameAt(q, msg, at, len)
  BY NameInMessage
<1>2. L \in Nat
  BY LenProperties DEF QueryOk
<1>3. /\ at[0] = 12 /\ at[L] + 1 = 12 + k
      /\ LaidOut(at, len, L) /\ Carries(msg, at, len, L)
  BY <1>1 DEF NameAt
<1> HIDE DEF L, k
<1>4. NameEnd(msg, at[0], limit) =
         IF at[L] + 1 <= Len(msg) /\ L <= limit + 1 THEN at[L] + 1 ELSE NoEnd
  BY <1>2, <1>3, NameFound
<1> QED BY <1>3, <1>4 DEF L, k

\* A slice, by its elements.
LEMMA SliceIs ==
  ASSUME NEW S, NEW s \in Seq(S), NEW t \in Seq(S), NEW m \in Nat, NEW n \in Nat,
         m + Len(t) = n, n <= Len(s), \A i \in 1 .. Len(t) : s[m + i] = t[i]
  PROVE  SubSeq(s, m + 1, n) = t
<1> DEFINE a == m + 1
           c == Len(t)
           z == Len(s)
           u == SubSeq(s, a, n)
<1>1. a \in Nat /\ c \in Nat /\ z \in Nat /\ m + c = n /\ n <= z /\ a = m + 1
  BY LenProperties
<1> HIDE DEF a, c, z
<1>2. \A i \in a .. n : s[i] \in S
  <2>1. \A i \in a .. n : i \in 1 .. z
    BY <1>1
  <2> QED BY <2>1, ElementOfSeq DEF z
<1>3. /\ u \in Seq(S)
      /\ Len(u) = IF a <= n THEN n - a + 1 ELSE 0
      /\ \A i \in 1 .. n - a + 1 : u[i] = s[a + i - 1]
  BY <1>1, <1>2, SubSeqProperties
<1>4. n - a + 1 = c /\ (~(a <= n) => c = 0) /\ \A i \in 1 .. c : a + i - 1 = m + i
  BY <1>1
<1> HIDE DEF u
<1>5. Len(u) = c
  BY <1>3, <1>4
<1>6. \A i \in 1 .. Len(u) : u[i] = t[i]
  BY <1>3, <1>4, <1>5 DEF c
<1>7. u = t
  BY <1>3, <1>5, <1>6, SeqEqual DEF c
<1> QED BY <1>7 DEF u, a

LEMMA QueryParsed ==
  ASSUME NEW q, QueryOk(q), NEW msg \in Seq(Byte), Keeps(Encoded(q), msg)
  PROVE  /\ IsQuery(msg) <=>
              /\ Len(msg) >= Len(Encoded(q)) - Len(q.extra)
              /\ ~q.qr /\ q.opcode = 0 /\ q.qdcount = 1
              /\ Len(q.labels) <= LabelLimit + 1
         /\ IsQuery(msg) =>
              Parse(msg) = [id |-> q.id, flags |-> FlagWord(q), qtype |-> q.qtype,
                            qclass |-> q.qclass, question |-> Question(q)]
<1> DEFINE n == Len(msg)
           L == Len(q.labels)
           k == Len(Name(q.labels))
           e == Encoded(q)
           t == Question(q)
           x == Len(q.extra)
           w == FlagWord(q)
           p == 12 + k
<1>1. n \in Nat /\ L \in Nat /\ k \in Nat /\ x \in Nat /\ LabelLimit \in Nat
  BY NameLayout, LenProperties, AnsweringAssumption DEF QueryOk
<1>2. /\ e \in Seq(Byte) /\ Len(e) = 12 + Len(t) + x
      /\ Reads(e, q.id, w, q.qdcount, q.ancount, q.nscount, q.arcount)
      /\ \A i \in 1 .. Len(t) : e[12 + i] = t[i]
  BY EncodedReads
<1>3. t \in Seq(Byte) /\ Len(t) = k + 4 /\ Be16(t, k) = q.qtype /\ Be16(t, k + 2) = q.qclass
  BY QuestionReads
<1>4. QuestionName(msg) = IF p <= n /\ L <= LabelLimit + 1 THEN p ELSE NoEnd
  BY <1>1, QuestionFound DEF QuestionName, HEADER_LEN
<1>5. Len(e) - x = p + 4
  BY <1>1, <1>2, <1>3
<1>6. n >= 12 => Be16(msg, 0) = q.id /\ Be16(msg, 2) = w /\ Be16(msg, 4) = q.qdcount
  <2>1. SUFFICES ASSUME n >= 12
                 PROVE  Be16(msg, 0) = q.id /\ Be16(msg, 2) = w /\ Be16(msg, 4) = q.qdcount
    OBVIOUS
  <2>2. 0 \in Nat /\ 2 \in Nat /\ 4 \in Nat /\ 0 + 2 <= Len(msg) /\ 2 + 2 <= Len(msg) /\ 4 + 2 <= Len(msg)
    BY <1>1, <2>1
  <2> HIDE DEF e
  <2>3. Be16(e, 0) = Be16(msg, 0) /\ Be16(e, 2) = Be16(msg, 2) /\ Be16(e, 4) = Be16(msg, 4)
    BY <2>2, WordKept DEF e
  <2> QED BY <1>2, <2>3 DEF Reads
<1>7. /\ w < 32768 <=> ~q.qr
      /\ (w \div 2048) % 16 = q.opcode
  <2>1. w = FlagWord(q)
    OBVIOUS
  <2> HIDE DEF w
  <2> QED BY <2>1, QueryFlags
<1> HIDE DEF n, L, k, e, t, x, w, p
<1>8. n >= 12 => (PlainQuery(msg) <=> ~q.qr /\ q.opcode = 0 /\ q.qdcount = 1)
  BY <1>6, <1>7 DEF PlainQuery
<1>9. IsQuery(msg) <=> /\ n >= p + 4 /\ ~q.qr /\ q.opcode = 0 /\ q.qdcount = 1
                       /\ L <= LabelLimit + 1
  <2>1. p \in Nat /\ p >= 12
    BY <1>1 DEF p
  <2>2. IsQuery(msg) <=> /\ n >= 12 /\ PlainQuery(msg) /\ QuestionName(msg) # NoEnd
                         /\ QuestionName(msg) + 4 <= n
    BY DEF IsQuery, n, HEADER_LEN
  <2>3. QuestionName(msg) # NoEnd /\ QuestionName(msg) + 4 <= n <=> p + 4 <= n /\ L <= LabelLimit + 1
    BY <1>1, <1>4, <2>1 DEF NoEnd
  <2>4. n >= p + 4 => n >= 12
    BY <1>1, <2>1
  <2>5. n >= p + 4 <=> p + 4 <= n
    BY <1>1, <2>1
  <2> QED BY <1>8, <2>2, <2>3, <2>4, <2>5
<1>10. ASSUME IsQuery(msg)
       PROVE  Parse(msg) = [id |-> q.id, flags |-> w, qtype |-> q.qtype,
                            qclass |-> q.qclass, question |-> t]
  <2>1. n >= p + 4 /\ L <= LabelLimit + 1 /\ p \in Nat /\ p = 12 + k
    BY <1>1, <1>9, <1>10 DEF p
  <2>2. QuestionName(msg) = p /\ n >= 12
    <3>1. p <= n /\ n >= 12
      BY <1>1, <2>1
    <3> QED BY <1>4, <2>1, <3>1
  <2>3. \A i \in 1 .. k + 4 : 12 + i \in 1 .. n /\ msg[12 + i] = t[i]
    <3>1. ASSUME NEW i \in 1 .. k + 4 PROVE 12 + i \in 1 .. n /\ msg[12 + i] = t[i]
      <4> DEFINE j == 12 + i
      <4>1. j \in 1 .. n
        BY <1>1, <2>1
      <4>2. e[j] = t[i]
        BY <1>2, <1>3
      <4> HIDE DEF j
      <4>3. e[j] = msg[j]
        BY <4>1 DEF Keeps, e, n
      <4> QED BY <4>1, <4>2, <4>3 DEF j
    <3> QED BY <3>1
  <2>4. SubSeq(msg, 12 + 1, p + 4) = t
    <3> DEFINE b == p + 4
    <3>1. 12 \in Nat /\ b \in Nat /\ 12 + Len(t) = b /\ b <= Len(msg)
      BY <1>1, <1>3, <2>1 DEF n
    <3>2. \A i \in 1 .. Len(t) : msg[12 + i] = t[i]
      BY <1>3, <2>3
    <3> HIDE DEF b
    <3>3. SubSeq(msg, 12 + 1, b) = t
      BY <1>3, <3>1, <3>2, SliceIs
    <3> QED BY <3>3 DEF b
  <2>5. Be16(msg, p) = q.qtype /\ Be16(msg, p + 2) = q.qclass
    <3>1. /\ k + 1 \in 1 .. k + 4 /\ k + 2 \in 1 .. k + 4 /\ k + 3 \in 1 .. k + 4 /\ k + 4 \in 1 .. k + 4
          /\ p + 1 = 12 + (k + 1) /\ p + 2 = 12 + (k + 2)
          /\ p + 2 + 1 = 12 + (k + 3) /\ p + 2 + 2 = 12 + (k + 4)
          /\ k + 2 + 1 = k + 3 /\ k + 2 + 2 = k + 4
      BY <1>1, <2>1
    <3>2. /\ msg[p + 1] = t[k + 1] /\ msg[p + 2] = t[k + 2]
          /\ msg[p + 2 + 1] = t[k + 3] /\ msg[p + 2 + 2] = t[k + 4]
      BY <2>3, <3>1
    <3>3. Be16(msg, p) = Be16(t, k) /\ Be16(msg, p + 2) = Be16(t, k + 2)
      BY <3>1, <3>2 DEF Be16
    <3> QED BY <1>3, <3>3
  <2> QED BY <1>6, <2>2, <2>4, <2>5 DEF Parse, HEADER_LEN
<1> QED BY <1>5, <1>9, <1>10 DEF n, L, k, e, t, x, w

-----------------------------------------------------------------------------
\* What a reply is.

\* The walk ends at a number, if it ends.
LEMMA WalkType ==
  ASSUME NEW msg \in Seq(Byte), NEW limit, NEW f, Walks(f, msg, limit)
  PROVE  \A p, l \in Nat : f[<<p, l>>] \in Nat
<1> DEFINE n == Len(msg)
           T == {d \in Nat : \A p, l \in Nat : p + d >= n => f[<<p, l>>] \in Nat}
<1>0. n \in Nat
  BY LenProperties
<1>1. 0 \in T
  <2>1. ASSUME NEW p \in Nat, NEW l \in Nat, p + 0 >= n PROVE f[<<p, l>>] \in Nat
    <3>1. Look(msg, limit, f, <<p, l>>) = 0
      BY <2>1 DEF Look, NoEnd
    <3> QED BY <3>1, WalkLooks
  <2> QED BY <2>1
<1>2. ASSUME NEW d \in Nat, d \in T PROVE d + 1 \in T
  <2>1. ASSUME NEW p \in Nat, NEW l \in Nat, p + (d + 1) >= n PROVE f[<<p, l>>] \in Nat
    <3> DEFINE b == msg[p + 1]
               q == p + 1 + b
               m == l + 1
    <3>1. f[<<p, l>>] = Look(msg, limit, f, <<p, l>>)
      BY WalkLooks
    <3>2. CASE p >= n
      BY <3>1, <3>2 DEF Look, NoEnd
    <3>3. CASE ~(p >= n)
      <4>1. b \in Nat
        <5> DEFINE k == p + 1
        <5>1. k \in 1 .. Len(msg)
          BY <1>0, <3>3
        <5> HIDE DEF k
        <5>2. msg[k] \in Byte
          BY <5>1, ElementOfSeq
        <5>3. msg[k] \in Nat
          BY ONLY <5>2, BytesAreNumbers
        <5> QED BY <5>3 DEF k
      <4>2. q \in Nat /\ m \in Nat /\ q + d >= n
        <5> HIDE DEF b
        <5> QED BY <1>0, <2>1, <4>1
      <4>3. Look(msg, limit, f, <<p, l>>) =
              IF b = 0 THEN p + 1
              ELSE IF IsPointer(b) \/ l > limit \/ q > n THEN NoEnd ELSE f[<<q, m>>]
        BY <3>3 DEF Look
      <4> HIDE DEF b, q, m, n
      <4>4. f[<<q, m>>] \in Nat
        BY <1>2, <4>2
      <4> QED BY <3>1, <4>3, <4>4 DEF NoEnd
    <3> QED BY <3>2, <3>3
  <2> HIDE DEF n
  <2>2. d + 1 \in Nat
    OBVIOUS
  <2> QED BY <2>1, <2>2
<1> HIDE DEF T
<1>3. n \in T
  BY <1>0, <1>1, <1>2, EveryNumber
<1>4. ASSUME NEW p \in Nat, NEW l \in Nat PROVE f[<<p, l>>] \in Nat
  <2>1. p + n >= n
    BY <1>0
  <2> QED BY <1>3, <2>1 DEF T
<1> QED BY <1>4

LEMMA BytesMakeWord ==
  ASSUME NEW msg \in Seq(Byte), NEW p \in Nat, p + 2 <= Len(msg)
  PROVE  Be16(msg, p) \in Word
<1> DEFINE i == p + 1
           j == p + 2
           a == msg[i]
           b == msg[j]
<1>1. i \in 1 .. Len(msg) /\ j \in 1 .. Len(msg)
  BY LenProperties
<1> HIDE DEF i, j
<1>2. a \in Byte /\ b \in Byte
  BY <1>1, ElementOfSeq
<1> HIDE DEF a, b
<1>3. a * 256 + b \in Word
  BY <1>2 DEF Byte, Word
<1> QED BY <1>3 DEF Be16, i, j, a, b

\* What parse returns.
Parsed(q) ==
  /\ q.id \in Word /\ q.flags \in Word /\ q.qtype \in Word /\ q.qclass \in Word
  /\ q.question \in Seq(Byte)

LEMMA QueryIsParsed ==
  ASSUME NEW msg \in Seq(Byte), IsQuery(msg)
  PROVE  Parsed(Parse(msg))
<1> DEFINE p == QuestionName(msg)
           n == Len(msg)
           s == p + 2
           b == p + 4
<1>1. n \in Nat /\ n >= 12 /\ p + 4 <= n
  BY LenProperties DEF IsQuery, HEADER_LEN
<1>2. p \in Nat
  <2>1. PICK f : Walks(f, msg, LabelLimit) /\ NameEnd(msg, 12, LabelLimit) = f[<<12, 0>>]
    BY NameEndWalks
  <2>2. f[<<12, 0>>] \in Nat
    BY <2>1, WalkType
  <2> QED BY <2>1, <2>2 DEF QuestionName, HEADER_LEN
<1> HIDE DEF p
<1>3. /\ s \in Nat /\ s + 2 <= n /\ p + 2 <= n /\ 0 + 2 <= n /\ 2 + 2 <= n
      /\ b \in Int /\ \A i \in 13 .. b : i \in 1 .. n
  BY <1>1, <1>2
<1> HIDE DEF s, b
<1>4. \A i \in 13 .. b : msg[i] \in Byte
  BY <1>3, ElementOfSeq
<1>5. SubSeq(msg, 13, b) \in Seq(Byte)
  <2>1. 13 \in Int
    OBVIOUS
  <2> QED BY <1>3, <1>4, <2>1, SubSeqProperties
<1>6. Be16(msg, 0) \in Word /\ Be16(msg, 2) \in Word /\ Be16(msg, p) \in Word /\ Be16(msg, s) \in Word
  BY <1>2, <1>3, BytesMakeWord
<1>7. 12 + 1 = 13
  OBVIOUS
<1> QED BY <1>5, <1>6, <1>7 DEF Parsed, Parse, HEADER_LEN, p, s, b

LEMMA FixedIsSeq ==
  ASSUME NEW S, NEW n \in Nat, NEW s, s \in [1 .. n -> S]
  PROVE  s \in Seq(S) /\ Len(s) = n
<1>1. s \in Seq(S)
  BY SeqDef
<1>2. DOMAIN s = 1 .. Len(s) /\ Len(s) \in Nat /\ DOMAIN s = 1 .. n
  BY <1>1, LenProperties
<1> DEFINE m == Len(s)
<1>3. m \in Nat /\ 1 .. m = 1 .. n
  BY <1>2
<1> HIDE DEF m
<1>4. m = n
  BY <1>3
<1> QED BY <1>1, <1>4 DEF m

LEMMA AddressIsBytes ==
  ASSUME NEW ans \in Answer, NEW q
  PROVE  /\ RData(q, ans) \in Seq(Byte) /\ Len(RData(q, ans)) <= 16
         /\ ans.ttl \in Seq(Byte) /\ Len(ans.ttl) = 4
<1> DEFINE Short(s) == s \in Seq(Byte) /\ Len(s) \in 0 .. 16
<1>1. /\ ans.a \in {<<>>} \cup [1 .. 4 -> Byte] /\ ans.aaaa \in {<<>>} \cup [1 .. 16 -> Byte]
      /\ ans.ttl \in [1 .. 4 -> Byte]
  BY DEF Answer
<1>2. 4 \in Nat /\ 16 \in Nat
  OBVIOUS
<1>3. \A s \in [1 .. 4 -> Byte] : s \in Seq(Byte) /\ Len(s) = 4
  BY ONLY <1>2, FixedIsSeq, ZenonT(30)
<1>4. \A s \in [1 .. 16 -> Byte] : s \in Seq(Byte) /\ Len(s) = 16
  BY ONLY <1>2, FixedIsSeq, ZenonT(30)
<1>5. /\ \A s \in [1 .. 4 -> Byte] : Short(s)
      /\ \A s \in [1 .. 16 -> Byte] : Short(s)
      /\ Short(<<>>)
  <2>1. 4 \in 0 .. 16 /\ 16 \in 0 .. 16 /\ 0 \in 0 .. 16
    OBVIOUS
  <2>2. <<>> \in Seq(Byte) /\ Len(<<>>) = 0
    BY EmptySeq
  <2> QED BY ONLY <1>3, <1>4, <2>1, <2>2, Zenon DEF Short
<1>6. ans.ttl \in Seq(Byte) /\ Len(ans.ttl) = 4
  BY ONLY <1>1, <1>3, Zenon
<1> HIDE DEF Short
<1>7. Short(ans.a) /\ Short(ans.aaaa)
  BY ONLY <1>1, <1>5, Zenon
<1>8. RData(q, ans) = <<>> \/ RData(q, ans) = ans.a \/ RData(q, ans) = ans.aaaa
  BY DEF RData
<1>9. Short(RData(q, ans))
  BY <1>5, <1>7, <1>8
<1>10. \A n \in 0 .. 16 : n <= 16
  OBVIOUS
<1> QED BY ONLY <1>6, <1>9, <1>10, Zenon DEF Short

LEMMA FlagsOfReply ==
  ASSUME NEW w \in Word
  PROVE  ReplyFlags(w) \in Word /\ ReplyFlags(w) >= 32768
<1> DEFINE o == (w \div 2048) % 16
           d == (w \div 256) % 2
<1>1. o \in 0 .. 15 /\ d \in 0 .. 1
  BY DEF Word
<1> HIDE DEF o, d
<1>2. 32768 + o * 2048 + d * 256 + 128 \in Word /\ 32768 + o * 2048 + d * 256 + 128 >= 32768
  BY <1>1 DEF Word
<1> QED BY <1>2 DEF ReplyFlags, o, d

\* What is in front of an address of m bytes in an answer record.
RecordHead(qtype, ttl, m) ==
  <<192, 12>> \o ToBe16(qtype) \o <<0, 1>> \o ttl \o <<0, m>>

\* The answer record has that head, and ends with the address.
LEMMA RecordEnds ==
  ASSUME NEW q, Parsed(q), NEW ans \in Answer, NEW d, d = RData(q, ans)
  PROVE  /\ AnswerRecord(q, ans, d) \in Seq(Byte)
         /\ Len(AnswerRecord(q, ans, d)) = 12 + Len(d)
         /\ \A i \in 1 .. Len(d) : AnswerRecord(q, ans, d)[12 + i] = d[i]
         /\ RecordHead(q.qtype, ans.ttl, Len(d)) \in Seq(Byte)
         /\ Len(RecordHead(q.qtype, ans.ttl, Len(d))) = 12
         /\ Keeps(AnswerRecord(q, ans, d), RecordHead(q.qtype, ans.ttl, Len(d)))
<1> DEFINE g1 == <<192, HEADER_LEN>>
           g2 == g1 \o ToBe16(q.qtype)
           g3 == g2 \o ToBe16(CLASS_IN)
           g4 == g3 \o ans.ttl
           v == Len(d)
           g5 == g4 \o ToBe16(v)
           r == g5 \o d
           t == ans.ttl
<1>1. d \in Seq(Byte) /\ v \in Nat /\ v <= 16 /\ t \in Seq(Byte) /\ Len(t) = 4
  BY AddressIsBytes, LenProperties
<1> HIDE DEF t
<1>2. q.qtype \in Word /\ CLASS_IN \in Word /\ v \in Word
  <2> HIDE DEF v
  <2>1. 1 \in Word /\ v \in Word
    BY <1>1 DEF Word
  <2> QED BY <2>1 DEF Parsed, CLASS_IN
<1>3. r = AnswerRecord(q, ans, d)
  BY DEF AnswerRecord
<1>10. g5 = RecordHead(q.qtype, t, v)
  <2>1. ToBe16(CLASS_IN) = <<0, 1>> /\ HEADER_LEN = 12
    BY DEF ToBe16, CLASS_IN, HEADER_LEN
  <2>2. ToBe16(v) = <<0, v>>
    <3> HIDE DEF v
    <3>1. (v \div 256) % 256 = 0 /\ v % 256 = v
      BY <1>1
    <3> QED BY <3>1 DEF ToBe16
  <2> QED BY ONLY <2>1, <2>2, Zenon DEF RecordHead, t
<1> HIDE DEF v
<1>4. g1 \in Seq(Byte) /\ Len(g1) = 2
  <2>1. 192 \in Byte /\ HEADER_LEN \in Byte
    BY DEF Byte, HEADER_LEN
  <2> QED BY <2>1
<1> HIDE DEF g1
<1>5. g2 \in Seq(Byte) /\ Len(g2) = 4
  <2>1. g2 \in Seq(Byte) /\ Len(g2) = Len(g1) + 2
    BY <1>2, <1>4, WordBehind
  <2> HIDE DEF g2
  <2> QED BY <1>4, <2>1
<1> HIDE DEF g2
<1>6. g3 \in Seq(Byte) /\ Len(g3) = 6
  <2>1. g3 \in Seq(Byte) /\ Len(g3) = Len(g2) + 2
    BY <1>2, <1>5, WordBehind
  <2> HIDE DEF g3
  <2> QED BY <1>5, <2>1
<1> HIDE DEF g3
<1>7. g4 \in Seq(Byte) /\ Len(g4) = 10
  <2>1. g4 \in Seq(Byte) /\ Len(g4) = Len(g3) + Len(t)
    BY <1>1, <1>6, Behind DEF t
  <2> HIDE DEF g4
  <2> QED BY <1>1, <1>6, <2>1
<1> HIDE DEF g4
<1>8. g5 \in Seq(Byte) /\ Len(g5) = 12
  <2>1. g5 \in Seq(Byte) /\ Len(g5) = Len(g4) + 2
    BY <1>2, <1>7, WordBehind
  <2> HIDE DEF g5
  <2> QED BY <1>7, <2>1
<1> HIDE DEF g5
<1>9. /\ r \in Seq(Byte) /\ Len(r) = Len(g5) + Len(d) /\ Keeps(r, g5)
      /\ \A i \in 1 .. Len(d) : r[Len(g5) + i] = d[i]
  BY <1>1, <1>8, Behind
<1> HIDE DEF r
<1> QED BY <1>3, <1>8, <1>9, <1>10 DEF t, v

\* What a reply to a query q says, with an address to give or none: `n` records.
\* The head of its record is g.
Says(r, q, g, d, n) ==
  /\ r \in Seq(Byte) /\ g \in Seq(Byte) /\ Len(g) = 12
  /\ Reads(r, q.id, ReplyFlags(q.flags), 1, n, 0, 0)
  /\ Len(r) = 12 + Len(q.question) + n * (12 + Len(d))
  /\ \A i \in 1 .. Len(q.question) : r[12 + i] = q.question[i]
  /\ n = 1 => \A i \in 1 .. 12 : r[12 + Len(q.question) + i] = g[i]
  /\ \A i \in 1 .. Len(d) : r[Len(r) - Len(d) + i] = d[i]

LEMMA ReadsOn ==
  ASSUME NEW h \in Seq(Byte), Len(h) = 12, NEW r, Keeps(r, h),
         NEW a, NEW b, NEW c, NEW d, NEW e, NEW f, Reads(h, a, b, c, d, e, f)
  PROVE  Reads(r, a, b, c, d, e, f)
<1>1. /\ 0 \in Nat /\ 2 \in Nat /\ 4 \in Nat /\ 6 \in Nat /\ 8 \in Nat /\ 10 \in Nat
      /\ 0 + 2 <= Len(h) /\ 2 + 2 <= Len(h) /\ 4 + 2 <= Len(h) /\ 6 + 2 <= Len(h)
      /\ 8 + 2 <= Len(h) /\ 10 + 2 <= Len(h)
  OBVIOUS
<1>2. /\ Be16(r, 0) = Be16(h, 0) /\ Be16(r, 2) = Be16(h, 2) /\ Be16(r, 4) = Be16(h, 4)
      /\ Be16(r, 6) = Be16(h, 6) /\ Be16(r, 8) = Be16(h, 8) /\ Be16(r, 10) = Be16(h, 10)
  BY <1>1, WordKept
<1> QED BY <1>2 DEF Reads

LEMMA ReplyHeaderReads ==
  ASSUME NEW q, Parsed(q), NEW n \in 0 .. 1
  PROVE  /\ ReplyHeader(q, n) \in Seq(Byte) /\ Len(ReplyHeader(q, n)) = 12
         /\ Reads(ReplyHeader(q, n), q.id, ReplyFlags(q.flags), 1, n, 0, 0)
<1> DEFINE h == ReplyHeader(q, n)
           a == q.id
           b == ReplyFlags(q.flags)
<1>1. h = Words(a, b, 1, n, 0, 0)
  BY DEF ReplyHeader, Words
<1>2. AreWords(a, b, 1, n, 0, 0)
  <2>1. a \in Word /\ b \in Word
    BY FlagsOfReply DEF Parsed
  <2>2. 1 \in Word /\ n \in Word /\ 0 \in Word
    BY DEF Word
  <2> QED BY <2>1, <2>2 DEF AreWords
<1> HIDE DEF h, a, b
<1>3. h \in Seq(Byte) /\ Len(h) = 12 /\ Reads(h, a, b, 1, n, 0, 0)
  BY ONLY <1>1, <1>2, HeaderReads, ZenonT(30)
<1> QED BY <1>3 DEF h, a, b

LEMMA ReplySays ==
  ASSUME NEW msg \in Seq(Byte), IsQuery(msg), NEW ans \in Answer,
         NEW q, q = Parse(msg), NEW d, d = RData(q, ans),
         NEW g, g = RecordHead(q.qtype, ans.ttl, Len(d))
  PROVE  Says(Reply(msg, ans), q, g, d, IF d = <<>> THEN 0 ELSE 1)
<1> DEFINE t == q.question
           r == Reply(msg, ans)
<1>1. Parsed(q) /\ t \in Seq(Byte)
  BY QueryIsParsed DEF Parsed
<1>2. d \in Seq(Byte) /\ Len(d) \in Nat /\ (d = <<>> => Len(d) = 0)
  BY AddressIsBytes, LenProperties, EmptySeq
<1>5. g \in Seq(Byte) /\ Len(g) = 12
  BY <1>1, RecordEnds
<1>3. CASE d = <<>>
  <2> DEFINE h == ReplyHeader(q, 0)
  <2>1. r = h \o t
    BY <1>3 DEF Reply
  <2>2. h \in Seq(Byte) /\ Len(h) = 12 /\ Reads(h, q.id, ReplyFlags(q.flags), 1, 0, 0, 0)
    BY <1>1, ReplyHeaderReads
  <2> HIDE DEF h, r
  <2>3. /\ r \in Seq(Byte) /\ Len(r) = Len(h) + Len(t) /\ Keeps(r, h)
        /\ \A i \in 1 .. Len(t) : r[Len(h) + i] = t[i]
    <3>1. h \in Seq(Byte) /\ t \in Seq(Byte)
      BY <1>1, <2>2
    <3> HIDE DEF t
    <3>2. /\ h \o t \in Seq(Byte) /\ Len(h \o t) = Len(h) + Len(t) /\ Keeps(h \o t, h)
          /\ \A i \in 1 .. Len(t) : (h \o t)[Len(h) + i] = t[i]
      BY ONLY <3>1, Behind, ZenonT(30)
    <3> QED BY <2>1, <3>2
  <2>4. Reads(r, q.id, ReplyFlags(q.flags), 1, 0, 0, 0)
    BY <2>2, <2>3, ReadsOn
  <2>5. Len(r) = 12 + Len(t) + 0 * (12 + Len(d))
    <3> DEFINE k == Len(t)
               m == Len(d)
    <3>1. k \in Nat /\ m \in Nat /\ Len(r) = 12 + k
      BY <1>1, <1>2, <2>2, <2>3, LenProperties
    <3> HIDE DEF k, m
    <3>2. Len(r) = 12 + k + 0 * (12 + m)
      BY <3>1
    <3> QED BY <3>2 DEF k, m
  <2>6. \A i \in 1 .. Len(d) : FALSE
    BY <1>2, <1>3
  <2>7. \A i \in 1 .. Len(t) : r[12 + i] = t[i]
    BY <2>2, <2>3
  <2>8. \A i \in 1 .. Len(d) : r[Len(r) - Len(d) + i] = d[i]
    BY <2>6
  <2> QED BY <1>3, <1>5, <2>3, <2>4, <2>5, <2>7, <2>8 DEF Says, r
<1>4. CASE d # <<>>
  <2> DEFINE h == ReplyHeader(q, 1)
             u == AnswerRecord(q, ans, d)
  <2>1. r = h \o t \o u
    BY <1>4 DEF Reply
  <2>2. h \in Seq(Byte) /\ Len(h) = 12 /\ Reads(h, q.id, ReplyFlags(q.flags), 1, 1, 0, 0)
    BY <1>1, ReplyHeaderReads
  <2>3. /\ u \in Seq(Byte) /\ Len(u) = 12 + Len(d) /\ Keeps(u, g)
        /\ \A i \in 1 .. Len(d) : u[12 + i] = d[i]
    BY <1>1, RecordEnds
  <2> HIDE DEF h, u, r, t
  <2>4. /\ r \in Seq(Byte) /\ Len(r) = Len(h) + Len(t) + Len(u) /\ Keeps(r, h)
        /\ \A i \in 1 .. Len(t) : r[Len(h) + i] = t[i]
        /\ \A i \in 1 .. Len(u) : r[Len(h) + Len(t) + i] = u[i]
    <3>1. Holds(h \o t \o u, h, t, u)
      BY <1>1, <2>2, <2>3, Middle
    <3>2. Holds(r, h, t, u)
      BY ONLY <2>1, <3>1, Zenon
    <3> QED BY <3>2 DEF Holds
  <2>5. Reads(r, q.id, ReplyFlags(q.flags), 1, 1, 0, 0)
    BY <2>2, <2>4, ReadsOn
  <2> DEFINE k == Len(t)
             m == Len(d)
             z == Len(r)
  <2>6. k \in Nat /\ m \in Nat /\ z = 12 + k + (12 + m)
    <3>1. k \in Nat /\ m \in Nat /\ Len(r) = 12 + k + Len(u) /\ Len(u) = 12 + m
      BY <1>1, <1>2, <2>2, <2>3, <2>4, LenProperties
    <3> HIDE DEF k, m
    <3> QED BY <3>1
  <2>7. ASSUME NEW i \in 1 .. m PROVE r[z - m + i] = d[i]
    <3> DEFINE j == 12 + i
    <3>1. u[j] = d[i]
      BY <2>3, <2>7
    <3>2. j \in 1 .. Len(u)
      <4>1. Len(u) = 12 + m
        BY <2>3
      <4> HIDE DEF m
      <4> QED BY <2>6, <2>7, <4>1
    <3> HIDE DEF j
    <3>3. r[12 + k + j] = u[j]
      BY <2>2, <2>4, <3>2
    <3> HIDE DEF k, m, z
    <3>4. z - m + i = 12 + k + j
      BY <2>6, <2>7 DEF j
    <3> QED BY <3>1, <3>3, <3>4
  <2>8. \A i \in 1 .. k : r[12 + i] = t[i]
    BY <2>2, <2>4
  <2>9. z = 12 + k + 1 * (12 + m)
    <3> HIDE DEF k, m, z
    <3> QED BY <2>6
  <2>10. ASSUME NEW i \in 1 .. 12 PROVE r[12 + k + i] = g[i]
    <3>1. u[i] = g[i]
      BY <1>5, <2>3 DEF Keeps
    <3>2. i \in 1 .. Len(u)
      <4>1. Len(u) = 12 + m
        BY <2>3
      <4> HIDE DEF m
      <4> QED BY <2>6, <4>1
    <3>3. r[12 + k + i] = u[i]
      BY <2>2, <2>4, <3>2
    <3> QED BY <3>1, <3>3
  <2> QED BY <1>4, <1>5, <2>4, <2>5, <2>7, <2>8, <2>9, <2>10 DEF Says, r, t
<1> QED BY <1>3, <1>4

-----------------------------------------------------------------------------
\* Only queries are answered.

\* What the parser is given of a message, and whether it makes a reply of it.
Inside(b) == IF proto = "tcp" THEN Unframed(b) ELSE b

Draws(b) == (proto = "tcp" => Len(b) >= 2) /\ IsQuery(Inside(b))

TheAnswer == CHOOSE a \in profile.rules[1].action.dns : TRUE

\* The one answer of a profile that answers with DNS only.
Answered(b) ==
  IF proto = "tcp" THEN ReplyTcp(b, TheAnswer) ELSE Reply(b, TheAnswer)

Answers(b) == IF Answered(b) = <<>> THEN <<>> ELSE <<Answered(b)>>

LEMMA UnframedType ==
  ASSUME NEW b \in Seq(Byte), Len(b) >= 2
  PROVE  Unframed(b) \in Seq(Byte)
<1> DEFINE x == Be16(b, 0)
           y == Len(b) - 2
           z == IF x < y THEN x ELSE y
           k == 2 + z
           n == Len(b)
<1>1. n \in Nat /\ n >= 2 /\ x \in Word
  <2>1. n \in Nat /\ n >= 2 /\ 0 \in Nat /\ 0 + 2 <= Len(b)
    BY LenProperties
  <2> QED BY <2>1, BytesMakeWord
<1> HIDE DEF x, n
<1>2. k \in Int /\ k <= n
  BY <1>1 DEF Word, n
<1> HIDE DEF k
<1>3. \A i \in 3 .. k : i \in 1 .. n
  BY <1>1, <1>2
<1>4. \A i \in 3 .. k : b[i] \in Byte
  BY <1>3, ElementOfSeq DEF n
<1>5. SubSeq(b, 3, k) \in Seq(Byte)
  BY <1>2, <1>4, SubSeqProperties
<1> QED BY <1>5 DEF Unframed, k, x

\* A reply is not empty.
LEMMA RepliesToQueries ==
  ASSUME NEW msg \in Seq(Byte), NEW ans \in Answer
  PROVE  /\ ~IsQuery(msg) => Reply(msg, ans) = <<>>
         /\ IsQuery(msg) => Reply(msg, ans) \in Seq(Byte) /\ Len(Reply(msg, ans)) >= 12
                            /\ Reply(msg, ans) # <<>>
<1>1. ~IsQuery(msg) => Reply(msg, ans) = <<>>
  BY DEF Reply, NoReply
<1>2. ASSUME IsQuery(msg)
      PROVE  Reply(msg, ans) \in Seq(Byte) /\ Len(Reply(msg, ans)) >= 12 /\ Reply(msg, ans) # <<>>
  <2> DEFINE q == Parse(msg)
             d == RData(q, ans)
             n == IF d = <<>> THEN 0 ELSE 1
             r == Reply(msg, ans)
             k == Len(q.question)
             m == Len(d)
             z == Len(r)
  <2>1. \E g : Says(r, q, g, d, n)
    BY <1>2, ReplySays
  <2>2. k \in Nat /\ m \in Nat
    BY <1>2, QueryIsParsed, AddressIsBytes, LenProperties DEF Parsed
  <2>3. r \in Seq(Byte) /\ z = 12 + k + n * (12 + m) /\ n \in {0, 1}
    BY <2>1 DEF Says
  <2>4. z >= 12
    <3> HIDE DEF k, m, n, z
    <3>1. CASE n = 0
      BY <2>2, <2>3, <3>1
    <3>2. CASE n = 1
      BY <2>2, <2>3, <3>2
    <3> QED BY <2>3, <3>1, <3>2
  <2> HIDE DEF r
  <2>5. r # <<>>
    BY <2>4
  <2> QED BY <2>3, <2>4, <2>5 DEF r
<1> QED BY <1>1, <1>2

\* No beginning of a reply is a query.
LEMMA NoReplyIsQuery ==
  ASSUME NEW msg \in Seq(Byte), IsQuery(msg), NEW ans \in Answer,
         NEW t, Keeps(Reply(msg, ans), t), NEW n \in Nat, n = Len(t)
  PROVE  ~IsQuery(t)
<1> DEFINE r == Reply(msg, ans)
           q == Parse(msg)
           w == ReplyFlags(q.flags)
<1>1. SUFFICES ASSUME n >= 12 PROVE ~IsQuery(t)
  BY DEF IsQuery, HEADER_LEN
<1>2. Be16(r, 2) = w
  <2> DEFINE d == RData(q, ans)
             k == IF d = <<>> THEN 0 ELSE 1
  <2>1. \E g : Says(r, q, g, d, k)
    BY ReplySays
  <2> HIDE DEF r, q, w, d, k
  <2> QED BY <2>1 DEF Says, Reads, w
<1>3. w \in Word /\ w >= 32768
  BY QueryIsParsed, FlagsOfReply DEF Parsed
<1> HIDE DEF r, w
<1>4. 3 \in 1 .. n /\ 4 \in 1 .. n
  BY <1>1
<1>5. r[3] = t[3] /\ r[4] = t[4]
  BY <1>4 DEF Keeps, r
<1>6. 2 + 1 = 3 /\ 2 + 2 = 4
  OBVIOUS
<1>7. Be16(t, 2) = w
  BY ONLY <1>2, <1>5, <1>6, Zenon DEF Be16
<1>8. ~(w < 32768)
  BY <1>3 DEF Word
<1> QED BY <1>7, <1>8 DEF IsQuery, PlainQuery

\* What one read got of a message has its first bytes.
LEMMA ReadKeeps ==
  ASSUME NEW s \in Seq(Byte), NEW b \in Seq(Byte), Len(b) <= Len(s),
         b = SubSeq(s, 1, Len(b))
  PROVE  Keeps(s, b)
<1> DEFINE n == Len(b)
<1>1. n \in Nat /\ Len(s) \in Nat /\ 1 \in Int /\ n \in Int /\ n <= Len(s)
  BY LenProperties
<1>2. b = SubSeq(s, 1, n)
  OBVIOUS
<1> HIDE DEF n
<1>3. \A i \in 1 .. n : i \in 1 .. Len(s)
  BY <1>1
<1>4. \A i \in 1 .. n : s[i] \in Byte
  BY <1>3, ElementOfSeq
<1>5. \A i \in 1 .. n - 1 + 1 : b[i] = s[1 + i - 1]
  BY <1>1, <1>2, <1>4, SubSeqProperties
<1>6. n - 1 + 1 = n /\ \A i \in 1 .. n : 1 + i - 1 = i
  BY <1>1
<1>7. \A i \in 1 .. n : b[i] = s[i]
  BY <1>5, <1>6
<1> QED BY <1>7 DEF Keeps, n

\* The message in a frame, or what there is of it.
CutFrom(inner, b) ==
  /\ Unframed(b) \in Seq(Byte)
  /\ Len(Unframed(b)) = IF Be16(b, 0) < Len(b) - 2 THEN Be16(b, 0) ELSE Len(b) - 2
  /\ Keeps(inner, Unframed(b))

LEMMA UnframedOf ==
  ASSUME NEW inner \in Seq(Byte), NEW w, \A i \in 1 .. Len(inner) : w[2 + i] = inner[i],
         NEW b \in Seq(Byte), Len(b) >= 2, Keeps(w, b),
         Be16(b, 0) <= Len(inner) \/ Len(b) - 2 <= Len(inner)
  PROVE  CutFrom(inner, b)
<1> DEFINE x == Be16(b, 0)
           y == Len(b) - 2
           t == Unframed(b)
           n == Len(b)
           z == IF x < y THEN x ELSE y
           k == 2 + z
           a == Len(inner)
<1>1. n \in Nat /\ n >= 2 /\ x \in Word /\ a \in Nat /\ y = n - 2
  <2>1. n \in Nat /\ n >= 2 /\ 0 \in Nat /\ 0 + 2 <= Len(b) /\ a \in Nat
    BY LenProperties
  <2> QED BY <2>1, BytesMakeWord
<1>2. \A i \in 1 .. a : w[2 + i] = inner[i]
  OBVIOUS
<1>3. t = SubSeq(b, 3, k)
  BY DEF Unframed
<1>4. x <= a \/ y <= a
  OBVIOUS
<1> HIDE DEF n, a, x, y, t
<1>5. z \in Nat /\ z <= y /\ z <= a /\ k \in Int /\ k <= n /\ 3 \in Int
  BY <1>1, <1>4 DEF Word
<1> HIDE DEF z
<1>6. k - 3 + 1 = z /\ (~(3 <= k) => z = 0) /\ \A i \in 1 .. z : 3 + i - 1 = 2 + i
  BY <1>5
<1> HIDE DEF k
<1>7. \A i \in 3 .. k : i \in 1 .. n
  BY <1>1, <1>5
<1>8. \A i \in 3 .. k : b[i] \in Byte
  BY <1>7, ElementOfSeq DEF n
<1>9. /\ t \in Seq(Byte) /\ Len(t) = (IF 3 <= k THEN k - 3 + 1 ELSE 0)
      /\ \A i \in 1 .. k - 3 + 1 : t[i] = b[3 + i - 1]
  BY <1>3, <1>5, <1>8, SubSeqProperties
<1>10. Len(t) = z /\ \A i \in 1 .. z : t[i] = b[2 + i]
  BY <1>6, <1>9
<1>11. ASSUME NEW i \in 1 .. z PROVE inner[i] = t[i]
  <2> DEFINE j == 2 + i
  <2>1. j \in 1 .. n /\ i \in 1 .. a
    BY <1>1, <1>5
  <2>2. w[j] = inner[i]
    BY <1>2, <2>1
  <2>3. t[i] = b[j]
    BY <1>10
  <2> HIDE DEF j
  <2>4. w[j] = b[j]
    BY <2>1 DEF Keeps, n
  <2> QED BY <2>2, <2>3, <2>4
<1>12. Keeps(inner, t)
  BY <1>10, <1>11 DEF Keeps
<1> QED BY <1>9, <1>10, <1>12 DEF CutFrom, z, x, y, t

LEMMA LengthBytes ==
  ASSUME NEW n \in Nat
  PROVE  ToBe16(n) \in Seq(Byte) /\ Len(ToBe16(n)) = 2
<1> DEFINE a == (n \div 256) % 256
           b == n % 256
<1>1. a \in Byte /\ b \in Byte
  BY DEF Byte
<1> HIDE DEF a, b
<1>2. <<a, b>> \in Seq(Byte) /\ Len(<<a, b>>) = 2
  BY <1>1
<1> QED BY <1>2 DEF ToBe16, a, b

\* A reply comes when the message draws one, and draws none itself.
LEMMA AnsweredIs ==
  ASSUME NEW b \in Seq(Byte), TheAnswer \in Answer
  PROVE  /\ Answered(b) # <<>> <=> Draws(b)
         /\ Draws(b) => Answered(b) \in Seq(Byte) /\ ~Draws(Answered(b))
<1> DEFINE ans == TheAnswer
           c == Unframed(b)
<1>1. ans \in Answer
  OBVIOUS
<1> HIDE DEF ans
<1>2. CASE proto # "tcp"
  <2>1. Answered(b) = Reply(b, ans) /\ (Draws(b) <=> IsQuery(b))
    BY <1>2 DEF Answered, Draws, Inside, ans
  <2>2. ASSUME IsQuery(b) PROVE Answered(b) \in Seq(Byte) /\ ~Draws(Answered(b))
    <3> DEFINE r == Reply(b, ans)
               n == Len(r)
    <3>1. r \in Seq(Byte)
      BY <1>1, <2>2, RepliesToQueries
    <3>2. n \in Nat /\ Keeps(r, r)
      BY <3>1, LenProperties DEF Keeps
    <3>3. ~IsQuery(r)
      BY <1>1, <2>2, <3>2, NoReplyIsQuery
    <3> QED BY <1>2, <2>1, <3>1, <3>3 DEF Draws, Inside
  <2> QED BY <1>1, <2>1, <2>2, RepliesToQueries
<1>3. CASE proto = "tcp"
  <2>1. Answered(b) = ReplyTcp(b, ans) /\ (Draws(b) <=> Len(b) >= 2 /\ IsQuery(c))
    BY <1>3 DEF Answered, Draws, Inside, ans
  <2>2. Len(b) \in Nat
    BY LenProperties
  <2>3. CASE ~(Len(b) >= 2)
    BY <2>1, <2>2, <2>3 DEF ReplyTcp, NoReply
  <2>4. CASE Len(b) >= 2
    <3>1. c \in Seq(Byte)
      BY <2>4, UnframedType
    <3>2. CASE ~IsQuery(c)
      <4>1. Reply(c, ans) = <<>>
        BY <1>1, <3>1, <3>2, RepliesToQueries
      <4> QED BY <2>1, <3>2, <4>1 DEF ReplyTcp, NoReply
    <3>3. CASE IsQuery(c)
      <4> DEFINE r == Reply(c, ans)
                 n == Len(r)
                 f == ToBe16(n)
                 w == f \o r
                 t == Unframed(w)
      <4>1. r \in Seq(Byte) /\ r # <<>> /\ n \in Nat
        BY <1>1, <3>1, <3>3, RepliesToQueries, LenProperties
      <4>2. f \in Seq(Byte) /\ Len(f) = 2
        BY <4>1, LengthBytes
      <4>3. Answered(b) = w
        BY <2>1, <2>2, <2>4, <4>1 DEF ReplyTcp, NoReply
      <4>4. w \in Seq(Byte) /\ Len(w) = 2 + n
        <5> HIDE DEF f, r, n
        <5>1. w \in Seq(Byte) /\ Len(w) = Len(f) + Len(r)
          BY <4>1, <4>2, Behind
        <5> QED BY <4>2, <5>1 DEF n
      <4>9. \A i \in 1 .. Len(r) : w[2 + i] = r[i]
        <5> HIDE DEF f, r
        <5>1. \A i \in 1 .. Len(r) : w[Len(f) + i] = r[i]
          BY <4>1, <4>2, Behind
        <5> QED BY <4>2, <5>1
      <4> HIDE DEF f, n, w
      <4>5. Len(w) >= 2 /\ Len(w) <= Len(w) /\ Keeps(w, w)
        BY <4>1, <4>4 DEF Keeps
      <4>6. t \in Seq(Byte) /\ Keeps(r, t)
        <5>1. Len(w) - 2 <= Len(r)
          BY <4>1, <4>4 DEF n
        <5> HIDE DEF r
        <5>2. CutFrom(r, w)
          BY ONLY <4>1, <4>4, <4>5, <4>9, <5>1, UnframedOf, ZenonT(30)
        <5> QED BY <5>2 DEF CutFrom
      <4>7. ~IsQuery(t)
        <5>1. Len(t) \in Nat
          BY <4>6, LenProperties
        <5> HIDE DEF t, c
        <5> QED BY <1>1, <3>1, <3>3, <4>6, <5>1, NoReplyIsQuery
      <4>8. w # <<>>
        BY <4>1, <4>4
      <4> QED BY <1>3, <2>1, <2>4, <3>3, <4>3, <4>4, <4>7, <4>8 DEF Draws, Inside
    <3> QED BY <3>2, <3>3
  <2> QED BY <2>3, <2>4
<1> QED BY <1>2, <1>3

\* What the parser makes of a message that is meant as a query, or of as much of
\* it as was read.
LEMMA MeantAsQuery ==
  ASSUME NEW m, m.bytes \in Seq(Byte), IsItsQuery(m), m.meant.framed = (proto = "tcp")
  PROVE  /\ Draws(m.bytes) <=>
              /\ m.meant.whole
              /\ ~m.meant.qr /\ m.meant.opcode = 0 /\ m.meant.qdcount = 1
              /\ Len(m.meant.labels) <= LabelLimit + 1
         /\ Draws(m.bytes) =>
              /\ Inside(m.bytes) \in Seq(Byte)
              /\ Parse(Inside(m.bytes)) =
                   [id |-> m.meant.id, flags |-> FlagWord(m.meant),
                    qtype |-> m.meant.qtype, qclass |-> m.meant.qclass,
                    question |-> m.meant.question]
<1> DEFINE q == m.meant
           e == Encoded(q)
           b == m.bytes
           n == Len(b)
           c == Inside(b)
           g == Question(q)
           x == Len(q.extra)
           k == Len(g)
           Asks == /\ ~q.qr /\ q.opcode = 0 /\ q.qdcount = 1
                   /\ Len(q.labels) <= LabelLimit + 1
           Read == [id |-> q.id, flags |-> FlagWord(q), qtype |-> q.qtype,
                    qclass |-> q.qclass, question |-> g]
<1>1. QueryOk(q) /\ q.question = g
  BY DEF IsItsQuery, QueryOk
<1>2. /\ e \in Seq(Byte) /\ Len(e) = 12 + k + x /\ k \in Nat /\ x \in Nat /\ n \in Nat
      /\ Len(e) \in Word
  <2>1. e \in Seq(Byte) /\ Len(e) = 12 + k + x
    BY <1>1, EncodedReads
  <2>2. k \in Nat /\ x \in Nat
    BY <1>1, QuestionReads, LenProperties DEF QueryOk
  <2>3. Len(e) \in Word
    BY DEF IsItsQuery
  <2> QED BY <2>1, <2>2, <2>3, LenProperties
<1>3. ASSUME c \in Seq(Byte), Keeps(e, c)
      PROVE  /\ IsQuery(c) <=> Len(c) >= Len(e) - x /\ Asks
             /\ IsQuery(c) => Parse(c) = Read
  <2> HIDE DEF c
  <2> QED BY <1>1, <1>3, QueryParsed
<1>4. ASSUME proto # "tcp"
      PROVE  /\ Draws(b) <=> q.whole /\ Asks
             /\ Draws(b) => c \in Seq(Byte) /\ Parse(c) = Read
  <2>1. n <= Len(e) /\ b = SubSeq(e, 1, n) /\ (q.whole = (n >= Len(e) - x))
    <3>1. n <= Len(e) /\ b = SubSeq(e, 1, n) /\ (q.whole = (n >= 12 + k))
      BY <1>4 DEF IsItsQuery, Sent, Asked
    <3>2. Len(e) - x = 12 + k
      <4> DEFINE z == Len(e)
      <4>1. z = 12 + k + x /\ k \in Nat /\ x \in Nat
        BY <1>2
      <4> HIDE DEF z, k, x
      <4>2. z - x = 12 + k
        BY <4>1
      <4> QED BY <4>2 DEF z
    <3> QED BY <3>1, <3>2
  <2>2. Keeps(e, b)
    BY <1>2, <2>1, ReadKeeps
  <2>3. c = b /\ (Draws(b) <=> IsQuery(b))
    BY <1>4 DEF Draws, Inside
  <2> HIDE DEF e, n, q, b, c, x, Asks, Read
  <2>4. /\ IsQuery(b) <=> Len(b) >= Len(e) - x /\ Asks
        /\ IsQuery(b) => Parse(b) = Read
    BY <1>3, <2>2, <2>3 DEF b
  <2> QED BY <2>1, <2>3, <2>4 DEF n, b
<1>5. ASSUME proto = "tcp"
      PROVE  /\ Draws(b) <=> q.whole /\ Asks
             /\ Draws(b) => c \in Seq(Byte) /\ Parse(c) = Read
  <2> DEFINE f == ToBe16(Len(e))
             u == q.behind
             w == f \o e \o u
             z == Len(e)
  <2>1. f \in Seq(Byte) /\ Len(f) = 2 /\ f[1] * 256 + f[2] = z
    BY <1>2, WordBytes
  <2> HIDE DEF f
  <2>2. /\ w \in Seq(Byte) /\ Keeps(w, f)
        /\ \A i \in 1 .. Len(e) : w[2 + i] = e[i]
    <3>1. u \in Seq(Byte)
      BY DEF IsItsQuery
    <3> HIDE DEF e, u
    <3>2. Holds(f \o e \o u, f, e, u)
      BY <1>2, <2>1, <3>1, Middle
    <3> QED BY <2>1, <3>2 DEF Holds
  <2>3. w = Sent(q)
    BY <1>5 DEF Framed, Sent, f
  <2>4. n <= Len(w) /\ b = SubSeq(w, 1, n) /\ (q.whole = (n >= 14 + k))
    BY <1>5, <2>3 DEF IsItsQuery, Asked
  <2>5. Keeps(w, b)
    <3> HIDE DEF w
    <3> QED BY <2>2, <2>4, ReadKeeps
  <2>6. Draws(b) <=> n >= 2 /\ IsQuery(c)
    BY <1>5 DEF Draws
  <2>7. CASE ~(n >= 2)
    <3>1. ~(n >= 14 + k)
      <4> HIDE DEF n, k
      <4> QED BY <1>2, <2>7
    <3> QED BY <2>4, <2>6, <2>7, <3>1
  <2>8. CASE n >= 2
    <3> DEFINE i == Be16(b, 0)
               y == Len(b) - 2
    <3>1. i = z
      <4>1. 1 \in 1 .. n /\ 2 \in 1 .. n
        BY <1>2, <2>8
      <4>2. w[1] = b[1] /\ w[2] = b[2]
        BY <2>5, <4>1 DEF Keeps
      <4>3. w[1] = f[1] /\ w[2] = f[2]
        <5>1. 1 \in 1 .. Len(f) /\ 2 \in 1 .. Len(f)
          BY <2>1
        <5> QED BY <2>2, <5>1 DEF Keeps
      <4>4. 0 + 1 = 1 /\ 0 + 2 = 2
        OBVIOUS
      <4> HIDE DEF w, z, b
      <4> QED BY <2>1, <4>2, <4>3, <4>4 DEF Be16
    <3>2. c = Unframed(b)
      BY <1>5 DEF Inside
    <3>3. /\ c \in Seq(Byte) /\ Len(c) = IF i < y THEN i ELSE y
          /\ Keeps(e, c)
      <4>1. Len(b) >= 2 /\ b \in Seq(Byte) /\ e \in Seq(Byte)
        BY <1>2, <2>8
      <4>2. Be16(b, 0) <= Len(e)
        <5>1. i <= z
          <6>1. z \in Nat
            <7>1. Len(e) \in Word
              BY <1>2
            <7> HIDE DEF e
            <7> QED BY <7>1 DEF Word
          <6> HIDE DEF i, z
          <6> QED BY <3>1, <6>1
        <5> QED BY <5>1
      <4>3. \A j \in 1 .. Len(e) : w[2 + j] = e[j]
        BY <2>2
      <4> HIDE DEF w, e, b
      <4>4. CutFrom(e, b)
        BY ONLY <2>5, <4>1, <4>2, <4>3, UnframedOf, ZenonT(30)
      <4> QED BY <3>2, <4>4 DEF CutFrom
    <3>5. Len(c) >= Len(e) - x <=> n >= 14 + k
      <4> DEFINE v == Len(c)
      <4>1. v = IF z < y THEN z ELSE y
        BY <3>1, <3>3
      <4>2. y = n - 2 /\ z = 12 + k + x /\ n \in Nat /\ k \in Nat /\ x \in Nat
        BY <1>2
      <4> HIDE DEF n, x, k, v, y, z
      <4>3. z - x = 12 + k /\ (v >= 12 + k <=> n >= 14 + k)
        BY <4>1, <4>2
      <4>4. v >= z - x <=> n >= 14 + k
        BY <4>3
      <4> QED BY <4>4 DEF v, z
    <3> HIDE DEF w, c, x, k, Asks, Read, n
    <3>6. /\ IsQuery(c) <=> Len(c) >= Len(e) - x /\ Asks
          /\ IsQuery(c) => Parse(c) = Read
      BY <1>3, <3>3
    <3> QED BY <2>4, <2>6, <2>8, <3>3, <3>5, <3>6
  <2> QED BY <2>7, <2>8
<1> QED BY <1>1, <1>4, <1>5

\* The bytes of anything else draw no reply.
LEMMA MeantOtherwise ==
  ASSUME NEW m, m.bytes \in Seq(Byte), IsNoQuery(m)
  PROVE  ~Draws(m.bytes)
BY DEF IsNoQuery, Draws, Inside

-----------------------------------------------------------------------------
\* A profile that answers with DNS only.

LEMMA EmptyMatchMatches ==
  ASSUME NEW data, NEW f
  PROVE  Matches(EmptyMatch, data, f)
<1> DEFINE m == EmptyMatch
<1>1. /\ m.any = {} /\ m.first_only = {} /\ m.len = {} /\ m.min_len = {} /\ m.max_len = {}
      /\ m.starts_with = {} /\ m.ends_with = {} /\ m.contains = {}
      /\ m.prefix_hex = {} /\ m.contains_hex = {}
  BY DEF EmptyMatch
<1> HIDE DEF m
<1>2. Matches(m, data, f)
  BY <1>1 DEF Matches
<1> QED BY <1>2 DEF m

LEMMA OnlyRule ==
  ASSUME LoadedOk(profile), DnsOnly, NEW data, NEW f
  PROVE  Eval(profile, data, f) = {profile.rules[1].action}
<1>1. DOMAIN profile.rules = {1}
  <2>1. DOMAIN profile.rules = 1 .. 1
    BY DEF LoadedOk, DnsOnly
  <2> QED BY <2>1
<1>2. Matches(profile.rules[1].matcher, data, f)
  BY EmptyMatchMatches DEF DnsOnly
<1> DEFINE hits == {i \in DOMAIN profile.rules : Matches(profile.rules[i].matcher, data, f)}
<1>3. hits = {1}
  BY <1>1, <1>2
<1>4. {h \in hits : \A j \in hits : h <= j} = {1}
  <2> HIDE DEF hits
  <2> QED BY <1>3
<1>5. Eval(profile, data, f) =
        {profile.rules[i].action : i \in {h \in hits : \A j \in hits : h <= j}}
  BY DEF Eval
<1> HIDE DEF hits
<1> QED BY <1>4, <1>5

LEMMA OnlyAnswers ==
  ASSUME LoadedOk(profile), DnsOnly, NEW b, NEW f
  PROVE  /\ TheAnswer \in Answer
         /\ Replies({}, b) \o Replies(Eval(profile, b, f), b) = Answers(b)
<1> DEFINE a == profile.rules[1].action
           p == Payload(a, b)
<1>1. Eval(profile, b, f) = {a}
  BY OnlyRule
<1>2. Compiled(a) /\ a.dns # {} /\ ~a.echo
  <2>1. 1 \in DOMAIN profile.rules
    <3>1. DOMAIN profile.rules = 1 .. 1
      BY DEF LoadedOk, DnsOnly
    <3> QED BY <3>1
  <2> QED BY <2>1 DEF LoadedOk, DnsOnly
<1>3. TheAnswer \in Answer
  <2>1. a.dns \subseteq Answer
    BY <1>2 DEF Compiled, Optional
  <2>2. TheAnswer \in a.dns
    BY <1>2 DEF TheAnswer
  <2> QED BY <2>1, <2>2
<1>4. p = Answered(b)
  BY <1>2 DEF Payload, Answered, TheAnswer
<1> HIDE DEF a
<1>5. Replies({a}, b) = Answers(b)
  <2> DEFINE payloads == {Payload(x, b) : x \in {a}} \ {<<>>}
             c == CHOOSE c \in payloads : TRUE
  <2>1. Replies({a}, b) = IF payloads = {} THEN <<>> ELSE <<c>>
    BY DEF Replies
  <2>2. payloads = {p} \ {<<>>}
    OBVIOUS
  <2> HIDE DEF p, payloads
  <2>3. CASE p = <<>>
    <3>1. payloads = {}
      BY <2>2, <2>3
    <3> QED BY <1>4, <2>1, <2>3, <3>1 DEF Answers
  <2>4. CASE p # <<>>
    <3>1. payloads = {p}
      BY <2>2, <2>4
    <3>2. c = p
      BY <3>1
    <3> HIDE DEF c
    <3> QED BY <1>4, <2>1, <2>4, <3>1, <3>2 DEF Answers
  <2> QED BY <2>3, <2>4
<1>6. Replies({}, b) = <<>>
  BY DEF Replies
<1>7. <<>> \o Answers(b) = Answers(b)
  <2>1. CASE Answered(b) = <<>>
    BY <2>1 DEF Answers
  <2>2. CASE Answered(b) # <<>>
    <3> DEFINE c == Answered(b)
    <3>1. <<>> \o <<c>> = <<c>>
      <4> HIDE DEF c
      <4> QED OBVIOUS
    <3> QED BY <2>2, <3>1 DEF Answers
  <2> QED BY <2>1, <2>2
<1> QED BY <1>1, <1>3, <1>5, <1>6, <1>7

LEMMA NothingDrawsNothing ==
  ASSUME TheAnswer \in Answer
  PROVE  /\ <<>> \in Seq(Byte) /\ ~Draws(<<>>) /\ Answers(<<>>) = <<>>
<1>1. <<>> \in Seq(Byte) /\ Len(<<>>) = 0
  BY EmptySeq
<1>2. ~IsQuery(<<>>)
  BY <1>1 DEF IsQuery, HEADER_LEN
<1>3. ~Draws(<<>>)
  BY <1>1, <1>2 DEF Draws, Inside
<1>4. Answered(<<>>) = <<>>
  BY <1>1, <1>3, AnsweredIs
<1> QED BY <1>1, <1>3, <1>4 DEF Answers

\* What the listener has heard: a message, or a reply that came back.
HeardOk(m) ==
  \/ m = Nothing
  \/ m \in Messages
  \/ m.meant = [what |-> "reply"] /\ m.bytes \in Seq(Byte) /\ ~Draws(m.bytes)

DrawsInv ==
  /\ LoadedOk(profile) /\ message \in Messages
  /\ state = "new" => heard = Nothing
  /\ DnsOnly => said = Answers(heard.bytes) /\ HeardOk(heard)

LEMMA HeardType ==
  ASSUME NEW m, HeardOk(m)
  PROVE  m.bytes \in Seq(Byte)
<1>1. <<>> \in Seq(Byte)
  BY EmptySeq
<1>2. CASE m = Nothing
  BY <1>1, <1>2 DEF Nothing
<1>3. CASE m # Nothing
  BY <1>3, AnsweringAssumption DEF HeardOk
<1> QED BY <1>2, <1>3

\* What was heard last is what was answered.
LEMMA DrawsStep == DrawsInv /\ [AnsweringNext]_answerVars => DrawsInv'
<1> SUFFICES ASSUME DrawsInv, [AnsweringNext]_answerVars PROVE DrawsInv'
  OBVIOUS
<1>1. /\ LoadedOk(profile) /\ message \in Messages
      /\ state = "new" => heard = Nothing
      /\ DnsOnly => said = Answers(heard.bytes) /\ HeardOk(heard)
  BY DEF DrawsInv
<1>2. profile' = profile /\ proto' = proto /\ message' = message
  BY DEF AnsweringNext, Connect, Receive, Bounce, Hear, answerVars
<1>3. /\ LoadedOk(profile)' /\ message' \in Messages
      /\ DnsOnly' = DnsOnly
  BY <1>1, <1>2 DEF DnsOnly
<1>4. CASE Connect
  <2>1. /\ heard' = heard /\ state = "new" /\ state' # "new"
        /\ said' = Replies(profile.on_connect, <<>>)
    BY <1>4 DEF Connect
  <2>2. heard = Nothing /\ heard.bytes = <<>>
    BY <1>1, <2>1 DEF Nothing
  <2>3. ASSUME DnsOnly PROVE said' = Answers(heard.bytes)' /\ HeardOk(heard)'
    <3>1. said' = <<>>
      BY <2>1, <2>3 DEF DnsOnly, Replies
    <3>2. TheAnswer \in Answer
      BY <1>1, <2>3, OnlyAnswers
    <3>3. Answers(heard.bytes)' = Answers(<<>>)
      BY <1>2, <2>1, <2>2 DEF Answers, Answered, TheAnswer
    <3>4. HeardOk(heard)'
      BY <2>1, <2>2 DEF HeardOk
    <3> QED BY <3>1, <3>2, <3>3, <3>4, NothingDrawsNothing
  <2> QED BY <1>3, <2>1, <2>3 DEF DrawsInv
<1>5. ASSUME NEW m, Hear(m), DnsOnly => HeardOk(m) PROVE DrawsInv'
  <2>1. heard' = m /\ state' # "new"
    BY <1>5 DEF Hear
  <2>2. ASSUME DnsOnly PROVE said' = Answers(heard.bytes)' /\ HeardOk(heard)'
    <3> DEFINE rule == Eval(profile, m.bytes, first)
    <3>1. said' = Replies({}, m.bytes) \o Replies(rule, m.bytes)
      BY <1>5, <2>2 DEF Hear, DnsOnly
    <3>2. said' = Answers(m.bytes)
      BY <1>1, <2>2, <3>1, OnlyAnswers
    <3>3. Answers(heard.bytes)' = Answers(m.bytes)
      BY <1>2, <2>1 DEF Answers, Answered, TheAnswer
    <3>4. HeardOk(heard)'
      BY <1>2, <1>5, <2>1, <2>2 DEF HeardOk, Draws, Inside
    <3> QED BY <3>2, <3>3, <3>4
  <2> QED BY <1>3, <2>1, <2>2 DEF DrawsInv
<1>6. CASE Receive
  BY <1>1, <1>5, <1>6 DEF Receive, HeardOk
<1>7. CASE Bounce
  <2> DEFINE b == Last(said)
             m == [bytes |-> b, meant |-> [what |-> "reply"]]
  <2>1. Hear(m) /\ said # <<>>
    BY <1>7 DEF Bounce
  <2>2. ASSUME DnsOnly PROVE HeardOk(m)
    <3>1. heard.bytes \in Seq(Byte) /\ TheAnswer \in Answer
      BY <1>1, <2>2, HeardType, OnlyAnswers
    <3>2. said = <<Answered(heard.bytes)>> /\ Answered(heard.bytes) # <<>>
      BY <1>1, <2>1, <2>2 DEF Answers
    <3>3. b = Answered(heard.bytes)
      <4> DEFINE c == Answered(heard.bytes)
      <4>1. Last(<<c>>) = c
        <5> HIDE DEF c
        <5> QED BY DEF Last
      <4> QED BY <3>2, <4>1
    <3> HIDE DEF b
    <3>4. b \in Seq(Byte) /\ ~Draws(b)
      BY <3>1, <3>2, <3>3, AnsweredIs
    <3> QED BY <3>4 DEF HeardOk
  <2> HIDE DEF m
  <2> QED BY <1>5, <2>1, <2>2
<1>8. CASE UNCHANGED answerVars
  <2>1. said' = said /\ heard' = heard /\ state' = state
    BY <1>8 DEF answerVars
  <2>2. Answers(heard.bytes)' = Answers(heard.bytes) /\ HeardOk(heard)' = HeardOk(heard)
    BY <1>2, <2>1 DEF Answers, Answered, TheAnswer, HeardOk, Draws, Inside
  <2> QED BY <1>1, <1>3, <2>1, <2>2 DEF DrawsInv
<1> QED BY <1>4, <1>6, <1>7, <1>8 DEF AnsweringNext

LEMMA DrawsInit == AnsweringInit => DrawsInv
<1> SUFFICES ASSUME AnsweringInit PROVE DrawsInv
  OBVIOUS
<1>1. LoadedOk(profile)
  BY LoadLoads, AnsweringAssumption DEF AnsweringInit
<1>2. message \in Messages /\ heard = Nothing /\ said = <<>>
  BY DEF AnsweringInit
<1>3. heard.bytes = <<>> /\ HeardOk(heard)
  BY <1>2 DEF Nothing, HeardOk
<1>4. DnsOnly => Answers(<<>>) = <<>>
  BY <1>1, OnlyAnswers, NothingDrawsNothing
<1> QED BY <1>1, <1>2, <1>3, <1>4 DEF DrawsInv

LEMMA QueriesDraw ==
  ASSUME DrawsInv, DnsOnly, heard # Nothing, ~Misframed(heard.meant)
  PROVE  /\ said # <<>> <=> Draws(heard.bytes)
         /\ Draws(heard.bytes) <=> Answerable(heard.meant)
         /\ Draws(heard.bytes) => heard \in Messages /\ heard.meant.what = "query"
<1>1. LoadedOk(profile) /\ said = Answers(heard.bytes) /\ HeardOk(heard)
  BY DEF DrawsInv
<1>2. heard.bytes \in Seq(Byte) /\ TheAnswer \in Answer
  BY <1>1, HeardType, OnlyAnswers
<1>3. said # <<>> <=> Draws(heard.bytes)
  BY <1>1, <1>2, AnsweredIs DEF Answers
<1>4. CASE heard \in Messages /\ heard.meant.what = "query"
  <2>1. IsItsQuery(heard) /\ heard.meant.framed = (proto = "tcp")
    <3>1. IsItsQuery(heard) /\ heard.meant.framed \in BOOLEAN
      BY <1>4, AnsweringAssumption DEF IsItsQuery
    <3>2. ~(heard.meant.framed # (proto = "tcp"))
      BY <1>4 DEF Misframed
    <3> QED BY <3>1, <3>2
  <2> QED BY <1>2, <1>3, <1>4, <2>1, MeantAsQuery DEF Answerable
<1>5. CASE heard \in Messages /\ heard.meant.what # "query"
  <2>1. ~Draws(heard.bytes)
    BY <1>2, <1>5, MeantOtherwise, AnsweringAssumption
  <2> QED BY <1>3, <1>5, <2>1 DEF Answerable
<1>6. CASE heard.meant = [what |-> "reply"] /\ ~Draws(heard.bytes)
  <2>1. heard.meant.what # "query"
    BY <1>6
  <2> QED BY <1>3, <1>6, <2>1 DEF Answerable
<1> QED BY <1>1, <1>4, <1>5, <1>6 DEF HeardOk

\* A listener whose profile answers with DNS only answers the queries it has to
\* answer and nothing else: never a reply, framed or not, so that two of them
\* cannot answer each other for ever, and never a query that ends too early.
THEOREM AnsweringAnswersQueriesOnly == AnsweringSpec => []AnswersQueriesOnly
<1>1. DrawsInv => AnswersQueriesOnly
  BY QueriesDraw DEF AnswersQueriesOnly
<1> QED BY <1>1, DrawsInit, DrawsStep, PTL DEF AnsweringSpec

-----------------------------------------------------------------------------
\* What the asker reads.

\* A reply r to a query q that is given an address d, or none: n records.
\* The head of its record is g.
Readable(r, q, g, d, n) ==
  /\ r \in Seq(Byte) /\ Len(r) \in Word
  /\ Be16(r, 0) = q.id
  /\ r[3] = 128 + Flag(q.rd, 1) /\ r[4] = 128
  /\ Be16(r, 4) = 1 /\ Be16(r, 6) = n /\ Be16(r, 8) = 0 /\ Be16(r, 10) = 0
  /\ SubSeq(r, 13, 12 + Len(q.question)) = q.question
  /\ n = 1 => SubSeq(r, 12 + Len(q.question) + 1, 12 + Len(q.question) + 12) = g
  /\ Len(r) = 12 + Len(q.question) + n * (12 + Len(d))
  /\ SubSeq(r, Len(r) - Len(d) + 1, Len(r)) = d

\* Of the flags a plain query has, RD is the only one that comes back.
LEMMA ReplyFlagsRead ==
  ASSUME NEW q, QueryOk(q), ~q.qr, q.opcode = 0, NEW w, w = FlagWord(q),
         NEW r \in Seq(Byte), 12 <= Len(r), Be16(r, 2) = ReplyFlags(w)
  PROVE  r[3] = 128 + Flag(q.rd, 1) /\ r[4] = 128
<1> DEFINE y == Flag(q.rd, 1)
           u == r[3]
           v == r[4]
           o == (w \div 2048) % 16
           d == (w \div 256) % 2
<1>1. q.rd \in BOOLEAN
  BY DEF QueryOk
<1> HIDE DEF o, d, y
<1>2. (w \div 2048) % 16 = q.opcode /\ (w \div 256) % 2 = IF q.rd THEN 1 ELSE 0
  BY QueryFlags
<1>3. o = 0 /\ d = y /\ y \in 0 .. 1
  BY <1>1, <1>2 DEF o, d, y, Flag
<1>4. ReplyFlags(w) = 32768 + o * 2048 + d * 256 + 128
  BY DEF ReplyFlags, o, d
<1>5. u \in Byte /\ v \in Byte
  <2>1. 3 \in 1 .. Len(r) /\ 4 \in 1 .. Len(r)
    BY LenProperties
  <2> QED BY <2>1, ElementOfSeq
<1>6. 2 + 1 = 3 /\ 2 + 2 = 4
  OBVIOUS
<1>7. Be16(r, 2) = u * 256 + v
  BY <1>6, Zenon DEF Be16
<1> HIDE DEF u, v
<1>8. u * 256 + v = 32768 + y * 256 + 128
  <2>1. 32768 + o * 2048 + d * 256 + 128 = 32768 + y * 256 + 128
    BY <1>3
  <2> QED BY <1>4, <1>7, <2>1
<1>9. u = 128 + y /\ v = 128
  BY <1>3, <1>5, <1>8 DEF Byte
<1> QED BY <1>9 DEF u, v, y

\* A question has a bound, so a reply's length is written in two bytes.
LEMMA QuestionBounded ==
  ASSUME NEW q, QueryOk(q), Len(q.labels) <= LabelLimit + 1
  PROVE  Len(Question(q)) \in Nat /\ Len(Question(q)) <= 64069
<1> DEFINE L == Len(q.labels)
           k == Len(Name(q.labels))
<1>1. q.labels \in Seq(Label)
  BY DEF QueryOk
<1>2. PICK off, len : LayoutOf(q.labels, off, len)
  BY <1>1, NameLayout
<1> DEFINE x == off[L]
<1>3. L \in Nat /\ k = x + 1 /\ x <= 64 * L /\ LaidOut(off, len, L)
  BY <1>1, <1>2, LenProperties DEF LayoutOf
<1>4. x \in Nat
  <2>1. L \in 0 .. L
    BY <1>3
  <2> QED BY <1>3, <2>1 DEF LaidOut
<1>5. L <= LabelLimit + 1 /\ LabelLimit \in Nat /\ LabelLimit <= 1000
  BY AnsweringAssumption
<1>6. Len(Question(q)) = k + 4
  BY QuestionReads
<1> HIDE DEF L, k, x
<1>7. k + 4 \in Nat /\ k + 4 <= 64069
  BY <1>3, <1>4, <1>5
<1> QED BY <1>6, <1>7

LEMMA ReplyReadable ==
  ASSUME NEW q, QueryOk(q), q.question = Question(q), ~q.qr, q.opcode = 0,
         Len(q.labels) <= LabelLimit + 1,
         NEW msg \in Seq(Byte), IsQuery(msg),
         Parse(msg) = [id |-> q.id, flags |-> FlagWord(q), qtype |-> q.qtype,
                       qclass |-> q.qclass, question |-> q.question],
         NEW ans \in Answer, NEW d, d = Address(q, ans),
         NEW g, g = RecordHead(q.qtype, ans.ttl, Len(d))
  PROVE  Readable(Reply(msg, ans), q, g, d, IF d = <<>> THEN 0 ELSE 1)
<1> DEFINE s == Parse(msg)
           r == Reply(msg, ans)
           n == IF d = <<>> THEN 0 ELSE 1
           t == q.question
           w == FlagWord(q)
           k == Len(t)
           m == Len(d)
           z == Len(r)
<1>1. s.id = q.id /\ s.flags = w /\ s.qtype = q.qtype /\ s.qclass = q.qclass /\ s.question = t
  OBVIOUS
<1> HIDE DEF s, w
<1>2. d = RData(s, ans)
  BY <1>1 DEF Address, RData, CLASS_IN, TYPE_A, TYPE_AAAA
<1>3. Says(r, s, g, d, n)
  BY <1>1, <1>2, ReplySays DEF s
<1>4. d \in Seq(Byte) /\ m \in Nat /\ m <= 16
  BY <1>2, AddressIsBytes, LenProperties
<1>5. t \in Seq(Byte) /\ k \in Nat /\ k <= 64069
  <2>1. t = Question(q)
    OBVIOUS
  <2> HIDE DEF t
  <2> QED BY <2>1, QuestionReads, QuestionBounded
<1>6. n \in {0, 1}
  OBVIOUS
<1> HIDE DEF r, n, t
<1>7. /\ r \in Seq(Byte) /\ z \in Nat /\ g \in Seq(Byte) /\ Len(g) = 12
      /\ Reads(r, q.id, ReplyFlags(w), 1, n, 0, 0)
      /\ z = 12 + k + n * (12 + m)
      /\ \A i \in 1 .. k : r[12 + i] = t[i]
      /\ n = 1 => \A i \in 1 .. 12 : r[12 + k + i] = g[i]
      /\ \A i \in 1 .. m : r[z - m + i] = d[i]
  <2>1. /\ r \in Seq(Byte) /\ g \in Seq(Byte) /\ Len(g) = 12
        /\ Reads(r, q.id, ReplyFlags(w), 1, n, 0, 0)
        /\ z = 12 + k + n * (12 + m)
        /\ \A i \in 1 .. k : r[12 + i] = t[i]
        /\ n = 1 => \A i \in 1 .. 12 : r[12 + k + i] = g[i]
        /\ \A i \in 1 .. m : r[z - m + i] = d[i]
    BY <1>1, <1>3 DEF Says
  <2>2. z \in Nat
    BY <2>1, LenProperties
  <2> QED BY <2>1, <2>2
<1> DEFINE e == 12 + k
           j == z - m
<1>8. /\ e \in Nat /\ j \in Nat /\ e <= z /\ j + m = z /\ z \in Word /\ 12 <= z
      /\ n = 1 => e + 12 <= z
  <2> HIDE DEF z, k, m
  <2>1. CASE n = 0
    <3>1. z = 12 + k
      BY <1>4, <1>5, <1>7, <2>1
    <3>2. m = 0
      BY <2>1, EmptySeq DEF n, m
    <3> QED BY <1>5, <2>1, <3>1, <3>2 DEF Word
  <2>2. CASE n = 1
    <3>1. z = 24 + k + m
      BY <1>4, <1>5, <1>7, <2>2
    <3>2. m \in Nat /\ m <= 16 /\ k \in Nat /\ k <= 64069
      BY <1>4, <1>5
    <3>3. z \in Nat /\ z < 65536
      BY <3>1, <3>2
    <3>4. j = 24 + k
      BY <3>1, <3>2
    <3>5. e <= z /\ j + m = z /\ 12 <= z /\ e + 12 <= z
      BY <3>1, <3>2, <3>4
    <3> QED BY <3>2, <3>3, <3>4, <3>5 DEF Word
  <2> QED BY <1>6, <2>1, <2>2
<1>9. SubSeq(r, 13, e) = t
  <2>1. 12 + 1 = 13 /\ 12 \in Nat /\ 12 + Len(t) = e
    OBVIOUS
  <2>2. e <= Len(r) /\ \A i \in 1 .. Len(t) : r[12 + i] = t[i]
    BY <1>7, <1>8
  <2> HIDE DEF e
  <2>3. SubSeq(r, 12 + 1, e) = t
    BY <1>5, <1>7, <1>8, <2>1, <2>2, SliceIs
  <2> QED BY <2>1, <2>3
<1>10. SubSeq(r, j + 1, z) = d
  <2>1. j + Len(d) = z /\ z <= Len(r) /\ \A i \in 1 .. Len(d) : r[j + i] = d[i]
    BY <1>7, <1>8
  <2> HIDE DEF j, z
  <2> QED BY <1>4, <1>7, <1>8, <2>1, SliceIs
<1>12. ASSUME n = 1 PROVE SubSeq(r, e + 1, e + 12) = g
  <2> DEFINE b == e + 12
  <2>1. b \in Nat /\ e + Len(g) = b /\ b <= Len(r)
    <3> HIDE DEF e
    <3> QED BY <1>7, <1>8, <1>12
  <2>2. \A i \in 1 .. Len(g) : r[e + i] = g[i]
    BY <1>7, <1>12
  <2> HIDE DEF e, b
  <2>3. SubSeq(r, e + 1, b) = g
    <3>1. r \in Seq(Byte) /\ g \in Seq(Byte) /\ e \in Nat
      BY <1>7, <1>8
    <3> QED BY ONLY <2>1, <2>2, <3>1, SliceIs, ZenonT(30)
  <2> QED BY <2>3 DEF b
<1>11. r[3] = 128 + Flag(q.rd, 1) /\ r[4] = 128
  <2>1. Be16(r, 2) = ReplyFlags(w) /\ 12 <= Len(r)
    BY <1>7, <1>8 DEF Reads
  <2> QED BY <1>7, <2>1, ReplyFlagsRead DEF w
<1> QED BY <1>7, <1>8, <1>9, <1>10, <1>11, <1>12 DEF Readable, Reads, r, n, t

\* A reply in its frame, and the reply in it.
LEMMA FrameRead ==
  ASSUME NEW r \in Seq(Byte), Len(r) \in Word, NEW f, f = ToBe16(Len(r)), NEW w, w = f \o r
  PROVE  Be16(w, 0) = Len(r) /\ SubSeq(w, 3, Len(w)) = r
<1> DEFINE n == Len(r)
<1>1. n \in Word /\ n \in Nat /\ f = ToBe16(n)
  BY DEF Word
<1> HIDE DEF n
<1>2. f \in Seq(Byte) /\ Len(f) = 2 /\ f[1] * 256 + f[2] = n
  BY <1>1, WordBytes
<1>3. /\ w \in Seq(Byte) /\ Len(w) = Len(f) + n /\ Keeps(w, f)
      /\ \A i \in 1 .. n : w[Len(f) + i] = r[i]
  BY <1>2, Behind DEF n
<1> DEFINE z == Len(w)
<1>4. z = 2 + n /\ z \in Nat /\ 2 \in Nat /\ 2 + 1 = 3 /\ 0 + 1 = 1 /\ 0 + 2 = 2
  BY <1>1, <1>2, <1>3
<1>5. Be16(w, 0) = n
  <2>1. 1 \in 1 .. Len(f) /\ 2 \in 1 .. Len(f)
    BY <1>2
  <2>2. w[1] = f[1] /\ w[2] = f[2]
    BY <1>3, <2>1 DEF Keeps
  <2>3. Be16(w, 0) = w[1] * 256 + w[2]
    BY ONLY <1>4, Zenon DEF Be16
  <2> QED BY ONLY <1>2, <2>2, <2>3, Zenon
<1>6. SubSeq(w, 3, z) = r
  <2>1. 2 + Len(r) = z /\ z <= Len(w) /\ \A i \in 1 .. Len(r) : w[2 + i] = r[i]
    BY <1>2, <1>3, <1>4 DEF n
  <2> HIDE DEF z
  <2>2. SubSeq(w, 2 + 1, z) = r
    BY <1>3, <1>4, <2>1, SliceIs
  <2> QED BY <1>4, <2>2
<1> QED BY <1>5, <1>6 DEF n

\* The reply to what was heard last.
LEMMA HeardAnswered ==
  ASSUME DrawsInv, DnsOnly, said # <<>>, ~Misframed(heard.meant),
         NEW q, q = heard.meant, NEW d, d = Address(q, TheAnswer),
         NEW g, g = RecordHead(q.qtype, TheAnswer.ttl, Len(d))
  PROVE  \E r : /\ Readable(r, q, g, d, IF d = <<>> THEN 0 ELSE 1)
                /\ said[1] = IF proto = "tcp" THEN ToBe16(Len(r)) \o r ELSE r
<1> DEFINE b == heard.bytes
           c == Inside(b)
           r == Reply(c, TheAnswer)
<1>1. LoadedOk(profile) /\ said = Answers(b) /\ HeardOk(heard)
  BY DEF DrawsInv
<1>2. b \in Seq(Byte) /\ TheAnswer \in Answer
  BY <1>1, HeardType, OnlyAnswers
<1>3. heard # Nothing
  BY <1>1, <1>2, NothingDrawsNothing DEF Nothing
<1>4. Draws(b) /\ Answerable(q) /\ heard \in Messages /\ q.what = "query"
  BY <1>3, QueriesDraw
<1>5. IsItsQuery(heard) /\ q.framed = (proto = "tcp")
  <2>1. IsItsQuery(heard) /\ q.framed \in BOOLEAN
    BY <1>4, AnsweringAssumption DEF IsItsQuery
  <2>2. ~(q.framed # (proto = "tcp"))
    BY <1>4 DEF Misframed
  <2> QED BY <2>1, <2>2
<1>6. /\ c \in Seq(Byte)
      /\ Parse(c) = [id |-> q.id, flags |-> FlagWord(q), qtype |-> q.qtype,
                     qclass |-> q.qclass, question |-> q.question]
  BY <1>2, <1>4, <1>5, MeantAsQuery
<1>7. IsQuery(c)
  BY <1>4 DEF Draws
<1>8. /\ QueryOk(q) /\ q.question = Question(q) /\ ~q.qr /\ q.opcode = 0
      /\ Len(q.labels) <= LabelLimit + 1
  BY <1>4, <1>5 DEF IsItsQuery, QueryOk, Answerable
<1> HIDE DEF b, c
<1>9. Readable(r, q, g, d, IF d = <<>> THEN 0 ELSE 1)
  BY <1>2, <1>6, <1>7, <1>8, ReplyReadable
<1>10. r # <<>>
  BY <1>2, <1>6, <1>7, RepliesToQueries
<1>11. Answered(b) = IF proto = "tcp" THEN ToBe16(Len(r)) \o r ELSE r
  <2>1. CASE proto = "tcp"
    <3>1. ~(Len(b) < 2) /\ c = Unframed(b)
      BY <1>2, <1>4, <2>1, LenProperties DEF Draws, Inside, c
    <3> QED BY <1>10, <2>1, <3>1 DEF Answered, ReplyTcp, NoReply
  <2>2. CASE proto # "tcp"
    <3>1. c = b
      BY <2>2 DEF Inside, c
    <3> QED BY <2>2, <3>1 DEF Answered
  <2> QED BY <2>1, <2>2
<1>12. said[1] = Answered(b)
  <2> DEFINE a == Answered(b)
  <2>1. said = <<a>>
    BY <1>1 DEF Answers, b
  <2> HIDE DEF a
  <2>2. said[1] = a
    BY <2>1
  <2> QED BY <2>2 DEF a
<1> HIDE DEF r
<1> QED BY <1>9, <1>11, <1>12

\* The answer a listener gives can be read by the asker: it carries the query's
\* id, RD and question and no other flag of its, is marked as a reply without
\* error, counts the record it has, whose pointer, type, ttl and length are right
\* and which ends with the address, and, over tcp, says its own length.
THEOREM AnsweringAnswersAreReadable == AnsweringSpec => []AnswersAreReadable
<1>1. DrawsInv => AnswersAreReadable
  <2> SUFFICES ASSUME DrawsInv, DnsOnly, said # <<>>, ~Misframed(heard.meant)
               PROVE  AnswersAreReadable
    BY DEF AnswersAreReadable
  <2> DEFINE q == heard.meant
             d == Address(q, TheAnswer)
             g == RecordHead(q.qtype, TheAnswer.ttl, Len(d))
             n == IF d = <<>> THEN 0 ELSE 1
             frame == IF proto = "tcp" THEN 2 ELSE 0
             r == SubSeq(said[1], frame + 1, Len(said[1]))
  <2>1. PICK x : /\ Readable(x, q, g, d, n)
                 /\ said[1] = IF proto = "tcp" THEN ToBe16(Len(x)) \o x ELSE x
    <3>1. /\ q = heard.meant /\ d = Address(q, TheAnswer)
          /\ g = RecordHead(q.qtype, TheAnswer.ttl, Len(d))
      OBVIOUS
    <3> HIDE DEF q, d, g
    <3> QED BY <3>1, HeardAnswered
  <2>2. x \in Seq(Byte) /\ Len(x) \in Word
    BY <2>1 DEF Readable
  <2>3. r = x /\ (proto = "tcp" => Be16(said[1], 0) = Len(x))
    <3>1. CASE proto = "tcp"
      <4> DEFINE f == ToBe16(Len(x))
                 w == f \o x
      <4>1. said[1] = w /\ frame + 1 = 3
        BY <2>1, <3>1
      <4>2. f = ToBe16(Len(x)) /\ w = f \o x
        OBVIOUS
      <4> HIDE DEF f, w
      <4>3. Be16(w, 0) = Len(x) /\ SubSeq(w, 3, Len(w)) = x
        BY <2>2, <4>2, FrameRead
      <4> QED BY <4>1, <4>3
    <3>2. CASE proto # "tcp"
      <4>1. said[1] = x /\ frame + 1 = 1
        BY <2>1, <3>2
      <4>2. SubSeq(x, 1, Len(x)) = x
        BY <2>2, SubSeqFull
      <4> QED BY <3>2, <4>1, <4>2
    <3> QED BY <3>1, <3>2
  <2>4. TheAnswer = CHOOSE a \in profile.rules[1].action.dns : TRUE
    BY DEF TheAnswer
  <2> HIDE DEF r
  <2> QED BY <2>1, <2>3, <2>4 DEF Readable, RecordHead, AnswersAreReadable, r
<1> QED BY <1>1, DrawsInit, DrawsStep, PTL DEF AnsweringSpec

-----------------------------------------------------------------------------
\* The labels the hint shows.

\* One label and those behind it.
NextLabels(d, end, f, p) ==
  IF p + 1 >= end THEN <<>>
  ELSE <<SubSeq(d, p + 2, p + 1 + d[p + 1])>> \o f[p + 1 + d[p + 1]]

Lists(f, d, end) == f = [p \in Nat |-> NextLabels(d, end, f, p)]

LEMMA ListsAhead ==
  ASSUME NEW d \in Seq(Byte), NEW end \in Nat, end <= Len(d), NEW f, NEW g, NEW p \in Nat,
         \A q \in Nat : q > p => f[q] = g[q]
  PROVE  NextLabels(d, end, f, p) = NextLabels(d, end, g, p)
<1> DEFINE n == Len(d)
           a == p + 1
           b == d[a]
           q == a + b
<1>1. n \in Nat
  BY LenProperties
<1>2. CASE a >= end
  BY <1>2 DEF NextLabels
<1>3. CASE ~(a >= end)
  <2>1. a \in 1 .. n /\ a > p
    BY <1>1, <1>3
  <2> HIDE DEF a
  <2>2. b \in Nat
    <3>1. b \in Byte
      BY <2>1, ElementOfSeq
    <3> HIDE DEF b
    <3> QED BY ONLY <3>1, BytesAreNumbers
  <2> HIDE DEF b
  <2>3. q \in Nat /\ q > p
    BY <2>1, <2>2
  <2>4. f[q] = g[q]
    <3> HIDE DEF q
    <3> QED BY <2>3
  <2>5. /\ NextLabels(d, end, f, p) = <<SubSeq(d, p + 2, q)>> \o f[q]
        /\ NextLabels(d, end, g, p) = <<SubSeq(d, p + 2, q)>> \o g[q]
    BY <1>3 DEF NextLabels, q, b, a
  <2> HIDE DEF q
  <2> QED BY <2>4, <2>5
<1> QED BY <1>2, <1>3

\* They can be listed, from the end of the name backwards.
LEMMA ListExists ==
  ASSUME NEW d \in Seq(Byte), NEW end \in Nat, end <= Len(d)
  PROVE  \E f : Lists(f, d, end)
<1> DEFINE Right(f, p) == f[p] = NextLabels(d, end, f, p)
           T == {k \in Nat : \E f : \A p \in Nat : p + k >= end => Right(f, p)}
<1>1. 0 \in T
  <2> DEFINE f == [p \in Nat |-> <<>>]
  <2>1. ASSUME NEW p \in Nat, p + 0 >= end PROVE Right(f, p)
    <3>1. p + 1 >= end
      BY <2>1
    <3>2. NextLabels(d, end, f, p) = <<>>
      BY <3>1 DEF NextLabels
    <3> QED BY <3>2
  <2> HIDE DEF f, Right
  <2> QED BY <2>1
<1>2. ASSUME NEW k \in Nat, k \in T PROVE k + 1 \in T
  <2>1. PICK f : \A p \in Nat : p + k >= end => Right(f, p)
    BY <1>2
  <2> DEFINE E(p) == NextLabels(d, end, f, p)
             g == [p \in Nat |-> E(p)]
  <2>2. \A p \in Nat : g[p] = E(p)
    <3> HIDE DEF E
    <3> QED OBVIOUS
  <2>3. ASSUME NEW p \in Nat, p + (k + 1) >= end PROVE Right(g, p)
    <3> HIDE DEF g
    <3>1. \A q \in Nat : q > p => q + k >= end
      BY <2>3
    <3>2. \A q \in Nat : q > p => f[q] = g[q]
      <4>1. \A q \in Nat : q > p => Right(f, q)
        BY <2>1, <3>1
      <4> QED BY <2>2, <4>1
    <3>3. NextLabels(d, end, f, p) = NextLabels(d, end, g, p)
      BY <3>2, ListsAhead
    <3> QED BY <2>2, <3>3
  <2> HIDE DEF g, Right
  <2>4. \A p \in Nat : p + (k + 1) >= end => Right(g, p)
    BY <2>3
  <2> QED BY <2>4
<1> HIDE DEF T
<1>3. end \in T
  BY <1>1, <1>2, EveryNumber
<1>4. PICK f : \A p \in Nat : Right(f, p)
  <2>1. PICK f : \A p \in Nat : p + end >= end => Right(f, p)
    BY <1>3 DEF T
  <2>2. \A p \in Nat : p + end >= end
    OBVIOUS
  <2> HIDE DEF Right
  <2> QED BY <2>1, <2>2
<1> DEFINE E(p) == NextLabels(d, end, f, p)
           g == [p \in Nat |-> E(p)]
           H(p) == NextLabels(d, end, g, p)
<1>5. \A p \in Nat : g[p] = E(p)
  <2> HIDE DEF E
  <2> QED OBVIOUS
<1>6. \A p \in Nat : E(p) = H(p)
  <2>1. ASSUME NEW p \in Nat PROVE E(p) = H(p)
    <3> HIDE DEF g
    <3>1. \A q \in Nat : q > p => f[q] = g[q]
      BY <1>4, <1>5
    <3> QED BY <3>1, ListsAhead
  <2> HIDE DEF E, H
  <2> QED BY <2>1
<1>7. g = [p \in Nat |-> H(p)]
  <2>1. g = [p \in Nat |-> E(p)]
    OBVIOUS
  <2> HIDE DEF E, H, g
  <2> QED BY <1>6, <2>1
<1> HIDE DEF g
<1>8. Lists(g, d, end)
  BY <1>7 DEF Lists
<1> QED BY <1>8

LEMMA LabelsList ==
  ASSUME NEW d \in Seq(Byte), NEW start, NEW end \in Nat, end <= Len(d)
  PROVE  \E f : Lists(f, d, end) /\ Labels(d, start, end) = f[start]
<1> DEFINE f == CHOOSE f : Lists(f, d, end)
<1>1. Lists(f, d, end)
  <2>1. \E g : Lists(g, d, end)
    BY ListExists
  <2> QED BY <2>1, Zenon
<1>2. Labels(d, start, end) = f[start]
  BY Zenon DEF Labels, Lists, NextLabels
<1> QED BY <1>1, <1>2

LEMMA ListsNext ==
  ASSUME NEW d, NEW end, NEW f, Lists(f, d, end), NEW p \in Nat
  PROVE  f[p] = NextLabels(d, end, f, p)
<1> DEFINE E(q) == NextLabels(d, end, f, q)
<1>1. f = [q \in Nat |-> E(q)]
  BY DEF Lists
<1> HIDE DEF E
<1>2. f[p] = E(p)
  BY <1>1
<1> QED BY <1>2 DEF E

\* The labels of a name that is all there are what it was made from.
LEMMA LabelsFound ==
  ASSUME NEW d \in Seq(Byte), NEW labels \in Seq(Label), NEW L, L = Len(labels),
         NEW off, NEW len, LaidOut(off, len, L), Carries(d, off, len, L),
         \A i \in 0 .. L : i + 1 <= L =>
           len[i + 1] = Len(labels[i + 1]) /\ Spelt(d, off[i], labels[i + 1]),
         NEW end, end = off[L] + 1, end <= Len(d)
  PROVE  Labels(d, off[0], end) = labels
<1>1. L \in Nat /\ Len(d) \in Nat
  BY LenProperties
<1>2. /\ \A i \in 0 .. L : off[i] \in Nat /\ off[i] <= off[L]
      /\ \A i \in 0 .. L : i + 1 <= L =>
           len[i + 1] \in 1 .. 63 /\ off[i + 1] = off[i] + 1 + len[i + 1]
  BY <1>1, LaidOutInOrder DEF LaidOut
<1>3. off[L] \in Nat /\ end \in Nat
  BY <1>1, <1>2
<1>4. PICK f : Lists(f, d, end) /\ Labels(d, off[0], end) = f[off[0]]
  BY <1>3, LabelsList
<1> DEFINE T == {k \in Nat : k <= L => f[off[L - k]] = SubSeq(labels, L - k + 1, L)}
<1>5. 0 \in T
  <2>1. L - 0 = L
    BY <1>1
  <2>2. f[off[L]] = <<>>
    <3> DEFINE p == off[L]
    <3>1. p \in Nat /\ p + 1 >= end
      BY <1>3
    <3> HIDE DEF p
    <3>2. NextLabels(d, end, f, p) = <<>>
      BY <3>1 DEF NextLabels
    <3>3. f[p] = <<>>
      BY <1>4, <3>1, <3>2, ListsNext
    <3> QED BY <3>3 DEF p
  <2>3. SubSeq(labels, L + 1, L) = <<>>
    <3>1. L + 1 \in Int /\ L \in Int /\ L < L + 1
      BY <1>1
    <3> QED BY <3>1, SubSeqEmpty
  <2> QED BY <2>1, <2>2, <2>3
<1>6. ASSUME NEW k \in Nat, k \in T PROVE k + 1 \in T
  <2>1. SUFFICES ASSUME k + 1 <= L
                 PROVE  f[off[L - (k + 1)]] = SubSeq(labels, L - (k + 1) + 1, L)
    OBVIOUS
  <2> DEFINE i == L - (k + 1)
             j == i + 1
             p == off[i]
             b == len[j]
             e == p + 1 + b
  <2>2. i \in 0 .. L /\ j \in 0 .. L /\ j \in 1 .. L /\ i + 1 <= L /\ j = i + 1
        /\ L - k = j /\ k <= L /\ L - (k + 1) + 1 = j
    BY <1>1, <2>1
  <2>3. f[off[j]] = SubSeq(labels, j + 1, L)
    BY <1>6, <2>2
  <2> HIDE DEF i, j, T
  <2>4. /\ p \in Nat /\ b \in 1 .. 63 /\ off[j] = e /\ e \in Nat
        /\ e <= off[L] /\ b = Len(labels[j]) /\ Spelt(d, p, labels[j])
        /\ p < Len(d) => d[p + 1] = b
    <3>1. p \in Nat /\ b \in 1 .. 63 /\ off[j] = e
      BY <1>2, <2>2
    <3>2. off[j] \in Nat /\ off[j] <= off[L]
      BY <1>2, <2>2
    <3>3. b = Len(labels[j]) /\ Spelt(d, p, labels[j])
      BY <2>2
    <3>4. p < Len(d) => d[p + 1] = b
      BY <2>2 DEF Carries
    <3> QED BY <3>1, <3>2, <3>3, <3>4
  <2> HIDE DEF p, b
  <2>5. ~(p + 1 >= end) /\ p < Len(d) /\ e <= Len(d)
    <3> DEFINE o == off[L]
               n == Len(d)
    <3>1. /\ o \in Nat /\ n \in Nat /\ p + 1 + b <= o /\ end = o + 1 /\ end <= n
          /\ p \in Nat /\ b \in Nat
      <4>1. p \in Nat /\ b \in 1 .. 63 /\ e <= off[L]
        BY <2>4
      <4>2. b \in Nat
        BY <4>1
      <4>3. o \in Nat /\ n \in Nat /\ end = o + 1 /\ end <= n
        BY <1>1, <1>3
      <4> QED BY ONLY <4>1, <4>2, <4>3
    <3> HIDE DEF o, n
    <3>2. ~(p + 1 >= end) /\ p < n /\ p + 1 + b <= n
      BY <3>1
    <3> QED BY <3>2 DEF n
  <2>6. f[p] = <<SubSeq(d, p + 2, e)>> \o f[e]
    <3>1. f[p] = NextLabels(d, end, f, p)
      BY <1>4, <2>4, ListsNext
    <3>2. NextLabels(d, end, f, p) = <<SubSeq(d, p + 2, p + 1 + b)>> \o f[p + 1 + b]
      BY <2>4, <2>5 DEF NextLabels
    <3> QED BY <3>1, <3>2
  <2>7. labels[j] \in Seq(Byte)
    <3>1. labels[j] \in Label
      BY <2>2, ElementOfSeq
    <3> QED BY <3>1 DEF Label
  <2>8. SubSeq(d, p + 2, e) = labels[j]
    <3> DEFINE x == labels[j]
               m == p + 1
    <3>1. x \in Seq(Byte) /\ m \in Nat /\ m + Len(x) = e /\ e \in Nat /\ e <= Len(d) /\ m + 1 = p + 2
      <4>1. Len(x) = b /\ m \in Nat /\ m + b = e /\ m + 1 = p + 2
        BY <2>4
      <4> HIDE DEF x, m, e
      <4> QED BY <2>4, <2>5, <2>7, <4>1 DEF x
    <3>2. \A h \in 1 .. Len(x) : d[m + h] = x[h]
      BY <2>4 DEF Spelt
    <3> HIDE DEF x, m, e
    <3>3. SubSeq(d, m + 1, e) = x
      BY <3>1, <3>2, SliceIs
    <3> QED BY <3>1, <3>3 DEF x
  <2>9. SubSeq(labels, j, L) = <<labels[j]>> \o SubSeq(labels, j + 1, L)
    <3>1. j \in 1 .. Len(labels) /\ L \in j .. Len(labels)
      BY <1>1, <2>2
    <3> QED BY ONLY <3>1, labels \in Seq(Label), SubSeqRecursiveFirst, ZenonT(30)
  <2>10. f[p] = SubSeq(labels, j, L)
    <3> HIDE DEF e
    <3> QED BY <2>3, <2>4, <2>6, <2>8, <2>9
  <2> QED BY <2>2, <2>10 DEF p, i
<1> HIDE DEF T
<1>7. L \in T
  BY <1>1, <1>5, <1>6, EveryNumber
<1>8. L - L = 0 /\ L - L + 1 = 1 /\ L <= L
  BY <1>1
<1>9. f[off[0]] = SubSeq(labels, 1, L)
  BY <1>7, <1>8 DEF T
<1> QED BY <1>4, <1>9, SubSeqFull

-----------------------------------------------------------------------------
\* What the log line says of a query.

LEMMA TlsIsNoQuery ==
  ASSUME NEW d
  PROVE  TlsHint(d).kind # "query"
<1> DEFINE exts == HelloExtensions(d)
<1>1. Unrecognised.kind # "query"
  BY DEF Unrecognised
<1>2. ClientHello(d, exts).kind # "query"
  <2> HIDE DEF exts
  <2> QED BY DEF ClientHello
<1>3. [kind |-> "handshake", version |-> Be16(d, 1)].kind # "query"
  OBVIOUS
<1>4. \/ TlsHint(d) = Unrecognised \/ TlsHint(d) = ClientHello(d, exts)
      \/ TlsHint(d) = [kind |-> "handshake", version |-> Be16(d, 1)]
  <2> HIDE DEF exts
  <2> QED BY Zenon DEF TlsHint, exts
<1> QED BY <1>1, <1>2, <1>3, <1>4

LEMMA OtherwiseNoTls ==
  ASSUME NEW d, Len(d) < 6 \/ d[1] # 22 \/ d[2] # 3
  PROVE  TlsHint(d) = Unrecognised
BY Zenon DEF TlsHint

\* A hello has 47 bytes before its extensions.
LEMMA ShortNoHello ==
  ASSUME NEW d \in Seq(Byte), Len(d) < 47, d[6] = 1
  PROVE  TlsHint(d) = Unrecognised
<1> DEFINE n == Len(d)
           s == SuitesAt(d)
           c == CompressionAt(d)
           a == d[SidAt + 1]
           w == Be16(d, s)
<1>1. n \in Nat /\ n < 47
  BY LenProperties
<1>2. ASSUME HasFixedPart(d) PROVE FALSE
  <2>1. 43 < n /\ s + 2 <= n /\ c < n
    BY <1>2 DEF HasFixedPart, SidAt
  <2>2. a \in Nat
    <3>1. SidAt + 1 = 44 /\ 44 \in 1 .. Len(d)
      BY <1>1, <2>1 DEF SidAt
    <3>2. d[44] \in Byte
      BY <3>1, ElementOfSeq
    <3>3. d[44] \in Nat
      BY ONLY <3>2, BytesAreNumbers
    <3> QED BY <3>1, <3>3
  <2>3. s = 44 + a
    BY DEF SuitesAt, SidAt
  <2>4. s \in Nat /\ s >= 44
    <3> HIDE DEF s, a
    <3> QED BY <2>2, <2>3
  <2>5. w \in Nat
    <3> HIDE DEF s
    <3>1. s \in Nat /\ s + 2 <= Len(d)
      BY <2>1, <2>4
    <3>2. Be16(d, s) \in Word
      BY <3>1, BytesMakeWord
    <3> QED BY <3>2 DEF Word
  <2>6. c = s + 2 + w
    BY DEF CompressionAt
  <2> HIDE DEF s, c, w, n
  <2> QED BY <1>1, <2>1, <2>4, <2>5, <2>6
<1>3. ~HasFixedPart(d)
  BY <1>2
<1> QED BY <1>3, Zenon DEF TlsHint

\* The words of a message's header, as far as it goes.
LEMMA HeaderOf ==
  ASSUME NEW q, QueryOk(q), NEW msg \in Seq(Byte), Keeps(Encoded(q), msg)
  PROVE  /\ Len(msg) >= 2 => Be16(msg, 0) = q.id
         /\ Len(msg) >= 12 => /\ PlainQuery(msg) <=> ~q.qr /\ q.opcode = 0 /\ q.qdcount = 1
                              /\ Be16(msg, 4) = q.qdcount /\ Be16(msg, 6) = q.ancount
<1> DEFINE n == Len(msg)
           e == Encoded(q)
           w == FlagWord(q)
<1>1. n \in Nat
  BY LenProperties
<1>2. e \in Seq(Byte) /\ Reads(e, q.id, w, q.qdcount, q.ancount, q.nscount, q.arcount)
  BY EncodedReads
<1>3. ASSUME NEW p \in Nat, p + 2 <= n PROVE Be16(e, p) = Be16(msg, p)
  <2> HIDE DEF e
  <2> QED BY <1>3, WordKept DEF e
<1>4. w < 32768 <=> ~q.qr
  <2>1. w = FlagWord(q)
    OBVIOUS
  <2> HIDE DEF w
  <2> QED BY <2>1, QueryFlags
<1>5. (w \div 2048) % 16 = q.opcode
  <2>1. w = FlagWord(q)
    OBVIOUS
  <2> HIDE DEF w
  <2> QED BY <2>1, QueryFlags
<1> HIDE DEF n, e, w
<1>6. n >= 2 => Be16(msg, 0) = q.id
  <2>1. n >= 2 => 0 + 2 <= n
    OBVIOUS
  <2> QED BY <1>2, <1>3, <2>1 DEF Reads
<1>7. n >= 12 => Be16(msg, 2) = w /\ Be16(msg, 4) = q.qdcount /\ Be16(msg, 6) = q.ancount
  <2>1. n >= 12 => 2 + 2 <= n /\ 4 + 2 <= n /\ 6 + 2 <= n
    BY <1>1
  <2> QED BY <1>2, <1>3, <2>1 DEF Reads
<1>8. n >= 12 => (PlainQuery(msg) <=> ~q.qr /\ q.opcode = 0 /\ q.qdcount = 1)
  BY <1>4, <1>5, <1>7 DEF PlainQuery
<1> QED BY <1>6, <1>7, <1>8 DEF n

\* The hint of a message that has the first bytes of a query.
HintedAs(q, h, n) ==
  /\ h.kind = "query" => ~q.qr /\ h.name = q.labels /\ h.qtype = q.qtype
  /\ /\ n >= 12 + Len(Name(q.labels)) + 2
     /\ ~q.qr /\ q.opcode = 0 /\ q.qdcount = 1 /\ q.ancount = 0
     /\ Printable(q.labels) /\ q.labels # <<>> /\ Len(q.labels) <= HintLimit + 1
     => h.kind = "query"

LEMMA QueryHinted ==
  ASSUME NEW q, QueryOk(q), NEW msg \in Seq(Byte), Keeps(Encoded(q), msg)
  PROVE  HintedAs(q, DnsHint(msg), Len(msg))
<1> DEFINE n == Len(msg)
           L == Len(q.labels)
           k == Len(Name(q.labels))
           p == 12 + k
           x == NameEnd(msg, 12, HintLimit)
           y == Labels(msg, 12, x)
           Seen == /\ n >= 12 /\ PlainQuery(msg) /\ Be16(msg, 6) = 0
                   /\ x # NoEnd /\ x + 2 <= n /\ y # <<>> /\ Printable(y)
<1>1. n \in Nat /\ L \in Nat /\ k \in Nat /\ HintLimit \in Nat
  BY NameLayout, LenProperties, AnsweringAssumption DEF QueryOk
<1>2. x = IF p <= n /\ L <= HintLimit + 1 THEN p ELSE NoEnd
  BY <1>1, QuestionFound
<1>3. DnsHint(msg) = IF Seen THEN [kind |-> "query", qtype |-> Be16(msg, x), name |-> y]
                     ELSE Unrecognised
  BY Zenon DEF DnsHint, HEADER_LEN
<1>4. /\ n >= 12 => /\ PlainQuery(msg) <=> ~q.qr /\ q.opcode = 0 /\ q.qdcount = 1
                    /\ Be16(msg, 4) = q.qdcount /\ Be16(msg, 6) = q.ancount
  BY HeaderOf
<1>5. ASSUME p <= n PROVE Labels(msg, 12, p) = q.labels
  <2>1. PICK at, len : NameAt(q, msg, at, len)
    BY NameInMessage
  <2>2. /\ at[0] = 12 /\ p = at[L] + 1
        /\ LaidOut(at, len, L) /\ Carries(msg, at, len, L)
        /\ \A i \in 0 .. L : i + 1 <= L =>
             len[i + 1] = Len(q.labels[i + 1]) /\ Spelt(msg, at[i], q.labels[i + 1])
    BY <1>5, <2>1 DEF NameAt
  <2>3. q.labels \in Seq(Label)
    BY DEF QueryOk
  <2> DEFINE labels == q.labels
  <2>4. labels \in Seq(Label) /\ L = Len(labels) /\ p <= Len(msg)
        /\ \A i \in 0 .. L : i + 1 <= L =>
             len[i + 1] = Len(labels[i + 1]) /\ Spelt(msg, at[i], labels[i + 1])
    BY <1>5, <2>2, <2>3
  <2> HIDE DEF labels, L, p
  <2>5. Labels(msg, at[0], p) = labels
    BY <2>2, <2>4, LabelsFound
  <2> QED BY <2>2, <2>5 DEF labels
<1>6. ASSUME p + 2 <= n PROVE Be16(msg, p) = q.qtype
  <2> DEFINE t == Question(q)
             e == Encoded(q)
  <2>1. /\ t \in Seq(Byte) /\ Len(t) = k + 4 /\ Be16(t, k) = q.qtype
        /\ \A i \in 1 .. Len(t) : e[12 + i] = t[i]
    BY QuestionReads, EncodedReads
  <2>2. /\ k + 1 \in 1 .. k + 4 /\ k + 2 \in 1 .. k + 4
        /\ p + 1 = 12 + (k + 1) /\ p + 2 = 12 + (k + 2)
        /\ p + 1 \in 1 .. n /\ p + 2 \in 1 .. n
    BY <1>1, <1>6
  <2> HIDE DEF t, e, n, k, p
  <2>3. e[p + 1] = t[k + 1] /\ e[p + 2] = t[k + 2]
    BY <2>1, <2>2
  <2>4. e[p + 1] = msg[p + 1] /\ e[p + 2] = msg[p + 2]
    BY <2>2 DEF Keeps, e, n
  <2>5. Be16(msg, p) = Be16(t, k)
    BY <2>3, <2>4 DEF Be16
  <2> QED BY <2>1, <2>5
<1> HIDE DEF n, L, k, p, x, y
<1>7. p \in Nat /\ p = 12 + k /\ p # NoEnd
  BY <1>1 DEF p, NoEnd
<1>8. ASSUME Seen PROVE ~q.qr /\ y = q.labels /\ Be16(msg, x) = q.qtype
  <2>1. x = p /\ p <= n /\ p + 2 <= n
    BY <1>2, <1>8
  <2>2. y = q.labels
    BY <1>5, <2>1 DEF y
  <2>3. Be16(msg, x) = q.qtype
    BY <1>6, <2>1
  <2> QED BY <1>4, <1>8, <2>2, <2>3
<1>9. ASSUME n >= p + 2, ~q.qr, q.opcode = 0, q.qdcount = 1, q.ancount = 0,
             Printable(q.labels), q.labels # <<>>, L <= HintLimit + 1
      PROVE  Seen
  <2>1. n >= 12 /\ p <= n /\ p + 2 <= n
    BY <1>1, <1>7, <1>9
  <2>2. x = p
    BY <1>2, <1>9, <2>1
  <2>3. y = q.labels
    BY <1>5, <2>1, <2>2 DEF y
  <2> QED BY <1>4, <1>7, <1>9, <2>1, <2>2, <2>3
<1> HIDE DEF Seen
<1> DEFINE h == DnsHint(msg)
<1>10. /\ Seen => h.kind = "query" /\ h.name = y /\ h.qtype = Be16(msg, x)
       /\ ~Seen => h.kind # "query"
  BY <1>3 DEF Unrecognised
<1> HIDE DEF h
<1>11. h.kind = "query" => ~q.qr /\ h.name = q.labels /\ h.qtype = q.qtype
  BY <1>8, <1>10
<1>12. HintedAs(q, h, n)
  BY <1>9, <1>10, <1>11 DEF HintedAs, p, L, k
<1> QED BY <1>12 DEF h, n

\* The hint is that of the last message, which came from the peer or is a reply.
HeardWas(m, h) ==
  /\ m.meant.what = "query" => m \in Messages
  /\ m.meant.what = "query" => h = Hint(m.bytes)

HintInv == message \in Messages /\ HeardWas(heard, hint)

LEMMA HintStep == HintInv /\ [AnsweringNext]_answerVars => HintInv'
<1> SUFFICES ASSUME HintInv, [AnsweringNext]_answerVars PROVE HintInv'
  OBVIOUS
<1>1. message \in Messages /\ HeardWas(heard, hint)
  BY DEF HintInv
<1>2. message' = message
  BY DEF AnsweringNext, Connect, Receive, Bounce, Hear, answerVars
<1>3. ASSUME NEW m, Hear(m), m.meant.what = "query" => m \in Messages PROVE HintInv'
  <2>1. heard' = m /\ hint' = Hint(m.bytes)
    BY <1>3 DEF Hear
  <2> QED BY <1>1, <1>2, <1>3, <2>1 DEF HintInv, HeardWas
<1>4. CASE Connect \/ UNCHANGED answerVars
  <2>1. heard' = heard /\ hint' = hint
    BY <1>4 DEF Connect, answerVars
  <2> QED BY <1>1, <1>2, <2>1 DEF HintInv, HeardWas
<1>5. CASE Receive
  BY <1>1, <1>3, <1>5 DEF Receive
<1>6. CASE Bounce
  <2> DEFINE m == [bytes |-> Last(said), meant |-> [what |-> "reply"]]
  <2>1. Hear(m) /\ m.meant.what # "query"
    BY <1>6 DEF Bounce
  <2> HIDE DEF m
  <2> QED BY <1>3, <2>1
<1> QED BY <1>4, <1>5, <1>6 DEF AnsweringNext

LEMMA HintInit == AnsweringInit => HintInv
BY DEF AnsweringInit, HintInv, HeardWas, Nothing

\* A message meant as a bare query: as much of it as one read got.
LEMMA BareQueryHinted ==
  ASSUME NEW m, m.bytes \in Seq(Byte), IsItsQuery(m), ~m.meant.framed
  PROVE  /\ HintedAs(m.meant, DnsHint(m.bytes), Len(m.bytes))
         /\ m.meant.whole => Len(m.bytes) >= 12 + Len(Name(m.meant.labels)) + 4
         /\ m.meant.whole /\ m.meant.qdcount = 1 /\ ~LooksLikeTls(m) /\ m.meant.what = "query" =>
              TlsHint(m.bytes) = Unrecognised
         /\ m.meant.graphic => Printable(m.meant.labels)
<1> DEFINE q == m.meant
           d == m.bytes
           e == Encoded(q)
           n == Len(d)
           x == Len(q.extra)
           k == Len(Name(q.labels))
<1>1. /\ QueryOk(q) /\ q.graphic = Printable(q.labels)
      /\ n <= Len(e) /\ d = SubSeq(e, 1, n) /\ q.whole = (n >= 12 + Len(Question(q)))
  BY DEF IsItsQuery, QueryOk, Sent, Asked
<1>2. e \in Seq(Byte) /\ Len(e) = 12 + Len(Question(q)) + x
  BY <1>1, EncodedReads
<1>3. Len(Question(q)) = k + 4
  BY <1>1, QuestionReads
<1>4. n \in Nat /\ k \in Nat /\ x \in Nat
  BY <1>1, NameLayout, LenProperties DEF QueryOk
<1>5. Keeps(e, d)
  <2> HIDE DEF e, d
  <2> QED BY <1>1, <1>2, ReadKeeps DEF n, d
<1>6. HintedAs(q, DnsHint(d), n)
  <2> HIDE DEF q, d
  <2> QED BY <1>1, <1>5, QueryHinted DEF e, n, d
<1>7. q.whole => n >= 12 + k + 4
  <2> DEFINE y == Len(Question(q))
             whole == q.whole
  <2>1. n \in Nat /\ k \in Nat /\ y = k + 4 /\ (whole => n >= 12 + y)
    BY <1>1, <1>3, <1>4
  <2> HIDE DEF n, k, y, whole
  <2>2. whole => n >= 12 + k + 4
    BY <2>1
  <2> QED BY <2>2 DEF whole
<1>8. /\ n >= 2 => Be16(d, 0) = q.id
      /\ n >= 12 => Be16(d, 4) = q.qdcount
  <2> HIDE DEF q
  <2> QED BY <1>1, <1>5, HeaderOf DEF e, n
<1>9. ASSUME q.whole, q.qdcount = 1, ~LooksLikeTls(m), q.what = "query"
      PROVE  TlsHint(d) = Unrecognised
  <2>1. n >= 12
    <3> HIDE DEF n, k, q
    <3> QED BY <1>4, <1>7, <1>9
  <2> HIDE DEF n, k, x, e, d
  <2>2. \A i \in 1 .. 12 : d[i] \in 0 .. 255
    <3>1. \A i \in 1 .. 12 : i \in 1 .. Len(d)
      BY <1>4, <2>1 DEF n
    <3> QED BY <3>1, ElementOfSeq DEF d, Byte
  <2>3. CASE d[1] = 22 /\ d[2] = 3
    <3>1. q.id = 22 * 256 + 3
      BY <1>4, <1>8, <2>1, <2>3 DEF Be16
    <3>2. n < 47
      BY <1>4, <1>9, <3>1 DEF LooksLikeTls, n, d
    <3>3. d[6] = 1
      <4>1. d[5] \in 0 .. 255 /\ d[6] \in 0 .. 255
        BY <2>2
      <4>2. d[5] * 256 + d[6] = 1
        BY <1>4, <1>8, <1>9, <2>1 DEF Be16
      <4> DEFINE a == d[5]
                 b == d[6]
      <4> HIDE DEF a, b
      <4>3. a \in 0 .. 255 /\ b \in 0 .. 255 /\ a * 256 + b = 1
        BY <4>1, <4>2 DEF a, b
      <4>4. b = 1
        BY <4>3
      <4> QED BY <4>4 DEF b
    <3> QED BY <3>2, <3>3, ShortNoHello DEF n, d
  <2>4. CASE ~(d[1] = 22 /\ d[2] = 3)
    BY <2>4, OtherwiseNoTls
  <2> QED BY <2>3, <2>4
<1> QED BY <1>1, <1>6, <1>7, <1>9 DEF q, d, n, k

\* The log line of a bare query shows the name and the type the peer asked for,
\* wherever the read ended and whatever was heard before, and a query that is all
\* there and can be printed is recognised, unless it is long and its id reads as
\* the start of a TLS record.
THEOREM AnsweringQueriesAreHinted == AnsweringSpec => []QueriesAreHinted
<1>1. ASSUME HintInv PROVE QueriesAreHinted
  <2> DEFINE q == heard.meant
             d == heard.bytes
  <2>1. SUFFICES ASSUME q.what = "query", ~q.framed
                 PROVE  /\ hint.kind = "query" => ~q.qr /\ hint.name = q.labels /\ hint.qtype = q.qtype
                        /\ /\ q.whole /\ ~q.qr /\ q.opcode = 0 /\ q.qdcount = 1 /\ q.ancount = 0
                           /\ q.graphic /\ Len(q.labels) \in 1 .. HintLimit + 1
                           => hint.kind = "query" \/ LooksLikeTls(heard)
    BY DEF QueriesAreHinted
  <2>2. heard \in Messages /\ hint = Hint(d)
    BY <1>1, <2>1 DEF HintInv, HeardWas
  <2>3. d \in Seq(Byte) /\ IsItsQuery(heard)
    BY <2>1, <2>2, AnsweringAssumption
  <2>4. /\ HintedAs(q, DnsHint(d), Len(d))
        /\ q.whole => Len(d) >= 12 + Len(Name(q.labels)) + 4
        /\ q.whole /\ q.qdcount = 1 /\ ~LooksLikeTls(heard) /\ q.what = "query" =>
             TlsHint(d) = Unrecognised
        /\ q.graphic => Printable(q.labels)
    BY <2>1, <2>3, BareQueryHinted
  <2>5. hint = IF TlsHint(d) # Unrecognised THEN TlsHint(d) ELSE DnsHint(d)
    BY <2>2 DEF Hint
  <2> DEFINE n == Len(d)
             k == Len(Name(q.labels))
             c == Len(q.labels)
  <2>6. q.labels \in Seq(Label) /\ n \in Nat /\ k \in Nat /\ c \in Nat /\ HintLimit \in Nat
    <3>1. q.labels \in Seq(Label)
      BY <2>3 DEF IsItsQuery
    <3> QED BY <2>3, <3>1, NameLayout, LenProperties, AnsweringAssumption
  <2>7. ASSUME hint.kind = "query" PROVE ~q.qr /\ hint.name = q.labels /\ hint.qtype = q.qtype
    <3>1. hint = DnsHint(d)
      BY <2>5, <2>7, TlsIsNoQuery
    <3> QED BY <2>4, <2>7, <3>1 DEF HintedAs
  <2>8. ASSUME q.whole, ~q.qr, q.opcode = 0, q.qdcount = 1, q.ancount = 0,
               q.graphic, c \in 1 .. HintLimit + 1, ~LooksLikeTls(heard)
        PROVE  hint.kind = "query"
    <3>1. hint = DnsHint(d)
      BY <2>1, <2>4, <2>5, <2>8
    <3>2. n >= 12 + k + 4
      BY <2>4, <2>8
    <3>3. c <= HintLimit + 1 /\ q.labels # <<>>
      <4>1. c <= HintLimit + 1 /\ c # 0
        BY <2>6, <2>8
      <4> QED BY <4>1, <2>6, EmptySeq
    <3>4. n >= 12 + k + 2
      <4> HIDE DEF n, k
      <4> QED BY <2>6, <3>2
    <3> QED BY <2>4, <2>8, <3>1, <3>3, <3>4 DEF HintedAs
  <2> QED BY <2>7, <2>8
<1> QED BY <1>1, HintInit, HintStep, PTL DEF AnsweringSpec
=============================================================================
