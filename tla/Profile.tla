------------------------------- MODULE Profile --------------------------------
(***************************************************************************)
(* profile.rs: which rule answers a message, what it answers, and what the *)
(* listener says at start-up about a profile.  Text and messages are       *)
(* sequences of bytes.  An optional field is the set of its values: empty  *)
(* when the profile does not give it.                                      *)
(***************************************************************************)
EXTENDS Integers, Sequences

LOCAL INSTANCE SequencesExt
LOCAL INSTANCE FiniteSetsExt

\* What a profile may hold.  Text, hex and files are given as their bytes, and
\* the answers of dns as the bytes of the addresses and of the ttl.
Byte == 0 .. 255
Optional(S) == {o \in SUBSET S : \A v, w \in o : v = w}

Match ==
  [any : Optional(BOOLEAN), starts_with : Optional(Seq(Byte)),
   contains : Optional(Seq(Byte)), ends_with : Optional(Seq(Byte)),
   prefix_hex : Optional(Seq(0 .. 256)), contains_hex : Optional(Seq(0 .. 256)),
   min_len : Optional(Nat), max_len : Optional(Nat), len : Optional(Nat),
   first_only : Optional(BOOLEAN), ignore_case : BOOLEAN]

Answer ==
  [a : {<<>>} \cup [1 .. 4 -> Byte], aaaa : {<<>>} \cup [1 .. 16 -> Byte],
   ttl : [1 .. 4 -> Byte]]

Respond ==
  [text : Seq(Byte), hex : Seq(Byte), file : Seq(Byte), echo : BOOLEAN,
   repeat : Optional(Nat), close : BOOLEAN, dns : Optional(Answer)]

ProfileType ==
  [on_connect : Optional(Respond),
   rules : Seq([when : Match, respond : Optional(Respond)])]

\* Match::default(): a matcher with no field.
EmptyMatch ==
  [any |-> {}, starts_with |-> {}, contains |-> {}, ends_with |-> {},
   prefix_hex |-> {}, contains_hex |-> {}, min_len |-> {}, max_len |-> {},
   len |-> {}, first_only |-> {}, ignore_case |-> FALSE]

\* The bytes a hex field stands for; one that is not hex is found in no data.
NotHex == <<256>>

Lower(b) == IF b \in 65 .. 90 THEN b + 32 ELSE b
ToAsciiLowercase(s) == [i \in DOMAIN s |-> Lower(s[i])]

\* find: an empty needle is nowhere.
Found(hay, needle) ==
  needle # <<>> /\ \E i \in 1 .. Len(hay) - Len(needle) + 1 :
                      SubSeq(hay, i, i + Len(needle) - 1) = needle

\* Match::matches: every field that is present must hold.
Matches(m, data, first) ==
  LET Fold(s) == IF m.ignore_case THEN ToAsciiLowercase(s) ELSE s
      hay == Fold(data)
  IN  /\ \A v \in m.any : v
      /\ \A v \in m.first_only : v => first
      /\ \A n \in m.len : Len(data) = n
      /\ \A n \in m.min_len : Len(data) >= n
      /\ \A n \in m.max_len : Len(data) <= n
      /\ \A s \in m.starts_with : IsPrefix(Fold(s), hay)
      /\ \A s \in m.ends_with : IsSuffix(Fold(s), hay)
      /\ \A s \in m.contains : Found(hay, Fold(s))
      /\ \A h \in m.prefix_hex : IsPrefix(h, data)
      /\ \A h \in m.contains_hex : Found(data, h)

-----------------------------------------------------------------------------
\* Respond, with its text, hex and file as bytes.
EmptyRespond ==
  [text |-> <<>>, hex |-> <<>>, file |-> <<>>, echo |-> FALSE, repeat |-> {},
   close |-> FALSE, dns |-> {}]

Repeated(s, n) == FlattenSeq([i \in 1 .. n |-> s])

\* compile_respond.
Compile(r) ==
  LET once == r.text \o r.hex \o r.file IN
  [payload |-> IF r.repeat = {} THEN once
               ELSE Repeated(once, CHOOSE n \in r.repeat : TRUE),
   echo |-> r.echo, close |-> r.close, dns |-> r.dns]

IsSilent(action) == action.payload = <<>> /\ ~action.echo /\ action.dns = {}

\* load: rules without a respond are silent ones.
Load(p) ==
  [on_connect |-> {Compile(r) : r \in p.on_connect},
   rules |-> [i \in DOMAIN p.rules |->
     [matcher |-> p.rules[i].when,
      action |-> IF p.rules[i].respond = {} THEN Compile(EmptyRespond)
                 ELSE Compile(CHOOSE r \in p.rules[i].respond : TRUE)]]]

\* Compiled::eval: the action of the first rule that matches, if one does.
Eval(profile, data, first) ==
  LET hits == {i \in DOMAIN profile.rules :
                 Matches(profile.rules[i].matcher, data, first)}
  IN  {profile.rules[i].action : i \in {h \in hits : \A j \in hits : h <= j}}

RuleActions(profile) == {profile.rules[i].action : i \in DOMAIN profile.rules}

\* Compiled::responds.
Responds(profile) ==
  \E a \in profile.on_connect \cup RuleActions(profile) : ~IsSilent(a)

\* max_response_bytes returns None.
TracksRequest(profile) ==
  \E a \in profile.on_connect \cup RuleActions(profile) : a.echo \/ a.dns # {}

LongestPayload(actions) == Max({0} \cup {Len(a.payload) : a \in actions})

\* Slip: the banner or the rule's reply, whichever is longer.
MaxOfEither(profile) == LongestPayload(profile.on_connect \cup RuleActions(profile))

\* max_response_bytes returns Some: a first message draws banner and rule.
MaxResponseBytes(profile) ==
  LongestPayload(profile.on_connect) + LongestPayload(RuleActions(profile))
=============================================================================
