----------------------------- MODULE MCAnswering ------------------------------
(* Profiles after the shipped ones and their combinations, against queries     *)
(* with each header flag and count, names up to one label beyond the code's    *)
(* limits, and hellos with and without extensions; in a frame or bare, cut at  *)
(* every byte.                                                                 *)
EXTENDS Answering

LOCAL INSTANCE SequencesExt

A == 97
Text(r) == [EmptyRespond EXCEPT !.text = r]
Always(r) == [when |-> EmptyMatch, respond |-> {r}]
Silent == [on_connect |-> {}, rules |-> <<[when |-> EmptyMatch, respond |-> {}]>>]
Echo == [on_connect |-> {}, rules |-> <<Always([EmptyRespond EXCEPT !.echo = TRUE])>>]
BannerEcho == [Echo EXCEPT !.on_connect = {Text(<<A>>)}]
Smtp ==
  [on_connect |-> {Text(<<50, 50>>)},
   rules |->
     <<[when |-> [EmptyMatch EXCEPT !.starts_with = {<<0>>}, !.max_len = {20}],
        respond |-> {[EmptyRespond EXCEPT !.hex = <<6>>, !.repeat = {3}]}],
       [when |-> [EmptyMatch EXCEPT !.contains = {<<65>>}, !.ends_with = {<<1>>},
                                    !.ignore_case = TRUE, !.min_len = {5}],
        respond |-> {[EmptyRespond EXCEPT !.file = <<50, 53, 48>>, !.close = TRUE]}],
       [when |-> [EmptyMatch EXCEPT !.prefix_hex = {<<22, 3>>}, !.first_only = {TRUE}],
        respond |-> {[EmptyRespond EXCEPT !.close = TRUE]}],
       [when |-> [EmptyMatch EXCEPT !.contains_hex = {NotHex}], respond |-> {Text(<<A>>)}],
       Always(Text(<<50, 49>>))>>]
Dns(a, aaaa) ==
  [on_connect |-> {}, rules |-> <<Always([EmptyRespond EXCEPT
     !.dns = {[a |-> a, aaaa |-> aaaa, ttl |-> <<0, 0, 0, 60>>]}])>>]
V4 == <<127, 0, 0, 1>>
V6 == [i \in 1 .. 16 |-> i]

MCProfiles ==
  {Silent, Echo, BannerEcho, Smtp, Dns(V4, <<>>), Dns(<<>>, V6),
   [on_connect |-> {Text(<<A>>)}, rules |-> <<>>]}

-----------------------------------------------------------------------------
Query(q, n) ==
  LET b == Sent(q) IN
  [bytes |-> SubSeq(b, 1, IF n < Len(b) THEN n ELSE Len(b)),
   meant |-> q @@ [what |-> "query", whole |-> n >= Asked(q),
     question |-> Question(q),
     graphic |-> \A i \in DOMAIN q.labels : \A j \in DOMAIN q.labels[i] : q.labels[i][j] > 32]]

Plain == [id |-> 4660, qr |-> FALSE, opcode |-> 0, aa |-> FALSE, tc |-> FALSE, rd |-> TRUE,
          low |-> 0, qdcount |-> 1, ancount |-> 0, nscount |-> 0, arcount |-> 0,
          labels |-> <<<<A>>, <<A, A>>>>, qtype |-> 1, qclass |-> 1,
          extra |-> <<>>, framed |-> FALSE, behind |-> <<>>]
LongLabel(n) == [i \in 1 .. n |-> A]
ManyLabels(n) == [i \in 1 .. n |-> <<A>>]
Names == {<<>>, <<<<A>>>>, <<<<32>>>>, <<LongLabel(30)>>, <<LongLabel(63), LongLabel(1)>>}
           \cup {ManyLabels(n) : n \in {HintLimit + 1, HintLimit + 2, LabelLimit + 1, LabelLimit + 2}}
Opt == <<0, 0, 41, 4, 208, 0, 0, 0, 0, 0, 0>>
Edns == [Plain EXCEPT !.low = 32, !.arcount = 1, !.extra = Opt]
Queries ==
  {[Plain EXCEPT !.qr = qr, !.opcode = o, !.aa = aa, !.tc = tc, !.rd = rd, !.low = low] :
     qr \in BOOLEAN, o \in {0, 2}, aa \in BOOLEAN, tc \in BOOLEAN, rd \in BOOLEAN,
     low \in {0, 32, 255}}
  \cup {[q EXCEPT !.qdcount = n, !.ancount = an, !.nscount = ns, !.arcount = ar] :
     q \in {Plain, Edns}, n \in 0 .. 2, an \in 0 .. 1, ns \in 0 .. 1, ar \in 0 .. 1}
  \cup {[Plain EXCEPT !.id = id, !.labels = l, !.qtype = t, !.qclass = c] :
     id \in {4660, 5635}, l \in Names, t \in {1, 16, 28}, c \in {1, 3}}
InAndOutOfFrame(qs) == UNION {{q, [q EXCEPT !.framed = TRUE]} : q \in qs}
Cuts ==
  {Query(q, n) : n \in 0 .. 60, q \in InAndOutOfFrame(
     {[q EXCEPT !.labels = l, !.behind = b] : q \in {Plain, Edns},
        l \in {<<>>, <<<<A>>, <<A, A>>>>, <<LongLabel(30)>>}, b \in {<<>>, Framed(Encoded(Plain))}})}

-----------------------------------------------------------------------------
Extension(type, body) == ToBe16(type) \o Framed(body)
Hello(h, n) ==
  LET body == ToBe16(h.legacy) \o [i \in 1 .. 32 |-> 17] \o <<1, 9>>
                \o Framed(<<19, 1, 19, 2>>) \o <<1, 0>>
                \o IF h.exts = <<>> THEN <<>> ELSE Framed(FlattenSeq(h.exts))
      b == <<22, 3, 1>> \o Framed(<<1, 0>> \o Framed(body))
  IN  [bytes |-> SubSeq(b, 1, IF n < Len(b) THEN n ELSE Len(b)),
       meant |-> [what |-> "hello", whole |-> n >= Len(b), legacy |-> h.legacy,
                  versions |-> h.versions, sni |-> h.sni, alpn |-> h.alpn, ciphers |-> 2]]

Modern ==
  [legacy |-> 771, versions |-> {772}, sni |-> {<<A, A>>}, alpn |-> {<<104, 50>>},
   exts |-> <<Extension(43, <<4, 26, 26, 3, 4>>), Extension(0, Framed(<<0>> \o Framed(<<A, A>>))),
              Extension(16, Framed(<<2, 104, 50>>))>>]
Old == [legacy |-> 769, versions |-> {}, sni |-> {}, alpn |-> {}, exts |-> <<>>]

Noise == {<<22, 3, 3, 0, 4, 2>>, <<22, 3>>, <<0>>, <<22, 3, 1, 0, 0, 1>>}

MCMessages ==
  {Query(q, 999) : q \in InAndOutOfFrame(Queries)} \cup Cuts
    \cup {Hello(Modern, n) : n \in 0 .. 90} \cup {Hello(Old, n) : n \in 43 .. 60}
    \cup {[bytes |-> b, meant |-> [what |-> "noise"]] : b \in Noise}
=============================================================================
