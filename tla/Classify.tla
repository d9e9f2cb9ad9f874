------------------------------- MODULE Classify -------------------------------
(***************************************************************************)
(* classify.rs: the hint a log line carries, from the bytes of one read.   *)
(* TLS and DNS, the formats it walks by their own length fields; a message *)
(* that starts with an HTTP method has a DNS opcode other than 0, so that  *)
(* http() and other() only see what is Unrecognised here.  An optional     *)
(* value is the set of its values.                                         *)
(***************************************************************************)
EXTENDS Dns

LOCAL INSTANCE SequencesExt
LOCAL INSTANCE FiniteSetsExt

CONSTANTS
  HintLimit   \* the classifier's own limit on a name's labels (63)

Unrecognised == [kind |-> "none"]

\* Where a ClientHello's fields start: each is behind the one before it.
SidAt == 11 + 32
SuitesAt(d) == SidAt + 1 + d[SidAt + 1]
CompressionAt(d) == SuitesAt(d) + 2 + Be16(d, SuitesAt(d))
ExtensionsAt(d) == CompressionAt(d) + 1 + d[CompressionAt(d) + 1]

\* Every `?` before the extensions gets its byte.
HasFixedPart(d) ==
  /\ SidAt < Len(d)
  /\ SuitesAt(d) + 2 <= Len(d)
  /\ CompressionAt(d) < Len(d)

\* The extensions from offset p on that start before `end`.  One whose body the
\* message does not hold is Cut: the hello is given up (`d.get(..)?`).
Cut == [type |-> -1, body |-> <<>>]
Extensions(d, start, end) ==
  LET from[p \in Nat] ==
        LET body == p + 4
            next == body + Be16(d, p + 2)
        IN  IF body > end THEN <<>>
            ELSE IF next > Len(d) THEN <<Cut>>
            ELSE <<[type |-> Be16(d, p), body |-> SubSeq(d, body + 1, next)]>> \o from[next]
  IN  from[start]

\* ext_total is cut to what there is; no room for it means no extensions.
HelloExtensions(d) ==
  LET start == ExtensionsAt(d) + 2 IN
  IF start > Len(d) THEN <<>>
  ELSE Extensions(d, start, Min({start + Be16(d, start - 2), Len(d)}))

\* parse_sni: the first entry of type 0, if it is whole.
ParseSni(b) ==
  LET from[p \in Nat] ==
        LET next == p + 3 + Be16(b, p + 1) IN
        IF p + 3 > Len(b) \/ next > Len(b) THEN {}
        ELSE IF b[p + 1] = 0 THEN {SubSeq(b, p + 4, next)}
        ELSE from[next]
  IN  from[2]

\* parse_alpn: the entries up to the first that is not whole.
ParseAlpn(b) ==
  LET from[p \in Nat] ==
        IF p >= Len(b) \/ p + 1 + b[p + 1] > Len(b) THEN <<>>
        ELSE <<SubSeq(b, p + 2, p + 1 + b[p + 1])>> \o from[p + 1 + b[p + 1]]
  IN  from[2]

\* Slip: one of the sixteen GREASE values.
IsFirstGrease(v) == v = 10 * 2^8 + 10

IsGrease(v) == v % 16 = 10 /\ (v \div 2^8) % 16 = 10

\* The u16 versions of a supported_versions body, at 1, 3, ...
Versions(b) ==
  {Be16(b, i) : i \in {j \in 1 .. Len(b) - 2 : j % 2 = 1 /\ j + 1 <= b[1]}}

\* The bodies of the extensions of one type; the last one is the one that counts.
Bodies(exts, type) == SelectSeq(exts, LAMBDA x : x.type = type)
LastBody(exts, type) ==
  LET found == Bodies(exts, type) IN
  IF found = <<>> THEN {} ELSE {found[Len(found)].body}

ClientHello(d, exts) ==
  [kind |-> "hello",
   version |-> Max({Be16(d, 9)} \cup {v \in UNION {Versions(exts[i].body) :
     i \in {j \in DOMAIN exts : exts[j].type = 43}} : ~IsGrease(v)}),
   sni |-> UNION {ParseSni(b) : b \in LastBody(exts, 0)},
   alpn |-> UNION {Range(ParseAlpn(b)) : b \in LastBody(exts, 16)},
   ciphers |-> Be16(d, SuitesAt(d)) \div 2]

\* tls
TlsHint(d) ==
  LET exts == HelloExtensions(d) IN
  IF Len(d) < 6 \/ d[1] # 22 \/ d[2] # 3 THEN Unrecognised
  ELSE IF d[6] # 1 THEN [kind |-> "handshake", version |-> Be16(d, 1)]
  ELSE IF ~HasFixedPart(d) \/ Cut \in Range(exts) THEN Unrecognised
  ELSE ClientHello(d, exts)

-----------------------------------------------------------------------------
IsGraphic(c) == c \in 33 .. 126
Printable(labels) == \A i \in DOMAIN labels : \A c \in Range(labels[i]) : IsGraphic(c)

\* The labels of a name that ends before offset `end`.
Labels(d, start, end) ==
  LET from[p \in Nat] ==
        IF p + 1 >= end THEN <<>>
        ELSE <<SubSeq(d, p + 2, p + 1 + d[p + 1])>> \o from[p + 1 + d[p + 1]]
  IN  from[start]

\* dns: a question section alone, and a name worth printing.
DnsHint(d) ==
  LET p == NameEnd(d, HEADER_LEN, HintLimit)
      labels == Labels(d, HEADER_LEN, p)
  IN  IF /\ Len(d) >= HEADER_LEN /\ PlainQuery(d) /\ Be16(d, 6) = 0
         /\ p # NoEnd /\ p + 2 <= Len(d)
         /\ labels # <<>>
         /\ Printable(labels)
      THEN [kind |-> "query", qtype |-> Be16(d, p), name |-> labels]
      ELSE Unrecognised

\* classify: the first parser that recognises the message.
Hint(d) == IF TlsHint(d) # Unrecognised THEN TlsHint(d) ELSE DnsHint(d)
=============================================================================
