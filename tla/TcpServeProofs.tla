---------------------------- MODULE TcpServeProofs -----------------------------
(***************************************************************************)
(* Proofs about TcpServe, for any profile, any number of bytes and any     *)
(* socket buffers.  The lines of a log tell what happened before a reply   *)
(* but not what will come, so the invariant says of the reply in hand what *)
(* it will have to answer, and of each place of the task which lines can   *)
(* be in the log already.                                                  *)
(***************************************************************************)
EXTENDS TcpServe, StreamLemmas

LOCAL INSTANCE SequencesExt

Lines == [what : {"rx", "tx", "error", "close"}, data : Seq(Bytes), rule : Causes]
Jobs == [rule : Causes, payload : Seq(Bytes), rest : Seq(Bytes)]

\* A reply with this payload, drawn by this rule, may follow these lines.
Answers(lines, payload, rule) ==
  IF rule.when = "connect" THEN lines = <<>>
  ELSE LET n == Len(lines) IN
       /\ n > 0 /\ lines[n].what = "rx"
       /\ rule.kind = "echo" => payload = lines[n].data
       /\ rule.when = "first" => \A j \in 1 .. n - 1 : lines[j].what # "rx"

\* The i-th line, if it is a reply, follows what drew it.
AnswersAt(lines, i) ==
  LET l == lines[i] IN
  l.what = "tx" =>
    IF l.rule.when = "connect" THEN i = 1
    ELSE /\ i > 1 /\ lines[i - 1].what = "rx"
         /\ l.rule.kind = "echo" => l.data = lines[i - 1].data
         /\ l.rule.when = "first" => \A j \in 1 .. i - 2 : lines[j].what # "rx"

\* A line after which the connection goes on.
GoesOn(l) == ~l.rule.close /\ l.what \in {"rx", "tx"}

LinesAnswer == \A i \in 1 .. Len(log) : AnswersAt(log, i)

\* The reply in hand will be a right line of the log, whenever it is done.
JobAnswers == pc = "write" => Answers(log, job.payload, job.rule)

\* The flag is set as long as nothing was read.
FirstIsTrue == first => \A i \in 1 .. Len(log) : log[i].what # "rx"

\* Which lines can be in the log, by where the task is.
LogByPlace ==
  /\ pc = "connect" => log = <<>>
  /\ pc \in {"connect", "read", "write", "failed"} =>
       \A i \in 1 .. Len(log) : GoesOn(log[i])
  /\ pc = "returned" =>
       /\ \A i \in 1 .. Len(log) - 1 : GoesOn(log[i])
       /\ \A i \in 1 .. Len(log) : log[i].what # "close"
  /\ pc = "done" =>
       /\ Len(log) > 0
       /\ log[Len(log)].what = "close" /\ ~log[Len(log)].rule.close
       /\ \A i \in 1 .. Len(log) - 2 : GoesOn(log[i])
       /\ \A i \in 1 .. Len(log) - 1 : log[i].what # "close"

ServeInv ==
  /\ TcpServeTypeOK
  /\ LinesAnswer
  /\ JobAnswers
  /\ FirstIsTrue
  /\ LogByPlace

-----------------------------------------------------------------------------
\* Lines and replies.

LEMMA LineAppended ==
  ASSUME NEW lines \in Seq(Lines), NEW l \in Lines
  PROVE  /\ Append(lines, l) \in Seq(Lines)
         /\ Len(Append(lines, l)) = Len(lines) + 1
         /\ \A i \in 1 .. Len(lines) : Append(lines, l)[i] = lines[i]
         /\ Append(lines, l)[Len(lines) + 1] = l
BY AppendProperties

\* A line that does not speak for the client follows any log, a reply one that
\* it answers, and no line changes what an earlier one followed.
LEMMA AnswersAppended ==
  ASSUME NEW lines \in Seq(Lines), NEW l \in Lines,
         \A i \in 1 .. Len(lines) : AnswersAt(lines, i),
         l.what = "tx" => Answers(lines, l.data, l.rule)
  PROVE  \A i \in 1 .. Len(Append(lines, l)) : AnswersAt(Append(lines, l), i)
<1> DEFINE new == Append(lines, l)
<1> DEFINE n == Len(lines)
<1>1. /\ Len(new) = n + 1
      /\ \A i \in 1 .. n : new[i] = lines[i]
      /\ new[n + 1] = l
      /\ n \in Nat
  BY LineAppended, LenProperties
<1> SUFFICES ASSUME NEW i \in 1 .. Len(new) PROVE AnswersAt(new, i)
  OBVIOUS
<1> HIDE DEF new, n
<1>2. CASE i <= n
  <2>1. i \in 1 .. n /\ new[i] = lines[i]
    BY <1>1, <1>2
  <2>2. i > 1 => new[i - 1] = lines[i - 1]
    BY <1>1, <2>1
  <2>3. \A j \in 1 .. i - 2 : new[j] = lines[j]
    BY <1>1, <2>1
  <2>4. AnswersAt(lines, i)
    BY <2>1 DEF n
  <2> QED BY <2>1, <2>2, <2>3, <2>4 DEF AnswersAt
<1>3. CASE i = n + 1
  <2> SUFFICES ASSUME l.what = "tx" PROVE AnswersAt(new, i)
    BY <1>1, <1>3 DEF AnswersAt
  <2>1. Answers(lines, l.data, l.rule)
    OBVIOUS
  <2>2. CASE l.rule.when = "connect"
    <3>1. n = 0
      BY <2>1, <2>2 DEF Answers, n
    <3> QED BY <3>1, <2>2, <1>1, <1>3 DEF AnswersAt
  <2>3. CASE l.rule.when # "connect"
    <3>1. /\ n > 0 /\ lines[n].what = "rx"
          /\ l.rule.kind = "echo" => l.data = lines[n].data
          /\ l.rule.when = "first" => \A j \in 1 .. n - 1 : lines[j].what # "rx"
      BY <2>1, <2>3 DEF Answers, n
    <3>2. new[i] = l /\ i > 1 /\ i - 1 = n /\ new[i - 1] = lines[n] /\ i - 2 = n - 1
      BY <1>1, <1>3, <3>1
    <3>3. \A j \in 1 .. n - 1 : new[j] = lines[j]
      BY <1>1
    <3> QED BY <3>1, <3>2, <3>3, <2>3 DEF AnswersAt
  <2> QED BY <2>2, <2>3
<1> QED BY <1>1, <1>2, <1>3

LEMMA PartsOfBytes ==
  ASSUME NEW s \in Seq(Bytes), NEW n \in 0 .. Len(s)
  PROVE  /\ SubSeq(s, 1, n) \in Seq(Bytes)
         /\ Len(SubSeq(s, 1, n)) = n
         /\ SubSeq(s, n + 1, Len(s)) \in Seq(Bytes)
         /\ Len(SubSeq(s, n + 1, Len(s))) = Len(s) - n
<1>1. Len(s) \in Nat /\ \A i \in 1 .. Len(s) : s[i] \in Bytes
  BY LenProperties, ElementOfSeq
<1>2. \A i \in 1 .. n : s[i] \in Bytes
  BY <1>1
<1>3. \A i \in n + 1 .. Len(s) : s[i] \in Bytes
  BY <1>1
<1>4. /\ SubSeq(s, 1, n) \in Seq(Bytes)
      /\ Len(SubSeq(s, 1, n)) = IF 1 <= n THEN n - 1 + 1 ELSE 0
  BY <1>1, <1>2, SubSeqProperties
<1>5. /\ SubSeq(s, n + 1, Len(s)) \in Seq(Bytes)
      /\ Len(SubSeq(s, n + 1, Len(s))) =
           IF n + 1 <= Len(s) THEN Len(s) - (n + 1) + 1 ELSE 0
  BY <1>1, <1>3, SubSeqProperties
<1> QED BY <1>1, <1>4, <1>5

LEMMA ProfileRules ==
  ASSUME profile \in Profiles
  PROVE  /\ profile.on_connect \in Banners \cup {NoRule}
         /\ profile.rules \in Seq(Rules)
BY TcpServeAssumption

LEMMA PayloadsAreBytes ==
  ASSUME NEW r \in Causes, NEW received \in Seq(Bytes),
         NEW payload \in Payloads(r, received)
  PROVE  /\ payload \in Seq(Bytes)
         /\ r.kind = "echo" => payload = received
<1>1. 0 \in Bytes
  BY TcpServeAssumption DEF Bytes
<1>2. <<>> \in Seq(Bytes) /\ <<0>> \in Seq(Bytes) /\ <<0, 0>> \in Seq(Bytes)
  BY <1>1
<1>3. r.kind \in {"silent", "fixed", "echo", "dns"}
  BY DEF Causes, Rules, Banners, NoRule, Acting
<1> QED BY <1>2, <1>3 DEF Payloads

LEMMA Sizes == MaxSent \in Nat /\ Window \in Nat \ {0}
BY TcpServeAssumption

LEMMA NothingFits == <<>> \in Seq(Bytes) /\ Len(<<>>) = 0 /\ 0 <= Window
BY Sizes, EmptySeq

-----------------------------------------------------------------------------
\* The client's steps.  None touches the task or its log.

\* What holds of the task holds as long as it and its log stay as they are.
LEMMA TaskStays ==
  ASSUME ServeInv, TcpServeTypeOK', UNCHANGED <<pc, first, job, log>>
  PROVE  ServeInv'
<1>1. LinesAnswer'
  BY DEF ServeInv, LinesAnswer
<1>2. JobAnswers'
  BY DEF ServeInv, JobAnswers
<1>3. FirstIsTrue'
  BY DEF ServeInv, FirstIsTrue
<1>4. LogByPlace'
  BY DEF ServeInv, LogByPlace
<1> QED BY <1>1, <1>2, <1>3, <1>4 DEF ServeInv

LEMMA ClientSendKeeps == ASSUME ServeInv, ClientSend PROVE ServeInv'
<1>0. sent \in 0 .. MaxSent /\ inbox \in Seq(Bytes) /\ Len(inbox) \in Nat
  BY LenProperties DEF ServeInv, TcpServeTypeOK
<1>1. sent' \in 0 .. MaxSent /\ sent' \in Bytes
  BY <1>0, Sizes DEF ClientSend, Bytes
<1>2. inbox' \in Seq(Bytes) /\ Len(inbox') = Len(inbox) + 1
  BY <1>0, <1>1, AppendProperties DEF ClientSend
<1>3. Len(inbox') <= Window
  BY <1>0, <1>2, Sizes DEF ClientSend
<1>4. TcpServeTypeOK'
  BY <1>1, <1>2, <1>3 DEF ServeInv, TcpServeTypeOK, ClientSend
<1> QED BY <1>4, TaskStays DEF ClientSend

LEMMA ClientReadKeeps == ASSUME ServeInv, ClientRead PROVE ServeInv'
<1>1. /\ Head(outbox) \in Bytes
      /\ outbox' \in Seq(Bytes)
      /\ Len(outbox') = Len(outbox) - 1
  BY HeadTailProperties DEF ServeInv, TcpServeTypeOK, ClientRead
<1>2. got' \in Seq(Bytes)
  BY <1>1, AppendProperties DEF ServeInv, TcpServeTypeOK, ClientRead
<1>3. Len(outbox) \in Nat /\ Len(outbox) <= Window
  BY LenProperties DEF ServeInv, TcpServeTypeOK
<1>4. Len(outbox') <= Window
  BY <1>1, <1>3, Sizes
<1>5. TcpServeTypeOK'
  BY <1>1, <1>2, <1>4 DEF ServeInv, TcpServeTypeOK, ClientRead
<1> QED BY <1>5, TaskStays DEF ClientRead

LEMMA ClientEofKeeps == ASSUME ServeInv, ClientEof PROVE ServeInv'
<1>1. TcpServeTypeOK'
  BY DEF ServeInv, TcpServeTypeOK, ClientEof
<1> QED BY <1>1, TaskStays DEF ClientEof

LEMMA ClientResetKeeps == ASSUME ServeInv, ClientReset PROVE ServeInv'
<1>1. <<>> \in Seq(Bytes) /\ Len(<<>>) <= Window
  BY NothingFits
<1>2. TcpServeTypeOK'
  BY <1>1 DEF ServeInv, TcpServeTypeOK, ClientReset
<1> QED BY <1>2, TaskStays DEF ClientReset

-----------------------------------------------------------------------------
\* The task's steps.

\* serve returns between two lines of the log.
LEMMA ReturnTypes ==
  ASSUME TcpServeTypeOK, NEW outcome \in {"profile close", "peer eof", "error"},
         NEW left, Return(outcome, left)
  PROVE  /\ pc' \in {"failed", "returned"}
         /\ why' \in {"profile close", "peer eof", "error"}
         /\ inbox' \in Seq(Bytes) /\ Len(inbox') <= Window
         /\ outbox' \in Seq(Bytes) /\ Len(outbox') <= Window
<1>1. <<>> \in Seq(Bytes) /\ Len(<<>>) <= Window
  BY NothingFits
<1> QED BY <1>1 DEF TcpServeTypeOK, Return

\* send takes the task to its first write, to the next read, or out of serve.
LEMMA RespondTypes ==
  ASSUME TcpServeTypeOK, NEW r \in Causes, NEW payload \in Seq(Bytes),
         NEW left \in Seq(Bytes), Len(left) <= Window, Respond(r, payload, left)
  PROVE  /\ pc' \in {"read", "write", "returned"}
         /\ why' \in {"none", "profile close", "peer eof", "error"}
         /\ inbox' \in Seq(Bytes) /\ Len(inbox') <= Window
         /\ outbox' \in Seq(Bytes) /\ Len(outbox') <= Window
         /\ job' \in Jobs
         /\ pc' = "write" => job'.payload = payload /\ job'.rule = r
<1>1. CASE payload # <<>>
  <2>1. /\ pc' = "write" /\ inbox' = left /\ outbox' = outbox /\ why' = why
        /\ job' = [rule |-> r, payload |-> payload, rest |-> payload]
    BY <1>1 DEF Respond
  <2>2. job' \in Jobs /\ job'.payload = payload /\ job'.rule = r
    BY <2>1 DEF Jobs
  <2> QED BY <2>1, <2>2 DEF TcpServeTypeOK
<1>2. CASE payload = <<>> /\ r.close
  <2>1. Return("profile close", left) /\ job' = job
    BY <1>2 DEF Respond
  <2>2. pc' = "returned"
    BY <2>1 DEF Return
  <2> QED BY <2>1, <2>2, ReturnTypes DEF TcpServeTypeOK, Jobs
<1>3. CASE payload = <<>> /\ ~r.close
  <2>1. /\ pc' = "read" /\ inbox' = left /\ outbox' = outbox
        /\ job' = job /\ why' = why
    BY <1>3 DEF Respond
  <2> QED BY <2>1 DEF TcpServeTypeOK, Jobs
<1> QED BY <1>1, <1>2, <1>3

LEMMA ConnectKeeps == ASSUME ServeInv, Connect PROVE ServeInv'
<1>1. CASE profile.on_connect = NoRule
  <2>1. pc' = "read" /\ UNCHANGED <<profile, clientVars, inbox, outbox, first, job, why, log, handed>>
    BY <1>1 DEF Connect
  <2>2. TcpServeTypeOK'
    BY <2>1 DEF ServeInv, TcpServeTypeOK, clientVars
  <2>3. LogByPlace'
    BY <2>1 DEF ServeInv, LogByPlace, Connect
  <2> QED BY <2>1, <2>2, <2>3 DEF ServeInv, LinesAnswer, JobAnswers, FirstIsTrue
<1>2. CASE profile.on_connect # NoRule
  <2> DEFINE r == profile.on_connect
  <2>1. r \in Banners /\ r \in Causes /\ r.when = "connect"
    BY <1>2, ProfileRules DEF ServeInv, TcpServeTypeOK, Causes, Banners, Acting
  <2>2. PICK payload \in Payloads(r, <<>>) : Respond(r, payload, inbox)
    BY <1>2 DEF Connect
  <2>3. /\ log = <<>> /\ TcpServeTypeOK
        /\ UNCHANGED <<profile, sent, client_end, got, first, log, handed>>
    BY DEF ServeInv, LogByPlace, Connect, clientVars
  <2> HIDE DEF r
  <2>4. payload \in Seq(Bytes)
    BY <2>1, PayloadsAreBytes, NothingFits
  <2>5. /\ pc' \in {"read", "write", "returned"}
        /\ why' \in {"none", "profile close", "peer eof", "error"}
        /\ inbox' \in Seq(Bytes) /\ Len(inbox') <= Window
        /\ outbox' \in Seq(Bytes) /\ Len(outbox') <= Window
        /\ job' \in Jobs
        /\ pc' = "write" => job'.payload = payload /\ job'.rule = r
    BY <2>1, <2>2, <2>3, <2>4, RespondTypes DEF TcpServeTypeOK
  <2>6. TcpServeTypeOK'
    BY <2>3, <2>5 DEF TcpServeTypeOK, Jobs
  <2>7. /\ \A i \in 1 .. Len(log') : FALSE
        /\ \A i \in 1 .. Len(log') - 1 : FALSE
    <3>1. Len(log') = 0
      BY <2>3
    <3> QED BY <3>1
  <2>8. JobAnswers'
    BY <2>1, <2>3, <2>5 DEF JobAnswers, Answers
  <2>9. LinesAnswer' /\ FirstIsTrue' /\ LogByPlace'
    BY <2>3, <2>5, <2>7 DEF LinesAnswer, FirstIsTrue, LogByPlace
  <2> QED BY <2>6, <2>8, <2>9 DEF ServeInv
<1> QED BY <1>1, <1>2

\* An rx line is about to be evaluated: what a rule then answers is that line,
\* and first_only's rule is reached only if it is the first of its kind.
LEMMA ReadKeeps == ASSUME ServeInv, Read PROVE ServeInv'
<1>1. PICK n \in 1 .. Len(inbox) :
        LET data == SubSeq(inbox, 1, n)
            left == SubSeq(inbox, n + 1, Len(inbox))
        IN  /\ log' = Append(log, Line("rx", data, NoRule))
            /\ \/ \E r \in Eval : \E payload \in Payloads(r, data) :
                    Respond(r, payload, left)
               \/ NoneMatches /\ Respond(NoRule, <<>>, left)
  BY DEF Read
<1> DEFINE data == SubSeq(inbox, 1, n)
<1> DEFINE left == SubSeq(inbox, n + 1, Len(inbox))
<1> DEFINE l == Line("rx", data, NoRule)
<1>2. /\ TcpServeTypeOK /\ inbox \in Seq(Bytes) /\ Len(inbox) <= Window
      /\ log \in Seq(Lines) /\ profile \in Profiles
      /\ pc = "read" /\ ~first'
      /\ UNCHANGED <<profile, sent, client_end, got, handed>>
  BY DEF ServeInv, TcpServeTypeOK, Lines, Read, FirstAfterRead, clientVars
<1>3. n \in 0 .. Len(inbox) /\ Len(inbox) \in Nat
  BY <1>2, LenProperties
<1>4. /\ data \in Seq(Bytes) /\ left \in Seq(Bytes) /\ Len(left) <= Window
  <2>1. /\ data \in Seq(Bytes) /\ left \in Seq(Bytes)
        /\ Len(left) = Len(inbox) - n
    BY <1>2, <1>3, PartsOfBytes
  <2>2. Len(inbox) - n <= Window
    BY <1>2, <1>3, Sizes
  <2> QED BY <2>1, <2>2
<1>5. PICK r \in Eval \cup {NoRule} : \E payload \in Payloads(r, data) :
         Respond(r, payload, left)
  <2>1. <<>> \in Payloads(NoRule, data)
    BY DEF Payloads, NoRule
  <2> QED BY <1>1, <2>1
<1>6. PICK payload \in Payloads(r, data) : Respond(r, payload, left)
  BY <1>5
<1>7. /\ r \in Rules \cup {NoRule} /\ r \in Causes
      /\ r.when # "connect" /\ (r.when = "first" => first)
  <2>1. NoRule.when = "never" /\ NoRule \in Causes
    BY DEF NoRule, Causes
  <2>2. ASSUME r \in Eval PROVE r \in Rules /\ (r.when = "first" => first)
    <3>1. PICK i \in DOMAIN profile.rules : r = profile.rules[i] /\ MayMatch(r)
      BY <2>2 DEF Eval
    <3>2. profile.rules \in Seq(Rules)
      BY <1>2, ProfileRules
    <3>3. r \in Rules
      BY <3>1, <3>2
    <3> QED BY <3>1, <3>3 DEF MayMatch
  <2>3. ASSUME r \in Rules PROVE r.when # "connect" /\ r \in Causes
    BY <2>3 DEF Rules, Acting, Causes
  <2> QED BY <2>1, <2>2, <2>3
<1>8. /\ l \in Lines /\ log' = Append(log, l)
      /\ l.what = "rx" /\ l.data = data /\ l.rule = NoRule
  BY <1>1, <1>4 DEF Line, Lines, Causes
<1> DEFINE k == Len(log)
<1> HIDE DEF data, left, l
<1>9. payload \in Seq(Bytes) /\ (r.kind = "echo" => payload = data)
  BY <1>4, <1>6, <1>7, PayloadsAreBytes
<1>10. /\ pc' \in {"read", "write", "returned"}
       /\ why' \in {"none", "profile close", "peer eof", "error"}
       /\ inbox' \in Seq(Bytes) /\ Len(inbox') <= Window
       /\ outbox' \in Seq(Bytes) /\ Len(outbox') <= Window
       /\ job' \in Jobs
       /\ pc' = "write" => job'.payload = payload /\ job'.rule = r
  BY <1>2, <1>4, <1>6, <1>7, <1>9, RespondTypes
<1>11. /\ log' \in Seq(Lines) /\ Len(log') = k + 1 /\ log'[k + 1] = l
       /\ \A i \in 1 .. k : log'[i] = log[i]
       /\ k \in Nat
  BY <1>2, <1>8, LineAppended, LenProperties
<1> HIDE DEF k
<1>12. TcpServeTypeOK'
  <2>1. first' \in BOOLEAN
    BY DEF Read, FirstAfterRead
  <2> QED BY <1>2, <1>10, <1>11, <2>1 DEF TcpServeTypeOK, Jobs, Lines
<1>13. LinesAnswer'
  <2>1. \A i \in 1 .. Len(log) : AnswersAt(log, i)
    BY DEF ServeInv, LinesAnswer
  <2>2. \A i \in 1 .. Len(Append(log, l)) : AnswersAt(Append(log, l), i)
    BY <2>1, <1>2, <1>8, AnswersAppended
  <2> QED BY <2>2, <1>8 DEF LinesAnswer
<1>14. JobAnswers'
  <2> SUFFICES ASSUME pc' = "write" PROVE Answers(log', payload, r)
    BY <1>10 DEF JobAnswers
  <2>1. r.when = "first" => \A j \in 1 .. k : log[j].what # "rx"
    BY <1>7 DEF ServeInv, FirstIsTrue, k
  <2>2. Len(log') > 0 /\ Len(log') - 1 = k /\ log'[Len(log')] = l
    BY <1>11
  <2>3. r.when = "first" => \A j \in 1 .. Len(log') - 1 : log'[j].what # "rx"
    BY <1>11, <2>1, <2>2
  <2> QED BY <1>7, <1>8, <1>9, <2>2, <2>3 DEF Answers
<1>15. FirstIsTrue'
  BY <1>2 DEF FirstIsTrue
<1>16. LogByPlace'
  <2>1. \A i \in 1 .. k : GoesOn(log[i])
    BY <1>2 DEF ServeInv, LogByPlace, k
  <2>2. GoesOn(l)
    BY <1>8 DEF GoesOn, NoRule
  <2>3. \A i \in 1 .. Len(log') : GoesOn(log'[i])
    BY <1>11, <2>1, <2>2
  <2>4. \A i \in 1 .. Len(log') : log'[i].what # "close"
    BY <2>3 DEF GoesOn
  <2>5. \A i \in 1 .. Len(log') - 1 : GoesOn(log'[i])
    BY <2>3, <1>11
  <2> QED BY <1>10, <2>3, <2>4, <2>5 DEF LogByPlace
<1> QED BY <1>12, <1>13, <1>14, <1>15, <1>16 DEF ServeInv

\* No line is written by these steps, and no reply is in hand after them.
LEMMA ReadEofKeeps == ASSUME ServeInv, ReadEof PROVE ServeInv'
<1>1. TcpServeTypeOK /\ Return("peer eof", <<>>)
  BY DEF ServeInv, ReadEof
<1>2. TcpServeTypeOK'
  BY <1>1, ReturnTypes DEF TcpServeTypeOK, ReadEof, clientVars
<1>3. pc' = "returned" /\ log' = log /\ first' = first
  BY <1>1 DEF ReadEof, Return
<1>4. \A i \in 1 .. Len(log) : GoesOn(log[i])
  BY DEF ServeInv, LogByPlace, ReadEof
<1>5. LogByPlace'
  <2>1. \A i \in 1 .. Len(log) : log[i].what # "close"
    BY <1>4 DEF GoesOn
  <2>2. Len(log) \in Nat
    BY <1>1, LenProperties DEF TcpServeTypeOK
  <2>3. \A i \in 1 .. Len(log) - 1 : GoesOn(log[i])
    BY <1>4, <2>2
  <2> QED BY <1>3, <2>1, <2>3 DEF LogByPlace
<1> QED BY <1>2, <1>3, <1>5 DEF ServeInv, LinesAnswer, JobAnswers, FirstIsTrue

LEMMA FailKeeps == ASSUME ServeInv, Fail PROVE ServeInv'
<1>1. TcpServeTypeOK /\ Return("error", inbox)
  BY DEF ServeInv, Fail
<1>2. TcpServeTypeOK'
  BY <1>1, ReturnTypes DEF TcpServeTypeOK, Fail, clientVars
<1>3. pc' = "failed" /\ log' = log /\ first' = first
  BY <1>1 DEF Fail, Return
<1>4. LogByPlace'
  BY <1>3 DEF ServeInv, LogByPlace, Fail
<1> QED BY <1>2, <1>3, <1>4 DEF ServeInv, LinesAnswer, JobAnswers, FirstIsTrue

LEMMA WritePartKeeps == ASSUME ServeInv, WritePart PROVE ServeInv'
<1>1. PICK n \in 1 .. Len(job.rest) :
        /\ n <= OutboxRoom
        /\ outbox' = outbox \o SubSeq(job.rest, 1, n)
        /\ handed' = handed \o SubSeq(job.rest, 1, n)
        /\ job' = [job EXCEPT !.rest = SubSeq(@, n + 1, Len(@))]
  BY DEF WritePart
<1> DEFINE part == SubSeq(job.rest, 1, n)
<1> DEFINE rest == SubSeq(job.rest, n + 1, Len(job.rest))
<1>2. /\ TcpServeTypeOK /\ job \in Jobs
      /\ UNCHANGED <<profile, sent, client_end, got, inbox, pc, first, why, log>>
  BY DEF ServeInv, TcpServeTypeOK, Jobs, WritePart, clientVars
<1>3. n \in 0 .. Len(job.rest) /\ job.rest \in Seq(Bytes)
  BY <1>2, LenProperties DEF Jobs
<1>4. part \in Seq(Bytes) /\ Len(part) = n /\ rest \in Seq(Bytes)
  BY <1>3, PartsOfBytes
<1>5. /\ job'.payload = job.payload /\ job'.rule = job.rule /\ job' \in Jobs
  <2>1. job' = [job EXCEPT !.rest = rest]
    BY <1>1
  <2> HIDE DEF rest
  <2> QED BY <1>2, <1>4, <2>1 DEF Jobs
<1>6. /\ outbox' \in Seq(Bytes) /\ Len(outbox') = Len(outbox) + n
      /\ handed' \in Seq(Bytes)
  <2>1. outbox' = outbox \o part /\ handed' = handed \o part
    BY <1>1
  <2>2. outbox \in Seq(Bytes) /\ handed \in Seq(Bytes)
    BY <1>2 DEF TcpServeTypeOK
  <2> HIDE DEF part
  <2>3. /\ outbox \o part \in Seq(Bytes) /\ handed \o part \in Seq(Bytes)
        /\ Len(outbox \o part) = Len(outbox) + Len(part)
    BY <1>4, <2>2, ConcatProperties
  <2> QED BY <1>4, <2>1, <2>3
<1>7. Len(outbox') <= Window
  <2>1. Len(outbox) \in Nat
    BY <1>2, LenProperties DEF TcpServeTypeOK
  <2>2. n \in Int /\ n <= Window - Len(outbox)
    BY <1>1, <1>3 DEF OutboxRoom
  <2> QED BY <1>6, <2>1, <2>2, Sizes
<1>8. TcpServeTypeOK'
  BY <1>2, <1>5, <1>6, <1>7 DEF TcpServeTypeOK, Jobs
<1>9. JobAnswers'
  BY <1>2, <1>5 DEF ServeInv, JobAnswers
<1>10. LinesAnswer' /\ FirstIsTrue'
  BY <1>2 DEF ServeInv, LinesAnswer, FirstIsTrue
<1>11. LogByPlace'
  BY <1>2 DEF ServeInv, LogByPlace
<1> QED BY <1>8, <1>9, <1>10, <1>11 DEF ServeInv

\* What one more line does to a log all of whose lines go on.
LEMMA LineWritten ==
  ASSUME TcpServeTypeOK, LinesAnswer, NEW l \in Lines, log' = Append(log, l),
         l.what = "tx" => Answers(log, l.data, l.rule)
  PROVE  /\ LinesAnswer'
         /\ log' \in Seq(Lines) /\ Len(log') = Len(log) + 1 /\ Len(log) \in Nat
         /\ log'[Len(log) + 1] = l
         /\ \A i \in 1 .. Len(log) : log'[i] = log[i]
<1>1. log \in Seq(Lines)
  BY DEF TcpServeTypeOK, Lines
<1>2. \A i \in 1 .. Len(log) : AnswersAt(log, i)
  BY DEF LinesAnswer
<1>3. \A i \in 1 .. Len(Append(log, l)) : AnswersAt(Append(log, l), i)
  BY <1>1, <1>2, AnswersAppended
<1>4. LinesAnswer'
  BY <1>3 DEF LinesAnswer
<1> QED BY <1>1, <1>4, LineAppended, LenProperties

LEMMA WrittenKeeps == ASSUME ServeInv, Written PROVE ServeInv'
<1> DEFINE l == Line("tx", job.payload, job.rule)
<1> DEFINE k == Len(log)
<1>1. /\ TcpServeTypeOK /\ LinesAnswer
      /\ log' = Append(log, l)
      /\ UNCHANGED <<profile, sent, client_end, got, first, handed>>
      /\ job' = NoJob /\ pc = "write"
  BY DEF ServeInv, Written, clientVars
<1>2. /\ l \in Lines /\ l.what = "tx" /\ l.rule = job.rule
      /\ Answers(log, l.data, l.rule)
  BY <1>1 DEF ServeInv, TcpServeTypeOK, JobAnswers, Line, Lines
<1> HIDE DEF l
<1>3. /\ LinesAnswer'
      /\ log' \in Seq(Lines) /\ Len(log') = k + 1 /\ k \in Nat
      /\ log'[k + 1] = l
      /\ \A i \in 1 .. k : log'[i] = log[i]
  BY <1>1, <1>2, LineWritten
<1>4. \A i \in 1 .. k : GoesOn(log[i])
  BY <1>1 DEF ServeInv, LogByPlace
<1> HIDE DEF k
<1>5. \A i \in 1 .. k : GoesOn(log'[i])
  BY <1>3, <1>4
<1>6. FirstIsTrue'
  <2>1. first => \A i \in 1 .. k : log[i].what # "rx"
    BY DEF ServeInv, FirstIsTrue, k
  <2>2. first => \A i \in 1 .. Len(log') : log'[i].what # "rx"
    BY <1>2, <1>3, <2>1
  <2> QED BY <1>1, <2>2 DEF FirstIsTrue
<1>7. NoJob \in Jobs
  BY NothingFits DEF NoJob, Jobs, Causes
<1>8. CASE job.rule.close
  <2>1. Return("profile close", inbox)
    BY <1>8 DEF Written
  <2>2. TcpServeTypeOK'
    BY <1>1, <1>3, <1>7, <2>1, ReturnTypes DEF TcpServeTypeOK, Jobs, Lines
  <2>3. pc' = "returned"
    BY <2>1 DEF Return
  <2>4. \A i \in 1 .. Len(log') - 1 : GoesOn(log'[i])
    BY <1>3, <1>5
  <2>5. \A i \in 1 .. Len(log') : log'[i].what # "close"
    BY <1>2, <1>3, <1>5 DEF GoesOn
  <2>6. LogByPlace'
    BY <2>3, <2>4, <2>5 DEF LogByPlace
  <2> QED BY <1>3, <1>6, <2>2, <2>3, <2>6 DEF ServeInv, JobAnswers
<1>9. CASE ~job.rule.close
  <2>1. pc' = "read" /\ UNCHANGED <<inbox, outbox, why>>
    BY <1>9 DEF Written
  <2>2. TcpServeTypeOK'
    BY <1>1, <1>3, <1>7, <2>1 DEF TcpServeTypeOK, Jobs, Lines
  <2>3. GoesOn(l)
    BY <1>2, <1>9 DEF GoesOn
  <2>4. \A i \in 1 .. Len(log') : GoesOn(log'[i])
    BY <1>3, <1>5, <2>3
  <2>5. LogByPlace'
    BY <2>1, <2>4 DEF LogByPlace
  <2> QED BY <1>3, <1>6, <2>1, <2>2, <2>5 DEF ServeInv, JobAnswers
<1> QED BY <1>8, <1>9

\* The lines that end a log.
LEMMA EndLines ==
  ASSUME NEW what \in {"error", "close"}
  PROVE  LET l == Line(what, <<>>, NoRule) IN
         l \in Lines /\ l.what = what /\ ~l.rule.close
BY NothingFits DEF Line, Lines, Causes, NoRule

LEMMA LogErrorKeeps == ASSUME ServeInv, LogError PROVE ServeInv'
<1> DEFINE l == Line("error", <<>>, NoRule)
<1> DEFINE k == Len(log)
<1>1. /\ TcpServeTypeOK /\ LinesAnswer
      /\ log' = Append(log, l) /\ pc = "failed" /\ pc' = "returned"
      /\ UNCHANGED <<profile, sent, client_end, got, inbox, outbox, first, job, why, handed>>
  BY DEF ServeInv, LogError, clientVars
<1>2. l \in Lines /\ l.what = "error"
  BY EndLines
<1> HIDE DEF l
<1>3. /\ LinesAnswer'
      /\ log' \in Seq(Lines) /\ Len(log') = k + 1 /\ k \in Nat
      /\ log'[k + 1] = l
      /\ \A i \in 1 .. k : log'[i] = log[i]
  BY <1>1, <1>2, LineWritten
<1>4. \A i \in 1 .. k : GoesOn(log[i])
  BY <1>1 DEF ServeInv, LogByPlace
<1>5. first => \A i \in 1 .. k : log[i].what # "rx"
  BY DEF ServeInv, FirstIsTrue
<1> HIDE DEF k
<1>6. TcpServeTypeOK'
  BY <1>1, <1>3 DEF TcpServeTypeOK, Lines
<1>7. FirstIsTrue'
  <2>1. first => \A i \in 1 .. Len(log') : log'[i].what # "rx"
    BY <1>2, <1>3, <1>5
  <2> QED BY <1>1, <2>1 DEF FirstIsTrue
<1>8. \A i \in 1 .. k : GoesOn(log'[i])
  BY <1>3, <1>4
<1>9. \A i \in 1 .. Len(log') - 1 : GoesOn(log'[i])
  BY <1>3, <1>8
<1>10. \A i \in 1 .. Len(log') : log'[i].what # "close"
  BY <1>2, <1>3, <1>8 DEF GoesOn
<1>11. LogByPlace'
  BY <1>1, <1>9, <1>10 DEF LogByPlace
<1> QED BY <1>1, <1>3, <1>6, <1>7, <1>11 DEF ServeInv, JobAnswers

LEMMA LogCloseKeeps == ASSUME ServeInv, LogClose PROVE ServeInv'
<1> DEFINE l == Line("close", <<>>, NoRule)
<1> DEFINE k == Len(log)
<1>1. /\ TcpServeTypeOK /\ LinesAnswer
      /\ log' = Append(log, l) /\ pc = "returned" /\ pc' = "done"
      /\ UNCHANGED <<profile, sent, client_end, got, inbox, outbox, first, job, why, handed>>
  BY DEF ServeInv, LogClose, clientVars
<1>2. l \in Lines /\ l.what = "close" /\ ~l.rule.close
  BY EndLines
<1> HIDE DEF l
<1>3. /\ LinesAnswer'
      /\ log' \in Seq(Lines) /\ Len(log') = k + 1 /\ k \in Nat
      /\ log'[k + 1] = l
      /\ \A i \in 1 .. k : log'[i] = log[i]
  BY <1>1, <1>2, LineWritten
<1>4. /\ \A i \in 1 .. k - 1 : GoesOn(log[i])
      /\ \A i \in 1 .. k : log[i].what # "close"
  BY <1>1 DEF ServeInv, LogByPlace
<1>5. first => \A i \in 1 .. k : log[i].what # "rx"
  BY DEF ServeInv, FirstIsTrue
<1> HIDE DEF k
<1>6. TcpServeTypeOK'
  BY <1>1, <1>3 DEF TcpServeTypeOK, Lines
<1>7. FirstIsTrue'
  <2>1. first => \A i \in 1 .. Len(log') : log'[i].what # "rx"
    BY <1>2, <1>3, <1>5
  <2> QED BY <1>1, <2>1 DEF FirstIsTrue
<1>8. \A i \in 1 .. Len(log') - 2 : GoesOn(log'[i])
  BY <1>3, <1>4
<1>9. \A i \in 1 .. Len(log') - 1 : log'[i].what # "close"
  BY <1>3, <1>4
<1>10. LogByPlace'
  BY <1>1, <1>2, <1>3, <1>8, <1>9 DEF LogByPlace
<1> QED BY <1>1, <1>3, <1>6, <1>7, <1>10 DEF ServeInv, JobAnswers

-----------------------------------------------------------------------------
\* The invariant.

LEMMA ServeInitially == TcpServeInit => ServeInv
<1> SUFFICES ASSUME TcpServeInit PROVE ServeInv
  OBVIOUS
<1>1. NoJob \in Jobs
  BY NothingFits DEF NoJob, Jobs, Causes
<1>2. log = <<>> /\ \A i \in 1 .. Len(log) : FALSE
  <2>1. Len(log) = 0
    BY DEF TcpServeInit
  <2> QED BY <2>1 DEF TcpServeInit
<1>3. TcpServeTypeOK
  <2>1. log \in Seq(Lines)
    BY <1>2, EmptySeq
  <2>2. sent \in 0 .. MaxSent
    BY Sizes DEF TcpServeInit
  <2> QED BY <1>1, <2>1, <2>2, NothingFits DEF TcpServeInit, TcpServeTypeOK, Lines, Jobs
<1>4. pc = "connect"
  BY DEF TcpServeInit
<1>5. LinesAnswer /\ FirstIsTrue
  BY <1>2 DEF LinesAnswer, FirstIsTrue
<1>6. LogByPlace
  BY <1>2, <1>4 DEF LogByPlace
<1> QED BY <1>3, <1>4, <1>5, <1>6 DEF ServeInv, JobAnswers

LEMMA ServeStep == ServeInv /\ [TcpServeNext]_serveVars => ServeInv'
<1> SUFFICES ASSUME ServeInv, [TcpServeNext]_serveVars PROVE ServeInv'
  OBVIOUS
<1>1. CASE ClientSend
  BY <1>1, ClientSendKeeps
<1>2. CASE ClientRead
  BY <1>2, ClientReadKeeps
<1>3. CASE ClientEof
  BY <1>3, ClientEofKeeps
<1>4. CASE ClientReset
  BY <1>4, ClientResetKeeps
<1>5. CASE Connect
  BY <1>5, ConnectKeeps
<1>6. CASE Read
  BY <1>6, ReadKeeps
<1>7. CASE ReadEof
  BY <1>7, ReadEofKeeps
<1>8. CASE Fail
  BY <1>8, FailKeeps
<1>9. CASE WritePart
  BY <1>9, WritePartKeeps
<1>10. CASE Written
  BY <1>10, WrittenKeeps
<1>11. CASE LogError
  BY <1>11, LogErrorKeeps
<1>12. CASE LogClose
  BY <1>12, LogCloseKeeps
<1>13. CASE UNCHANGED serveVars
  <2>1. TcpServeTypeOK'
    BY <1>13 DEF ServeInv, TcpServeTypeOK, serveVars, clientVars
  <2> QED BY <2>1, <1>13, TaskStays DEF serveVars
<1> QED
  BY <1>1, <1>2, <1>3, <1>4, <1>5, <1>6, <1>7, <1>8, <1>9, <1>10, <1>11, <1>12, <1>13
  DEF TcpServeNext, TaskStep, Ended

LEMMA ServeInvariant == TcpServeSpec => []ServeInv
BY ServeInitially, ServeStep, PTL DEF TcpServeSpec

-----------------------------------------------------------------------------
\* The theorems.

\* Whatever the profile, and however the client sends, reads and leaves, both
\* sockets keep within their buffers and the task's state keeps its types.
THEOREM TcpServeTypes == TcpServeSpec => []TcpServeTypeOK
<1>1. ServeInv => TcpServeTypeOK
  BY DEF ServeInv
<1> QED BY ServeInvariant, <1>1, PTL

\* For every profile, a reply in the log follows the read that drew it, a
\* first_only rule replied to the first read only, and nothing but the close
\* follows a reply that hangs up.
THEOREM TcpServeRepliesAnswerReads == TcpServeSpec => []RepliesAnswerReads
<1>1. ServeInv => RepliesAnswerReads
  <2> SUFFICES ASSUME ServeInv, NEW i \in DOMAIN log
               PROVE LET l == log[i] IN
                     /\ l.what = "tx" =>
                          IF l.rule.when = "connect" THEN i = 1
                          ELSE /\ i > 1 /\ log[i - 1].what = "rx"
                               /\ l.rule.kind = "echo" => l.data = log[i - 1].data
                               /\ l.rule.when = "first" =>
                                    \A j \in 1 .. i - 2 : log[j].what # "rx"
                     /\ l.rule.close \/ l.what = "error" =>
                          \A j \in i + 1 .. Len(log) : j = i + 1 /\ log[j].what = "close"
                     /\ l.what = "close" => i = Len(log)
    BY DEF RepliesAnswerReads
  <2>1. /\ Len(log) \in Nat /\ i \in 1 .. Len(log)
        /\ pc \in {"connect", "read", "write", "failed", "returned", "done"}
    BY LenProperties DEF ServeInv, TcpServeTypeOK
  <2>2. AnswersAt(log, i)
    BY <2>1 DEF ServeInv, LinesAnswer
  <2>3. LogByPlace
    BY DEF ServeInv
  <2>4. GoesOn(log[i]) => ~log[i].rule.close /\ log[i].what \notin {"error", "close"}
    BY DEF GoesOn
  <2>5. CASE pc \in {"connect", "read", "write", "failed"}
    <3>1. GoesOn(log[i])
      BY <2>1, <2>3, <2>5 DEF LogByPlace
    <3> QED BY <3>1, <2>2, <2>4 DEF AnswersAt
  <2>6. CASE pc = "returned"
    <3>1. /\ i <= Len(log) - 1 => GoesOn(log[i])
          /\ log[i].what # "close"
      BY <2>1, <2>3, <2>6 DEF LogByPlace
    <3>2. CASE i <= Len(log) - 1
      BY <3>1, <3>2, <2>2, <2>4 DEF AnswersAt
    <3>3. CASE i = Len(log)
      <4>1. \A j \in i + 1 .. Len(log) : FALSE
        BY <2>1, <3>3
      <4> QED BY <4>1, <3>1, <2>2 DEF AnswersAt
    <3> QED BY <2>1, <3>2, <3>3
  <2>7. CASE pc = "done"
    <3>1. /\ log[Len(log)].what = "close" /\ ~log[Len(log)].rule.close
          /\ i <= Len(log) - 2 => GoesOn(log[i])
          /\ i <= Len(log) - 1 => log[i].what # "close"
      BY <2>1, <2>3, <2>7 DEF LogByPlace
    <3>2. CASE i <= Len(log) - 2
      BY <3>1, <3>2, <2>1, <2>2, <2>4 DEF AnswersAt
    <3>3. CASE i = Len(log) - 1
      <4>1. \A j \in i + 1 .. Len(log) : j = i + 1 /\ j = Len(log)
        BY <2>1, <3>3
      <4> QED BY <4>1, <3>1, <3>3, <2>1, <2>2 DEF AnswersAt
    <3>4. CASE i = Len(log)
      <4>1. \A j \in i + 1 .. Len(log) : FALSE
        BY <2>1, <3>4
      <4> QED BY <4>1, <3>1, <3>4, <2>2 DEF AnswersAt
    <3> QED BY <2>1, <3>2, <3>3, <3>4
  <2> QED BY <2>1, <2>5, <2>6, <2>7
<1> QED BY ServeInvariant, <1>1, PTL

-----------------------------------------------------------------------------
\* The transcript: the data of the lines of one kind, joined.

DataOf(lines, what) ==
  [i \in 1 .. Len(lines) |-> IF lines[i].what = what THEN lines[i].data ELSE <<>>]

Told(lines, what) == Flattened(DataOf(lines, what))

LEMMA DataAppended ==
  ASSUME NEW lines \in Seq(Lines), NEW l \in Lines, NEW what, NEW x \in Seq(Bytes),
         x = IF l.what = what THEN l.data ELSE <<>>
  PROVE  /\ DataOf(lines, what) \in Seq(Seq(Bytes))
         /\ DataOf(Append(lines, l), what) = Append(DataOf(lines, what), x)
<1> DEFINE n == Len(lines)
           new == Append(lines, l)
           E(i) == IF lines[i].what = what THEN lines[i].data ELSE <<>>
           F(i) == IF new[i].what = what THEN new[i].data ELSE <<>>
           d == [i \in 1 .. n |-> E(i)]
           e == [i \in 1 .. n + 1 |-> F(i)]
<1>1. n \in Nat /\ <<>> \in Seq(Bytes) /\ \A i \in 1 .. n : lines[i] \in Lines
  BY LenProperties, ElementOfSeq, EmptySeq
<1>2. \A i \in 1 .. n : E(i) \in Seq(Bytes)
  BY <1>1 DEF Lines
<1>3. /\ Len(new) = n + 1 /\ new[n + 1] = l
      /\ \A i \in 1 .. n : new[i] = lines[i]
  BY LineAppended
<1> HIDE DEF new, n
<1>4. F(n + 1) = x /\ \A i \in 1 .. n : F(i) = E(i)
  BY <1>3
<1>5. DataOf(lines, what) = d /\ DataOf(new, what) = e
  BY <1>3 DEF DataOf, n
<1> HIDE DEF E, F
<1>6. d \in [1 .. n -> Seq(Bytes)] /\ d \in Seq(Seq(Bytes)) /\ Len(d) = n
  <2>1. d \in [1 .. n -> Seq(Bytes)]
    BY <1>2
  <2>2. d \in Seq(Seq(Bytes))
    BY <1>1, <2>1, SeqDef
  <2> HIDE DEF d
  <2> QED BY <1>1, <2>1, <2>2, LenProperties
<1>7. e \in Seq(Seq(Bytes)) /\ Len(e) = n + 1
  <2> DEFINE m == n + 1
  <2>1. m \in Nat /\ \A i \in 1 .. m : i \in 1 .. n \/ i = n + 1
    BY <1>1
  <2>2. \A i \in 1 .. m : F(i) \in Seq(Bytes)
    <3> TAKE i \in 1 .. m
    <3>1. CASE i \in 1 .. n
      BY <3>1, <1>2, <1>4
    <3>2. CASE i = n + 1
      BY <3>2, <1>4
    <3> QED BY <2>1, <3>1, <3>2
  <2>3. e = [i \in 1 .. m |-> F(i)]
    OBVIOUS
  <2> HIDE DEF e, m
  <2>4. e \in [1 .. m -> Seq(Bytes)]
    BY <2>2, <2>3
  <2>5. e \in Seq(Seq(Bytes))
    BY <2>1, <2>4, SeqDef
  <2> QED BY <2>1, <2>4, <2>5, LenProperties DEF m
<1>8. /\ Append(d, x) \in Seq(Seq(Bytes)) /\ Len(Append(d, x)) = n + 1
      /\ Append(d, x)[n + 1] = x
      /\ \A i \in 1 .. n : Append(d, x)[i] = d[i]
  <2> HIDE DEF d
  <2> QED BY <1>6, AppendProperties
<1>9. \A i \in 1 .. n + 1 : e[i] = Append(d, x)[i]
  <2>1. \A i \in 1 .. n : e[i] = d[i]
    BY <1>1, <1>4
  <2>2. e[n + 1] = x
    BY <1>1, <1>4
  <2> HIDE DEF d, e
  <2> QED BY <1>1, <1>8, <2>1, <2>2
<1> HIDE DEF d, e
<1>10. e = Append(d, x)
  BY <1>7, <1>8, <1>9, SeqEqual
<1> QED BY <1>5, <1>6, <1>10 DEF new

LEMMA ToldType ==
  ASSUME NEW lines \in Seq(Lines), NEW what
  PROVE  Told(lines, what) \in Seq(Bytes)
<1> DEFINE d == DataOf(lines, what)
<1>1. d \in [1 .. Len(lines) -> Seq(Bytes)] /\ Len(lines) \in Nat
  <2>1. \A i \in 1 .. Len(lines) : lines[i] \in Lines
    BY ElementOfSeq
  <2>2. \A i \in 1 .. Len(lines) :
          (IF lines[i].what = what THEN lines[i].data ELSE <<>>) \in Seq(Bytes)
    BY <2>1, EmptySeq DEF Lines
  <2> QED BY <2>2, LenProperties DEF DataOf
<1> HIDE DEF d
<1>2. d \in Seq(Seq(Bytes))
  BY <1>1, SeqDef
<1> QED BY <1>2, FlattenedType DEF Told, d

\* A line adds its data to what the lines of its kind tell, and nothing to what
\* the others do.
LEMMA ToldAppended ==
  ASSUME NEW lines \in Seq(Lines), NEW l \in Lines, NEW what
  PROVE  /\ l.what = what => Told(Append(lines, l), what) = Told(lines, what) \o l.data
         /\ l.what # what => Told(Append(lines, l), what) = Told(lines, what)
<1> DEFINE x == IF l.what = what THEN l.data ELSE <<>>
           d == DataOf(lines, what)
           t == Told(lines, what)
<1>1. x \in Seq(Bytes)
  BY EmptySeq DEF Lines
<1>2. (l.what = what => x = l.data) /\ (l.what # what => x = <<>>)
  OBVIOUS
<1> HIDE DEF x
<1>3. d \in Seq(Seq(Bytes)) /\ DataOf(Append(lines, l), what) = Append(d, x)
  <2>1. x = IF l.what = what THEN l.data ELSE <<>>
    BY DEF x
  <2> QED BY <1>1, <2>1, DataAppended, ZenonT(30)
<1>4. t \in Seq(Bytes) /\ t = Flattened(d)
  BY ToldType DEF Told
<1> HIDE DEF d, t
<1>5. Flattened(Append(d, x)) = Flattened(d) \o x
  BY <1>1, <1>3, FlattenedAppend, ZenonT(30)
<1>6. Told(Append(lines, l), what) = t \o x
  BY <1>3, <1>4, <1>5 DEF Told
<1>7. l.what # what => t \o x = t
  BY <1>2, <1>4, ConcatEmptySeq
<1> QED BY <1>2, <1>6, <1>7 DEF t

LEMMA LoggedIsTold == \A what : Logged(what) = Told(log, what)
<1>1. ASSUME NEW what PROVE Logged(what) = Told(log, what)
  <2> DEFINE d == DataOf(log, what)
  <2>1. Logged(what) = FlattenSeq(d)
    BY DEF Logged, DataOf
  <2>2. FlattenSeq(d) = Flattened(d)
    BY DEF FlattenSeq, Flattened
  <2> QED BY <2>1, <2>2 DEF Told
<1> QED BY <1>1

-----------------------------------------------------------------------------
\* What is on its way: a sequence, its beginning and the rest of it.

LEMMA BeginningIsPrefix ==
  ASSUME NEW S, NEW x \in Seq(S), NEW y \in Seq(S)
  PROVE  IsPrefix(x, x \o y)
<1>1. Len(x \o y) = Len(x) + Len(y) /\ Len(x) \in Nat /\ Len(y) \in Nat
  BY ConcatProperties, LenProperties
<1>2. SubSeq(x, 1, Len(x)) = x /\ SubSeq(x \o y, 1, Len(x)) = x
  BY SubSeqFull, BeginningOf
<1>3. Len(x) <= Len(x \o y)
  BY <1>1
<1> QED BY <1>2, <1>3 DEF IsPrefix

-----------------------------------------------------------------------------
\* The way in: q waits behind what was read, r.
Intake(r, q, n) ==
  r = Run(0, Len(r)) /\ q = Run(Len(r), Len(q)) /\ Len(r) + Len(q) <= n

LEMMA IntakeGrows ==
  ASSUME NEW r \in Seq(Nat), NEW q \in Seq(Nat), NEW n \in Nat,
         Intake(r, q, n), Len(r) + Len(q) = n
  PROVE  /\ Intake(r, Append(q, n + 1), n + 1)
         /\ Len(r) + Len(Append(q, n + 1)) = n + 1
<1> DEFINE a == Len(r)
           m == Len(q)
           p == Append(q, n + 1)
<1>1. a \in Nat /\ m \in Nat /\ m + 1 \in Nat /\ a + m + 1 = n + 1 /\ a + (m + 1) = n + 1
  <2>1. a \in Nat /\ m \in Nat /\ a + m = n
    BY LenProperties
  <2> HIDE DEF a, m
  <2> QED BY <2>1
<1>2. r = Run(0, a) /\ q = Run(a, m)
  BY DEF Intake
<1>3. Append(Run(a, m), a + m + 1) = Run(a, m + 1)
  BY <1>1, RunEnds, ZenonT(30)
<1> HIDE DEF a, m
<1>4. p = Run(a, m + 1)
  BY <1>1, <1>2, <1>3
<1> HIDE DEF p
<1>5. Len(p) = m + 1
  BY <1>1, <1>4, RunIsSeq
<1>6. Intake(r, p, n + 1) /\ Len(r) + Len(p) = n + 1
  BY <1>1, <1>2, <1>4, <1>5 DEF Intake, a
<1> QED BY <1>6 DEF p

LEMMA IntakeReads ==
  ASSUME NEW r \in Seq(Nat), NEW q \in Seq(Nat), NEW n \in Nat, Intake(r, q, n),
         NEW k \in 0 .. Len(q)
  PROVE  /\ Intake(r \o SubSeq(q, 1, k), SubSeq(q, k + 1, Len(q)), n)
         /\ Len(r \o SubSeq(q, 1, k)) + Len(SubSeq(q, k + 1, Len(q))) = Len(r) + Len(q)
<1> DEFINE a == Len(r)
           m == Len(q)
           s == r \o SubSeq(q, 1, k)
           p == SubSeq(q, k + 1, m)
<1>1. /\ a \in Nat /\ m \in Nat /\ k \in Nat /\ a + k \in Nat /\ m - k \in Nat
      /\ a + k + (m - k) = a + m
  BY LenProperties
<1>2. r = Run(0, a) /\ q = Run(a, m) /\ a + m <= n
  BY DEF Intake
<1>3. k \in 0 .. m
  OBVIOUS
<1> HIDE DEF a, m
<1>4. SubSeq(q, 1, k) = Run(a, k) /\ p = Run(a + k, m - k)
  BY <1>1, <1>2, <1>3, RunSplit, ZenonT(30)
<1>5. Run(0, a) \o Run(a, k) = Run(0, a + k)
  BY <1>1, RunFromStart, ZenonT(30)
<1>6. s = Run(0, a + k)
  BY <1>2, <1>4, <1>5
<1> HIDE DEF s, p
<1>7. Len(s) = a + k /\ Len(p) = m - k
  BY <1>1, <1>4, <1>6, RunIsSeq
<1>8. Intake(s, p, n) /\ Len(s) + Len(p) = a + m
  BY <1>1, <1>2, <1>4, <1>6, <1>7 DEF Intake
<1> QED BY <1>8 DEF s, p, a, m

LEMMA IntakeLoses ==
  ASSUME NEW r \in Seq(Nat), NEW q \in Seq(Nat), NEW n \in Nat, Intake(r, q, n)
  PROVE  Intake(r, <<>>, n)
<1>1. Len(r) \in Nat /\ Len(q) \in Nat /\ Len(<<>>) = 0
  BY LenProperties
<1>2. Run(Len(r), 0) = <<>>
  BY <1>1, RunIsSeq
<1> QED BY <1>1, <1>2 DEF Intake

-----------------------------------------------------------------------------
\* The way out: of what was written, h, the client got g and o waits for it.
Outgo(g, o, h) == \E z \in Seq(Bytes) : h = (g \o o) \o z

LEMMA OutgoRead ==
  ASSUME NEW g \in Seq(Bytes), NEW o \in Seq(Bytes), o # <<>>
  PROVE  Append(g, Head(o)) \o Tail(o) = g \o o
<1> DEFINE x == Head(o)
           t == Tail(o)
<1>1. x \in Bytes /\ t \in Seq(Bytes) /\ Len(t) = Len(o) - 1
      /\ (\A i \in 1 .. Len(t) : t[i] = o[i + 1]) /\ x = o[1]
  BY HeadTailProperties
<1> HIDE DEF x, t
<1>2. Append(g, x) = g \o <<x>> /\ <<x>> \in Seq(Bytes) /\ Len(<<x>>) = 1
  BY <1>1, AppendIsConcat
<1>3. <<x>> \o t = o
  <2>1. /\ <<x>> \o t \in Seq(Bytes) /\ Len(<<x>> \o t) = 1 + Len(t)
        /\ \A i \in 1 .. 1 + Len(t) : (<<x>> \o t)[i] = IF i <= 1 THEN <<x>>[i] ELSE t[i - 1]
    BY <1>1, <1>2, ConcatProperties
  <2>2. Len(o) \in Nat /\ Len(t) \in Nat /\ 1 + Len(t) = Len(o)
    BY <1>1, LenProperties
  <2>3. \A i \in 1 .. Len(o) : (<<x>> \o t)[i] = o[i]
    <3> TAKE i \in 1 .. Len(o)
    <3>1. CASE i = 1
      BY <3>1, <1>1, <2>1, <2>2
    <3>2. CASE i # 1
      <4>1. i - 1 \in 1 .. Len(t) /\ i - 1 + 1 = i
        BY <3>2, <2>2
      <4> QED BY <4>1, <1>1, <2>1, <2>2, <3>2
    <3> QED BY <3>1, <3>2
  <2> DEFINE s == <<x>> \o t
  <2>4. s \in Seq(Bytes) /\ Len(s) = Len(o) /\ \A i \in 1 .. Len(s) : s[i] = o[i]
    BY <2>1, <2>2, <2>3
  <2> HIDE DEF s
  <2>5. s = o
    BY <2>4, SeqEqual
  <2> QED BY <2>5 DEF s
<1>4. (g \o <<x>>) \o t = g \o (<<x>> \o t)
  BY <1>1, <1>2, ConcatAssociative, SMTT(30)
<1> QED BY <1>2, <1>3, <1>4 DEF x, t

LEMMA OutgoLoses ==
  ASSUME NEW g \in Seq(Bytes), NEW o \in Seq(Bytes), NEW h \in Seq(Bytes), Outgo(g, o, h)
  PROVE  Outgo(g, <<>>, h)
<1>1. PICK z \in Seq(Bytes) : h = (g \o o) \o z
  BY DEF Outgo
<1>2. (g \o o) \o z = g \o (o \o z) /\ o \o z \in Seq(Bytes) /\ g \o <<>> = g
      /\ <<>> \in Seq(Bytes)
  <2>1. (g \o o) \o z = g \o (o \o z)
    BY ConcatAssociative, SMTT(30)
  <2> QED BY <2>1, ConcatProperties, ConcatEmptySeq, EmptySeq
<1>3. h = (g \o <<>>) \o (o \o z)
  BY <1>1, <1>2
<1> QED BY <1>2, <1>3 DEF Outgo

-----------------------------------------------------------------------------
\* A reply half written: what is left is its end.
HalfWritten(p, left) == \E f \in Seq(Bytes) : p = f \o left

Begun(p, left) == SubSeq(p, 1, Len(p) - Len(left))

LEMMA BegunIs ==
  ASSUME NEW f \in Seq(Bytes), NEW left \in Seq(Bytes)
  PROVE  Begun(f \o left, left) = f
<1>1. Len(f \o left) - Len(left) = Len(f)
  BY ConcatProperties, LenProperties
<1>2. SubSeq(f \o left, 1, Len(f)) = f
  BY BeginningOf
<1> QED BY <1>1, <1>2 DEF Begun

LEMMA WrittenFurther ==
  ASSUME NEW p \in Seq(Bytes), NEW left \in Seq(Bytes), HalfWritten(p, left),
         NEW n \in 0 .. Len(left)
  PROVE  /\ HalfWritten(p, SubSeq(left, n + 1, Len(left)))
         /\ Begun(p, SubSeq(left, n + 1, Len(left))) = Begun(p, left) \o SubSeq(left, 1, n)
         /\ Begun(p, left) \in Seq(Bytes)
<1> DEFINE a == SubSeq(left, 1, n)
           b == SubSeq(left, n + 1, Len(left))
<1>1. a \in Seq(Bytes) /\ b \in Seq(Bytes)
  BY PartsOfBytes
<1>2. a \o b = left
  BY CutInTwo
<1> HIDE DEF a, b
<1>3. PICK f \in Seq(Bytes) : p = f \o left
  BY DEF HalfWritten
<1>4. (f \o a) \o b = f \o (a \o b)
  BY <1>1, ConcatAssociative, SMTT(30)
<1>5. p = (f \o a) \o b /\ f \o a \in Seq(Bytes)
  BY <1>1, <1>2, <1>3, <1>4, ConcatProperties
<1> DEFINE g == f \o a
<1> HIDE DEF g
<1>6. p = g \o b /\ g \in Seq(Bytes)
  BY <1>5 DEF g
<1>7. Begun(p, b) = g /\ Begun(p, left) = f
  BY <1>1, <1>3, <1>6, BegunIs
<1>8. HalfWritten(p, b)
  BY <1>6 DEF HalfWritten
<1> QED BY <1>3, <1>7, <1>8 DEF g, a, b

-----------------------------------------------------------------------------
\* The invariant.

Live(at, end) == at \in {"connect", "read", "write"} /\ end # "reset"

\* No byte sent is missing among those logged and those waiting, as long as
\* there is a connection to lose none.
IntakeHolds(r, q, n, at, end) ==
  Intake(r, q, n) /\ (Live(at, end) => Len(r) + Len(q) = n)

OutgoHolds(g, o, h, at, end) ==
  Outgo(g, o, h) /\ (Live(at, end) => h = g \o o)

Flight(at, j) == IF at = "write" THEN Begun(j.payload, j.rest) ELSE <<>>

\* What was written is what the log says and the part of the reply at hand.
ReplyHolds(x, h, at, j, outcome) ==
  /\ at \in {"connect", "read", "write"} => outcome = "none"
  /\ at = "write" => HalfWritten(j.payload, j.rest)
  /\ outcome # "error" => h = x \o Flight(at, j)
  /\ outcome = "error" => \E z \in Seq(Bytes) : h = x \o z

IntakeOk == IntakeHolds(Told(log, "rx"), inbox, sent, pc, client_end)
OutgoOk == OutgoHolds(got, outbox, handed, pc, client_end)
ReplyOk == ReplyHolds(Told(log, "tx"), handed, pc, job, why)

TranscriptInv == IntakeOk /\ OutgoOk /\ ReplyOk

LEMMA Typed ==
  ASSUME TcpServeTypeOK
  PROVE  /\ log \in Seq(Lines) /\ job \in Jobs
         /\ sent \in Nat /\ sent \in Bytes /\ Bytes \subseteq Nat
         /\ inbox \in Seq(Bytes) /\ inbox \in Seq(Nat)
         /\ outbox \in Seq(Bytes) /\ got \in Seq(Bytes) /\ handed \in Seq(Bytes)
         /\ Told(log, "rx") \in Seq(Bytes) /\ Told(log, "rx") \in Seq(Nat)
         /\ Told(log, "tx") \in Seq(Bytes)
<1>1. log \in Seq(Lines) /\ job \in Jobs
  BY DEF TcpServeTypeOK, Lines, Jobs
<1>2. sent \in Nat /\ sent \in Bytes /\ Bytes \subseteq Nat
  <2>1. sent \in 0 .. MaxSent
    BY DEF TcpServeTypeOK
  <2> QED BY <2>1, Sizes DEF Bytes
<1>3. inbox \in Seq(Bytes) /\ outbox \in Seq(Bytes) /\ got \in Seq(Bytes) /\ handed \in Seq(Bytes)
  BY DEF TcpServeTypeOK
<1>4. Told(log, "rx") \in Seq(Bytes) /\ Told(log, "tx") \in Seq(Bytes)
  BY <1>1, ToldType
<1>5. inbox \in Seq(Nat)
  BY <1>2, <1>3, SeqMonotonic
<1>6. Told(log, "rx") \in Seq(Nat)
  BY <1>2, <1>4, SeqMonotonic
<1> QED BY <1>1, <1>2, <1>3, <1>4, <1>5, <1>6

-----------------------------------------------------------------------------
\* What the steps do to the way in.

LEMMA IntakeKept ==
  ASSUME TcpServeTypeOK, IntakeOk, sent' = sent, Told(log, "rx")' = Told(log, "rx"),
         inbox' \in {inbox, <<>>},
         Live(pc, client_end)' => Live(pc, client_end) /\ inbox' = inbox
  PROVE  IntakeOk'
<1> DEFINE r == Told(log, "rx")
<1>1. r \in Seq(Nat) /\ inbox \in Seq(Nat) /\ sent \in Nat
  BY Typed
<1>2. IntakeHolds(r, inbox, sent, pc, client_end)
  BY DEF IntakeOk
<1>3. SUFFICES IntakeHolds(r, inbox', sent, pc', client_end')
  BY DEF IntakeOk
<1> HIDE DEF r
<1>4. Intake(r, inbox, sent) /\ (Live(pc, client_end) => Len(r) + Len(inbox) = sent)
  BY <1>2 DEF IntakeHolds
<1>5. Intake(r, <<>>, sent)
  BY <1>1, <1>4, IntakeLoses
<1>6. Intake(r, inbox', sent)
  BY <1>4, <1>5
<1>7. Live(pc', client_end') => Len(r) + Len(inbox') = sent
  BY <1>4
<1> QED BY <1>6, <1>7 DEF IntakeHolds

LEMMA ClientSendIntake == ASSUME TcpServeTypeOK, IntakeOk, ClientSend PROVE IntakeOk'
<1> DEFINE r == Told(log, "rx")
<1>1. r \in Seq(Nat) /\ inbox \in Seq(Nat) /\ sent \in Nat
  BY Typed
<1>2. /\ inbox' = Append(inbox, sent + 1) /\ sent' = sent + 1 /\ log' = log
      /\ Live(pc, client_end)
  BY DEF ClientSend, Serving, Live
<1>3. r' = r
  BY <1>2
<1>4. Intake(r, inbox, sent) /\ Len(r) + Len(inbox) = sent
  BY <1>2 DEF IntakeOk, IntakeHolds
<1> HIDE DEF r
<1>5. Intake(r, Append(inbox, sent + 1), sent + 1) /\ Len(r) + Len(Append(inbox, sent + 1)) = sent + 1
  BY <1>1, <1>4, IntakeGrows, ZenonT(30)
<1>6. IntakeHolds(r, inbox', sent', pc', client_end')
  BY <1>2, <1>5 DEF IntakeHolds
<1> QED BY <1>3, <1>6 DEF IntakeOk, r

\* What send does with the task and its sockets.
LEMMA RespondMoves ==
  ASSUME TcpServeTypeOK, NEW r \in Causes, NEW payload \in Seq(Bytes), NEW left,
         Respond(r, payload, left)
  PROVE  \/ /\ pc' = "write" /\ inbox' = left /\ outbox' = outbox /\ why' = why
            /\ job'.payload = payload /\ job'.rest = payload
         \/ /\ pc' = "read" /\ inbox' = left /\ outbox' = outbox /\ why' = why
         \/ /\ pc' = "returned" /\ inbox' = <<>> /\ outbox' \in {outbox, <<>>}
            /\ why' = "profile close"
<1>1. CASE payload # <<>>
  <2>1. /\ pc' = "write" /\ inbox' = left /\ outbox' = outbox /\ why' = why
        /\ job' = [rule |-> r, payload |-> payload, rest |-> payload]
    BY <1>1 DEF Respond
  <2> QED BY <2>1
<1>2. CASE payload = <<>> /\ r.close
  <2>1. Return("profile close", left)
    BY <1>2 DEF Respond
  <2> QED BY <2>1 DEF Return
<1>3. CASE payload = <<>> /\ ~r.close
  BY <1>3 DEF Respond
<1> QED BY <1>1, <1>2, <1>3

\* Connect: nothing, or the banner.
LEMMA ConnectMoves ==
  ASSUME TcpServeTypeOK, Connect
  PROVE  /\ pc = "connect" /\ UNCHANGED <<sent, client_end, got, log, handed>>
         /\ \/ /\ pc' = "write" /\ inbox' = inbox /\ outbox' = outbox /\ why' = why
               /\ job'.payload \in Seq(Bytes) /\ job'.rest = job'.payload
            \/ /\ pc' = "read" /\ inbox' = inbox /\ outbox' = outbox /\ why' = why
            \/ /\ pc' = "returned" /\ inbox' = <<>> /\ outbox' \in {outbox, <<>>}
               /\ why' = "profile close"
<1>1. pc = "connect" /\ UNCHANGED <<sent, client_end, got, log, handed>>
  BY DEF Connect, clientVars
<1>2. CASE profile.on_connect = NoRule
  BY <1>1, <1>2 DEF Connect
<1>3. CASE profile.on_connect # NoRule
  <2> DEFINE r == profile.on_connect
  <2>1. r \in Causes
    BY ProfileRules DEF TcpServeTypeOK, Causes
  <2>2. PICK payload \in Payloads(r, <<>>) : Respond(r, payload, inbox)
    BY <1>3 DEF Connect
  <2> HIDE DEF r
  <2>3. payload \in Seq(Bytes)
    BY <2>1, PayloadsAreBytes, NothingFits
  <2> QED BY <1>1, <2>1, <2>2, <2>3, RespondMoves
<1> QED BY <1>2, <1>3

\* Read: a part of what waits becomes a line; a rule may answer it.
LEMMA ReadMoves ==
  ASSUME TcpServeTypeOK, Read
  PROVE  /\ pc = "read" /\ UNCHANGED <<sent, client_end, got, handed>>
         /\ \E n \in 0 .. Len(inbox) :
              LET data == SubSeq(inbox, 1, n)
                  left == SubSeq(inbox, n + 1, Len(inbox))
              IN  /\ log' = Append(log, Line("rx", data, NoRule))
                  /\ Line("rx", data, NoRule) \in Lines
                  /\ \/ /\ pc' = "write" /\ inbox' = left /\ outbox' = outbox /\ why' = why
                        /\ job'.payload \in Seq(Bytes) /\ job'.rest = job'.payload
                     \/ /\ pc' = "read" /\ inbox' = left /\ outbox' = outbox /\ why' = why
                     \/ /\ pc' = "returned" /\ inbox' = <<>> /\ outbox' \in {outbox, <<>>}
                        /\ why' = "profile close"
<1>1. pc = "read" /\ UNCHANGED <<sent, client_end, got, handed>>
  BY DEF Read, clientVars
<1>2. PICK n \in 1 .. Len(inbox) :
        LET data == SubSeq(inbox, 1, n)
            left == SubSeq(inbox, n + 1, Len(inbox))
        IN  /\ log' = Append(log, Line("rx", data, NoRule))
            /\ \/ \E r \in Eval : \E payload \in Payloads(r, data) :
                    Respond(r, payload, left)
               \/ NoneMatches /\ Respond(NoRule, <<>>, left)
  BY DEF Read
<1> DEFINE data == SubSeq(inbox, 1, n)
           left == SubSeq(inbox, n + 1, Len(inbox))
<1>3. n \in 0 .. Len(inbox) /\ inbox \in Seq(Bytes)
  BY Typed, LenProperties
<1>4. data \in Seq(Bytes)
  BY <1>3, PartsOfBytes
<1>5. Line("rx", data, NoRule) \in Lines
  BY <1>4 DEF Line, Lines, Causes
<1>6. PICK r \in Eval \cup {NoRule} : \E payload \in Payloads(r, data) :
         Respond(r, payload, left)
  <2>1. <<>> \in Payloads(NoRule, data)
    BY DEF Payloads, NoRule
  <2> QED BY <1>2, <2>1
<1>7. PICK payload \in Payloads(r, data) : Respond(r, payload, left)
  BY <1>6
<1>8. r \in Causes
  <2>1. NoRule \in Causes
    BY DEF Causes
  <2>2. ASSUME r \in Eval PROVE r \in Causes
    <3>1. PICK i \in DOMAIN profile.rules : r = profile.rules[i]
      BY <2>2 DEF Eval
    <3>2. profile.rules \in Seq(Rules)
      BY ProfileRules DEF TcpServeTypeOK
    <3> QED BY <3>1, <3>2 DEF Causes
  <2> QED BY <2>1, <2>2
<1> HIDE DEF data, left
<1>9. payload \in Seq(Bytes)
  BY <1>4, <1>7, <1>8, PayloadsAreBytes
<1>10. \/ /\ pc' = "write" /\ inbox' = left /\ outbox' = outbox /\ why' = why
          /\ job'.payload \in Seq(Bytes) /\ job'.rest = job'.payload
       \/ /\ pc' = "read" /\ inbox' = left /\ outbox' = outbox /\ why' = why
       \/ /\ pc' = "returned" /\ inbox' = <<>> /\ outbox' \in {outbox, <<>>}
          /\ why' = "profile close"
  BY <1>7, <1>8, <1>9, RespondMoves
<1>11. log' = Append(log, Line("rx", data, NoRule))
  BY <1>2 DEF data
<1> QED BY <1>1, <1>3, <1>5, <1>10, <1>11 DEF data, left

LEMMA ReadIntake == ASSUME TcpServeTypeOK, IntakeOk, Read PROVE IntakeOk'
<1>1. PICK n \in 0 .. Len(inbox) :
        LET data == SubSeq(inbox, 1, n)
            left == SubSeq(inbox, n + 1, Len(inbox))
        IN  /\ log' = Append(log, Line("rx", data, NoRule))
            /\ Line("rx", data, NoRule) \in Lines
            /\ pc' \in {"read", "write", "returned"}
            /\ inbox' = left \/ (pc' = "returned" /\ inbox' = <<>>)
  BY ReadMoves
<1> DEFINE data == SubSeq(inbox, 1, n)
           left == SubSeq(inbox, n + 1, Len(inbox))
           l == Line("rx", data, NoRule)
           r == Told(log, "rx")
           s == r \o data
<1>2. /\ r \in Seq(Nat) /\ r \in Seq(Bytes) /\ inbox \in Seq(Nat) /\ sent \in Nat
      /\ log \in Seq(Lines) /\ Bytes \subseteq Nat
  BY Typed
<1>3. pc = "read" /\ sent' = sent /\ client_end' = client_end
  BY ReadMoves
<1>4. Intake(r, inbox, sent) /\ (client_end # "reset" => Len(r) + Len(inbox) = sent)
  BY <1>3 DEF IntakeOk, IntakeHolds, Live
<1>5. l \in Lines /\ l.what = "rx" /\ l.data = data /\ log' = Append(log, l)
  BY <1>1 DEF Line
<1> HIDE DEF l
<1>6. Told(Append(log, l), "rx") = r \o l.data
  BY <1>2, <1>5, ToldAppended
<1>7. r' = s
  BY <1>5, <1>6
<1> HIDE DEF r
<1>8. Intake(s, left, sent) /\ Len(s) + Len(left) = Len(r) + Len(inbox)
  BY <1>2, <1>4, IntakeReads, ZenonT(30)
<1>9. s \in Seq(Nat) /\ left \in Seq(Nat)
  <2>1. data \in Seq(Nat) /\ left \in Seq(Nat)
    <3>1. Len(inbox) \in Nat /\ \A i \in 1 .. Len(inbox) : inbox[i] \in Nat
      BY <1>2, LenProperties, ElementOfSeq
    <3>2. \A i \in 1 .. n : inbox[i] \in Nat
      BY <3>1
    <3>3. \A i \in n + 1 .. Len(inbox) : inbox[i] \in Nat
      BY <3>1
    <3>4. data \in Seq(Nat)
      BY <3>2, SubSeqProperties
    <3>5. left \in Seq(Nat)
      BY <3>1, <3>3, SubSeqProperties
    <3> QED BY <3>4, <3>5
  <2> QED BY <1>2, <2>1, ConcatProperties
<1>10. inbox' = left \/ (pc' = "returned" /\ inbox' = <<>>)
  BY <1>1
<1> HIDE DEF s, left, data
<1>11. Intake(s, <<>>, sent)
  BY <1>2, <1>8, <1>9, IntakeLoses
<1>12. Intake(s, inbox', sent)
  BY <1>8, <1>10, <1>11
<1>13. Live(pc', client_end') => Len(s) + Len(inbox') = sent
  BY <1>3, <1>4, <1>8, <1>10 DEF Live
<1>14. IntakeHolds(s, inbox', sent', pc', client_end')
  BY <1>3, <1>12, <1>13 DEF IntakeHolds
<1> QED BY <1>7, <1>14 DEF IntakeOk, r

-----------------------------------------------------------------------------
\* What the steps do to the way out.

LEMMA OutgoKept ==
  ASSUME TcpServeTypeOK, OutgoOk, got' = got, handed' = handed,
         outbox' \in {outbox, <<>>},
         Live(pc, client_end)' => Live(pc, client_end) /\ outbox' = outbox
  PROVE  OutgoOk'
<1>1. got \in Seq(Bytes) /\ outbox \in Seq(Bytes) /\ handed \in Seq(Bytes)
  BY Typed
<1>2. Outgo(got, outbox, handed) /\ (Live(pc, client_end) => handed = got \o outbox)
  BY DEF OutgoOk, OutgoHolds
<1>3. Outgo(got, <<>>, handed)
  BY <1>1, <1>2, OutgoLoses
<1>4. Outgo(got, outbox', handed)
  BY <1>2, <1>3
<1>5. Live(pc', client_end') => handed = got \o outbox'
  BY <1>2
<1>6. OutgoHolds(got', outbox', handed', pc', client_end')
  BY <1>4, <1>5 DEF OutgoHolds
<1> QED BY <1>6 DEF OutgoOk

LEMMA ClientReadOutgo == ASSUME TcpServeTypeOK, OutgoOk, ClientRead PROVE OutgoOk'
<1>1. got \in Seq(Bytes) /\ outbox \in Seq(Bytes) /\ handed \in Seq(Bytes)
  BY Typed
<1>2. /\ outbox # <<>> /\ got' = Append(got, Head(outbox)) /\ outbox' = Tail(outbox)
      /\ handed' = handed /\ pc' = pc /\ client_end' = client_end
  BY DEF ClientRead
<1>3. got' \o outbox' = got \o outbox
  BY <1>1, <1>2, OutgoRead
<1>4. Outgo(got, outbox, handed) /\ (Live(pc, client_end) => handed = got \o outbox)
  BY DEF OutgoOk, OutgoHolds
<1>5. Outgo(got', outbox', handed')
  BY <1>2, <1>3, <1>4 DEF Outgo
<1>6. OutgoHolds(got', outbox', handed', pc', client_end')
  BY <1>2, <1>3, <1>4, <1>5 DEF OutgoHolds
<1> QED BY <1>6 DEF OutgoOk

\* write_all goes on with a part of what is left.
LEMMA WriteMoves ==
  ASSUME TcpServeTypeOK, WritePart
  PROVE  /\ pc = "write" /\ client_end # "reset"
         /\ UNCHANGED <<sent, client_end, got, inbox, pc, why, log>>
         /\ \E n \in 0 .. Len(job.rest) :
              /\ outbox' = outbox \o SubSeq(job.rest, 1, n)
              /\ handed' = handed \o SubSeq(job.rest, 1, n)
              /\ job'.payload = job.payload
              /\ job'.rest = SubSeq(job.rest, n + 1, Len(job.rest))
              /\ SubSeq(job.rest, 1, n) \in Seq(Bytes)
<1>1. PICK n \in 1 .. Len(job.rest) :
        /\ outbox' = outbox \o SubSeq(job.rest, 1, n)
        /\ handed' = handed \o SubSeq(job.rest, 1, n)
        /\ job' = [job EXCEPT !.rest = SubSeq(@, n + 1, Len(@))]
  BY DEF WritePart
<1>2. /\ pc = "write" /\ client_end # "reset"
      /\ UNCHANGED <<sent, client_end, got, inbox, pc, why, log>>
  BY DEF WritePart, clientVars
<1>3. job \in Jobs /\ job.rest \in Seq(Bytes)
  BY Typed DEF Jobs
<1>4. n \in 0 .. Len(job.rest)
  BY <1>3, LenProperties
<1>5. SubSeq(job.rest, 1, n) \in Seq(Bytes)
  BY <1>3, <1>4, PartsOfBytes
<1>6. job'.payload = job.payload /\ job'.rest = SubSeq(job.rest, n + 1, Len(job.rest))
  <2> DEFINE rest == SubSeq(job.rest, n + 1, Len(job.rest))
  <2>1. job' = [job EXCEPT !.rest = rest]
    BY <1>1
  <2> HIDE DEF rest
  <2> QED BY <1>3, <2>1 DEF Jobs, rest
<1> QED BY <1>1, <1>2, <1>4, <1>5, <1>6

LEMMA WritePartOutgo == ASSUME TcpServeTypeOK, OutgoOk, WritePart PROVE OutgoOk'
<1>1. PICK n \in 0 .. Len(job.rest) :
         /\ outbox' = outbox \o SubSeq(job.rest, 1, n)
         /\ handed' = handed \o SubSeq(job.rest, 1, n)
         /\ SubSeq(job.rest, 1, n) \in Seq(Bytes)
  BY WriteMoves
<1> DEFINE p == SubSeq(job.rest, 1, n)
<1>2. /\ got \in Seq(Bytes) /\ outbox \in Seq(Bytes) /\ handed \in Seq(Bytes)
      /\ p \in Seq(Bytes) /\ outbox' = outbox \o p /\ handed' = handed \o p
  BY <1>1, Typed
<1> HIDE DEF p
<1>3. got' = got /\ pc' = pc /\ client_end' = client_end /\ Live(pc, client_end)
  BY WriteMoves DEF Live
<1>4. handed = got \o outbox
  BY <1>3 DEF OutgoOk, OutgoHolds
<1>5. handed \o p = got \o (outbox \o p) /\ Outgo(got, outbox \o p, handed \o p)
  <2>1. (got \o outbox) \o p = got \o (outbox \o p)
    BY <1>2, ConcatAssociative, SMTT(30)
  <2> DEFINE h == handed \o p
             o == outbox \o p
  <2>2. h = got \o o /\ <<>> \in Seq(Bytes)
    BY <1>4, <2>1, EmptySeq
  <2>3. o \in Seq(Bytes)
    BY <1>2, ConcatProperties
  <2> HIDE DEF h, o
  <2>4. got \o o \in Seq(Bytes)
    BY <1>2, <2>3, ConcatProperties
  <2>5. (got \o o) \o <<>> = got \o o
    BY <2>4, ConcatEmptySeq
  <2>6. Outgo(got, o, h)
    BY <2>2, <2>5 DEF Outgo
  <2> QED BY <2>2, <2>6 DEF h, o
<1>6. OutgoHolds(got', outbox', handed', pc', client_end')
  BY <1>2, <1>3, <1>5 DEF OutgoHolds
<1> QED BY <1>6 DEF OutgoOk

-----------------------------------------------------------------------------
\* What the steps do to the reply at hand.

\* Nothing.
LEMMA ReplyKept ==
  ASSUME ReplyOk, handed' = handed, why' = why, Told(log, "tx")' = Told(log, "tx"),
         \/ pc' = pc /\ job' = job
         \/ pc # "write" /\ pc' \notin {"connect", "read", "write"}
  PROVE  ReplyOk'
<1>1. Flight(pc', job') = Flight(pc, job)
  BY DEF Flight
<1>2. ReplyHolds(Told(log, "tx"), handed, pc, job, why)
  BY DEF ReplyOk
<1>3. ReplyHolds(Told(log, "tx"), handed, pc', job', why)
  BY <1>1, <1>2 DEF ReplyHolds
<1> QED BY <1>3 DEF ReplyOk

\* A reply may begin, or serve may return without one.
LEMMA ReplyBegins ==
  ASSUME TcpServeTypeOK, ReplyOk, handed' = handed, Told(log, "tx")' = Told(log, "tx"),
         pc \in {"connect", "read"},
         \/ pc' = "write" /\ why' = why /\ job'.payload \in Seq(Bytes) /\ job'.rest = job'.payload
         \/ pc' = "read" /\ why' = why
         \/ pc' \in {"returned", "failed"}
  PROVE  ReplyOk'
<1> DEFINE x == Told(log, "tx")
<1>1. x \in Seq(Bytes) /\ x \o <<>> = x /\ <<>> \in Seq(Bytes)
  BY Typed, ConcatEmptySeq, EmptySeq
<1>2. why = "none" /\ handed = x \o <<>>
  BY DEF ReplyOk, ReplyHolds, Flight
<1>3. x' = x
  OBVIOUS
<1> HIDE DEF x
<1>4. CASE pc' = "write"
  <2> DEFINE p == job'.payload
  <2>1. p \in Seq(Bytes) /\ job'.rest = p /\ why' = "none"
    BY <1>2, <1>4
  <2> HIDE DEF p
  <2>2. <<>> \o p = p
    BY <2>1, ConcatEmptySeq
  <2>3. Begun(<<>> \o p, p) = <<>>
    BY <1>1, <2>1, BegunIs
  <2>4. HalfWritten(p, p)
    BY <1>1, <2>2 DEF HalfWritten
  <2>5. Flight(pc', job') = <<>>
    BY <1>4, <2>1, <2>2, <2>3 DEF Flight, p
  <2>6. ReplyHolds(x, handed, pc', job', why')
    BY <1>2, <2>1, <2>4, <2>5 DEF ReplyHolds, p
  <2> QED BY <1>3, <2>6 DEF ReplyOk, x
<1>5. CASE pc' # "write"
  <2>1. Flight(pc', job') = <<>>
    BY <1>5 DEF Flight
  <2>2. pc' \in {"connect", "read", "write"} => why' = "none"
    BY <1>2, <1>5
  <2>3. ReplyHolds(x, handed, pc', job', why')
    BY <1>1, <1>2, <1>5, <2>1, <2>2 DEF ReplyHolds
  <2> QED BY <1>3, <2>3 DEF ReplyOk, x
<1> QED BY <1>4, <1>5

LEMMA WritePartReply == ASSUME TcpServeTypeOK, ReplyOk, WritePart PROVE ReplyOk'
<1>1. PICK n \in 0 .. Len(job.rest) :
         /\ handed' = handed \o SubSeq(job.rest, 1, n)
         /\ job'.payload = job.payload
         /\ job'.rest = SubSeq(job.rest, n + 1, Len(job.rest))
         /\ SubSeq(job.rest, 1, n) \in Seq(Bytes)
  BY WriteMoves
<1> DEFINE x == Told(log, "tx")
           f == Begun(job.payload, job.rest)
           p == SubSeq(job.rest, 1, n)
           b == SubSeq(job.rest, n + 1, Len(job.rest))
<1>2. pc = "write" /\ pc' = pc /\ why' = why /\ x' = x
  BY WriteMoves
<1>3. x \in Seq(Bytes) /\ p \in Seq(Bytes) /\ job.payload \in Seq(Bytes) /\ job.rest \in Seq(Bytes)
  BY <1>1, Typed DEF Jobs
<1>4. HalfWritten(job.payload, job.rest) /\ why = "none" /\ handed = x \o f
  BY <1>2 DEF ReplyOk, ReplyHolds, Flight
<1>5. HalfWritten(job.payload, b) /\ Begun(job.payload, b) = f \o p /\ f \in Seq(Bytes)
  BY <1>3, <1>4, WrittenFurther, ZenonT(30)
<1>6. handed' = handed \o p /\ job'.payload = job.payload /\ job'.rest = b
  BY <1>1
<1> HIDE DEF x, f, p, b
<1>7. (x \o f) \o p = x \o (f \o p)
  BY <1>3, <1>5, ConcatAssociative, SMTT(30)
<1>8. Flight(pc', job') = f \o p
  BY <1>2, <1>5, <1>6 DEF Flight
<1>9. handed' = x \o Flight(pc', job')
  BY <1>4, <1>6, <1>7, <1>8
<1>10. ReplyHolds(x, handed', pc', job', why')
  BY <1>2, <1>4, <1>5, <1>6, <1>9 DEF ReplyHolds
<1> QED BY <1>2, <1>10 DEF ReplyOk, x

LEMMA WrittenReply == ASSUME TcpServeTypeOK, ReplyOk, Written PROVE ReplyOk'
<1> DEFINE l == Line("tx", job.payload, job.rule)
           x == Told(log, "tx")
<1>1. /\ pc = "write" /\ job.rest = <<>> /\ log' = Append(log, l) /\ handed' = handed
      /\ pc' \in {"read", "returned"} /\ (pc' = "read" => why' = why) /\ why' # "error"
  <2>1. /\ pc = "write" /\ job.rest = <<>> /\ log' = Append(log, l) /\ handed' = handed
    BY DEF Written, AllWritten
  <2>2. why = "none"
    BY <2>1 DEF ReplyOk, ReplyHolds
  <2>3. \/ pc' = "returned" /\ why' = "profile close"
        \/ pc' = "read" /\ why' = why
    BY DEF Written, Return
  <2> QED BY <2>1, <2>2, <2>3
<1>2. log \in Seq(Lines) /\ job.payload \in Seq(Bytes) /\ job.rule \in Causes /\ x \in Seq(Bytes)
  BY Typed DEF Jobs
<1>3. l \in Lines /\ l.what = "tx" /\ l.data = job.payload
  BY <1>2 DEF Line, Lines
<1> HIDE DEF l
<1>4. Told(Append(log, l), "tx") = x \o job.payload
  BY <1>2, <1>3, ToldAppended
<1>5. x' = x \o job.payload
  BY <1>1, <1>4
<1>6. HalfWritten(job.payload, <<>>) /\ why = "none" /\ handed = x \o Begun(job.payload, <<>>)
  BY <1>1 DEF ReplyOk, ReplyHolds, Flight
<1> HIDE DEF x
<1>7. Begun(job.payload, <<>>) = job.payload
  <2>1. job.payload \o <<>> = job.payload /\ <<>> \in Seq(Bytes)
    BY <1>2, ConcatEmptySeq, EmptySeq
  <2>2. Begun(job.payload \o <<>>, <<>>) = job.payload
    BY <1>2, <2>1, BegunIs
  <2> QED BY <2>1, <2>2
<1> DEFINE y == x \o job.payload
<1>8. y \in Seq(Bytes) /\ y \o <<>> = y /\ handed' = y
  <2>1. y \in Seq(Bytes) /\ handed' = y
    BY <1>1, <1>2, <1>6, <1>7, ConcatProperties
  <2> HIDE DEF y
  <2> QED BY <2>1, ConcatEmptySeq
<1> HIDE DEF y
<1>9. Flight(pc', job') = <<>>
  BY <1>1 DEF Flight
<1>10. ReplyHolds(y, handed', pc', job', why')
  BY <1>1, <1>6, <1>8, <1>9 DEF ReplyHolds
<1> QED BY <1>5, <1>10 DEF ReplyOk, x, y

LEMMA FailReply == ASSUME TcpServeTypeOK, ReplyOk, Fail PROVE ReplyOk'
<1> DEFINE x == Told(log, "tx")
<1>1. /\ pc \in {"read", "write"} /\ pc' = "failed" /\ why' = "error"
      /\ handed' = handed /\ log' = log
  <2>1. pc \in {"read", "write"} /\ Return("error", inbox) /\ handed' = handed /\ log' = log
    BY DEF Fail
  <2> QED BY <2>1 DEF Return
<1>2. handed = x \o Flight(pc, job) /\ (pc = "write" => HalfWritten(job.payload, job.rest))
  BY <1>1 DEF ReplyOk, ReplyHolds
<1>3. Flight(pc, job) \in Seq(Bytes)
  <2>1. CASE pc = "read"
    BY <2>1, EmptySeq DEF Flight
  <2>2. CASE pc = "write"
    <3>1. job.payload \in Seq(Bytes) /\ job.rest \in Seq(Bytes)
      BY Typed DEF Jobs
    <3>2. HalfWritten(job.payload, job.rest) /\ Len(job.rest) \in Nat
      BY <1>2, <2>2, <3>1, LenProperties
    <3>3. 0 \in 0 .. Len(job.rest)
      BY <3>2
    <3>4. Begun(job.payload, job.rest) \in Seq(Bytes)
      BY <3>1, <3>2, <3>3, WrittenFurther, ZenonT(30)
    <3> QED BY <2>2, <3>4 DEF Flight
  <2> QED BY <1>1, <2>1, <2>2
<1>4. x' = x
  BY <1>1
<1> HIDE DEF x
<1>5. ReplyHolds(x, handed, pc', job', why')
  BY <1>1, <1>2, <1>3 DEF ReplyHolds
<1> QED BY <1>1, <1>4, <1>5 DEF ReplyOk, x

-----------------------------------------------------------------------------
\* Every step keeps the transcript.

LEMMA TranscriptInitially == TcpServeInit => TranscriptInv
<1> SUFFICES ASSUME TcpServeInit PROVE TranscriptInv
  OBVIOUS
<1>1. /\ pc = "connect" /\ why = "none" /\ log = <<>> /\ sent = 0
      /\ inbox = <<>> /\ outbox = <<>> /\ got = <<>> /\ handed = <<>>
  BY DEF TcpServeInit
<1>2. \A what : Told(<<>>, what) = <<>>
  <2>1. ASSUME NEW what PROVE DataOf(<<>>, what) = <<>>
    <3>1. Len(<<>>) = 0 /\ 1 .. 0 = {}
      OBVIOUS
    <3> QED BY <3>1 DEF DataOf
  <2> QED BY <2>1, FlattenedEmpty DEF Told
<1>3. Len(<<>>) = 0 /\ <<>> \o <<>> = <<>> /\ <<>> \in Seq(Bytes) /\ Run(0, 0) = <<>>
  BY RunIsSeq, EmptySeq, ConcatEmptySeq
<1>4. IntakeOk
  BY <1>1, <1>2, <1>3 DEF IntakeOk, IntakeHolds, Intake
<1>5. OutgoOk
  BY <1>1, <1>3 DEF OutgoOk, OutgoHolds, Outgo
<1>6. ReplyOk
  BY <1>1, <1>2, <1>3 DEF ReplyOk, ReplyHolds, Flight
<1> QED BY <1>4, <1>5, <1>6 DEF TranscriptInv

\* The client touches the reply never, and one end of the sockets at a time.
LEMMA ClientTranscript ==
  ASSUME TcpServeTypeOK, TranscriptInv, ClientSend \/ ClientRead \/ ClientEof \/ ClientReset
  PROVE  TranscriptInv'
<1>1. IntakeOk /\ OutgoOk /\ ReplyOk
  BY DEF TranscriptInv
<1>2. UNCHANGED <<pc, job, why, log, handed>>
  BY DEF ClientSend, ClientRead, ClientEof, ClientReset
<1>3. Told(log, "rx")' = Told(log, "rx") /\ Told(log, "tx")' = Told(log, "tx")
  BY <1>2
<1>4. ReplyOk'
  BY <1>1, <1>2, <1>3, ReplyKept
<1>5. CASE ClientSend
  <2>1. outbox' = outbox /\ got' = got /\ client_end' = client_end
    BY <1>5 DEF ClientSend
  <2>2. OutgoOk'
    BY <1>1, <1>2, <2>1, OutgoKept DEF Live
  <2> QED BY <1>1, <1>4, <1>5, <2>2, ClientSendIntake DEF TranscriptInv
<1>6. CASE ClientRead
  <2>1. inbox' = inbox /\ sent' = sent /\ client_end' = client_end
    BY <1>6 DEF ClientRead
  <2>2. IntakeOk'
    BY <1>1, <1>2, <1>3, <2>1, IntakeKept DEF Live
  <2> QED BY <1>1, <1>4, <1>6, <2>2, ClientReadOutgo DEF TranscriptInv
<1>7. CASE ClientEof
  <2>1. UNCHANGED <<sent, got, inbox, outbox>> /\ client_end # "reset" /\ client_end' # "reset"
    BY <1>7 DEF ClientEof
  <2>2. IntakeOk'
    BY <1>1, <1>2, <1>3, <2>1, IntakeKept DEF Live
  <2>3. OutgoOk'
    BY <1>1, <1>2, <2>1, OutgoKept DEF Live
  <2> QED BY <1>4, <2>2, <2>3 DEF TranscriptInv
<1>8. CASE ClientReset
  <2>1. /\ sent' = sent /\ got' = got /\ client_end' = "reset"
        /\ inbox' \in {inbox, <<>>} /\ outbox' = <<>>
    BY <1>8 DEF ClientReset
  <2>2. IntakeOk'
    BY <1>1, <1>2, <1>3, <2>1, IntakeKept DEF Live
  <2>3. OutgoOk'
    BY <1>1, <1>2, <2>1, OutgoKept DEF Live
  <2> QED BY <1>4, <2>2, <2>3 DEF TranscriptInv
<1> QED BY <1>5, <1>6, <1>7, <1>8

LEMMA ConnectTranscript == ASSUME TcpServeTypeOK, TranscriptInv, Connect PROVE TranscriptInv'
<1>1. IntakeOk /\ OutgoOk /\ ReplyOk
  BY DEF TranscriptInv
<1>2. /\ pc = "connect" /\ UNCHANGED <<sent, client_end, got, log, handed>>
      /\ \/ /\ pc' = "write" /\ inbox' = inbox /\ outbox' = outbox /\ why' = why
            /\ job'.payload \in Seq(Bytes) /\ job'.rest = job'.payload
         \/ /\ pc' = "read" /\ inbox' = inbox /\ outbox' = outbox /\ why' = why
         \/ /\ pc' = "returned" /\ inbox' = <<>> /\ outbox' \in {outbox, <<>>}
            /\ why' = "profile close"
  BY ConnectMoves
<1>3. Told(log, "rx")' = Told(log, "rx") /\ Told(log, "tx")' = Told(log, "tx")
  BY <1>2
<1>4. IntakeOk'
  BY <1>1, <1>2, <1>3, IntakeKept DEF Live
<1>5. OutgoOk'
  BY <1>1, <1>2, OutgoKept DEF Live
<1>6. ReplyOk'
  BY <1>1, <1>2, <1>3, ReplyBegins
<1> QED BY <1>4, <1>5, <1>6 DEF TranscriptInv

LEMMA ReadTranscript == ASSUME TcpServeTypeOK, TranscriptInv, Read PROVE TranscriptInv'
<1>1. IntakeOk /\ OutgoOk /\ ReplyOk
  BY DEF TranscriptInv
<1>2. /\ pc = "read" /\ UNCHANGED <<sent, client_end, got, handed>>
      /\ \E l \in Lines : log' = Append(log, l) /\ l.what = "rx"
      /\ \/ /\ pc' = "write" /\ outbox' = outbox /\ why' = why
            /\ job'.payload \in Seq(Bytes) /\ job'.rest = job'.payload
         \/ /\ pc' = "read" /\ outbox' = outbox /\ why' = why
         \/ /\ pc' = "returned" /\ outbox' \in {outbox, <<>>}
            /\ why' = "profile close"
  <2>1. \A data : Line("rx", data, NoRule).what = "rx"
    BY DEF Line
  <2> QED BY <2>1, ReadMoves
<1>3. Told(log, "tx")' = Told(log, "tx")
  <2>1. PICK l \in Lines : log' = Append(log, l) /\ l.what = "rx"
    BY <1>2
  <2>2. log \in Seq(Lines) /\ l.what # "tx"
    BY <2>1, Typed
  <2>3. Told(Append(log, l), "tx") = Told(log, "tx")
    BY <2>2, ToldAppended
  <2> QED BY <2>1, <2>3
<1>4. IntakeOk'
  BY <1>1, ReadIntake
<1>5. OutgoOk'
  BY <1>1, <1>2, OutgoKept DEF Live
<1>6. ReplyOk'
  BY <1>1, <1>2, <1>3, ReplyBegins
<1> QED BY <1>4, <1>5, <1>6 DEF TranscriptInv

\* serve returns at the end of the client's side or with an error.
LEMMA EndTranscript == ASSUME TcpServeTypeOK, TranscriptInv, ReadEof \/ Fail PROVE TranscriptInv'
<1>1. IntakeOk /\ OutgoOk /\ ReplyOk
  BY DEF TranscriptInv
<1>2. /\ UNCHANGED <<sent, client_end, got, log, handed>>
      /\ inbox' = <<>> /\ outbox' \in {outbox, <<>>} /\ pc' \in {"failed", "returned"}
  <2>1. UNCHANGED <<sent, client_end, got, log, handed>>
    BY DEF ReadEof, Fail, clientVars
  <2>2. \E outcome, left : Return(outcome, left)
    BY DEF ReadEof, Fail
  <2>3. inbox' = <<>> /\ outbox' \in {outbox, <<>>} /\ pc' \in {"failed", "returned"}
    BY <2>2 DEF Return
  <2> QED BY <2>1, <2>3
<1>3. Told(log, "rx")' = Told(log, "rx") /\ Told(log, "tx")' = Told(log, "tx")
  BY <1>2
<1>4. IntakeOk'
  BY <1>1, <1>2, <1>3, IntakeKept DEF Live
<1>5. OutgoOk'
  BY <1>1, <1>2, OutgoKept DEF Live
<1>6. CASE ReadEof
  <2>1. pc = "read"
    BY <1>6 DEF ReadEof
  <2>2. ReplyOk'
    BY <1>1, <1>2, <1>3, <2>1, ReplyBegins
  <2> QED BY <1>4, <1>5, <2>2 DEF TranscriptInv
<1>7. CASE Fail
  BY <1>1, <1>4, <1>5, <1>7, FailReply DEF TranscriptInv
<1> QED BY <1>6, <1>7

LEMMA WritePartTranscript ==
  ASSUME TcpServeTypeOK, TranscriptInv, WritePart PROVE TranscriptInv'
<1>1. IntakeOk /\ OutgoOk /\ ReplyOk
  BY DEF TranscriptInv
<1>2. UNCHANGED <<sent, client_end, inbox, pc, log>>
  BY WriteMoves
<1>3. Told(log, "rx")' = Told(log, "rx")
  BY <1>2
<1>4. IntakeOk'
  BY <1>1, <1>2, <1>3, IntakeKept DEF Live
<1> QED BY <1>1, <1>4, WritePartOutgo, WritePartReply DEF TranscriptInv

LEMMA WrittenTranscript ==
  ASSUME TcpServeTypeOK, TranscriptInv, Written PROVE TranscriptInv'
<1> DEFINE l == Line("tx", job.payload, job.rule)
<1>1. IntakeOk /\ OutgoOk /\ ReplyOk
  BY DEF TranscriptInv
<1>2. /\ UNCHANGED <<sent, client_end, got, handed>> /\ pc = "write" /\ log' = Append(log, l)
      /\ \/ pc' = "returned" /\ inbox' = <<>> /\ outbox' \in {outbox, <<>>}
         \/ pc' = "read" /\ inbox' = inbox /\ outbox' = outbox
  BY DEF Written, Return, clientVars
<1>3. l \in Lines /\ l.what # "rx" /\ log \in Seq(Lines)
  BY Typed DEF Line, Lines, Jobs
<1> HIDE DEF l
<1>4. Told(log, "rx")' = Told(log, "rx")
  <2>1. Told(Append(log, l), "rx") = Told(log, "rx")
    BY <1>3, ToldAppended
  <2> QED BY <1>2, <2>1
<1>5. IntakeOk'
  BY <1>1, <1>2, <1>4, IntakeKept DEF Live
<1>6. OutgoOk'
  BY <1>1, <1>2, OutgoKept DEF Live
<1> QED BY <1>1, <1>5, <1>6, WrittenReply DEF TranscriptInv

\* The last lines carry no data.
LEMMA LastLinesTranscript ==
  ASSUME TcpServeTypeOK, TranscriptInv, LogError \/ LogClose PROVE TranscriptInv'
<1>1. IntakeOk /\ OutgoOk /\ ReplyOk
  BY DEF TranscriptInv
<1>2. /\ UNCHANGED <<sent, client_end, got, inbox, outbox, why, handed>>
      /\ pc \in {"failed", "returned"} /\ pc' \in {"returned", "done"}
      /\ \E l \in Lines : log' = Append(log, l) /\ l.what \in {"error", "close"}
  <2>1. /\ UNCHANGED <<sent, client_end, got, inbox, outbox, why, handed>>
        /\ pc \in {"failed", "returned"} /\ pc' \in {"returned", "done"}
    BY DEF LogError, LogClose, clientVars
  <2>2. \E what \in {"error", "close"} : log' = Append(log, Line(what, <<>>, NoRule))
    BY DEF LogError, LogClose
  <2>3. PICK what \in {"error", "close"} : log' = Append(log, Line(what, <<>>, NoRule))
    BY <2>2
  <2> DEFINE l == Line(what, <<>>, NoRule)
  <2>4. l \in Lines /\ l.what = what
    BY EndLines
  <2> HIDE DEF l
  <2>5. log' = Append(log, l) /\ l.what \in {"error", "close"}
    BY <2>3, <2>4 DEF l
  <2> QED BY <2>1, <2>4, <2>5
<1>3. Told(log, "rx")' = Told(log, "rx") /\ Told(log, "tx")' = Told(log, "tx")
  <2>1. PICK l \in Lines : log' = Append(log, l) /\ l.what \in {"error", "close"}
    BY <1>2
  <2>2. log \in Seq(Lines) /\ l.what # "tx" /\ l.what # "rx"
    BY <2>1, Typed
  <2>3. Told(Append(log, l), "tx") = Told(log, "tx") /\ Told(Append(log, l), "rx") = Told(log, "rx")
    BY <2>2, ToldAppended
  <2> QED BY <2>1, <2>3
<1>4. IntakeOk'
  BY <1>1, <1>2, <1>3, IntakeKept DEF Live
<1>5. OutgoOk'
  BY <1>1, <1>2, OutgoKept DEF Live
<1>6. ReplyOk'
  BY <1>1, <1>2, <1>3, ReplyKept
<1> QED BY <1>4, <1>5, <1>6 DEF TranscriptInv

LEMMA TranscriptStep ==
  ServeInv /\ TranscriptInv /\ [TcpServeNext]_serveVars => TranscriptInv'
<1> SUFFICES ASSUME ServeInv, TranscriptInv, [TcpServeNext]_serveVars PROVE TranscriptInv'
  OBVIOUS
<1>1. TcpServeTypeOK
  BY DEF ServeInv
<1>2. CASE ClientSend \/ ClientRead \/ ClientEof \/ ClientReset
  BY <1>1, <1>2, ClientTranscript
<1>3. CASE Connect
  BY <1>1, <1>3, ConnectTranscript
<1>4. CASE Read
  BY <1>1, <1>4, ReadTranscript
<1>5. CASE ReadEof \/ Fail
  BY <1>1, <1>5, EndTranscript
<1>6. CASE WritePart
  BY <1>1, <1>6, WritePartTranscript
<1>7. CASE Written
  BY <1>1, <1>7, WrittenTranscript
<1>8. CASE LogError \/ LogClose
  BY <1>1, <1>8, LastLinesTranscript
<1>9. CASE UNCHANGED serveVars
  BY <1>9 DEF TranscriptInv, IntakeOk, OutgoOk, ReplyOk, serveVars, clientVars
<1> QED
  BY <1>2, <1>3, <1>4, <1>5, <1>6, <1>7, <1>8, <1>9 DEF TcpServeNext, TaskStep, Ended

LEMMA TranscriptInvariant == TcpServeSpec => [](TcpServeTypeOK /\ TranscriptInv)
<1>1. ServeInv => TcpServeTypeOK
  BY DEF ServeInv
<1> QED BY ServeInvariant, TranscriptInitially, TranscriptStep, <1>1, PTL DEF TcpServeSpec

-----------------------------------------------------------------------------
LEMMA SentIsRun == ASSUME TcpServeTypeOK PROVE ClientSent = Run(0, sent)
<1> DEFINE n == sent
<1>1. n \in Nat
  BY Typed
<1> HIDE DEF n
<1>2. [i \in 1 .. n |-> i] = [i \in 1 .. (0 + n) - (0 + 1) + 1 |-> (0 + 1) + i - 1]
  <2>1. 1 .. n = 1 .. (0 + n) - (0 + 1) + 1
    BY <1>1
  <2>2. \A i \in 1 .. n : i = (0 + 1) + i - 1
    OBVIOUS
  <2> QED BY <2>1, <2>2
<1> QED BY <1>2 DEF ClientSent, Run, Span, n

\* For every profile, every amount and every socket buffer, the rx lines are
\* what the client sent, none missing or twice, and the tx lines are what was
\* written to it, which what it got is the beginning of.
THEOREM TcpServeTranscriptIsFaithful == TcpServeSpec => []TranscriptIsFaithful
<1>1. ASSUME TcpServeTypeOK, TranscriptInv PROVE TranscriptIsFaithful
  <2> DEFINE r == Told(log, "rx")
             x == Told(log, "tx")
             k == Len(r)
             m == Len(inbox)
  <2>1. /\ r \in Seq(Nat) /\ x \in Seq(Bytes) /\ inbox \in Seq(Nat) /\ sent \in Nat
        /\ got \in Seq(Bytes) /\ outbox \in Seq(Bytes) /\ handed \in Seq(Bytes)
    BY <1>1, Typed
  <2>2. Logged("rx") = r /\ Logged("tx") = x
    BY LoggedIsTold
  <2>3. ClientSent = Run(0, sent)
    BY <1>1, SentIsRun
  <2>4. /\ Intake(r, inbox, sent) /\ (Live(pc, client_end) => k + m = sent)
        /\ Outgo(got, outbox, handed)
        /\ ReplyHolds(x, handed, pc, job, why)
    BY <1>1 DEF TranscriptInv, IntakeOk, IntakeHolds, OutgoOk, OutgoHolds, ReplyOk
  <2> HIDE DEF r, x
  <2>5. r = Run(0, k) /\ inbox = Run(k, m) /\ k + m <= sent /\ k \in Nat /\ m \in Nat
    BY <2>1, <2>4, LenProperties DEF Intake
  <2> HIDE DEF k, m
  <2>6. Run(0, k) \o Run(k, m) = Run(0, k + m)
    BY <2>5, RunFromStart, ZenonT(30)
  <2>7. IsPrefix(r, ClientSent)
    <3> DEFINE j == sent - k
    <3>1. j \in Nat /\ k + j = sent
      BY <2>1, <2>5
    <3> HIDE DEF j
    <3>2. Run(0, k) \o Run(k, j) = Run(0, k + j)
      BY <2>5, <3>1, RunFromStart, ZenonT(30)
    <3>3. Run(k, j) \in Seq(Nat)
      BY <2>5, <3>1, RunIsSeq
    <3>4. IsPrefix(r, r \o Run(k, j))
      BY <2>1, <3>3, BeginningIsPrefix
    <3>5. r \o Run(k, j) = ClientSent
      BY <2>3, <2>5, <3>1, <3>2
    <3> QED BY <3>4, <3>5
  <2>8. Serving /\ client_end # "reset" => r \o inbox = ClientSent
    BY <2>3, <2>4, <2>5, <2>6 DEF Serving, Live
  <2>9. InFlight = Flight(pc, job)
    BY DEF InFlight, Flight, Begun
  <2>10. why # "error" => handed = x \o InFlight
    BY <2>4, <2>9 DEF ReplyHolds
  <2>11. ASSUME why = "error" PROVE IsPrefix(x, handed)
    <3>1. PICK z \in Seq(Bytes) : handed = x \o z
      BY <2>4, <2>11 DEF ReplyHolds
    <3>2. IsPrefix(x, x \o z)
      BY <2>1, BeginningIsPrefix
    <3> QED BY <3>1, <3>2
  <2>12. IsPrefix(got, handed)
    <3>1. PICK z \in Seq(Bytes) : handed = (got \o outbox) \o z
      BY <2>4 DEF Outgo
    <3>2. (got \o outbox) \o z = got \o (outbox \o z)
      BY <2>1, ConcatAssociative, SMTT(30)
    <3> DEFINE y == outbox \o z
    <3>3. y \in Seq(Bytes) /\ handed = got \o y
      BY <2>1, <3>1, <3>2, ConcatProperties
    <3> HIDE DEF y
    <3>4. IsPrefix(got, got \o y)
      BY <2>1, <3>3, BeginningIsPrefix
    <3> QED BY <3>3, <3>4
  <2> QED BY <2>2, <2>7, <2>8, <2>10, <2>11, <2>12 DEF TranscriptIsFaithful
<1> QED BY TranscriptInvariant, <1>1, PTL
=============================================================================
