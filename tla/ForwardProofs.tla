----------------------------- MODULE ForwardProofs -----------------------------
(***************************************************************************)
(* A forwarded connection relays both ways, for buffers of any size and    *)
(* any number of bytes.  At every point of a direction's way (read and     *)
(* logged, in the pump's hands, in the destination's socket, read there)   *)
(* is a run of consecutive bytes, and the runs follow one another; a reset *)
(* can only cut the chain, never reorder it.                               *)
(***************************************************************************)
EXTENDS Forward, StreamLemmas

LOCAL INSTANCE SequencesExt

\* One direction: bytes sent, logged, waiting to be read, in the pump's hands,
\* waiting for the destination, and read by it.
Flow(s, l, f, b, t, g) ==
  /\ s \in 0 .. MaxSent
  /\ l \in Seq(1 .. MaxSent) /\ f \in Seq(1 .. MaxSent) /\ b \in Seq(1 .. MaxSent)
  /\ t \in Seq(1 .. MaxSent) /\ g \in Seq(1 .. MaxSent)
  /\ l = Run(0, Len(l)) /\ f = Run(Len(l), Len(f)) /\ b = Run(Len(l) - Len(b), Len(b))
  /\ g = Run(0, Len(g)) /\ t = Run(Len(g), Len(t))
  /\ Len(l) + Len(f) <= s
  /\ Len(g) + Len(t) + Len(b) <= Len(l)

\* The task still holds the sockets, or is about to.
Live == pc \in {"connecting", "pumping"}

\* Both directions are in order, and complete up to a reset.
InOrder ==
  \A d \in Dirs :
    /\ Flow(sent[d], logged[d], from[d], buf[d], to[d], got[d])
    /\ Live /\ side[Source(d)] # "reset" => Len(logged[d]) + Len(from[d]) = sent[d]
    /\ Live /\ side[Dest(d)] # "reset" =>
         Len(got[d]) + Len(to[d]) + Len(buf[d]) = Len(logged[d])

\* What a pump holds, and what it has finished, by where it is.
PumpsInStep ==
  \A d \in Dirs :
    /\ buf[d] # <<>> => pump[d] = "write"
    /\ pump[d] = "done" /\ ~Broken => from[d] = <<>> /\ side[Source(d)] = "eof"
    /\ fin[d] => pump[d] = "done" \/ ~Live
    /\ saw[d] => fin[d] /\ to[d] = <<>>

\* What forward's outcome says of both directions.
OutcomeTells ==
  /\ Live => why = "none"
  /\ ~Live /\ ~Broken => why = "both directions closed"
  /\ why = "both directions closed" /\ ~Broken =>
       \A d \in Dirs : Len(got[d]) + Len(to[d]) = sent[d] /\ side[Source(d)] = "eof"

\* The types of what is not a flow of bytes.
ControlTypes ==
  /\ pc \in {"connecting", "pumping", "returned", "done"}
  /\ why \in {"none", "upstream unreachable", "both directions closed"}
  /\ side \in [Ends -> {"open", "eof", "reset"}]
  /\ sent \in [Dirs -> 0 .. MaxSent]
  /\ pump \in [Dirs -> {"read", "write", "done"}]
  /\ fin \in [Dirs -> BOOLEAN]
  /\ saw \in [Dirs -> BOOLEAN]
  /\ lines \in Seq({"error", "close"})

FlowTypes ==
  /\ \A f \in {from, buf, to, got, logged} : f \in [Dirs -> Seq(1 .. MaxSent)]
  /\ \A d \in Dirs : Len(from[d]) <= Window /\ Len(to[d]) <= Window

FInv == ControlTypes /\ FlowTypes /\ InOrder /\ PumpsInStep /\ OutcomeTells

-----------------------------------------------------------------------------
\* What happens to a flow.

\* Two stretches make up all that was sent; nothing logged is lost on its way.
AllRead(s, l, f) == Len(l) + Len(f) = s
AllKept(l, b, t, g) == Len(g) + Len(t) + Len(b) = Len(l)

LEMMA FlowOfRuns ==
  ASSUME NEW s \in 0 .. MaxSent, NEW nl \in Nat, NEW nf \in Nat, NEW nb \in Nat,
         NEW nt \in Nat, NEW ng \in Nat, nl + nf <= s, ng + nt + nb <= nl
  PROVE  Flow(s, Run(0, nl), Run(nl, nf), Run(nl - nb, nb), Run(ng, nt), Run(0, ng))
<1>1. MaxSent \in Nat /\ s <= MaxSent
  BY ForwardAssumption
<1>2. ASSUME NEW a \in Nat, NEW n \in Nat, a + n <= MaxSent
      PROVE  Run(a, n) \in Seq(1 .. MaxSent) /\ Len(Run(a, n)) = n
  BY <1>1, <1>2, RunWithin, RunIsSeq
<1>3. Run(0, nl) \in Seq(1 .. MaxSent) /\ Len(Run(0, nl)) = nl
  BY <1>1, <1>2
<1>4. Run(nl, nf) \in Seq(1 .. MaxSent) /\ Len(Run(nl, nf)) = nf
  BY <1>1, <1>2
<1>5. Run(nl - nb, nb) \in Seq(1 .. MaxSent) /\ Len(Run(nl - nb, nb)) = nb
  BY <1>1, <1>2
<1>6. Run(ng, nt) \in Seq(1 .. MaxSent) /\ Len(Run(ng, nt)) = nt
  BY <1>1, <1>2
<1>7. Run(0, ng) \in Seq(1 .. MaxSent) /\ Len(Run(0, ng)) = ng
  BY <1>1, <1>2
<1> QED BY <1>3, <1>4, <1>5, <1>6, <1>7 DEF Flow

LEMMA FlowLengths ==
  ASSUME NEW s, NEW l, NEW f, NEW b, NEW t, NEW g, Flow(s, l, f, b, t, g)
  PROVE  /\ Len(l) \in Nat /\ Len(f) \in Nat /\ Len(b) \in Nat
         /\ Len(t) \in Nat /\ Len(g) \in Nat /\ Len(l) - Len(b) \in Nat
         /\ s \in 0 .. MaxSent /\ Len(l) + Len(f) <= s
         /\ Len(g) + Len(t) + Len(b) <= Len(l)
         /\ f = <<>> <=> Len(f) = 0
         /\ b = <<>> <=> Len(b) = 0
         /\ t = <<>> <=> Len(t) = 0
<1>1. /\ Len(l) \in Nat /\ Len(f) \in Nat /\ Len(b) \in Nat
      /\ Len(t) \in Nat /\ Len(g) \in Nat
  BY LenProperties DEF Flow
<1>2. /\ f = <<>> <=> Len(f) = 0
      /\ b = <<>> <=> Len(b) = 0
      /\ t = <<>> <=> Len(t) = 0
  BY EmptySeq DEF Flow
<1> QED BY <1>1, <1>2 DEF Flow

\* The source sends its next byte.
LEMMA FlowSend ==
  ASSUME NEW s, NEW l, NEW f, NEW b, NEW t, NEW g, Flow(s, l, f, b, t, g),
         s < MaxSent, Len(l) + Len(f) = s
  PROVE  /\ Flow(s + 1, l, Append(f, s + 1), b, t, g)
         /\ Len(Append(f, s + 1)) = Len(f) + 1
<1> DEFINE nl == Len(l)
           nf == Len(f)
           nb == Len(b)
           nt == Len(t)
           ng == Len(g)
<1>1. /\ nl \in Nat /\ nf \in Nat /\ nb \in Nat /\ nt \in Nat /\ ng \in Nat
      /\ s \in 0 .. MaxSent /\ nl + nf = s /\ ng + nt + nb <= nl
  BY FlowLengths
<1>2. /\ l = Run(0, nl) /\ f = Run(nl, nf) /\ b = Run(nl - nb, nb)
      /\ t = Run(ng, nt) /\ g = Run(0, ng)
  BY DEF Flow
<1> HIDE DEF nl, nf, nb, nt, ng
<1>3. Append(Run(nl, nf), s + 1) = Run(nl, nf + 1)
  BY <1>1, RunEnds
<1>4. Flow(s + 1, Run(0, nl), Run(nl, nf + 1), Run(nl - nb, nb), Run(ng, nt), Run(0, ng))
  <2>1. /\ s + 1 \in 0 .. MaxSent /\ nl \in Nat /\ nf + 1 \in Nat /\ nb \in Nat
        /\ nt \in Nat /\ ng \in Nat /\ nl + (nf + 1) <= s + 1 /\ ng + nt + nb <= nl
    BY <1>1, ForwardAssumption
  <2> QED BY ONLY <2>1, FlowOfRuns, ZenonT(30)
<1>5. Len(Run(nl, nf + 1)) = nf + 1
  BY <1>1, RunIsSeq
<1> QED BY <1>2, <1>3, <1>4, <1>5 DEF nf

\* The pump reads the first n bytes that wait, logs them and holds them.
ReadsTo(s, l, f, b, t, g, n, l2, f2, b2) ==
  /\ Flow(s, l, f, b, t, g) /\ b = <<>> /\ n \in 1 .. Len(f)
  /\ l2 = l \o SubSeq(f, 1, n) /\ f2 = SubSeq(f, n + 1, Len(f)) /\ b2 = SubSeq(f, 1, n)

LEMMA FlowRead ==
  ASSUME NEW s, NEW l, NEW f, NEW b, NEW t, NEW g, NEW n, NEW l2, NEW f2, NEW b2,
         ReadsTo(s, l, f, b, t, g, n, l2, f2, b2)
  PROVE  /\ Flow(s, l2, f2, b2, t, g)
         /\ Len(f) <= Window => Len(f2) <= Window
         /\ AllRead(s, l, f) => AllRead(s, l2, f2)
         /\ AllKept(l, b, t, g) => AllKept(l2, b2, t, g)
<1> USE DEF ReadsTo
<1> DEFINE nl == Len(l)
           nf == Len(f)
           nb == Len(b)
           nt == Len(t)
           ng == Len(g)
<1>1. /\ nl \in Nat /\ nf \in Nat /\ nb \in Nat /\ nt \in Nat /\ ng \in Nat
      /\ s \in 0 .. MaxSent /\ nl + nf <= s /\ ng + nt + nb <= nl
  BY FlowLengths
<1>2. /\ l = Run(0, nl) /\ f = Run(nl, nf) /\ b = Run(nl - nb, nb)
      /\ t = Run(ng, nt) /\ g = Run(0, ng)
  BY DEF Flow
<1>3. n \in 1 .. nf /\ nb = 0
  BY FlowLengths
<1> HIDE DEF nl, nf, nb, nt, ng
<1>10. /\ n \in Nat /\ n \in 0 .. nf /\ nl + n \in Nat /\ nf - n \in Nat /\ 0 \in Nat
       /\ nl + n + (nf - n) <= s /\ ng + nt + n <= nl + n
  BY <1>1, <1>3
<1>4. SubSeq(Run(nl, nf), 1, n) = Run(nl, n) /\ SubSeq(Run(nl, nf), n + 1, nf) = Run(nl + n, nf - n)
  BY <1>1, <1>10, RunSplit, ZenonT(30)
<1>5. Run(0, nl) \o Run(nl, n) = Run(0, nl + n)
  <2>1. nl \in Nat /\ n \in Nat
    BY <1>1, <1>10
  <2> QED BY ONLY <2>1, RunFromStart, ZenonT(30)
<1>6. Flow(s, Run(0, nl + n), Run(nl + n, nf - n), Run((nl + n) - n, n), Run(ng, nt), Run(0, ng))
  BY <1>1, <1>10, FlowOfRuns, ZenonT(30)
<1>7. (nl + n) - n = nl
  BY <1>1, <1>3
<1>8. /\ Len(Run(0, nl + n)) = nl + n /\ Len(Run(nl + n, nf - n)) = nf - n
      /\ Len(Run(nl, n)) = n
  BY <1>1, <1>10, RunIsSeq, ZenonT(30)
<1>9. /\ SubSeq(f, 1, n) = Run(nl, n) /\ SubSeq(f, n + 1, nf) = Run(nl + n, nf - n)
      /\ l \o SubSeq(f, 1, n) = Run(0, nl + n)
  BY <1>2, <1>4, <1>5
<1>13. l2 = Run(0, nl + n) /\ f2 = Run(nl + n, nf - n) /\ b2 = Run(nl, n)
  BY <1>9 DEF nf
<1>11. Len(l2) = nl + n /\ Len(f2) = nf - n /\ Len(b2) = n
  BY <1>8, <1>13, Zenon
<1>12. Flow(s, l2, f2, b2, t, g)
  BY <1>2, <1>6, <1>7, <1>13
<1>16. /\ nf <= Window => nf - n <= Window
       /\ (nl + n) + (nf - n) = nl + nf
       /\ ng + nt + nb = nl => ng + nt + n = nl + n
  BY <1>1, <1>3, ForwardAssumption
<1>14. /\ nf <= Window => Len(f2) <= Window
       /\ Len(l2) + Len(f2) = nl + nf
       /\ ng + nt + nb = nl => ng + nt + Len(b2) = Len(l2)
  BY <1>11, <1>16, Zenon
<1>15. /\ AllRead(s, l, f) => AllRead(s, l2, f2)
       /\ AllKept(l, b, t, g) => AllKept(l2, b2, t, g)
  BY <1>14 DEF nl, nf, nb, nt, ng, AllRead, AllKept
<1> QED BY <1>12, <1>14, <1>15 DEF nf

\* The pump writes the first n bytes it holds.
WritesTo(s, l, f, b, t, g, n, b2, t2) ==
  /\ Flow(s, l, f, b, t, g) /\ AllKept(l, b, t, g) /\ n \in 1 .. Len(b)
  /\ b2 = SubSeq(b, n + 1, Len(b)) /\ t2 = t \o SubSeq(b, 1, n)

LEMMA FlowWrite ==
  ASSUME NEW s, NEW l, NEW f, NEW b, NEW t, NEW g, NEW n, NEW b2, NEW t2,
         WritesTo(s, l, f, b, t, g, n, b2, t2)
  PROVE  /\ Flow(s, l, f, b2, t2, g)
         /\ n <= Window - Len(t) => Len(t2) <= Window
         /\ AllKept(l, b2, t2, g)
         /\ (n = Len(b)) <=> (b2 = <<>>)
<1> USE DEF WritesTo, AllKept
<1> DEFINE nl == Len(l)
           nf == Len(f)
           nb == Len(b)
           nt == Len(t)
           ng == Len(g)
<1>1. /\ nl \in Nat /\ nf \in Nat /\ nb \in Nat /\ nt \in Nat /\ ng \in Nat
      /\ s \in 0 .. MaxSent /\ nl + nf <= s /\ ng + nt + nb <= nl
  BY FlowLengths
<1>2. /\ l = Run(0, nl) /\ f = Run(nl, nf) /\ b = Run(nl - nb, nb)
      /\ t = Run(ng, nt) /\ g = Run(0, ng)
  BY DEF Flow
<1>3. n \in 1 .. nb /\ ng + nt + nb = nl
  OBVIOUS
<1> HIDE DEF nl, nf, nb, nt, ng
<1>10. /\ n \in Nat /\ n \in 0 .. nb /\ nl - nb \in Nat /\ nb - n \in Nat
       /\ ng + nt \in Nat /\ nt + n \in Nat /\ nl - (nb - n) \in Nat
       /\ ng + (nt + n) + (nb - n) <= nl
  BY <1>1, <1>3
<1>4. /\ SubSeq(Run(nl - nb, nb), 1, n) = Run(nl - nb, n)
      /\ SubSeq(Run(nl - nb, nb), n + 1, nb) = Run(nl - nb + n, nb - n)
  BY <1>1, <1>10, RunSplit, ZenonT(30)
<1>5. nl - nb = ng + nt /\ nl - nb + n = nl - (nb - n)
  BY <1>1, <1>3
<1>6. Run(ng, nt) \o Run(ng + nt, n) = Run(ng, nt + n)
  <2>1. ng \in Nat /\ nt \in Nat /\ n \in Nat
    BY <1>1, <1>10
  <2> QED BY ONLY <2>1, RunConcat, ZenonT(30)
<1>7. Flow(s, Run(0, nl), Run(nl, nf), Run(nl - (nb - n), nb - n), Run(ng, nt + n), Run(0, ng))
  BY <1>1, <1>10, FlowOfRuns, ZenonT(30)
<1>8. /\ SubSeq(b, n + 1, nb) = Run(nl - (nb - n), nb - n)
      /\ t \o SubSeq(b, 1, n) = Run(ng, nt + n)
  BY <1>2, <1>4, <1>5, <1>6
<1>9. Len(Run(nl - (nb - n), nb - n)) = nb - n /\ Len(Run(ng, nt + n)) = nt + n
  BY <1>1, <1>10, RunIsSeq, ZenonT(30)
<1>15. b2 = Run(nl - (nb - n), nb - n) /\ t2 = Run(ng, nt + n)
  BY <1>8 DEF nb
<1>11. Len(b2) = nb - n /\ Len(t2) = nt + n
  BY <1>9, <1>15, Zenon
<1>12. Flow(s, l, f, b2, t2, g)
  BY <1>2, <1>7, <1>15
<1>13. (b2 = <<>>) <=> (Len(b2) = 0)
  BY <1>12, EmptySeq DEF Flow
<1>16. /\ n <= Window - nt => nt + n <= Window
       /\ ng + (nt + n) + (nb - n) = nl
       /\ (n = nb) <=> (nb - n = 0)
  BY <1>1, <1>3, ForwardAssumption
<1>14. /\ n <= Window - nt => Len(t2) <= Window
       /\ ng + Len(t2) + Len(b2) = nl
       /\ (n = nb) <=> (Len(b2) = 0)
  BY <1>11, <1>16, Zenon
<1> QED BY <1>12, <1>13, <1>14 DEF nl, nb, nt, ng

\* The destination reads the next byte that waits for it.
LEMMA FlowReceive ==
  ASSUME NEW s, NEW l, NEW f, NEW b, NEW t, NEW g, Flow(s, l, f, b, t, g), t # <<>>
  PROVE  /\ Flow(s, l, f, b, Tail(t), Append(g, Head(t)))
         /\ Head(t) = Len(g) + 1
         /\ Len(Tail(t)) = Len(t) - 1 /\ Len(Append(g, Head(t))) = Len(g) + 1
         /\ Len(t) \in Nat \ {0}
<1> DEFINE nl == Len(l)
           nf == Len(f)
           nb == Len(b)
           nt == Len(t)
           ng == Len(g)
<1>1. /\ nl \in Nat /\ nf \in Nat /\ nb \in Nat /\ nt \in Nat /\ ng \in Nat
      /\ s \in 0 .. MaxSent /\ nl + nf <= s /\ ng + nt + nb <= nl
  BY FlowLengths
<1>2. /\ l = Run(0, nl) /\ f = Run(nl, nf) /\ b = Run(nl - nb, nb)
      /\ t = Run(ng, nt) /\ g = Run(0, ng)
  BY DEF Flow
<1>3. nt > 0
  BY FlowLengths
<1> HIDE DEF nl, nf, nb, nt, ng
<1>4. Head(Run(ng, nt)) = ng + 1 /\ Tail(Run(ng, nt)) = Run(ng + 1, nt - 1)
  BY <1>1, <1>3, RunEnds
<1>5. Append(Run(0, ng), ng + 1) = Run(0, ng + 1)
  <2>1. Append(Run(0, ng), 0 + ng + 1) = Run(0, ng + 1)
    BY <1>1, RunEnds
  <2>2. 0 + ng + 1 = ng + 1
    BY <1>1
  <2> QED BY <2>1, <2>2
<1>6. Flow(s, Run(0, nl), Run(nl, nf), Run(nl - nb, nb), Run(ng + 1, nt - 1), Run(0, ng + 1))
  BY <1>1, <1>3, FlowOfRuns
<1>9. /\ ng + 1 \in Nat /\ nt - 1 \in Nat /\ 0 \in Nat /\ nt \in Nat \ {0}
      /\ ng + 1 + (nt - 1) + nb <= nl
  BY <1>1, <1>3
<1>7. Len(Run(ng + 1, nt - 1)) = nt - 1 /\ Len(Run(0, ng + 1)) = ng + 1
  BY <1>9, RunIsSeq, ZenonT(30)
<1>8. Head(t) = ng + 1 /\ Tail(t) = Run(ng + 1, nt - 1) /\ Append(g, Head(t)) = Run(0, ng + 1)
  BY <1>2, <1>4, <1>5
<1> QED BY <1>2, <1>6, <1>7, <1>8, <1>9 DEF nt, ng

\* What waits for the destination comes right after what it has read.
LEMMA NextByte ==
  ASSUME NEW s, NEW l, NEW f, NEW b, NEW t, NEW g, Flow(s, l, f, b, t, g), t # <<>>
  PROVE  Head(t) = Len(g) + 1 /\ Len(g) < s
<1> DEFINE nl == Len(l)
           nf == Len(f)
           nb == Len(b)
           nt == Len(t)
           ng == Len(g)
<1>1. /\ nl \in Nat /\ nf \in Nat /\ nb \in Nat /\ nt \in Nat /\ ng \in Nat
      /\ s \in 0 .. MaxSent /\ nl + nf <= s /\ ng + nt + nb <= nl /\ nt # 0
  BY FlowLengths
<1>2. Head(t) = ng + 1
  BY FlowReceive
<1> HIDE DEF nl, nf, nb, nt, ng
<1>3. ng < s
  BY <1>1, ForwardAssumption
<1> QED BY <1>2, <1>3 DEF ng

\* What is lost on the way leaves the rest in order.
LEMMA FlowLoses ==
  ASSUME NEW s, NEW l, NEW f, NEW b, NEW t, NEW g, Flow(s, l, f, b, t, g),
         NEW f2 \in {f, <<>>}, NEW b2 \in {b, <<>>}, NEW t2 \in {t, <<>>}
  PROVE  Flow(s, l, f2, b2, t2, g)
<1> DEFINE nl == Len(l)
           nf == Len(f)
           nb == Len(b)
           nt == Len(t)
           ng == Len(g)
<1>1. /\ nl \in Nat /\ nf \in Nat /\ nb \in Nat /\ nt \in Nat /\ ng \in Nat
      /\ s \in 0 .. MaxSent /\ nl + nf <= s /\ ng + nt + nb <= nl
  BY FlowLengths
<1>2. /\ l = Run(0, nl) /\ f = Run(nl, nf) /\ b = Run(nl - nb, nb)
      /\ t = Run(ng, nt) /\ g = Run(0, ng)
  BY DEF Flow
<1> HIDE DEF nl, nf, nb, nt, ng
<1>3. \A a \in Nat : Run(a, 0) = <<>>
  BY RunIsSeq
<1>4. PICK mf \in 0 .. nf : f2 = Run(nl, mf)
  BY <1>1, <1>2, <1>3
<1>5. PICK mb \in 0 .. nb : b2 = Run(nl - mb, mb)
  <2>1. CASE b2 = b
    BY <1>1, <1>2, <2>1
  <2>2. CASE b2 = <<>>
    <3>1. nl - 0 = nl
      BY <1>1
    <3> QED BY <1>1, <1>3, <2>2, <3>1
  <2> QED BY <2>1, <2>2
<1>6. PICK mt \in 0 .. nt : t2 = Run(ng, mt)
  BY <1>1, <1>2, <1>3
<1>7. nl + mf <= s /\ ng + mt + mb <= nl /\ mf \in Nat /\ mb \in Nat /\ mt \in Nat
  BY <1>1, <1>4, <1>5, <1>6
<1>8. Flow(s, Run(0, nl), Run(nl, mf), Run(nl - mb, mb), Run(ng, mt), Run(0, ng))
  BY <1>1, <1>7, FlowOfRuns
<1> QED BY <1>2, <1>4, <1>5, <1>6, <1>8

\* With nothing unread and nothing in hand, all that was sent has been passed on.
LEMMA FlowAtRest ==
  ASSUME NEW s, NEW l, NEW f, NEW b, NEW t, NEW g, Flow(s, l, f, b, t, g),
         AllRead(s, l, f), AllKept(l, b, t, g), f = <<>>, b = <<>>
  PROVE  AllRead(s, g, t)
<1> DEFINE nl == Len(l)
           nt == Len(t)
           ng == Len(g)
<1>1. nl \in Nat /\ nt \in Nat /\ ng \in Nat /\ Len(f) = 0 /\ Len(b) = 0
  BY FlowLengths
<1>2. nl + 0 = s /\ ng + nt + 0 = nl
  BY <1>1, Zenon DEF AllRead, AllKept
<1> HIDE DEF nl, nt, ng
<1>3. ng + nt = s
  BY <1>1, <1>2
<1> QED BY <1>3 DEF nt, ng, AllRead

-----------------------------------------------------------------------------
\* The steps of the ends.

LEMMA SendStep ==
  ASSUME FInv, NEW d \in Dirs, Send(d)
  PROVE  FInv'
<1> USE DEF FInv
<1>1. /\ Live /\ side[Source(d)] = "open" /\ sent[d] < MaxSent /\ Len(from[d]) < Window
      /\ sent' = [sent EXCEPT ![d] = @ + 1]
      /\ from' = [from EXCEPT ![d] = Append(@, sent'[d])]
      /\ UNCHANGED <<pc, why, side, got, saw, pump, buf, to, fin, logged, lines>>
  BY DEF Send, Connected, Live
<1>2. /\ Flow(sent[d], logged[d], from[d], buf[d], to[d], got[d])
      /\ Len(logged[d]) + Len(from[d]) = sent[d]
  BY <1>1 DEF InOrder
<1>3. /\ Flow(sent[d] + 1, logged[d], Append(from[d], sent[d] + 1), buf[d], to[d], got[d])
      /\ Len(Append(from[d], sent[d] + 1)) = Len(from[d]) + 1
  <2>1. sent[d] < MaxSent
    BY <1>1
  <2> QED BY ONLY <1>2, <2>1, FlowSend, ZenonT(30)
<1>10. sent[d] \in 0 .. MaxSent /\ Len(from[d]) \in Nat /\ Len(logged[d]) \in Nat
  BY <1>2, FlowLengths, Zenon
<1>4. /\ sent'[d] = sent[d] + 1 /\ from'[d] = Append(from[d], sent[d] + 1)
      /\ \A e \in Dirs \ {d} : sent'[e] = sent[e] /\ from'[e] = from[e]
  BY <1>1 DEF ControlTypes, FlowTypes
<1>11. Flow(sent'[d], logged[d], from'[d], buf[d], to[d], got[d])
  BY <1>3, <1>4, Zenon
<1>12. Len(from'[d]) = Len(from[d]) + 1
  BY <1>3, <1>4, Zenon
<1>13. from'[d] \in Seq(1 .. MaxSent)
  BY <1>11 DEF Flow
<1>14. sent'[d] = sent[d] + 1 /\ Len(logged[d]) + Len(from[d]) = sent[d]
  BY <1>2, <1>4, Zenon
<1>5. ControlTypes'
  <2>1. sent'[d] \in 0 .. MaxSent
    BY <1>1, <1>10, <1>14, ForwardAssumption
  <2>2. sent' \in [Dirs -> 0 .. MaxSent]
    BY <1>1, <1>4, <2>1 DEF ControlTypes
  <2> QED BY <1>1, <2>2 DEF ControlTypes
<1>6. FlowTypes'
  <2>1. from'[d] \in Seq(1 .. MaxSent) /\ Len(from'[d]) <= Window
    BY <1>1, <1>10, <1>12, <1>13, ForwardAssumption
  <2>2. from' \in [Dirs -> Seq(1 .. MaxSent)]
    BY <1>1, <1>4, <2>1 DEF FlowTypes
  <2>3. \A e \in Dirs : Len(from'[e]) <= Window
    BY <1>4, <2>1 DEF FlowTypes
  <2> QED BY <1>1, <2>2, <2>3 DEF FlowTypes
<1>7. InOrder'
  <2>1. ASSUME NEW e \in Dirs
        PROVE  /\ Flow(sent'[e], logged[e], from'[e], buf[e], to[e], got[e])
               /\ Live /\ side[Source(e)] # "reset" => Len(logged[e]) + Len(from'[e]) = sent'[e]
    <3>1. CASE e = d
      <4>1. Len(logged[d]) + Len(from'[d]) = sent'[d]
        <5>1. \A x, y \in Nat : x + (y + 1) = (x + y) + 1
          OBVIOUS
        <5> QED BY <1>10, <1>12, <1>14, <5>1, Zenon
      <4> QED BY <1>11, <3>1, <4>1
    <3>2. CASE e # d
      BY <1>4, <3>2 DEF InOrder
    <3> QED BY <3>1, <3>2
  <2> QED BY <1>1, <2>1 DEF InOrder, Live
<1>8. PumpsInStep'
  BY <1>1, <1>4 DEF PumpsInStep, Broken, Live
<1>9. OutcomeTells'
  BY <1>1 DEF OutcomeTells, Broken, Live
<1> QED BY <1>5, <1>6, <1>7, <1>8, <1>9

LEMMA HalfCloseStep ==
  ASSUME FInv, NEW e \in Ends, HalfClose(e)
  PROVE  FInv'
<1> USE DEF FInv
<1>1. /\ Live /\ side[e] = "open"
      /\ side' = [side EXCEPT ![e] = "eof"]
      /\ UNCHANGED <<pc, why, sent, got, saw, from, pump, buf, to, fin, logged, lines>>
  BY DEF HalfClose, Connected, Live, pumpVars
<1>2. /\ side' \in [Ends -> {"open", "eof", "reset"}]
      /\ \A x \in Ends : side'[x] = "reset" <=> side[x] = "reset"
      /\ \A x \in Ends : side[x] = "eof" => side'[x] = "eof"
  BY <1>1 DEF ControlTypes
<1>3. Broken' <=> Broken
  BY <1>2 DEF Broken
<1>4. \A d \in Dirs : Source(d) \in Ends /\ Dest(d) \in Ends
  BY DEF Source, Dest, Ends
<1>5. ControlTypes' /\ FlowTypes'
  BY <1>1, <1>2 DEF ControlTypes, FlowTypes
<1>6. InOrder'
  BY <1>1, <1>2, <1>4 DEF InOrder, Live
<1>7. PumpsInStep'
  BY <1>1, <1>2, <1>3, <1>4 DEF PumpsInStep, Live
<1>8. OutcomeTells'
  BY <1>1, <1>2, <1>3, <1>4 DEF OutcomeTells, Live
<1> QED BY <1>5, <1>6, <1>7, <1>8

LEMMA ReceiveStep ==
  ASSUME FInv, NEW d \in Dirs, Receive(d)
  PROVE  FInv'
<1> USE DEF FInv
<1>1. /\ side[Dest(d)] # "reset" /\ to[d] # <<>>
      /\ got' = [got EXCEPT ![d] = Append(@, Head(to[d]))]
      /\ to' = [to EXCEPT ![d] = Tail(@)]
      /\ UNCHANGED <<pc, why, side, sent, saw, from, pump, buf, fin, logged, lines>>
  BY DEF Receive
<1>2. Flow(sent[d], logged[d], from[d], buf[d], to[d], got[d])
  BY DEF InOrder
<1>3. /\ Flow(sent[d], logged[d], from[d], buf[d], Tail(to[d]), Append(got[d], Head(to[d])))
      /\ Len(Tail(to[d])) = Len(to[d]) - 1
      /\ Len(Append(got[d], Head(to[d]))) = Len(got[d]) + 1
      /\ Len(to[d]) \in Nat \ {0} /\ Len(got[d]) \in Nat
  BY <1>1, <1>2, FlowReceive, FlowLengths
<1>10. /\ got'[d] = Append(got[d], Head(to[d])) /\ to'[d] = Tail(to[d])
       /\ \A e \in Dirs \ {d} : got'[e] = got[e] /\ to'[e] = to[e]
  BY <1>1 DEF FlowTypes
<1>11. Len(got'[d]) = Len(got[d]) + 1 /\ Len(to'[d]) = Len(to[d]) - 1
  BY <1>3, <1>10, Zenon
<1>4. /\ \A e \in Dirs \ {d} : got'[e] = got[e] /\ to'[e] = to[e]
      /\ Len(got'[d]) + Len(to'[d]) = Len(got[d]) + Len(to[d])
      /\ Len(to'[d]) <= Len(to[d]) /\ Len(to'[d]) \in Nat
  <2>1. Len(to[d]) \in Nat \ {0} /\ Len(got[d]) \in Nat
    BY <1>3, Zenon
  <2>2. \A e \in Dirs \ {d} : got'[e] = got[e] /\ to'[e] = to[e]
    BY <1>10, Zenon
  <2>3. /\ Len(got'[d]) + Len(to'[d]) = Len(got[d]) + Len(to[d])
        /\ Len(to'[d]) <= Len(to[d]) /\ Len(to'[d]) \in Nat
    <3>1. \A x, y \in Nat : y # 0 => /\ (x + 1) + (y - 1) = x + y
                                  /\ y - 1 <= y /\ y - 1 \in Nat
      OBVIOUS
    <3>2. Len(to[d]) \in Nat /\ Len(to[d]) # 0 /\ Len(got[d]) \in Nat
      BY <2>1
    <3> QED BY ONLY <1>11, <3>1, <3>2, ZenonT(30)
  <2> QED BY <2>2, <2>3, Zenon
<1>12. Flow(sent[d], logged[d], from[d], buf[d], to'[d], got'[d])
  BY <1>3, <1>10, Zenon
<1>5. ControlTypes'
  BY <1>1 DEF ControlTypes
<1>6. FlowTypes'
  <2>1. /\ to'[d] \in Seq(1 .. MaxSent) /\ got'[d] \in Seq(1 .. MaxSent)
        /\ Len(to'[d]) <= Window
    <3>1. to'[d] \in Seq(1 .. MaxSent) /\ got'[d] \in Seq(1 .. MaxSent)
      BY <1>12 DEF Flow
    <3>2. Len(to[d]) <= Window /\ Window \in Nat
      BY ForwardAssumption DEF FlowTypes
    <3>3. Len(to[d]) \in Nat
      BY <1>3, Zenon
    <3>4. Len(to'[d]) <= Window
      BY <1>4, <3>2, <3>3
    <3> QED BY <3>1, <3>4
  <2>2. to' \in [Dirs -> Seq(1 .. MaxSent)] /\ got' \in [Dirs -> Seq(1 .. MaxSent)]
    BY <1>1, <1>4, <2>1 DEF FlowTypes
  <2>3. \A e \in Dirs : Len(to'[e]) <= Window
    BY <1>4, <2>1 DEF FlowTypes
  <2> QED BY <1>1, <2>2, <2>3 DEF FlowTypes
<1>7. InOrder'
  <2>1. ASSUME NEW e \in Dirs
        PROVE  /\ Flow(sent[e], logged[e], from[e], buf[e], to'[e], got'[e])
               /\ Live /\ side[Dest(e)] # "reset" =>
                    Len(got'[e]) + Len(to'[e]) + Len(buf[e]) = Len(logged[e])
    <3>1. CASE e = d
      <4>1. Live /\ side[Dest(d)] # "reset" =>
              Len(got[d]) + Len(to[d]) + Len(buf[d]) = Len(logged[d])
        BY DEF InOrder
      <4> QED BY <1>4, <1>12, <3>1, <4>1
    <3>2. CASE e # d
      BY <1>4, <3>2 DEF InOrder
    <3> QED BY <3>1, <3>2
  <2> QED BY <1>1, <2>1 DEF InOrder, Live
<1>8. PumpsInStep'
  BY <1>1, <1>4 DEF PumpsInStep, Broken, Live
<1>9. OutcomeTells'
  BY <1>1, <1>4 DEF OutcomeTells, Broken, Live
<1> QED BY <1>5, <1>6, <1>7, <1>8, <1>9

LEMMA ReceiveEofStep ==
  ASSUME FInv, NEW d \in Dirs, ReceiveEof(d)
  PROVE  FInv'
<1> USE DEF FInv
<1>1. /\ to[d] = <<>> /\ fin[d]
      /\ saw' = [saw EXCEPT ![d] = TRUE]
      /\ UNCHANGED <<pc, why, side, sent, got, from, pump, buf, to, fin, logged, lines>>
  BY DEF ReceiveEof, pumpVars
<1>2. saw' \in [Dirs -> BOOLEAN] /\ \A e \in Dirs \ {d} : saw'[e] = saw[e]
  BY <1>1 DEF ControlTypes
<1>3. ControlTypes' /\ FlowTypes' /\ OutcomeTells'
  BY <1>1, <1>2 DEF ControlTypes, FlowTypes, OutcomeTells, Live, Broken
<1>4. InOrder'
  BY <1>1 DEF InOrder, Live
<1>5. PumpsInStep'
  BY <1>1, <1>2 DEF PumpsInStep, Live, Broken
<1> QED BY <1>3, <1>4, <1>5

\* An end resets: what was on its way to it is gone, and what was on its way
\* from it may be.
LEMMA ResetStep ==
  ASSUME FInv, NEW e \in Ends, Reset(e)
  PROVE  FInv'
<1> USE DEF FInv
<1>1. /\ Live
      /\ side' = [side EXCEPT ![e] = "reset"]
      /\ to' = [d \in Dirs |-> IF Dest(d) = e THEN <<>> ELSE to[d]]
      /\ from' \in {from, [d \in Dirs |-> IF Source(d) = e THEN <<>> ELSE from[d]]}
      /\ UNCHANGED <<pc, why, sent, got, saw, pump, buf, fin, logged, lines>>
  BY DEF Reset, Connected, Live
<1>2. /\ side' \in [Ends -> {"open", "eof", "reset"}] /\ side'[e] = "reset"
      /\ \A x \in Ends \ {e} : side'[x] = side[x]
  BY <1>1 DEF ControlTypes
<1>3. Broken'
  BY <1>2 DEF Broken
<1>4. \A d \in Dirs : Source(d) \in Ends /\ Dest(d) \in Ends
  BY DEF Source, Dest, Ends
<1>5. \A d \in Dirs : /\ to'[d] = to[d] \/ to'[d] = <<>>
                      /\ from'[d] = from[d] \/ from'[d] = <<>>
                      /\ Dest(d) # e => to'[d] = to[d]
                      /\ Source(d) # e => from'[d] = from[d]
  BY <1>1
<1>6. ControlTypes'
  BY <1>1, <1>2 DEF ControlTypes
<1>7. FlowTypes'
  <2>1. /\ <<>> \in Seq(1 .. MaxSent) /\ Len(<<>>) = 0 /\ 0 <= Window
        /\ from \in [Dirs -> Seq(1 .. MaxSent)] /\ to \in [Dirs -> Seq(1 .. MaxSent)]
    BY ForwardAssumption DEF FlowTypes
  <2>2. from' \in [Dirs -> Seq(1 .. MaxSent)] /\ to' \in [Dirs -> Seq(1 .. MaxSent)]
    BY <1>1, <2>1
  <2>3. \A d \in Dirs : Len(from'[d]) <= Window /\ Len(to'[d]) <= Window
    <3> TAKE d \in Dirs
    <3>1. Len(from[d]) <= Window /\ Len(to[d]) <= Window
      BY DEF FlowTypes
    <3>2. Len(from'[d]) <= Window
      <4>1. CASE from'[d] = from[d]
        BY <3>1, <4>1, Zenon
      <4>2. CASE from'[d] = <<>>
        BY <2>1, <4>2, Zenon
      <4> QED BY <1>5, <4>1, <4>2, Zenon
    <3>3. Len(to'[d]) <= Window
      <4>1. CASE to'[d] = to[d]
        BY <3>1, <4>1, Zenon
      <4>2. CASE to'[d] = <<>>
        BY <2>1, <4>2, Zenon
      <4> QED BY <1>5, <4>1, <4>2, Zenon
    <3> QED BY <3>2, <3>3
  <2> QED BY <1>1, <2>2, <2>3 DEF FlowTypes
<1>8. InOrder'
  <2>1. ASSUME NEW d \in Dirs
        PROVE  Flow(sent[d], logged[d], from'[d], buf[d], to'[d], got[d])
    <3>1. Flow(sent[d], logged[d], from[d], buf[d], to[d], got[d])
      BY DEF InOrder
    <3>2. /\ from'[d] \in {from[d], <<>>} /\ buf[d] \in {buf[d], <<>>}
          /\ to'[d] \in {to[d], <<>>}
      BY <1>5, Zenon
    <3> QED BY <3>1, <3>2, FlowLoses, Zenon
  <2>2. ASSUME NEW d \in Dirs
        PROVE  /\ side'[Source(d)] # "reset" => Len(logged[d]) + Len(from'[d]) = sent[d]
               /\ side'[Dest(d)] # "reset" =>
                    Len(got[d]) + Len(to'[d]) + Len(buf[d]) = Len(logged[d])
    <3>1. /\ side[Source(d)] # "reset" => Len(logged[d]) + Len(from[d]) = sent[d]
          /\ side[Dest(d)] # "reset" =>
               Len(got[d]) + Len(to[d]) + Len(buf[d]) = Len(logged[d])
      BY <1>1 DEF InOrder
    <3>2. CASE Source(d) = e
      <4>1. Dest(d) # e
        BY <3>2 DEF Source, Dest
      <4>2. side'[Source(d)] = "reset" /\ side'[Dest(d)] = side[Dest(d)] /\ to'[d] = to[d]
        BY <1>2, <1>4, <1>5, <3>2, <4>1, Zenon
      <4> QED BY <3>1, <4>2, Zenon
    <3>3. CASE Source(d) # e
      <4>1. Dest(d) = e
        BY <3>3 DEF Source, Dest, Ends
      <4>2. /\ side'[Dest(d)] = "reset" /\ side'[Source(d)] = side[Source(d)]
            /\ from'[d] = from[d]
        BY <1>2, <1>4, <1>5, <3>3, <4>1, Zenon
      <4> QED BY <3>1, <4>2, Zenon
    <3> QED BY <3>2, <3>3
  <2> QED BY <1>1, <2>1, <2>2 DEF InOrder
<1>9. PumpsInStep'
  BY <1>1, <1>3, <1>5 DEF PumpsInStep, Live
<1>10. OutcomeTells'
  BY <1>1, <1>3 DEF OutcomeTells, Live
<1> QED BY <1>6, <1>7, <1>8, <1>9, <1>10

-----------------------------------------------------------------------------
\* The steps of the task and of its pumps.

\* What follows for both directions when a step moves bytes in one only.
LEMMA OneFlow ==
  ASSUME FInv, NEW d \in Dirs, UNCHANGED <<pc, side, sent, got>>,
         from' \in [Dirs -> Seq(1 .. MaxSent)], to' \in [Dirs -> Seq(1 .. MaxSent)],
         buf' \in [Dirs -> Seq(1 .. MaxSent)], logged' \in [Dirs -> Seq(1 .. MaxSent)],
         \A e \in Dirs \ {d} : /\ from'[e] = from[e] /\ to'[e] = to[e]
                               /\ buf'[e] = buf[e] /\ logged'[e] = logged[e],
         Flow(sent[d], logged'[d], from'[d], buf'[d], to'[d], got[d]),
         Len(from'[d]) <= Window, Len(to'[d]) <= Window,
         Live /\ side[Source(d)] # "reset" => Len(logged'[d]) + Len(from'[d]) = sent[d],
         Live /\ side[Dest(d)] # "reset" =>
           Len(got[d]) + Len(to'[d]) + Len(buf'[d]) = Len(logged'[d])
  PROVE  FlowTypes' /\ InOrder'
<1> USE DEF FInv
<1>1. FlowTypes'
  <2>1. got' \in [Dirs -> Seq(1 .. MaxSent)]
    BY DEF FlowTypes
  <2>2. ASSUME NEW e \in Dirs PROVE Len(from'[e]) <= Window /\ Len(to'[e]) <= Window
    <3>1. CASE e = d
      BY <3>1
    <3>2. CASE e # d
      BY <3>2 DEF FlowTypes
    <3> QED BY <3>1, <3>2
  <2> QED BY <2>1, <2>2 DEF FlowTypes
<1>2. ASSUME NEW e \in Dirs
      PROVE  /\ Flow(sent[e], logged'[e], from'[e], buf'[e], to'[e], got[e])
             /\ Live /\ side[Source(e)] # "reset" => Len(logged'[e]) + Len(from'[e]) = sent[e]
             /\ Live /\ side[Dest(e)] # "reset" =>
                  Len(got[e]) + Len(to'[e]) + Len(buf'[e]) = Len(logged'[e])
  <2>1. CASE e = d
    BY <2>1, Zenon
  <2>2. CASE e # d
    BY <2>2, Zenon DEF InOrder
  <2> QED BY <2>1, <2>2
<1> QED BY <1>1, <1>2 DEF InOrder, Live

LEMMA PumpReadStep ==
  ASSUME FInv, NEW d \in Dirs, PumpRead(d)
  PROVE  FInv'
<1> USE DEF FInv
<1>1. PICK n \in 1 .. Len(from[d]) :
        /\ buf' = [buf EXCEPT ![d] = SubSeq(from[d], 1, n)]
        /\ from' = [from EXCEPT ![d] = SubSeq(@, n + 1, Len(@))]
        /\ logged' = [logged EXCEPT ![d] = @ \o buf'[d]]
  BY DEF PumpRead, Log
<1>2. /\ Live /\ pump[d] = "read"
      /\ pump' = [pump EXCEPT ![d] = "write"]
      /\ UNCHANGED <<pc, why, side, sent, got, saw, to, fin, lines>>
  BY DEF PumpRead, Pumping, Live, endVars
<1>3. Flow(sent[d], logged[d], from[d], buf[d], to[d], got[d]) /\ buf[d] = <<>>
  BY <1>2 DEF InOrder, PumpsInStep
<1>4. n \in 1 .. Len(from[d])
  OBVIOUS
<1>5. /\ buf \in [Dirs -> Seq(1 .. MaxSent)] /\ from \in [Dirs -> Seq(1 .. MaxSent)]
      /\ logged \in [Dirs -> Seq(1 .. MaxSent)] /\ to \in [Dirs -> Seq(1 .. MaxSent)]
  BY DEF FlowTypes
<1>6. /\ buf'[d] = SubSeq(from[d], 1, n) /\ from'[d] = SubSeq(from[d], n + 1, Len(from[d]))
      /\ logged'[d] = logged[d] \o SubSeq(from[d], 1, n)
      /\ \A e \in Dirs \ {d} :
           buf'[e] = buf[e] /\ from'[e] = from[e] /\ logged'[e] = logged[e]
  BY <1>1, <1>5
<1>7. /\ Flow(sent[d], logged'[d], from'[d], buf'[d], to[d], got[d])
      /\ Len(from[d]) <= Window => Len(from'[d]) <= Window
      /\ AllRead(sent[d], logged[d], from[d]) => AllRead(sent[d], logged'[d], from'[d])
      /\ AllKept(logged[d], buf[d], to[d], got[d]) =>
           AllKept(logged'[d], buf'[d], to[d], got[d])
  <2>1. ReadsTo(sent[d], logged[d], from[d], buf[d], to[d], got[d], n,
                logged'[d], from'[d], buf'[d])
    BY <1>3, <1>4, <1>6 DEF ReadsTo
  <2> QED BY <2>1, FlowRead, ZenonT(30)
<1>8. /\ buf'[d] \in Seq(1 .. MaxSent) /\ from'[d] \in Seq(1 .. MaxSent)
      /\ logged'[d] \in Seq(1 .. MaxSent)
  BY <1>7 DEF Flow
<1>9. /\ buf' \in [Dirs -> Seq(1 .. MaxSent)] /\ from' \in [Dirs -> Seq(1 .. MaxSent)]
      /\ logged' \in [Dirs -> Seq(1 .. MaxSent)]
  BY <1>1, <1>5, <1>6, <1>8
<1>10. Len(from'[d]) <= Window
  BY <1>7, Zenon DEF FlowTypes
<1>11. FlowTypes' /\ InOrder'
  <2>1. /\ Live /\ side[Source(d)] # "reset" => Len(logged[d]) + Len(from[d]) = sent[d]
        /\ Live /\ side[Dest(d)] # "reset" =>
             Len(got[d]) + Len(to[d]) + Len(buf[d]) = Len(logged[d])
        /\ Len(to[d]) <= Window
    BY DEF InOrder, FlowTypes
  <2>2. /\ Live /\ side[Source(d)] # "reset" => Len(logged'[d]) + Len(from'[d]) = sent[d]
        /\ Live /\ side[Dest(d)] # "reset" =>
             Len(got[d]) + Len(to'[d]) + Len(buf'[d]) = Len(logged'[d])
    BY <1>2, <1>7, <2>1 DEF AllRead, AllKept
  <2>3. /\ to' = to /\ UNCHANGED <<pc, side, sent, got>>
        /\ \A e \in Dirs \ {d} : /\ from'[e] = from[e] /\ to'[e] = to[e]
                                 /\ buf'[e] = buf[e] /\ logged'[e] = logged[e]
    BY <1>2, <1>6
  <2>4. /\ Flow(sent[d], logged'[d], from'[d], buf'[d], to'[d], got[d])
        /\ to' \in [Dirs -> Seq(1 .. MaxSent)] /\ Len(to'[d]) <= Window
    BY <1>5, <1>7, <2>1, <2>3, Zenon
  <2> QED BY <1>9, <1>10, <2>2, <2>3, <2>4, OneFlow
<1>12. /\ pump' \in [Dirs -> {"read", "write", "done"}] /\ pump'[d] = "write"
       /\ \A e \in Dirs \ {d} : pump'[e] = pump[e]
  BY <1>2 DEF ControlTypes
<1>13. ControlTypes' /\ OutcomeTells'
  BY <1>2, <1>12 DEF ControlTypes, OutcomeTells, Live, Broken
<1>14. PumpsInStep'
  <2>1. \A e \in Dirs : pump'[e] = "done" => e # d
    BY <1>12
  <2>2. \A e \in Dirs : fin[e] => pump[e] = "done" \/ ~Live
    BY DEF PumpsInStep
  <2>3. ~ fin[d]
    BY <1>2, <2>2
  <2>4. UNCHANGED <<pc, side, saw, to, fin>>
    BY <1>2
  <2>5. ASSUME NEW e \in Dirs
        PROVE  /\ buf'[e] # <<>> => pump'[e] = "write"
               /\ pump'[e] = "done" /\ ~Broken' => from'[e] = <<>> /\ side'[Source(e)] = "eof"
               /\ fin'[e] => pump'[e] = "done" \/ ~Live'
               /\ saw'[e] => fin'[e] /\ to'[e] = <<>>
    <3>1. CASE e = d
      BY <1>12, <2>3, <2>4, <3>1 DEF PumpsInStep
    <3>2. CASE e # d
      BY <1>6, <1>12, <2>4, <3>2 DEF PumpsInStep, Live, Broken
    <3> QED BY <3>1, <3>2
  <2> QED BY <2>5, Zenon DEF PumpsInStep
<1> QED BY <1>11, <1>13, <1>14

LEMMA PumpWriteStep ==
  ASSUME FInv, NEW d \in Dirs, PumpWrite(d)
  PROVE  FInv'
<1> USE DEF FInv
<1>1. PICK n \in 1 .. Len(buf[d]) :
        /\ n <= Free(d)
        /\ to' = [to EXCEPT ![d] = @ \o SubSeq(buf[d], 1, n)]
        /\ buf' = [buf EXCEPT ![d] = SubSeq(@, n + 1, Len(@))]
        /\ pump' = [pump EXCEPT ![d] = IF n = Len(buf[d]) THEN "read" ELSE @]
  BY DEF PumpWrite
<1>2. /\ Live /\ pump[d] = "write" /\ side[Dest(d)] # "reset"
      /\ UNCHANGED <<pc, why, side, sent, got, saw, from, fin, logged, lines>>
  BY DEF PumpWrite, Pumping, Live, endVars
<1>3. /\ Flow(sent[d], logged[d], from[d], buf[d], to[d], got[d])
      /\ Len(got[d]) + Len(to[d]) + Len(buf[d]) = Len(logged[d])
  BY <1>2 DEF InOrder
<1>4. n \in 1 .. Len(buf[d])
  OBVIOUS
<1>5. /\ buf \in [Dirs -> Seq(1 .. MaxSent)] /\ from \in [Dirs -> Seq(1 .. MaxSent)]
      /\ logged \in [Dirs -> Seq(1 .. MaxSent)] /\ to \in [Dirs -> Seq(1 .. MaxSent)]
  BY DEF FlowTypes
<1>6. /\ buf'[d] = SubSeq(buf[d], n + 1, Len(buf[d]))
      /\ to'[d] = to[d] \o SubSeq(buf[d], 1, n)
      /\ \A e \in Dirs \ {d} : buf'[e] = buf[e] /\ to'[e] = to[e]
  BY <1>1, <1>5
<1>7. /\ Flow(sent[d], logged[d], from[d], buf'[d], to'[d], got[d])
      /\ n <= Window - Len(to[d]) => Len(to'[d]) <= Window
      /\ AllKept(logged[d], buf'[d], to'[d], got[d])
      /\ (n = Len(buf[d])) <=> (buf'[d] = <<>>)
  <2>1. WritesTo(sent[d], logged[d], from[d], buf[d], to[d], got[d], n, buf'[d], to'[d])
    BY <1>3, <1>4, <1>6 DEF WritesTo, AllKept
  <2>2. n = Len(buf[d]) <=> buf'[d] = <<>>
    BY <2>1, FlowWrite
  <2> QED BY <2>1, <2>2, FlowWrite, ZenonT(30)
<1>8. buf'[d] \in Seq(1 .. MaxSent) /\ to'[d] \in Seq(1 .. MaxSent)
  BY <1>7 DEF Flow
<1>9. buf' \in [Dirs -> Seq(1 .. MaxSent)] /\ to' \in [Dirs -> Seq(1 .. MaxSent)]
  BY <1>1, <1>5, <1>6, <1>8
<1>10. Len(to'[d]) <= Window
  BY <1>1, <1>7, Zenon DEF Free
<1>11. FlowTypes' /\ InOrder'
  <2>1. /\ Live /\ side[Source(d)] # "reset" => Len(logged[d]) + Len(from[d]) = sent[d]
        /\ Len(from[d]) <= Window
    BY DEF InOrder, FlowTypes
  <2>2. /\ Live /\ side[Source(d)] # "reset" => Len(logged'[d]) + Len(from'[d]) = sent[d]
        /\ Live /\ side[Dest(d)] # "reset" =>
             Len(got[d]) + Len(to'[d]) + Len(buf'[d]) = Len(logged'[d])
    BY <1>2, <1>7, <2>1 DEF AllRead, AllKept
  <2>3. /\ from' = from /\ logged' = logged /\ UNCHANGED <<pc, side, sent, got>>
        /\ \A e \in Dirs \ {d} : /\ from'[e] = from[e] /\ to'[e] = to[e]
                                 /\ buf'[e] = buf[e] /\ logged'[e] = logged[e]
    BY <1>2, <1>6
  <2>4. /\ Flow(sent[d], logged'[d], from'[d], buf'[d], to'[d], got[d])
        /\ from' \in [Dirs -> Seq(1 .. MaxSent)] /\ Len(from'[d]) <= Window
        /\ logged' \in [Dirs -> Seq(1 .. MaxSent)]
    BY <1>5, <1>7, <2>1, <2>3, Zenon
  <2> QED BY <1>9, <1>10, <2>2, <2>3, <2>4, OneFlow
<1>12. /\ pump' \in [Dirs -> {"read", "write", "done"}]
       /\ pump'[d] = IF n = Len(buf[d]) THEN "read" ELSE "write"
       /\ \A e \in Dirs \ {d} : pump'[e] = pump[e]
  BY <1>1, <1>2 DEF ControlTypes
<1>13. ControlTypes' /\ OutcomeTells'
  BY <1>2, <1>12 DEF ControlTypes, OutcomeTells, Live, Broken
<1>14. PumpsInStep'
  <2>1. ~fin[d] /\ ~saw[d]
    BY <1>2 DEF PumpsInStep
  <2>2. buf'[d] # <<>> => pump'[d] = "write"
    BY <1>7, <1>12
  <2>3. pump'[d] # "done"
    BY <1>12
  <2> QED BY <1>2, <1>6, <1>12, <2>1, <2>2, <2>3 DEF PumpsInStep, Live, Broken
<1> QED BY <1>11, <1>13, <1>14

LEMMA PumpEndStep ==
  ASSUME FInv, NEW d \in Dirs, PumpEnd(d)
  PROVE  FInv'
<1> USE DEF FInv
<1>1. /\ Live /\ pump[d] = "read" /\ from[d] = <<>> /\ side[Source(d)] # "open"
      /\ fin' = [fin EXCEPT ![d] = TRUE]
      /\ pump' = [pump EXCEPT ![d] = "done"]
      /\ UNCHANGED <<pc, why, side, sent, got, saw, from, buf, to, logged, lines>>
  BY DEF PumpEnd, Pumping, AtEnd, ShutDown, Live, endVars
<1>2. /\ fin' \in [Dirs -> BOOLEAN] /\ fin'[d]
      /\ pump' \in [Dirs -> {"read", "write", "done"}] /\ pump'[d] = "done"
      /\ \A e \in Dirs \ {d} : fin'[e] = fin[e] /\ pump'[e] = pump[e]
  BY <1>1 DEF ControlTypes
<1>3. ControlTypes' /\ FlowTypes' /\ OutcomeTells'
  BY <1>1, <1>2 DEF ControlTypes, FlowTypes, OutcomeTells, Live, Broken
<1>4. InOrder'
  BY <1>1 DEF InOrder, Live
<1>5. ~Broken => side[Source(d)] = "eof"
  BY <1>1 DEF Broken, ControlTypes, Source, Ends
<1>6. PumpsInStep'
  <2>1. ASSUME NEW e \in Dirs
        PROVE  /\ buf[e] # <<>> => pump'[e] = "write"
               /\ pump'[e] = "done" /\ ~Broken => from[e] = <<>> /\ side[Source(e)] = "eof"
               /\ fin'[e] => pump'[e] = "done" \/ ~Live
               /\ saw[e] => fin'[e] /\ to[e] = <<>>
    <3>1. CASE e = d
      BY <1>1, <1>2, <1>5, <3>1 DEF PumpsInStep
    <3>2. CASE e # d
      BY <1>2, <3>2, Zenon DEF PumpsInStep
    <3> QED BY <3>1, <3>2
  <2> QED BY <1>1, <2>1 DEF PumpsInStep, Live, Broken
<1> QED BY <1>3, <1>4, <1>6

\* The destination is gone: what the pump holds is lost.
LEMMA PumpWriteFailsStep ==
  ASSUME FInv, NEW d \in Dirs, PumpWriteFails(d)
  PROVE  FInv'
<1> USE DEF FInv
<1>1. /\ Live /\ pump[d] = "write" /\ side[Dest(d)] = "reset"
      /\ pump' = [pump EXCEPT ![d] = "done"]
      /\ buf' = [buf EXCEPT ![d] = <<>>]
      /\ UNCHANGED <<pc, why, side, sent, got, saw, from, to, fin, logged, lines>>
  BY DEF PumpWriteFails, Pumping, Live, endVars
<1>2. /\ pump' \in [Dirs -> {"read", "write", "done"}] /\ pump'[d] = "done"
      /\ \A e \in Dirs \ {d} : pump'[e] = pump[e]
  BY <1>1 DEF ControlTypes
<1>3. /\ buf \in [Dirs -> Seq(1 .. MaxSent)] /\ from \in [Dirs -> Seq(1 .. MaxSent)]
      /\ logged \in [Dirs -> Seq(1 .. MaxSent)] /\ to \in [Dirs -> Seq(1 .. MaxSent)]
      /\ <<>> \in Seq(1 .. MaxSent)
  BY DEF FlowTypes
<1>4. /\ buf' \in [Dirs -> Seq(1 .. MaxSent)] /\ buf'[d] = <<>>
      /\ \A e \in Dirs \ {d} : buf'[e] = buf[e]
  BY <1>1, <1>3
<1>5. Broken
  BY <1>1 DEF Broken, Dest, Ends
<1>6. ControlTypes' /\ OutcomeTells'
  BY <1>1, <1>2 DEF ControlTypes, OutcomeTells, Live, Broken
<1>7. FlowTypes' /\ InOrder'
  <2>1. /\ Flow(sent[d], logged[d], from[d], buf[d], to[d], got[d])
        /\ Live /\ side[Source(d)] # "reset" => Len(logged[d]) + Len(from[d]) = sent[d]
        /\ Len(from[d]) <= Window /\ Len(to[d]) <= Window
    BY DEF InOrder, FlowTypes
  <2>2. from[d] \in {from[d], <<>>} /\ buf'[d] \in {buf[d], <<>>} /\ to[d] \in {to[d], <<>>}
    BY <1>4
  <2>3. Flow(sent[d], logged[d], from[d], buf'[d], to[d], got[d])
    BY <2>1, <2>2, FlowLoses, Zenon
  <2>4. /\ from' = from /\ logged' = logged /\ to' = to
        /\ UNCHANGED <<pc, side, sent, got>>
        /\ \A e \in Dirs \ {d} : /\ from'[e] = from[e] /\ to'[e] = to[e]
                                 /\ buf'[e] = buf[e] /\ logged'[e] = logged[e]
    BY <1>1, <1>4
  <2>5. /\ from' \in [Dirs -> Seq(1 .. MaxSent)] /\ to' \in [Dirs -> Seq(1 .. MaxSent)]
        /\ logged' \in [Dirs -> Seq(1 .. MaxSent)]
        /\ Flow(sent[d], logged'[d], from'[d], buf'[d], to'[d], got[d])
        /\ Len(from'[d]) <= Window /\ Len(to'[d]) <= Window
        /\ Live /\ side[Source(d)] # "reset" => Len(logged'[d]) + Len(from'[d]) = sent[d]
        /\ Live /\ side[Dest(d)] # "reset" =>
             Len(got[d]) + Len(to'[d]) + Len(buf'[d]) = Len(logged'[d])
    BY <1>1, <1>3, <2>1, <2>3, <2>4, Zenon
  <2> QED BY <1>4, <2>4, <2>5, OneFlow
<1>8. PumpsInStep'
  BY <1>1, <1>2, <1>4, <1>5 DEF PumpsInStep, Live, Broken
<1> QED BY <1>6, <1>7, <1>8

LEMMA ConnectOkStep ==
  ASSUME FInv, ConnectOk
  PROVE  FInv'
<1> USE DEF FInv
<1>1. /\ pc = "connecting" /\ pc' = "pumping" /\ Live /\ Live'
      /\ UNCHANGED <<why, side, sent, got, saw, from, pump, buf, to, fin, logged, lines>>
  BY DEF ConnectOk, Live, endVars, pumpVars
<1>2. ControlTypes' /\ FlowTypes' /\ OutcomeTells'
  BY <1>1 DEF ControlTypes, FlowTypes, OutcomeTells, Broken
<1>3. InOrder' /\ PumpsInStep'
  BY <1>1 DEF InOrder, PumpsInStep, Broken
<1> QED BY <1>2, <1>3

\* The sockets are dropped: what was unread is lost, and what was on its way
\* may be.
LEMMA DropStep ==
  ASSUME FInv, ~Live', UNCHANGED <<sent, got, buf, logged>>,
         from' = Nothing, to' \in [Dirs -> Seq(1 .. MaxSent)],
         \A d \in Dirs : to'[d] \in {to[d], <<>>}
  PROVE  FlowTypes' /\ InOrder'
<1> USE DEF FInv
<1>1. /\ from' \in [Dirs -> Seq(1 .. MaxSent)]
      /\ \A d \in Dirs : from'[d] = <<>>
      /\ Len(<<>>) = 0 /\ 0 <= Window
  BY ForwardAssumption DEF Nothing
<1>2. FlowTypes'
  <2>1. ASSUME NEW d \in Dirs PROVE Len(from'[d]) <= Window /\ Len(to'[d]) <= Window
    <3>1. Len(to[d]) <= Window
      BY DEF FlowTypes
    <3>2. CASE to'[d] = to[d]
      BY <1>1, <3>1, <3>2, Zenon
    <3>3. CASE to'[d] = <<>>
      BY <1>1, <3>3, Zenon
    <3> QED BY <3>2, <3>3
  <2> QED BY <1>1, <2>1 DEF FlowTypes
<1>3. ASSUME NEW d \in Dirs PROVE Flow(sent[d], logged[d], from'[d], buf[d], to'[d], got[d])
  <2>1. Flow(sent[d], logged[d], from[d], buf[d], to[d], got[d])
    BY DEF InOrder
  <2>2. from'[d] \in {from[d], <<>>} /\ buf[d] \in {buf[d], <<>>} /\ to'[d] \in {to[d], <<>>}
    BY <1>1
  <2> QED BY <2>1, <2>2, FlowLoses, Zenon
<1> QED BY <1>2, <1>3 DEF InOrder

LEMMA ConnectFailsStep ==
  ASSUME FInv, ConnectFails
  PROVE  FInv'
<1> USE DEF FInv
<1>1. /\ pc' = "returned" /\ why' = "upstream unreachable"
      /\ side' = [side EXCEPT !["upstream"] = "reset"]
      /\ from' = Nothing
      /\ fin' = [fin EXCEPT !["tx"] = TRUE]
      /\ lines' = Append(lines, "error")
      /\ UNCHANGED <<sent, got, saw, pump, buf, to, logged>>
  BY DEF ConnectFails
<1>2. ~Live' /\ Broken'
  BY <1>1 DEF Live, Broken, ControlTypes, Ends
<1>3. ControlTypes'
  <2>1. lines' \in Seq({"error", "close"})
    <3>1. lines \in Seq({"error", "close"}) /\ "error" \in {"error", "close"}
      BY DEF ControlTypes
    <3> QED BY <1>1, <3>1, AppendProperties
  <2>2. /\ side' \in [Ends -> {"open", "eof", "reset"}]
        /\ fin' \in [Dirs -> BOOLEAN]
    BY <1>1 DEF ControlTypes, Ends, Dirs
  <2> QED BY <1>1, <2>1, <2>2 DEF ControlTypes
<1>4. FlowTypes' /\ InOrder'
  BY <1>1, <1>2, DropStep DEF FlowTypes
<1>5. PumpsInStep'
  BY <1>1, <1>2 DEF PumpsInStep, ControlTypes
<1>6. OutcomeTells'
  BY <1>1, <1>2 DEF OutcomeTells
<1> QED BY <1>3, <1>4, <1>5, <1>6

LEMMA ReturnStep ==
  ASSUME FInv, Return
  PROVE  FInv'
<1> USE DEF FInv
<1>1. /\ Live /\ BothDone
      /\ pc' = "returned" /\ why' = "both directions closed"
      /\ from' = Nothing
      /\ to' \in {to, [d \in Dirs |->
           IF \E r \in Dirs : Source(r) = Dest(d) /\ from[r] # <<>> THEN <<>> ELSE to[d]]}
      /\ fin' = [d \in Dirs |-> TRUE]
      /\ UNCHANGED <<side, sent, got, saw, pump, buf, logged, lines>>
  BY DEF Return, Live, endVars
<1>2. ~Live' /\ (Broken' <=> Broken)
  BY <1>1 DEF Live, Broken
<1>3. ControlTypes'
  BY <1>1 DEF ControlTypes
<1>4. /\ to \in [Dirs -> Seq(1 .. MaxSent)] /\ <<>> \in Seq(1 .. MaxSent)
  BY DEF FlowTypes
<1>5. /\ to' \in [Dirs -> Seq(1 .. MaxSent)]
      /\ \A d \in Dirs : to'[d] \in {to[d], <<>>}
  BY <1>1, <1>4
<1>6. FlowTypes' /\ InOrder'
  BY <1>1, <1>2, <1>5, DropStep
<1>7. PumpsInStep'
  BY <1>1, <1>2, <1>5 DEF PumpsInStep, BothDone, Nothing
<1>8. ASSUME ~Broken
      PROVE  \A d \in Dirs : Len(got[d]) + Len(to'[d]) = sent[d] /\ side[Source(d)] = "eof"
  <2>1. \A d \in Dirs : from[d] = <<>> /\ side[Source(d)] = "eof" /\ buf[d] = <<>>
    BY <1>1, <1>8 DEF PumpsInStep, BothDone
  <2>2. \A d \in Dirs : to'[d] = to[d]
    BY <1>1, <2>1
  <2> TAKE d \in Dirs
  <2>3. side[Source(d)] # "reset" /\ side[Dest(d)] # "reset"
    BY <1>8 DEF Broken, Source, Dest, Ends
  <2>4. /\ Flow(sent[d], logged[d], from[d], buf[d], to[d], got[d])
        /\ AllRead(sent[d], logged[d], from[d]) /\ AllKept(logged[d], buf[d], to[d], got[d])
    BY <1>1, <2>3 DEF InOrder, AllRead, AllKept
  <2>5. AllRead(sent[d], got[d], to[d])
    <3>1. from[d] = <<>> /\ buf[d] = <<>>
      BY <2>1
    <3> QED BY <2>4, <3>1, FlowAtRest, Zenon
  <2> QED BY <2>1, <2>2, <2>5, Zenon DEF AllRead
<1>9. OutcomeTells'
  BY <1>1, <1>2, <1>8 DEF OutcomeTells
<1> QED BY <1>3, <1>6, <1>7, <1>9

LEMMA LogCloseStep ==
  ASSUME FInv, LogClose
  PROVE  FInv'
<1> USE DEF FInv
<1>1. /\ pc = "returned" /\ pc' = "done" /\ ~Live /\ ~Live'
      /\ lines' = Append(lines, "close")
      /\ UNCHANGED <<why, side, sent, got, saw, from, pump, buf, to, fin, logged>>
  BY DEF LogClose, Live, endVars, pumpVars
<1>2. ControlTypes'
  <2>1. lines \in Seq({"error", "close"}) /\ "close" \in {"error", "close"}
    BY DEF ControlTypes
  <2>2. lines' \in Seq({"error", "close"})
    BY <1>1, <2>1, AppendProperties
  <2> QED BY <1>1, <2>2 DEF ControlTypes
<1>3. FlowTypes' /\ OutcomeTells'
  BY <1>1 DEF FlowTypes, OutcomeTells, Broken
<1>4. InOrder' /\ PumpsInStep'
  BY <1>1 DEF InOrder, PumpsInStep, Broken
<1> QED BY <1>2, <1>3, <1>4

-----------------------------------------------------------------------------
\* The invariant.

LEMMA ForwardInitially == ForwardInit => FInv
<1> SUFFICES ASSUME ForwardInit PROVE FInv
  OBVIOUS
<1>1. /\ MaxSent \in Nat /\ Window \in Nat /\ 0 \in 0 .. MaxSent
      /\ <<>> \in Seq(1 .. MaxSent) /\ Len(<<>>) = 0
  BY ForwardAssumption
<1>2. /\ pc = "connecting" /\ why = "none" /\ lines = <<>>
      /\ \A e \in Ends : side[e] = "open"
      /\ \A d \in Dirs : /\ sent[d] = 0 /\ pump[d] = "read" /\ ~fin[d] /\ ~saw[d]
                         /\ from[d] = <<>> /\ buf[d] = <<>> /\ to[d] = <<>>
                         /\ got[d] = <<>> /\ logged[d] = <<>>
  BY DEF ForwardInit, Nothing
<1>3. ControlTypes
  BY <1>1 DEF ForwardInit, ControlTypes
<1>4. FlowTypes
  BY <1>1, <1>2 DEF ForwardInit, FlowTypes, Nothing
<1>5. Flow(0, <<>>, <<>>, <<>>, <<>>, <<>>)
  <2>1. \A a \in Nat : Run(a, 0) = <<>>
    BY RunIsSeq
  <2>2. Flow(0, Run(0, 0), Run(0, 0), Run(0 - 0, 0), Run(0, 0), Run(0, 0))
    BY <1>1, FlowOfRuns
  <2>3. 0 - 0 = 0
    OBVIOUS
  <2> QED BY <2>1, <2>2, <2>3
<1>6. InOrder
  <2> USE DEF InOrder
  <2> TAKE d \in Dirs
  <2>1. /\ sent[d] = 0 /\ from[d] = <<>> /\ buf[d] = <<>> /\ to[d] = <<>>
        /\ got[d] = <<>> /\ logged[d] = <<>>
    BY <1>2
  <2>2. Flow(sent[d], logged[d], from[d], buf[d], to[d], got[d])
    BY <1>5, <2>1, Zenon
  <2>3. 0 + 0 = 0 /\ 0 + 0 + 0 = 0
    OBVIOUS
  <2>4. /\ Len(logged[d]) + Len(from[d]) = sent[d]
        /\ Len(got[d]) + Len(to[d]) + Len(buf[d]) = Len(logged[d])
    BY <1>1, <2>1, <2>3, Zenon
  <2> QED BY <2>2, <2>4
<1>7. PumpsInStep /\ OutcomeTells
  BY <1>2 DEF PumpsInStep, OutcomeTells, Live
<1> QED BY <1>3, <1>4, <1>6, <1>7 DEF FInv

LEMMA ForwardStep == FInv /\ [ForwardNext]_forwardVars => FInv'
<1> SUFFICES ASSUME FInv, [ForwardNext]_forwardVars PROVE FInv'
  OBVIOUS
<1>1. ASSUME NEW e \in Ends, HalfClose(e) PROVE FInv'
  BY <1>1, HalfCloseStep
<1>2. ASSUME NEW e \in Ends, Reset(e) PROVE FInv'
  BY <1>2, ResetStep
<1>3. ASSUME NEW d \in Dirs, Send(d) PROVE FInv'
  BY <1>3, SendStep
<1>4. ASSUME NEW d \in Dirs, Receive(d) PROVE FInv'
  BY <1>4, ReceiveStep
<1>5. ASSUME NEW d \in Dirs, ReceiveEof(d) PROVE FInv'
  BY <1>5, ReceiveEofStep
<1>6. ASSUME NEW d \in Dirs, PumpRead(d) PROVE FInv'
  BY <1>6, PumpReadStep
<1>7. ASSUME NEW d \in Dirs, PumpEnd(d) PROVE FInv'
  BY <1>7, PumpEndStep
<1>8. ASSUME NEW d \in Dirs, PumpWrite(d) PROVE FInv'
  BY <1>8, PumpWriteStep
<1>9. ASSUME NEW d \in Dirs, PumpWriteFails(d) PROVE FInv'
  BY <1>9, PumpWriteFailsStep
<1>10. CASE UNCHANGED forwardVars
  BY <1>10 DEF FInv, ControlTypes, FlowTypes, InOrder, PumpsInStep, OutcomeTells,
               Live, Broken, forwardVars, endVars, pumpVars
<1> QED BY <1>1, <1>2, <1>3, <1>4, <1>5, <1>6, <1>7, <1>8, <1>9, <1>10,
           ConnectOkStep, ConnectFailsStep, ReturnStep, LogCloseStep
        DEF ForwardNext, PumpStep, TaskStep, Ended

LEMMA ForwardInvariant == ForwardSpec => []FInv
<1> QED BY ForwardInitially, ForwardStep, PTL DEF ForwardSpec

-----------------------------------------------------------------------------
\* What the invariant gives.

\* The start of a run is a prefix of it.
LEMMA RunPrefix ==
  ASSUME NEW n \in Nat, NEW k \in 0 .. n
  PROVE  IsPrefix(Run(0, k), Run(0, n))
<1>1. k \in Nat /\ 0 \in Nat /\ k \in 0 .. k /\ k <= n
  OBVIOUS
<1>2. Len(Run(0, k)) = k /\ Len(Run(0, n)) = n
  BY <1>1, RunIsSeq
<1>3. SubSeq(Run(0, k), 1, k) = Run(0, k) /\ SubSeq(Run(0, n), 1, k) = Run(0, k)
  BY <1>1, RunSplit, ZenonT(30)
<1> QED BY <1>1, <1>2, <1>3 DEF IsPrefix

\* A flow's stretches, put together.
Together(s, l, f, b, t, g) ==
  /\ IsPrefix(l, Run(0, s)) /\ IsPrefix(g, l)
  /\ AllRead(s, l, f) => l \o f = Run(0, s)
  /\ AllKept(l, b, t, g) => g \o t \o b = l
  /\ AllRead(s, g, t) => g \o t = Run(0, s)

LEMMA FlowTogether ==
  ASSUME NEW s, NEW l, NEW f, NEW b, NEW t, NEW g, Flow(s, l, f, b, t, g)
  PROVE  Together(s, l, f, b, t, g)
<1> DEFINE nl == Len(l)
           nf == Len(f)
           nb == Len(b)
           nt == Len(t)
           ng == Len(g)
<1>1. /\ nl \in Nat /\ nf \in Nat /\ nb \in Nat /\ nt \in Nat /\ ng \in Nat
      /\ s \in 0 .. MaxSent /\ nl + nf <= s /\ ng + nt + nb <= nl
  BY FlowLengths
<1>2. /\ l = Run(0, nl) /\ f = Run(nl, nf) /\ b = Run(nl - nb, nb)
      /\ t = Run(ng, nt) /\ g = Run(0, ng)
  BY DEF Flow
<1>3. /\ AllRead(s, l, f) <=> nl + nf = s
      /\ AllKept(l, b, t, g) <=> ng + nt + nb = nl
      /\ AllRead(s, g, t) <=> ng + nt = s
  BY DEF AllRead, AllKept
<1> HIDE DEF nl, nf, nb, nt, ng
<1>4. /\ s \in Nat /\ nl \in 0 .. s /\ ng \in 0 .. nl /\ 0 \in Nat
      /\ ng + nt \in Nat
  BY <1>1, ForwardAssumption
<1>5. IsPrefix(Run(0, nl), Run(0, s)) /\ IsPrefix(Run(0, ng), Run(0, nl))
  BY <1>1, <1>4, RunPrefix, ZenonT(30)
<1>6. /\ Run(0, nl) \o Run(nl, nf) = Run(0, nl + nf)
      /\ Run(0, ng) \o Run(ng, nt) = Run(0, ng + nt)
      /\ Run(0, ng + nt) \o Run(ng + nt, nb) = Run(0, ng + nt + nb)
  <2>1. Run(0, nl) \o Run(nl, nf) = Run(0, nl + nf)
    BY ONLY <1>1, RunFromStart, ZenonT(30)
  <2>2. Run(0, ng) \o Run(ng, nt) = Run(0, ng + nt)
    BY ONLY <1>1, RunFromStart, ZenonT(30)
  <2>3. Run(0, ng + nt) \o Run(ng + nt, nb) = Run(0, ng + nt + nb)
    BY ONLY <1>1, <1>4, RunFromStart, ZenonT(30)
  <2> QED BY <2>1, <2>2, <2>3, Zenon
<1>7. ASSUME AllRead(s, l, f) PROVE l \o f = Run(0, s)
  BY <1>2, <1>3, <1>4, <1>6, <1>7
<1>8. ASSUME AllKept(l, b, t, g) PROVE g \o t \o b = l
  <2>1. ng + nt + nb = nl
    BY <1>3, <1>8
  <2>2. nl - nb = ng + nt
    BY <1>1, <2>1
  <2> QED BY <1>2, <1>4, <1>6, <2>1, <2>2
<1>9. ASSUME AllRead(s, g, t) PROVE g \o t = Run(0, s)
  BY <1>2, <1>3, <1>4, <1>6, <1>9
<1> QED BY <1>2, <1>5, <1>7, <1>8, <1>9 DEF Together

LEMMA SentIsRun == FInv => \A d \in Dirs : Sent(d) = Run(0, sent[d])
<1> SUFFICES ASSUME FInv, NEW d \in Dirs PROVE Sent(d) = Run(0, sent[d])
  OBVIOUS
<1> DEFINE n == sent[d]
<1>1. n \in Nat
  <2>1. sent \in [Dirs -> 0 .. MaxSent] /\ MaxSent \in Nat
    BY ForwardAssumption DEF FInv, ControlTypes
  <2> QED BY <2>1
<1> HIDE DEF n
<1>2. [i \in 1 .. n |-> i] = [i \in 1 .. (0 + n) - (0 + 1) + 1 |-> (0 + 1) + i - 1]
  <2>1. 1 .. n = 1 .. (0 + n) - (0 + 1) + 1
    BY <1>1
  <2>2. \A i \in 1 .. n : i = (0 + 1) + i - 1
    BY <1>1
  <2> QED BY <2>1, <2>2
<1> QED BY <1>2 DEF n, Sent, Run, Span

LEMMA RelayedIsLogged == FInv => LogIsTheRelay
<1> SUFFICES ASSUME FInv PROVE LogIsTheRelay
  OBVIOUS
<1> USE DEF FInv
<1>1. ASSUME NEW d \in Dirs
      PROVE  /\ IsPrefix(logged[d], Sent(d)) /\ IsPrefix(got[d], logged[d])
             /\ AllRead(sent[d], logged[d], from[d]) => logged[d] \o from[d] = Sent(d)
             /\ AllKept(logged[d], buf[d], to[d], got[d]) =>
                  got[d] \o to[d] \o buf[d] = logged[d]
             /\ AllRead(sent[d], got[d], to[d]) => got[d] \o to[d] = Sent(d)
  <2>1. Flow(sent[d], logged[d], from[d], buf[d], to[d], got[d])
    BY DEF InOrder
  <2>2. Sent(d) = Run(0, sent[d])
    BY SentIsRun
  <2>3. Together(sent[d], logged[d], from[d], buf[d], to[d], got[d])
    BY <2>1, FlowTogether, Zenon
  <2> QED BY <2>2, <2>3, Zenon DEF Together
<1>2. ASSUME NEW d \in Dirs, pc = "pumping"
      PROVE  /\ side[Source(d)] # "reset" => AllRead(sent[d], logged[d], from[d])
             /\ side[Dest(d)] # "reset" => AllKept(logged[d], buf[d], to[d], got[d])
  BY <1>2 DEF InOrder, Live, AllRead, AllKept
<1>3. ASSUME NEW d \in Dirs, why = "both directions closed", ~Broken
      PROVE  AllRead(sent[d], got[d], to[d]) /\ side[Source(d)] = "eof"
  BY <1>3 DEF OutcomeTells, AllRead
<1> QED BY <1>1, <1>2, <1>3, Zenon DEF LogIsTheRelay

-----------------------------------------------------------------------------
\* Each direction is a Relay.

\* What one step is for direction d: nothing, or one of Relay's.
RelayStep(d) ==
  \/ /\ sent'[d] = sent[d] /\ got'[d] = got[d] /\ saw'[d] = saw[d]
     /\ side'[Source(d)] # "open" <=> side[Source(d)] # "open"
     /\ Broken' <=> Broken
  \/ /\ side[Source(d)] = "open" /\ side'[Source(d)] = "open"
     /\ sent'[d] = sent[d] + 1 /\ got'[d] = got[d] /\ saw'[d] = saw[d]
     /\ Broken' <=> Broken
  \/ /\ side'[Source(d)] # "open" /\ (Broken' <=> Broken)
     /\ sent'[d] = sent[d] /\ got'[d] = got[d] /\ saw'[d] = saw[d]
  \/ /\ Broken'
     /\ side'[Source(d)] # "open" \/ (side'[Source(d)] = side[Source(d)])
     /\ sent'[d] = sent[d] /\ got'[d] = got[d] /\ saw'[d] = saw[d]
  \/ /\ ~saw[d] /\ Len(got[d]) < sent[d] /\ got'[d] = Append(got[d], Len(got[d]) + 1)
     /\ sent'[d] = sent[d] /\ saw'[d] = saw[d] /\ side' = side /\ (Broken' <=> Broken)
  \/ /\ Broken \/ (side[Source(d)] # "open" /\ Len(got[d]) = sent[d])
     /\ saw'[d] = TRUE
     /\ sent'[d] = sent[d] /\ got'[d] = got[d] /\ side' = side /\ (Broken' <=> Broken)

\* Nothing is read past an EOF, and only what was sent.
LEMMA ReceiveDelivers ==
  ASSUME FInv, NEW d \in Dirs, Receive(d)
  PROVE  ~saw[d] /\ Len(got[d]) < sent[d] /\ got'[d] = Append(got[d], Len(got[d]) + 1)
<1>1. /\ to[d] # <<>> /\ got' = [got EXCEPT ![d] = Append(@, Head(to[d]))]
      /\ got \in [Dirs -> Seq(1 .. MaxSent)]
      /\ Flow(sent[d], logged[d], from[d], buf[d], to[d], got[d])
  BY DEF FInv, FlowTypes, InOrder, Receive
<1>2. Head(to[d]) = Len(got[d]) + 1 /\ Len(got[d]) < sent[d]
  BY <1>1, NextByte
<1>3. got'[d] = Append(got[d], Head(to[d]))
  BY <1>1
<1>4. ~saw[d]
  BY <1>1 DEF FInv, PumpsInStep
<1> QED BY <1>2, <1>3, <1>4, Zenon

\* An EOF is read after the last byte, or after a reset.
LEMMA EofIsLast ==
  ASSUME FInv, NEW d \in Dirs, fin[d], to[d] = <<>>, ~Broken
  PROVE  side[Source(d)] = "eof" /\ Len(got[d]) = sent[d]
<1> USE DEF FInv
<1>1. Flow(sent[d], logged[d], from[d], buf[d], to[d], got[d])
  BY DEF InOrder
<1>2. side[Source(d)] = "eof" /\ AllRead(sent[d], got[d], to[d])
  <2>1. CASE Live
    <3>1. from[d] = <<>> /\ side[Source(d)] = "eof" /\ buf[d] = <<>>
      BY <2>1 DEF PumpsInStep
    <3>2. side[Source(d)] # "reset" /\ side[Dest(d)] # "reset"
      BY DEF Broken, Source, Dest, Ends
    <3>3. AllRead(sent[d], logged[d], from[d]) /\ AllKept(logged[d], buf[d], to[d], got[d])
      BY <2>1, <3>2 DEF InOrder, AllRead, AllKept
    <3>4. AllRead(sent[d], got[d], to[d])
      BY <1>1, <3>1, <3>3, FlowAtRest, Zenon
    <3> QED BY <3>1, <3>4
  <2>2. CASE ~Live
    BY <2>2 DEF OutcomeTells, AllRead
  <2> QED BY <2>1, <2>2
<1>3. Len(got[d]) = sent[d]
  <2>1. Len(got[d]) \in Nat /\ Len(to[d]) = 0
    <3>1. got[d] \in Seq(1 .. MaxSent)
      BY <1>1 DEF Flow
    <3> QED BY <3>1, LenProperties
  <2>2. Len(got[d]) + 0 = sent[d]
    BY <1>2, <2>1, Zenon DEF AllRead
  <2>3. \A x \in Nat : x + 0 = x
    OBVIOUS
  <2> QED BY <2>1, <2>2, <2>3
<1> QED BY <1>2, <1>3

LEMMA EveryStepRelays ==
  ASSUME FInv, [ForwardNext]_forwardVars, NEW d \in Dirs
  PROVE  RelayStep(d)
<1> USE DEF RelayStep
<1>1. Source(d) \in Ends /\ Dest(d) \in Ends
  BY DEF Source, Dest, Ends
<1>2. /\ side \in [Ends -> {"open", "eof", "reset"}] /\ sent \in [Dirs -> 0 .. MaxSent]
      /\ saw \in [Dirs -> BOOLEAN] /\ got \in [Dirs -> Seq(1 .. MaxSent)]
  BY DEF FInv, ControlTypes, FlowTypes
<1>3. ASSUME UNCHANGED <<side, sent, got, saw>> PROVE RelayStep(d)
  BY <1>3 DEF Broken
<1>4. ASSUME NEW e \in Ends, HalfClose(e) PROVE RelayStep(d)
  <2>1. /\ side[e] = "open" /\ side' = [side EXCEPT ![e] = "eof"]
        /\ UNCHANGED <<sent, got, saw>>
    BY <1>4 DEF HalfClose
  <2>2. Broken' <=> Broken
    BY <1>2, <2>1 DEF Broken
  <2> QED BY <1>1, <1>2, <2>1, <2>2
<1>5. ASSUME NEW e \in Ends, Reset(e) PROVE RelayStep(d)
  <2>1. side' = [side EXCEPT ![e] = "reset"] /\ UNCHANGED <<sent, got, saw>>
    BY <1>5 DEF Reset
  <2>2. Broken'
    BY <1>2, <2>1 DEF Broken
  <2> QED BY <1>1, <1>2, <2>1, <2>2
<1>6. ASSUME NEW r \in Dirs, Send(r) PROVE RelayStep(d)
  <2>1. /\ side[Source(r)] = "open" /\ sent' = [sent EXCEPT ![r] = @ + 1]
        /\ UNCHANGED <<side, got, saw>>
    BY <1>6 DEF Send
  <2>2. Broken' <=> Broken
    BY <2>1 DEF Broken
  <2> QED BY <1>2, <2>1, <2>2
<1>7. ASSUME NEW r \in Dirs, Receive(r) PROVE RelayStep(d)
  <2>1. /\ got' = [got EXCEPT ![r] = Append(@, Head(to[r]))]
        /\ UNCHANGED <<side, sent, saw>>
    BY <1>7 DEF Receive
  <2>2. Broken' <=> Broken
    BY <2>1 DEF Broken
  <2>3. CASE r = d
    BY <1>7, <2>1, <2>2, <2>3, ReceiveDelivers
  <2>4. CASE r # d
    BY <1>2, <2>1, <2>2, <2>4
  <2> QED BY <2>3, <2>4
<1>8. ASSUME NEW r \in Dirs, ReceiveEof(r) PROVE RelayStep(d)
  <2>1. /\ to[r] = <<>> /\ fin[r] /\ saw' = [saw EXCEPT ![r] = TRUE]
        /\ UNCHANGED <<side, sent, got>>
    BY <1>8 DEF ReceiveEof
  <2>2. Broken' <=> Broken
    BY <2>1 DEF Broken
  <2>3. CASE r = d
    BY <1>2, <2>1, <2>2, <2>3, EofIsLast
  <2>4. CASE r # d
    BY <1>2, <2>1, <2>2, <2>4
  <2> QED BY <2>3, <2>4
<1>9. ASSUME NEW r \in Dirs, PumpStep(r) PROVE RelayStep(d)
  BY <1>3, <1>9 DEF PumpStep, PumpRead, PumpEnd, PumpWrite, PumpWriteFails, endVars
<1>10. ASSUME ConnectFails PROVE RelayStep(d)
  <2>1. side' = [side EXCEPT !["upstream"] = "reset"] /\ UNCHANGED <<sent, got, saw>>
    BY <1>10 DEF ConnectFails
  <2>2. Broken'
    BY <1>2, <2>1 DEF Broken, Ends
  <2> QED BY <1>1, <1>2, <2>1, <2>2
<1>11. ASSUME ConnectOk \/ Return \/ LogClose \/ Ended PROVE RelayStep(d)
  BY <1>3, <1>11 DEF ConnectOk, Return, LogClose, Ended, forwardVars, endVars
<1>12. ASSUME UNCHANGED forwardVars PROVE RelayStep(d)
  BY <1>3, <1>12 DEF forwardVars, endVars
<1> HIDE DEF RelayStep
<1> QED BY <1>4, <1>5, <1>6, <1>7, <1>8, <1>9, <1>10, <1>11, <1>12
        DEF ForwardNext, TaskStep

LEMMA RelaysInitially == ForwardInit => Rx!Init /\ Tx!Init
BY DEF ForwardInit, Nothing, Broken, Dirs, Ends, Rx!Init, Tx!Init

LEMMA RelayStepIsRelays ==
  ASSUME FInv, [ForwardNext]_forwardVars
  PROVE  [Rx!Next]_(Rx!relayVars) /\ [Tx!Next]_(Tx!relayVars)
<1>1. RelayStep("rx") /\ RelayStep("tx")
  BY EveryStepRelays DEF Dirs
<1>2. Source("rx") = "client" /\ Source("tx") = "upstream"
  BY DEF Source
<1>3. [Rx!Next]_(Rx!relayVars)
  BY <1>1, <1>2 DEF RelayStep, Broken, Rx!Next, Rx!relayVars,
     Rx!Send, Rx!End, Rx!Break, Rx!Deliver, Rx!Tell
<1>4. [Tx!Next]_(Tx!relayVars)
  BY <1>1, <1>2 DEF RelayStep, Broken, Tx!Next, Tx!relayVars,
     Tx!Send, Tx!End, Tx!Break, Tx!Deliver, Tx!Tell
<1> QED BY <1>3, <1>4

-----------------------------------------------------------------------------
\* The theorems.

\* Every buffer keeps within its window and holds only bytes that were sent.
THEOREM ForwardTypes == ForwardSpec => []ForwardTypeOK
<1>1. FInv => ForwardTypeOK
  BY DEF FInv, ControlTypes, FlowTypes, ForwardTypeOK
<1> QED BY <1>1, ForwardInvariant, PTL

\* The log of a forwarded connection is what passed through it, both ways: what
\* is logged was sent, what is delivered was logged, and a connection that
\* closes without a reset has logged and passed on everything.
THEOREM ForwardLogsTheRelay == ForwardSpec => []LogIsTheRelay
<1> QED BY ForwardInvariant, RelayedIsLogged, PTL

\* Each direction delivers its source's bytes in order and once, and an EOF only
\* after the last one, whatever the other direction does.
THEOREM ForwardRelaysBothWays == ForwardSpec => RelaysBothWays
<1> QED BY ForwardInvariant, RelaysInitially, RelayStepIsRelays, PTL
        DEF ForwardSpec, RelaysBothWays, Rx!Spec, Tx!Spec
=============================================================================
