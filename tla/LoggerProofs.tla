----------------------------- MODULE LoggerProofs ------------------------------
(***************************************************************************)
(* The Logger keeps index and captures in step for any connections, any    *)
(* sizes and any cap.  The argument follows one connection: its task is    *)
(* sequential, so what it still has to do says what it has done, as long   *)
(* as no write of its was refused; and once one was, the run has stopped   *)
(* and none of its later writes is granted.  The disk budget alone, which  *)
(* the Logger uses, comes first: it is kept for any number of tasks.       *)
(***************************************************************************)
EXTENDS Logger, FiniteSetTheorems, StreamLemmas

-----------------------------------------------------------------------------
\* The budget alone.  The argument is an accounting: every byte in disk_used was
\* either granted for good or belongs to a write that is about to give it back,
\* so a refund never takes what another write was granted.

\* With no cap nothing is charged and nothing stops.
NoCapNoStop ==
  max_run_bytes = 0 =>
    ~disk_stopped /\ \A t \in Tasks : call[t].at \in {"idle", "granted"}

LateMeansStopped == \A t \in Tasks : call[t].late => disk_stopped

BudgetInv ==
  /\ BudgetTypeOK
  /\ IsFiniteSet(Overcharge)
  /\ UsedIsGranted
  /\ CapHolds
  /\ NoCapNoStop
  /\ LateMeansStopped
  /\ LateCallsRefused
  /\ LimitAnnouncedOnce

-----------------------------------------------------------------------------
\* One write's overcharge is as large as the write.
LEMMA OneOvercharge ==
  ASSUME NEW t, NEW n \in Nat
  PROVE  /\ IsFiniteSet({t} \X (1 .. n))
         /\ Cardinality({t} \X (1 .. n)) = n
<1>1. IsFiniteSet({t}) /\ Cardinality({t}) = 1
  BY FS_Singleton
<1>2. IsFiniteSet(1 .. n) /\ Cardinality(1 .. n) = n
  BY FS_Interval
<1>3. /\ IsFiniteSet({t} \X (1 .. n))
      /\ Cardinality({t} \X (1 .. n)) = Cardinality({t}) * Cardinality(1 .. n)
  BY <1>1, <1>2, FS_Product
<1> QED BY <1>1, <1>2, <1>3

\* A step that moves one task from step to step, never into or out of
\* "refund", leaves the overcharges alone.
LEMMA OverchargeKept ==
  ASSUME NEW t \in Tasks,
         \A u \in Tasks \ {t} : call'[u] = call[u],
         call[t].at # "refund", call'[t].at # "refund"
  PROVE  Overcharge' = Overcharge
<1>1. Refunding' = Refunding
  BY DEF Refunding
<1>2. \A u \in Refunding : call'[u].n = call[u].n
  BY DEF Refunding
<1> QED BY <1>1, <1>2 DEF Overcharge

\* Charging past the cap adds the write's bytes to the overcharges.
LEMMA OverchargeGrows ==
  ASSUME NEW t \in Tasks,
         \A u \in Tasks \ {t} : call'[u] = call[u],
         call[t].at # "refund", call'[t].at = "refund", call'[t].n \in Nat,
         IsFiniteSet(Overcharge)
  PROVE  /\ IsFiniteSet(Overcharge')
         /\ Cardinality(Overcharge') = Cardinality(Overcharge) + call'[t].n
<1> DEFINE O == {t} \X (1 .. call'[t].n)
<1>1. Refunding' = Refunding \cup {t} /\ t \notin Refunding
  BY DEF Refunding
<1>2. \A u \in Refunding : call'[u].n = call[u].n
  BY DEF Refunding
<1>3. Overcharge' = Overcharge \cup O
  BY <1>1, <1>2 DEF Overcharge
<1>4. Overcharge \cap O = {}
  BY <1>1 DEF Overcharge
<1>5. IsFiniteSet(O) /\ Cardinality(O) = call'[t].n
  BY OneOvercharge
<1>6. Cardinality({}) = 0
  BY FS_EmptySet
<1>7. Cardinality(Overcharge) \in Nat
  BY FS_CardinalityType
<1> HIDE DEF O
<1>8. /\ IsFiniteSet(Overcharge \cup O)
      /\ Cardinality(Overcharge \cup O)
           = Cardinality(Overcharge) + Cardinality(O)
               - Cardinality(Overcharge \cap O)
  BY <1>5, FS_Union
<1> QED BY <1>3, <1>4, <1>5, <1>6, <1>7, <1>8

\* Giving them back takes exactly the write's bytes out again.
LEMMA OverchargeShrinks ==
  ASSUME NEW t \in Tasks,
         \A u \in Tasks \ {t} : call'[u] = call[u],
         call[t].at = "refund", call'[t].at # "refund", call[t].n \in Nat,
         IsFiniteSet(Overcharge)
  PROVE  /\ IsFiniteSet(Overcharge')
         /\ Cardinality(Overcharge) = Cardinality(Overcharge') + call[t].n
<1> DEFINE O == {t} \X (1 .. call[t].n)
<1>1. Refunding = Refunding' \cup {t} /\ t \notin Refunding'
  BY DEF Refunding
<1>2. \A u \in Refunding' : call'[u].n = call[u].n
  BY DEF Refunding
<1>3. Overcharge = Overcharge' \cup O
  BY <1>1, <1>2 DEF Overcharge
<1>4. Overcharge' \cap O = {}
  BY <1>1 DEF Overcharge
<1>5. IsFiniteSet(O) /\ Cardinality(O) = call[t].n
  BY OneOvercharge
<1>6. Cardinality({}) = 0
  BY FS_EmptySet
<1> HIDE DEF O
<1>7. IsFiniteSet(Overcharge') /\ Cardinality(Overcharge') \in Nat
  BY <1>3, FS_Subset, FS_CardinalityType
<1>8. Cardinality(Overcharge' \cup O)
        = Cardinality(Overcharge') + Cardinality(O)
            - Cardinality(Overcharge' \cap O)
  BY <1>5, <1>7, FS_Union
<1>9. Cardinality(Overcharge) = Cardinality(Overcharge' \cup O)
  BY <1>3
<1>10. Cardinality(Overcharge' \cap O) = 0
  BY <1>4, <1>6
<1>11. Cardinality(Overcharge) = Cardinality(Overcharge') + call[t].n
  BY <1>5, <1>7, <1>8, <1>9, <1>10
<1> QED BY <1>7, <1>11

-----------------------------------------------------------------------------
LEMMA BudgetInitially == BudgetInit => BudgetInv
<1> SUFFICES ASSUME BudgetInit PROVE BudgetInv
  OBVIOUS
<1>1. Overcharge = {}
  BY DEF BudgetInit, Overcharge, Refunding, Idle
<1>2. IsFiniteSet({}) /\ Cardinality({}) = 0
  BY FS_EmptySet
<1>3. BudgetTypeOK
  BY BudgetAssumption DEF BudgetInit, BudgetTypeOK, Idle, Steps
<1>4. UsedIsGranted
  BY <1>1, <1>2 DEF BudgetInit, UsedIsGranted
<1>5. CapHolds
  BY <1>3 DEF BudgetInit, CapHolds, BudgetTypeOK
<1>6. NoCapNoStop /\ LateMeansStopped /\ LateCallsRefused
  BY DEF BudgetInit, NoCapNoStop, LateMeansStopped, LateCallsRefused, Idle
<1> QED BY <1>1, <1>2, <1>3, <1>4, <1>5, <1>6
        DEF BudgetInit, BudgetInv, LimitAnnouncedOnce

LEMMA BudgetStep == BudgetInv /\ [BudgetNext]_budgetVars => BudgetInv'
<1>i. SUFFICES ASSUME BudgetInv, [BudgetNext]_budgetVars PROVE BudgetInv'
  OBVIOUS
<1>t. /\ max_run_bytes \in Nat /\ disk_used \in Nat /\ disk_stopped \in BOOLEAN
      /\ call \in [Tasks -> [at : Steps, n : Nat, late : BOOLEAN]]
      /\ admitted \in Nat /\ limit_lines \in Nat
  BY <1>i DEF BudgetInv, BudgetTypeOK
<1>u. /\ IsFiniteSet(Overcharge)
      /\ Cardinality(Overcharge) \in Nat
      /\ disk_used = admitted + Cardinality(Overcharge)
  BY <1>i, FS_CardinalityType DEF BudgetInv, UsedIsGranted
<1>c. max_run_bytes > 0 => admitted <= max_run_bytes
  BY <1>i DEF BudgetInv, CapHolds
<1>n. max_run_bytes = 0 =>
        ~disk_stopped /\ \A t \in Tasks : call[t].at \in {"idle", "granted"}
  BY <1>i DEF BudgetInv, NoCapNoStop
<1>l. \A t \in Tasks :
        call[t].late => disk_stopped /\ call[t].at \in {"idle", "load", "refused"}
  BY <1>i DEF BudgetInv, LateMeansStopped, LateCallsRefused
<1>o. limit_lines = IF disk_stopped THEN 1 ELSE 0
  BY <1>i DEF BudgetInv, LimitAnnouncedOnce
<1> USE DEF GoTo, Steps
<1>1. ASSUME NEW t \in Tasks, NEW n \in Sizes, BeginCharge(t, n)
      PROVE  BudgetInv'
  <2>1. /\ call[t].at = "idle"
        /\ call' = [call EXCEPT ![t] =
             [at |-> IF max_run_bytes = 0 THEN "granted" ELSE "load",
              n |-> n, late |-> disk_stopped]]
        /\ max_run_bytes' = max_run_bytes /\ disk_used' = disk_used
        /\ disk_stopped' = disk_stopped /\ admitted' = admitted
        /\ limit_lines' = limit_lines
    BY <1>1 DEF BeginCharge
  <2>2. n \in Nat
    BY BudgetAssumption
  <2>3. Overcharge' = Overcharge
    BY <1>t, <2>1, OverchargeKept
  <2>4. BudgetTypeOK'
    BY <1>t, <2>1, <2>2 DEF BudgetTypeOK
  <2>5. UsedIsGranted' /\ IsFiniteSet(Overcharge')
    BY <1>u, <2>1, <2>3 DEF UsedIsGranted
  <2>6. CapHolds' /\ LimitAnnouncedOnce'
    BY <1>c, <1>o, <2>1 DEF CapHolds, LimitAnnouncedOnce
  <2>7. NoCapNoStop'
    BY <1>t, <1>n, <2>1 DEF NoCapNoStop
  <2>8. LateMeansStopped' /\ LateCallsRefused'
    BY <1>t, <1>l, <1>n, <2>1 DEF LateMeansStopped, LateCallsRefused
  <2> QED BY <2>4, <2>5, <2>6, <2>7, <2>8 DEF BudgetInv
<1>2. ASSUME NEW t \in Tasks, Load(t)
      PROVE  BudgetInv'
  <2>1. /\ call[t].at = "load"
        /\ call' = [call EXCEPT ![t].at =
                      IF disk_stopped THEN "refused" ELSE "add"]
        /\ max_run_bytes' = max_run_bytes /\ disk_used' = disk_used
        /\ disk_stopped' = disk_stopped /\ admitted' = admitted
        /\ limit_lines' = limit_lines
    BY <1>2 DEF Load
  <2>3. Overcharge' = Overcharge
    BY <1>t, <2>1, OverchargeKept
  <2>4. BudgetTypeOK'
    BY <1>t, <2>1 DEF BudgetTypeOK
  <2>5. UsedIsGranted' /\ IsFiniteSet(Overcharge')
    BY <1>u, <2>1, <2>3 DEF UsedIsGranted
  <2>6. CapHolds' /\ LimitAnnouncedOnce'
    BY <1>c, <1>o, <2>1 DEF CapHolds, LimitAnnouncedOnce
  <2>7. NoCapNoStop'
    BY <1>t, <1>n, <2>1 DEF NoCapNoStop
  <2>8. LateMeansStopped' /\ LateCallsRefused'
    BY <1>t, <1>l, <2>1 DEF LateMeansStopped, LateCallsRefused
  <2> QED BY <2>4, <2>5, <2>6, <2>7, <2>8 DEF BudgetInv
<1>3. ASSUME NEW t \in Tasks, Add(t)
      PROVE  BudgetInv'
  <2>0. max_run_bytes > 0
    BY <1>3, <1>t, <1>n DEF Add
  <2>1. /\ call[t].at = "add" /\ disk_used' = disk_used + call[t].n
        /\ max_run_bytes' = max_run_bytes /\ disk_stopped' = disk_stopped
        /\ limit_lines' = limit_lines /\ call[t].n \in Nat
    BY <1>3, <1>t DEF Add
  <2>2. CASE disk_used + call[t].n > max_run_bytes
    <3>1. call' = [call EXCEPT ![t].at = "refund"] /\ admitted' = admitted
      <4>1. call' = [call EXCEPT ![t].at = "refund"]
        BY <1>3, <2>2 DEF Add
      <4>2. admitted' = admitted + 0
        BY <1>3, <2>2 DEF Add
      <4> QED BY <1>t, <4>1, <4>2
    <3>2. call'[t].n = call[t].n /\ call'[t].at = "refund"
      BY <1>t, <3>1
    <3>3. /\ IsFiniteSet(Overcharge')
          /\ Cardinality(Overcharge') = Cardinality(Overcharge) + call[t].n
      <4>1. \A u \in Tasks \ {t} : call'[u] = call[u]
        BY <1>t, <3>1
      <4> QED BY <1>u, <2>1, <3>2, <4>1, OverchargeGrows
    <3>4. BudgetTypeOK'
      BY <1>t, <2>1, <3>1 DEF BudgetTypeOK
    <3>5. UsedIsGranted'
      BY <1>t, <1>u, <2>1, <3>1, <3>3 DEF UsedIsGranted
    <3>6. CapHolds' /\ LimitAnnouncedOnce'
      BY <1>c, <1>o, <2>1, <3>1 DEF CapHolds, LimitAnnouncedOnce
    <3>7. NoCapNoStop'
      BY <1>t, <2>0, <2>1 DEF NoCapNoStop
    <3>8. LateMeansStopped' /\ LateCallsRefused'
      BY <1>t, <1>l, <2>1, <3>1 DEF LateMeansStopped, LateCallsRefused
    <3> QED BY <3>3, <3>4, <3>5, <3>6, <3>7, <3>8 DEF BudgetInv
  <2>3. CASE ~(disk_used + call[t].n > max_run_bytes)
    <3>1. /\ call' = [call EXCEPT ![t].at = "granted"]
          /\ admitted' = admitted + call[t].n
      BY <1>3, <1>t, <2>3 DEF Add
    <3>3. Overcharge' = Overcharge
      <4>1. \A u \in Tasks \ {t} : call'[u] = call[u]
        BY <1>t, <3>1
      <4>2. call[t].at # "refund" /\ call'[t].at # "refund"
        BY <1>t, <2>1, <3>1
      <4> QED BY <4>1, <4>2, OverchargeKept
    <3>4. BudgetTypeOK'
      BY <1>t, <2>1, <3>1 DEF BudgetTypeOK
    <3>5. UsedIsGranted' /\ IsFiniteSet(Overcharge')
      BY <1>t, <1>u, <2>1, <3>1, <3>3 DEF UsedIsGranted
    <3>6. CapHolds' /\ LimitAnnouncedOnce'
      BY <1>t, <1>u, <1>o, <2>1, <2>3, <3>1 DEF CapHolds, LimitAnnouncedOnce
    <3>7. NoCapNoStop'
      BY <1>t, <2>0, <2>1 DEF NoCapNoStop
    <3>8. LateMeansStopped' /\ LateCallsRefused'
      BY <1>t, <1>l, <2>1, <3>1 DEF LateMeansStopped, LateCallsRefused
    <3> QED BY <3>4, <3>5, <3>6, <3>7, <3>8 DEF BudgetInv
  <2> QED BY <2>2, <2>3
<1>4. ASSUME NEW t \in Tasks, Refund(t)
      PROVE  BudgetInv'
  <2>1. /\ call[t].at = "refund" /\ disk_used' = disk_used - call[t].n
        /\ call' = [call EXCEPT ![t].at = "stop"]
        /\ max_run_bytes' = max_run_bytes /\ disk_stopped' = disk_stopped
        /\ admitted' = admitted /\ limit_lines' = limit_lines
        /\ call[t].n \in Nat
    BY <1>4, <1>t DEF Refund
  <2>2. /\ IsFiniteSet(Overcharge')
        /\ Cardinality(Overcharge) = Cardinality(Overcharge') + call[t].n
    <3>1. \A u \in Tasks \ {t} : call'[u] = call[u]
      BY <1>t, <2>1
    <3>2. call'[t].at # "refund"
      BY <1>t, <2>1
    <3> QED BY <1>u, <2>1, <3>1, <3>2, OverchargeShrinks
  <2>3. Cardinality(Overcharge') \in Nat
    BY <2>2, FS_CardinalityType
  <2>4. UsedIsGranted' /\ disk_used' \in Nat
    BY <1>t, <1>u, <2>1, <2>2, <2>3 DEF UsedIsGranted
  <2>5. BudgetTypeOK'
    BY <1>t, <2>1, <2>4 DEF BudgetTypeOK
  <2>6. CapHolds' /\ LimitAnnouncedOnce'
    BY <1>c, <1>o, <2>1 DEF CapHolds, LimitAnnouncedOnce
  <2>7. NoCapNoStop'
    BY <1>t, <1>n, <2>1 DEF NoCapNoStop
  <2>8. LateMeansStopped' /\ LateCallsRefused'
    BY <1>t, <1>l, <2>1 DEF LateMeansStopped, LateCallsRefused
  <2> QED BY <2>2, <2>4, <2>5, <2>6, <2>7, <2>8 DEF BudgetInv
<1>5. ASSUME NEW t \in Tasks, Stop(t)
      PROVE  BudgetInv'
  <2>1. /\ call[t].at = "stop" /\ disk_stopped' = TRUE
        /\ limit_lines' = limit_lines + IF disk_stopped THEN 0 ELSE 1
        /\ call' = [call EXCEPT ![t].at = "refused"]
        /\ max_run_bytes' = max_run_bytes /\ disk_used' = disk_used
        /\ admitted' = admitted
    BY <1>5 DEF Stop
  <2>3. Overcharge' = Overcharge
    BY <1>t, <2>1, OverchargeKept
  <2>4. limit_lines' = 1
    BY <1>o, <2>1
  <2>5. BudgetTypeOK'
    BY <1>t, <2>1, <2>4 DEF BudgetTypeOK
  <2>6. UsedIsGranted' /\ IsFiniteSet(Overcharge')
    BY <1>u, <2>1, <2>3 DEF UsedIsGranted
  <2>7. CapHolds' /\ LimitAnnouncedOnce'
    BY <1>c, <2>1, <2>4 DEF CapHolds, LimitAnnouncedOnce
  <2>8. NoCapNoStop'
    BY <1>t, <1>n, <2>1 DEF NoCapNoStop
  <2>9. LateMeansStopped' /\ LateCallsRefused'
    BY <1>t, <1>l, <2>1 DEF LateMeansStopped, LateCallsRefused
  <2> QED BY <2>5, <2>6, <2>7, <2>8, <2>9 DEF BudgetInv
<1>6. ASSUME NEW t \in Tasks, EndCharge(t)
      PROVE  BudgetInv'
  <2>1. /\ call[t].at \in {"granted", "refused"}
        /\ call' = [call EXCEPT ![t] = [at |-> "idle", n |-> 0, late |-> FALSE]]
        /\ max_run_bytes' = max_run_bytes /\ disk_used' = disk_used
        /\ disk_stopped' = disk_stopped /\ admitted' = admitted
        /\ limit_lines' = limit_lines
    BY <1>6 DEF EndCharge, Idle
  <2>3. Overcharge' = Overcharge
    BY <1>t, <2>1, OverchargeKept
  <2>4. BudgetTypeOK'
    BY <1>t, <2>1 DEF BudgetTypeOK
  <2>5. UsedIsGranted' /\ IsFiniteSet(Overcharge')
    BY <1>u, <2>1, <2>3 DEF UsedIsGranted
  <2>6. CapHolds' /\ LimitAnnouncedOnce'
    BY <1>c, <1>o, <2>1 DEF CapHolds, LimitAnnouncedOnce
  <2>7. NoCapNoStop'
    BY <1>t, <1>n, <2>1 DEF NoCapNoStop
  <2>8. LateMeansStopped' /\ LateCallsRefused'
    BY <1>t, <1>l, <2>1 DEF LateMeansStopped, LateCallsRefused
  <2> QED BY <2>4, <2>5, <2>6, <2>7, <2>8 DEF BudgetInv
<1>7. ASSUME UNCHANGED budgetVars
      PROVE  BudgetInv'
  BY <1>i, <1>7 DEF budgetVars, BudgetInv, BudgetTypeOK, UsedIsGranted,
     CapHolds, NoCapNoStop, LateMeansStopped, LateCallsRefused,
     LimitAnnouncedOnce, Overcharge, Refunding
<1> QED BY <1>i, <1>1, <1>2, <1>3, <1>4, <1>5, <1>6, <1>7
        DEF BudgetNext, ChargeStep

LEMMA BudgetInvariant == BudgetSpec => []BudgetInv
BY BudgetInitially, BudgetStep, PTL DEF BudgetSpec

\* The atomics and the callers' places stay in their types; disk_used never
\* goes below zero.
THEOREM BudgetTypeCorrect == BudgetSpec => []BudgetTypeOK
BY BudgetInvariant, PTL DEF BudgetInv

\* No interleaving of charges gets a run more than --max-run-bytes.
THEOREM BudgetCapHolds == BudgetSpec => []CapHolds
BY BudgetInvariant, PTL DEF BudgetInv

\* Every byte in disk_used was granted or is about to be given back.
THEOREM BudgetAccounts == BudgetSpec => []UsedIsGranted
BY BudgetInvariant, PTL DEF BudgetInv

\* Once the run has stopped, no call that begins gets a byte.
THEOREM BudgetStopIsFinal == BudgetSpec => []LateCallsRefused
BY BudgetInvariant, PTL DEF BudgetInv

\* However many tasks find the cap exceeded at once, LIMIT is printed once.
THEOREM BudgetAnnouncesOnce == BudgetSpec => []LimitAnnouncedOnce
BY BudgetInvariant, PTL DEF BudgetInv

-----------------------------------------------------------------------------
\* The invariant.

\* The streams of a map are as the options have it.
StreamOk(o, s) ==
  /\ s \in OpenStreams /\ s.st.limits = o.limits
  /\ Len(s.buf) <= BufCap /\ Len(s.st.tail) <= o.limits.tail

MapOk(o, m) == DOMAIN m \subseteq Streams /\ \A k \in DOMAIN m : StreamOk(o, m[k])

LoggerTypes ==
  /\ opts \in OptionChoices
  /\ life \in [Tasks -> {"new", "open", "closed", "dead"}]
  /\ todo \in [Tasks -> Seq(Items)]
  /\ sent \in [Streams -> Nat]
  /\ MapOk(opts, raw)
  /\ head_file \in [Streams -> Seq(Nat)]
  /\ tail_file \in [Streams -> Seq(Nat)]
  /\ jsonl \in Seq(Events)
  /\ \A j \in 1 .. Len(jsonl) : jsonl[j].event = "data" => jsonl[j].dir \in Dirs
  /\ main \in {"running", "flushing", "stopping", "exited"}
  /\ MapOk(opts, drained)
  /\ killed \in BOOLEAN
  /\ issued \in [Tasks -> Seq(Events)]
  /\ reached \in [Streams -> Nat]
  /\ unopened \subseteq Streams

\* A refusal means that the run has stopped.  The budget's own invariant holds
\* until a kill, which forgets the refunds that were under way.
Budgeted ==
  /\ BudgetTypeOK /\ CapHolds
  /\ \A c \in Tasks : call[c].at = "refused" => disk_stopped
  /\ Alive => BudgetInv

\* A task at this place of charge will not be granted anything again.
CutOff(stopped, place) == stopped /\ (place.at = "idle" \/ place.late)

IsEvent(item, kind, c) ==
  item.what = "event" /\ item.ev.event = kind /\ item.ev.conn = c

\* What the task of connection c may still have to do, by its life.
OpenQueue(q, c, s) ==
  \/ q = <<>>
  \/ Len(q) = 1 /\ q[1] = EventItem(Event("open", c, "none", 0))
  \/ \E dir \in Dirs :
       Len(q) = 1 /\ q[1] = EventItem(Event("data", c, dir, s[<<c, dir>>]))
  \/ \E dir \in Dirs, n \in Chunks :
       /\ Len(q) = 2 /\ n <= s[<<c, dir>>]
       /\ q[1] = RawItem(dir, Run(s[<<c, dir>>] - n, n))
       /\ q[2] = EventItem(Event("data", c, dir, s[<<c, dir>>]))

ClosedQueue(q, c) ==
  \/ q = <<>>
  \/ Len(q) = 1 /\ IsEvent(q[1], "notice", c)
  \/ Len(q) = 2 /\ q[1] = FinishItem /\ IsEvent(q[2], "close", c)
  \/ /\ Len(q) > 0 /\ IsEvent(q[Len(q)], "close", c)
     /\ \A i \in 1 .. Len(q) - 1 : IsEvent(q[i], "truncated", c)

QueueOf(l, q, c, s) ==
  /\ l \in {"new", "dead"} => q = <<>>
  /\ l = "new" => \A dir \in Dirs : s[<<c, dir>>] = 0
  /\ l = "open" => OpenQueue(q, c, s)
  /\ l = "closed" => ClosedQueue(q, c)

Queues == \A c \in Tasks : QueueOf(life[c], todo[c], c, sent)

AtEvent(q) == q # <<>> /\ q[1].what = "event"
AtRaw(q) == q # <<>> /\ q[1].what = "raw"
AtFinish(q) == q # <<>> /\ q[1].what = "finish"

\* A charge is for the item at hand, whose sink is on.
ChargeFor(o, place, q) ==
  place.at # "idle" =>
    \/ AtEvent(q) /\ o.jsonl /\ place.n = EventSize
    \/ AtRaw(q) /\ o.raw /\ place.n = Len(q[1].data)

CallsInStep == \A c \in Tasks : ChargeFor(opts, call[c], todo[c])

\* Bytes of a direction that wait for raw_write.
Waiting(q, dir) == IF AtRaw(q) /\ q[1].dir = dir THEN Len(q[1].data) ELSE 0

\* A Stream saw all that was sent, except what waits.
ReachOf(c, q, cut, snt, rch, lost) ==
  \A dir \in Dirs :
    LET k == <<c, dir>> IN
    /\ rch[k] + Waiting(q, dir) <= snt[k]
    /\ k \in lost \/ cut \/ rch[k] + Waiting(q, dir) = snt[k]

Reaching ==
  Alive /\ opts.raw => \A c \in Tasks :
    ReachOf(c, todo[c], CutOff(disk_stopped, call[c]), sent, reached, unopened)

\* The index up to its i-th line: how many lines are c's.
CountOf(lines, c, i) == Cardinality({j \in 1 .. i : lines[j].conn = c})

\* An event that is being charged was issued and is not in the index yet; all
\* earlier ones are.
InStep(cut, place, q, issue, w) ==
  /\ place.at # "idle" /\ AtEvent(q) =>
       /\ Len(issue) > 0 /\ issue[Len(issue)] = q[1].ev
       /\ w <= Len(issue) - 1 /\ (cut \/ w = Len(issue) - 1)
  /\ ~(place.at # "idle" /\ AtEvent(q)) =>
       w <= Len(issue) /\ (cut \/ w = Len(issue))

IndexInStep ==
  Alive => \A c \in Tasks :
    InStep(CutOff(disk_stopped, call[c]), call[c], todo[c], issued[c],
           CountOf(jsonl, c, Len(jsonl)))

\* The streams of c were not finished yet.
Unfinished(l, q) == l \in {"new", "open"} \/ (l = "closed" /\ AtFinish(q))

\* An open stream holds all that reached it, from the first byte on.
StreamWhole(s, file, tail, n) ==
  /\ Shape(s.st) /\ s.st.total = n
  /\ file \o s.buf = Span(1, s.st.head_written)
  /\ tail = <<>>

Gapless(file, tail, n) ==
  /\ file = Span(1, Len(file))
  /\ tail = Span(n - Len(tail) + 1, n)

WholeAt(m, l, q, k, file, tail, n) ==
  /\ k \in DOMAIN m => StreamWhole(m[k], file, tail, n)
  /\ k \notin DOMAIN m => Gapless(file, tail, n)
  /\ k \notin DOMAIN m /\ Unfinished(l, q) => n = 0 /\ file = <<>> /\ tail = <<>>

WholeOf(c, l, q, m, heads, tails, rch, lost) ==
  \A dir \in Dirs :
    LET k == <<c, dir>> IN
    k \notin lost => WholeAt(m, l, q, k, heads[k], tails[k], rch[k])

StreamsWhole ==
  main = "running" /\ Alive => \A c \in Tasks :
    WholeOf(c, life[c], todo[c], raw, head_file, tail_file, reached, unopened)

\* A gap of stream k, of which n bytes were seen, is in the index, or about to
\* be.
ReportedIn(lines, k, n, before) ==
  \E i \in 1 .. before - 1 : lines[i] = Event("truncated", k[1], k[2], n)

ToReport(q, k, n) ==
  \E i \in 1 .. Len(q) : q[i] = EventItem(Event("truncated", k[1], k[2], n))

\* The close line of c is still to come.
Closing(l, q) == l = "closed" /\ q # <<>> /\ ~AtFinish(q)

\* (But for a ring that got no tail file, of which nothing tells.)
GapsOf(c, q, heads, tails, rch, lost, ut, lines) ==
  \A dir \in Dirs :
    LET k == <<c, dir>> IN
    k \notin lost /\ rch[k] - Len(heads[k]) - Len(tails[k]) > ut[k]
      => \/ ReportedIn(lines, k, rch[k], Len(lines) + 1)
         \/ ToReport(q, k, rch[k])

GapsReported ==
  main = "running" /\ Alive /\ opts.raw /\ opts.jsonl => \A c \in Tasks :
    Closing(life[c], todo[c]) /\ ~CutOff(disk_stopped, call[c]) =>
      GapsOf(c, todo[c], head_file, tail_file, reached, unopened, untailed, jsonl)

\* After its close line a connection has nothing left to do.
CloseIsLast ==
  \A j \in 1 .. Len(jsonl) : jsonl[j].event = "close" =>
    life[jsonl[j].conn] = "closed" /\ todo[jsonl[j].conn] = <<>>

\* What was granted and is not written yet.
GrantedTo(calls) ==
  [t \in Tasks |-> IF calls[t].at = "granted" THEN calls[t].n ELSE 0]

SpaceIsGranted ==
  max_run_bytes > 0 =>
    Len(jsonl) * EventSize + Total(Held) + Total(GrantedTo(call)) <= admitted

\* The marks of the calls at hand, and of the rings that got no file.
Marks == first \in [Tasks -> BOOLEAN] /\ untailed \in [Streams -> Nat]

LInv ==
  /\ LoggerTypes
  /\ Budgeted
  /\ Queues
  /\ CallsInStep
  /\ Reaching
  /\ EventsHaveBytes
  /\ IndexInStep
  /\ EventsArePrefix
  /\ StreamsWhole
  /\ RawIsGapless
  /\ GapsReported
  /\ CloseIsLast
  /\ ClosedMeansReported
  /\ SpaceIsGranted

-----------------------------------------------------------------------------
\* Sums.

Cells(f) == UNION {{k} \X (1 .. f[k]) : k \in DOMAIN f}

LEMMA CellsOf ==
  ASSUME NEW S, NEW f \in [S -> Nat]
  PROVE  \A x : x \in Cells(f) <=> \E k \in S : \E i \in 1 .. f[k] : x = <<k, i>>
BY DEF Cells

LEMMA TotalType ==
  ASSUME NEW S, IsFiniteSet(S), NEW f \in [S -> Nat]
  PROVE  IsFiniteSet(Cells(f)) /\ Total(f) \in Nat
<1> DEFINE C == [k \in S |-> {k} \X (1 .. f[k])]
           T == {C[k] : k \in S}
<1>1. C \in Surjection(S, T)
  BY DEF Surjection
<1>2. \A k \in S : IsFiniteSet(C[k])
  <2> TAKE k \in S
  <2>1. IsFiniteSet({k} \X (1 .. f[k]))
    BY OneOvercharge
  <2> QED BY <2>1
<1>3. Cells(f) = UNION T
  BY DEF Cells
<1>4. \A x \in T : IsFiniteSet(x)
  BY <1>2
<1> HIDE DEF C, T
<1>5. IsFiniteSet(T)
  BY <1>1, FS_Surjection
<1>6. IsFiniteSet(Cells(f))
  BY <1>3, <1>4, <1>5, FS_UNION
<1>7. Total(f) = Cardinality(Cells(f))
  BY DEF Total, Cells
<1> QED BY <1>6, <1>7, FS_CardinalityType

\* A sum is monotone.
LEMMA TotalLe ==
  ASSUME NEW S, IsFiniteSet(S), NEW f \in [S -> Nat], NEW g \in [S -> Nat],
         \A k \in S : g[k] <= f[k]
  PROVE  Total(g) <= Total(f)
<1>1. IsFiniteSet(Cells(f))
  BY TotalType
<1>2. Cells(g) \subseteq Cells(f)
  <2>1. \A k \in S : \A i \in 1 .. g[k] : i \in 1 .. f[k]
    OBVIOUS
  <2> QED BY <2>1, CellsOf
<1>3. Cardinality(Cells(g)) <= Cardinality(Cells(f))
  BY <1>1, <1>2, FS_Subset
<1> QED BY <1>3 DEF Total, Cells

\* A summand that grows by at most n.
LEMMA TotalGrow ==
  ASSUME NEW S, IsFiniteSet(S), NEW f \in [S -> Nat], NEW g \in [S -> Nat],
         NEW s \in S, NEW n \in Nat, g[s] <= f[s] + n,
         \A k \in S \ {s} : g[k] <= f[k]
  PROVE  Total(g) <= Total(f) + n
<1> DEFINE m == f[s]
           I == m + 1 .. m + n
           N == {s} \X I
<1>1. IsFiniteSet(Cells(f)) /\ IsFiniteSet(Cells(g))
  BY TotalType
<1>m. m \in Nat
  OBVIOUS
<1>2. IsFiniteSet(I) /\ Cardinality(I) = n
  <2> HIDE DEF m
  <2>1. m + 1 \in Int /\ m + n \in Int
    BY <1>m
  <2>2. /\ IsFiniteSet(m + 1 .. m + n)
        /\ Cardinality(m + 1 .. m + n)
             = IF m + 1 > m + n THEN 0 ELSE (m + n) - (m + 1) + 1
    BY <2>1, FS_Interval
  <2> QED BY <1>m, <2>2
<1>3. Cells(g) \subseteq Cells(f) \cup N
  <2>1. \A k \in S \ {s} : \A i \in 1 .. g[k] : i \in 1 .. f[k]
    OBVIOUS
  <2>2. \A i \in 1 .. g[s] : i \in 1 .. f[s] \/ i \in I
    OBVIOUS
  <2>3. \A k \in S : \A i \in 1 .. g[k] :
          <<k, i>> \in Cells(f) \/ <<k, i>> \in N
    <3> TAKE k \in S
    <3> TAKE i \in 1 .. g[k]
    <3> HIDE DEF I
    <3>1. i \in 1 .. f[k] \/ (k = s /\ i \in I)
      BY <2>1, <2>2
    <3> QED BY <3>1, CellsOf
  <2> HIDE DEF N
  <2> QED BY <2>3, CellsOf
<1> HIDE DEF I
<1>4. IsFiniteSet({s}) /\ Cardinality({s}) = 1
  BY FS_Singleton
<1>5. IsFiniteSet(N) /\ Cardinality(N) = Cardinality({s}) * Cardinality(I)
  BY <1>2, <1>4, FS_Product
<1>6. Cardinality(N) = n
  BY <1>2, <1>4, <1>5
<1> HIDE DEF N
<1>7. /\ IsFiniteSet(Cells(f) \cup N)
      /\ Cardinality(Cells(f) \cup N)
           = Cardinality(Cells(f)) + Cardinality(N) - Cardinality(Cells(f) \cap N)
  BY <1>1, <1>5, FS_Union
<1>8. IsFiniteSet(Cells(f) \cap N)
  BY <1>1, FS_Subset
<1>9. /\ Cardinality(Cells(f) \cap N) \in Nat /\ Cardinality(Cells(f)) \in Nat
      /\ Cardinality(Cells(g)) \in Nat
  BY <1>1, <1>8, FS_CardinalityType
<1>10. Cardinality(Cells(g)) <= Cardinality(Cells(f) \cup N)
  BY <1>3, <1>7, FS_Subset
<1>11. Cardinality(Cells(g)) <= Cardinality(Cells(f)) + n
  BY <1>6, <1>7, <1>9, <1>10
<1> QED BY <1>11 DEF Total, Cells

\* A summand that is gone.
LEMMA TotalDrop ==
  ASSUME NEW S, IsFiniteSet(S), NEW f \in [S -> Nat], NEW g \in [S -> Nat],
         NEW s \in S, g[s] = 0, \A k \in S \ {s} : g[k] = f[k]
  PROVE  Total(f) = Total(g) + f[s]
<1> DEFINE N == {s} \X (1 .. f[s])
<1>1. IsFiniteSet(Cells(f)) /\ IsFiniteSet(Cells(g))
  BY TotalType
<1>2. IsFiniteSet(N) /\ Cardinality(N) = f[s]
  BY OneOvercharge
<1>3. Cells(f) = Cells(g) \cup N
  <2>1. \A k \in S : \A i \in 1 .. f[k] : <<k, i>> \in Cells(g) \/ <<k, i>> \in N
    BY CellsOf
  <2>2. \A k \in S : \A i \in 1 .. g[k] : k # s
    OBVIOUS
  <2>3. Cells(g) \subseteq Cells(f)
    BY <2>2, CellsOf
  <2>4. N \subseteq Cells(f)
    BY CellsOf
  <2> HIDE DEF N
  <2>5. Cells(f) \subseteq Cells(g) \cup N
    BY <2>1, CellsOf
  <2> QED BY <2>3, <2>4, <2>5
<1>4. Cells(g) \cap N = {}
  <2>1. \A k \in S : \A i \in 1 .. g[k] : <<k, i>> \notin N
    OBVIOUS
  <2> HIDE DEF N
  <2> QED BY <2>1, CellsOf
<1> HIDE DEF N
<1>5. Cardinality(Cells(g) \cup N)
        = Cardinality(Cells(g)) + Cardinality(N) - Cardinality(Cells(g) \cap N)
  BY <1>1, <1>2, FS_Union
<1>6. Cardinality(Cells(g) \cap N) = 0
  BY <1>4, FS_EmptySet
<1>7. Cardinality(Cells(g)) \in Nat /\ f[s] \in Nat
  BY <1>1, FS_CardinalityType
<1>8. Cardinality(Cells(f)) = Cardinality(Cells(g)) + f[s]
  BY <1>2, <1>3, <1>5, <1>6, <1>7
<1> QED BY <1>8 DEF Total, Cells

LEMMA StreamsFinite == IsFiniteSet(Streams)
<1>1. IsFiniteSet({"rx"}) /\ IsFiniteSet({"tx"})
  BY FS_Singleton
<1>2. IsFiniteSet({"rx"} \cup {"tx"})
  BY <1>1, FS_Union
<1>3. Dirs = {"rx"} \cup {"tx"}
  BY DEF Dirs
<1> QED BY <1>2, <1>3, BudgetAssumption, FS_Product DEF Streams

\* The lines of one connection, when the index gets one more.
LEMMA CountAppend ==
  ASSUME NEW lines \in Seq(Events), NEW e \in Events, NEW c
  PROVE  /\ CountOf(Append(lines, e), c, Len(Append(lines, e)))
              = CountOf(lines, c, Len(lines)) + (IF e.conn = c THEN 1 ELSE 0)
         /\ \A i \in 1 .. Len(lines) :
              CountOf(Append(lines, e), c, i) = CountOf(lines, c, i)
<1> DEFINE more == Append(lines, e)
           n == Len(lines)
           J == {j \in 1 .. n : lines[j].conn = c}
           K == {j \in 1 .. n + 1 : more[j].conn = c}
<1>1. /\ n \in Nat /\ Len(more) = n + 1 /\ more[n + 1] = e
      /\ \A i \in 1 .. n : more[i] = lines[i]
  BY AppendProperties, LenProperties
<1>2. \A i \in 1 .. n : CountOf(more, c, i) = CountOf(lines, c, i)
  <2> TAKE i \in 1 .. n
  <2> HIDE DEF more
  <2>1. {j \in 1 .. i : more[j].conn = c} = {j \in 1 .. i : lines[j].conn = c}
    BY <1>1
  <2> QED BY <2>1 DEF CountOf
<1> HIDE DEF more, n
<1>3. K = IF e.conn = c THEN J \cup {n + 1} ELSE J
  BY <1>1
<1>4. IsFiniteSet(1 .. n)
  BY <1>1, FS_Interval
<1>5. IsFiniteSet(J) /\ n + 1 \notin J
  BY <1>1, <1>4, FS_Subset
<1> HIDE DEF J, K
<1>6. Cardinality(J \cup {n + 1}) = Cardinality(J) + 1
  BY <1>5, FS_AddElement
<1>7. Cardinality(J) \in Nat
  BY <1>5, FS_CardinalityType
<1>8. Cardinality(K) = Cardinality(J) + (IF e.conn = c THEN 1 ELSE 0)
  BY <1>3, <1>6, <1>7
<1>9. /\ CountOf(more, c, Len(more)) = Cardinality(K)
      /\ CountOf(lines, c, n) = Cardinality(J)
  BY <1>1 DEF CountOf, J, K
<1> QED BY <1>2, <1>8, <1>9 DEF more, n

LEMMA CountType ==
  ASSUME NEW lines \in Seq(Events), NEW c, NEW i \in 0 .. Len(lines)
  PROVE  CountOf(lines, c, i) \in Nat
<1>1. IsFiniteSet(1 .. i)
  BY LenProperties, FS_Interval
<1>2. IsFiniteSet({j \in 1 .. i : lines[j].conn = c})
  BY <1>1, FS_Subset
<1> QED BY <1>2, FS_CardinalityType DEF CountOf

-----------------------------------------------------------------------------
\* What a task may have to do.

Lives == {"new", "open", "closed", "dead"}

LEMMA QueueHead ==
  ASSUME NEW S, NEW q \in Seq(S), q # <<>>
  PROVE  /\ Head(q) = q[1] /\ q[1] \in S /\ Len(q) \in Nat \ {0}
         /\ Tail(q) \in Seq(S) /\ Len(Tail(q)) = Len(q) - 1
         /\ \A i \in 1 .. Len(q) - 1 : Tail(q)[i] = q[i + 1]
<1>1. Len(q) \in Nat \ {0}
  BY EmptySeq
<1>2. Head(q) = q[1]
  BY <1>1
<1>3. q[1] \in S
  BY <1>1, ElementOfSeq
<1> QED BY <1>1, <1>2, <1>3, HeadTailProperties

LEMMA OneIsBefore == \A n \in Nat \ {0} : n # 1 => 1 \in 1 .. n - 1
OBVIOUS

\* The bytes at the head of a queue are the last ones sent.
LastSent(q, c, s) ==
  \E dir \in Dirs, n \in Chunks :
    n <= s[<<c, dir>>] /\ q[1].dir = dir /\ q[1].data = Run(s[<<c, dir>>] - n, n)

LEMMA QueueRaw ==
  ASSUME NEW l \in Lives, NEW q \in Seq(Items), NEW c \in Tasks, NEW s,
         QueueOf(l, q, c, s), AtRaw(q)
  PROVE  l = "open" /\ LastSent(q, c, s)
<1>1. q # <<>> /\ q[1].what = "raw"
  BY DEF AtRaw
<1>2. Len(q) \in Nat \ {0}
  BY <1>1, QueueHead
<1>3. ~ClosedQueue(q, c)
  <2>1. FinishItem.what # "raw"
    BY DEF FinishItem
  <2>2. \A kind : ~IsEvent(q[1], kind, c)
    BY <1>1 DEF IsEvent
  <2>3. ~(Len(q) > 0 /\ IsEvent(q[Len(q)], "close", c)
          /\ \A i \in 1 .. Len(q) - 1 : IsEvent(q[i], "truncated", c))
    <3>1. CASE Len(q) = 1
      BY <3>1, <2>2
    <3>2. CASE Len(q) # 1
      <4>1. 1 \in 1 .. Len(q) - 1
        BY <1>2, <3>2, OneIsBefore
      <4> QED BY <4>1, <2>2
    <3> QED BY <3>1, <3>2
  <2> QED BY <1>1, <2>1, <2>2, <2>3, Zenon DEF ClosedQueue
<1>4. l = "open" /\ OpenQueue(q, c, s)
  BY <1>1, <1>3 DEF QueueOf, Lives
<1>5. \A ev : EventItem(ev).what # "raw"
  BY DEF EventItem
<1>6. PICK dir \in Dirs, n \in Chunks :
        n <= s[<<c, dir>>] /\ q[1] = RawItem(dir, Run(s[<<c, dir>>] - n, n))
  BY <1>1, <1>4, <1>5, Zenon DEF OpenQueue
<1>7. q[1].dir = dir /\ q[1].data = Run(s[<<c, dir>>] - n, n)
  BY <1>6 DEF RawItem
<1> QED BY <1>4, <1>6, <1>7 DEF LastSent

LEMMA QueueFinish ==
  ASSUME NEW l \in Lives, NEW q \in Seq(Items), NEW c \in Tasks, NEW s,
         QueueOf(l, q, c, s), AtFinish(q)
  PROVE  l = "closed" /\ Len(q) = 2 /\ IsEvent(q[2], "close", c)
<1>1. q # <<>> /\ q[1].what = "finish"
  BY DEF AtFinish
<1>2. Len(q) \in Nat \ {0}
  BY <1>1, QueueHead
<1>3. /\ \A ev : EventItem(ev).what # "finish"
      /\ \A dir, data : RawItem(dir, data).what # "finish"
  BY DEF EventItem, RawItem
<1>4. ~OpenQueue(q, c, s)
  BY <1>1, <1>3, Zenon DEF OpenQueue
<1>5. l = "closed" /\ ClosedQueue(q, c)
  BY <1>1, <1>4 DEF QueueOf, Lives
<1>6. \A kind : ~IsEvent(q[1], kind, c)
  BY <1>1 DEF IsEvent
<1>7. ~(Len(q) > 0 /\ IsEvent(q[Len(q)], "close", c)
        /\ \A i \in 1 .. Len(q) - 1 : IsEvent(q[i], "truncated", c))
  <2>1. CASE Len(q) = 1
    BY <2>1, <1>6
  <2>2. CASE Len(q) # 1
    <3>1. 1 \in 1 .. Len(q) - 1
      BY <1>2, <2>2, OneIsBefore
    <3> QED BY <3>1, <1>6
  <2> QED BY <2>1, <2>2
<1> QED BY <1>1, <1>5, <1>6, <1>7, Zenon DEF ClosedQueue

\* The event at the head of a queue is the connection's; a close line is its
\* last one, and a data line is about all that was sent.
LEMMA QueueEvent ==
  ASSUME NEW l \in Lives, NEW q \in Seq(Items), NEW c \in Tasks, NEW s,
         QueueOf(l, q, c, s), AtEvent(q)
  PROVE  /\ q[1].ev \in Events /\ q[1].ev.conn = c
         /\ q[1].ev.event = "close" => l = "closed" /\ Len(q) = 1
         /\ q[1].ev.event = "data" =>
              q[1].ev.dir \in Dirs /\ q[1].ev.upto = s[<<c, q[1].ev.dir>>]
<1>1. q # <<>> /\ q[1].what = "event"
  BY DEF AtEvent
<1>2. Len(q) \in Nat \ {0} /\ q[1] \in Items
  BY <1>1, QueueHead
<1>3. q[1].ev \in Events
  BY <1>1, <1>2 DEF Items, FinishItem
<1>4. CASE l = "open" /\ OpenQueue(q, c, s)
  <2>1. \A dir, data : RawItem(dir, data).what # "event"
    BY DEF RawItem
  <2>2. \/ q[1] = EventItem(Event("open", c, "none", 0))
        \/ \E dir \in Dirs : q[1] = EventItem(Event("data", c, dir, s[<<c, dir>>]))
    BY <1>1, <1>4, <2>1, Zenon DEF OpenQueue
  <2>3. CASE q[1] = EventItem(Event("open", c, "none", 0))
    BY <1>3, <2>3 DEF EventItem, Event
  <2>4. ASSUME NEW dir \in Dirs,
               q[1] = EventItem(Event("data", c, dir, s[<<c, dir>>]))
        PROVE  /\ q[1].ev.conn = c /\ q[1].ev.event = "data"
               /\ q[1].ev.dir = dir /\ q[1].ev.upto = s[<<c, dir>>]
    BY <2>4 DEF EventItem, Event
  <2> QED BY <1>3, <2>2, <2>3, <2>4
<1>5. CASE l = "closed" /\ ClosedQueue(q, c)
  <2>1. FinishItem.what # "event"
    BY DEF FinishItem
  <2>2. \/ IsEvent(q[1], "notice", c)
        \/ /\ Len(q) > 0 /\ IsEvent(q[Len(q)], "close", c)
           /\ \A i \in 1 .. Len(q) - 1 : IsEvent(q[i], "truncated", c)
    BY <1>1, <1>5, <2>1, Zenon DEF ClosedQueue
  <2>3. \/ IsEvent(q[1], "notice", c) \/ IsEvent(q[1], "truncated", c)
        \/ Len(q) = 1 /\ IsEvent(q[1], "close", c)
    <3>1. CASE Len(q) = 1
      BY <2>2, <3>1
    <3>2. CASE Len(q) # 1
      <4>1. 1 \in 1 .. Len(q) - 1
        BY <1>2, <3>2, OneIsBefore
      <4> QED BY <2>2, <4>1
    <3> QED BY <3>1, <3>2
  <2> QED BY <1>3, <1>5, <2>3 DEF IsEvent
<1> QED BY <1>1, <1>4, <1>5 DEF QueueOf, Lives

\* What is left when an item is done: never bytes, never a finish.
LEMMA QueueTail ==
  ASSUME NEW l \in Lives, NEW q \in Seq(Items), NEW c \in Tasks, NEW s,
         QueueOf(l, q, c, s), AtEvent(q) \/ AtRaw(q)
  PROVE  /\ QueueOf(l, Tail(q), c, s)
         /\ ~AtRaw(Tail(q)) /\ ~AtFinish(Tail(q))
<1> DEFINE r == Tail(q)
<1>1. q # <<>> /\ q[1].what \in {"event", "raw"}
  BY DEF AtEvent, AtRaw
<1>2. /\ Len(q) \in Nat \ {0} /\ Len(r) = Len(q) - 1 /\ r \in Seq(Items)
      /\ \A i \in 1 .. Len(q) - 1 : r[i] = q[i + 1]
  BY <1>1, QueueHead
<1> HIDE DEF r
<1>3. r = <<>> <=> Len(q) = 1
  BY <1>2, EmptySeq
<1>4. CASE r = <<>>
  BY <1>1, <1>4 DEF QueueOf, OpenQueue, ClosedQueue, AtRaw, AtFinish, r
<1>5. CASE r # <<>>
  <2>1. Len(q) # 1
    BY <1>3, <1>5
  <2>2. CASE l = "open" /\ OpenQueue(q, c, s)
    <3>1. PICK dir \in Dirs :
            /\ Len(q) = 2
            /\ q[2] = EventItem(Event("data", c, dir, s[<<c, dir>>]))
      BY <1>1, <2>1, <2>2, Zenon DEF OpenQueue
    <3>2. Len(r) = 1 /\ r[1] = EventItem(Event("data", c, dir, s[<<c, dir>>]))
      BY <1>2, <3>1
    <3>3. r[1].what = "event"
      BY <3>2 DEF EventItem
    <3>4. OpenQueue(r, c, s)
      BY <3>2 DEF OpenQueue
    <3> QED BY <2>2, <3>3, <3>4 DEF QueueOf, AtRaw, AtFinish, r
  <2>3. CASE l = "closed" /\ ClosedQueue(q, c)
    <3>1. q[1] # FinishItem
      BY <1>1 DEF FinishItem
    <3>2. /\ IsEvent(q[Len(q)], "close", c)
          /\ \A i \in 1 .. Len(q) - 1 : IsEvent(q[i], "truncated", c)
      BY <1>1, <2>1, <2>3, <3>1, Zenon DEF ClosedQueue
    <3> DEFINE m == Len(q)
    <3>m. m \in Nat /\ m > 1 /\ Len(r) = m - 1
      BY <1>2, <2>1
    <3>3. IsEvent(r[Len(r)], "close", c)
      BY <1>2, <3>2, <3>m
    <3>4. \A i \in 1 .. Len(r) - 1 : IsEvent(r[i], "truncated", c)
      <4> TAKE i \in 1 .. Len(r) - 1
      <4> HIDE DEF m
      <4>1. i + 1 \in 1 .. m - 1 /\ i \in 1 .. m - 1
        BY <3>m
      <4> QED BY <1>2, <3>2, <4>1 DEF m
    <3>5. ClosedQueue(r, c)
      BY <3>3, <3>4, <3>m DEF ClosedQueue
    <3>6. r[1].what = "event"
      <4>1. CASE Len(r) = 1
        BY <3>3, <4>1 DEF IsEvent
      <4>2. CASE Len(r) # 1
        <5>1. 1 \in 1 .. Len(r) - 1
          BY <3>m, <4>2
        <5> QED BY <3>4, <5>1 DEF IsEvent
      <4> QED BY <4>1, <4>2
    <3> QED BY <2>3, <3>5, <3>6 DEF QueueOf, AtRaw, AtFinish, r
  <2> QED BY <1>1, <2>2, <2>3 DEF QueueOf, Lives
<1> QED BY <1>4, <1>5 DEF r

-----------------------------------------------------------------------------
\* Streams.

\* A write of anything keeps a Stream's fields and its ring in bounds, and
\* makes no bytes.
LEMMA WriteTypes ==
  ASSUME NEW s \in StreamType, NEW data \in Seq(Nat),
         Len(s.tail) <= s.limits.tail
  PROVE  LET t == Write(s, data) IN
         /\ t \in StreamType /\ t.limits = s.limits
         /\ HeadPart(s, data) \in Seq(Nat)
         /\ Len(t.tail) <= s.limits.tail
         /\ Len(HeadPart(s, data)) + Len(t.tail) <= Len(s.tail) + Len(data)
<1> DEFINE part == HeadPart(s, data)
           rest == RingPart(s, data)
           t == Write(s, data)
           cap == s.limits.tail
           n == Len(data)
           T == Len(s.tail)
<1>0. /\ s.limits \in Limits /\ s.head_written \in Nat /\ s.tail \in Seq(Nat)
      /\ s.total \in Nat /\ s.dropped \in Nat /\ s.truncating \in BOOLEAN
      /\ s.limits.head \in Nat /\ cap \in Nat
  BY DEF StreamType, Limits
<1>1. n \in Nat /\ T \in Nat
  BY <1>0, LenProperties
<1>2. part \in Seq(Nat) /\ Len(part) <= n
  <2>1. CASE Unlimited(s.limits)
    BY <1>1, <2>1 DEF HeadPart
  <2>2. CASE ~Unlimited(s.limits)
    <3> DEFINE m == Least(Room(s), n)
    <3>1. m \in 0 .. n
      BY <1>0, <1>1 DEF Least, Room, SaturatingSub
    <3> HIDE DEF m
    <3>2. \A i \in 1 .. m : data[i] \in Nat
      BY <3>1, ElementOfSeq
    <3>3. /\ SubSeq(data, 1, m) \in Seq(Nat)
          /\ Len(SubSeq(data, 1, m)) = IF 1 <= m THEN m - 1 + 1 ELSE 0
      BY <3>1, <3>2, SubSeqProperties
    <3>4. part = SubSeq(data, 1, m)
      BY <2>2 DEF HeadPart, FirstOf, m
    <3> QED BY <1>1, <3>1, <3>3, <3>4
  <2> QED BY <2>1, <2>2
<1> DEFINE h == Len(part)
<1>h. h \in Nat /\ h <= n
  BY <1>2, LenProperties
<1>3. rest \in Seq(Nat) /\ Len(rest) = n - h
  <2>1. rest = SubSeq(data, h + 1, n)
    BY DEF RingPart, DropFirst
  <2> HIDE DEF h, part, rest
  <2>2. \A i \in h + 1 .. n : data[i] \in Nat
    BY <1>h, ElementOfSeq
  <2>3. /\ SubSeq(data, h + 1, n) \in Seq(Nat)
        /\ Len(SubSeq(data, h + 1, n)) = IF h + 1 <= n THEN n - (h + 1) + 1 ELSE 0
    BY <1>1, <1>h, <2>2, SubSeqProperties
  <2> QED BY <1>1, <1>h, <2>1, <2>3
<1> DEFINE r == Len(rest)
<1>4. /\ t.limits = s.limits
      /\ t.total = s.total + n
      /\ t.head_written = s.head_written + h
      /\ t.tail = IF rest = <<>> THEN s.tail ELSE PushedTail(s, rest)
      /\ t.dropped = IF rest = <<>> THEN s.dropped ELSE s.dropped + PushLoss(s, rest)
      /\ DOMAIN t = DOMAIN s
      /\ t.truncating \in BOOLEAN
      /\ t \in StreamType <=>
           /\ t.limits \in Limits /\ t.head_written \in Nat /\ t.tail \in Seq(Nat)
           /\ t.total \in Nat /\ t.dropped \in Nat /\ t.truncating \in BOOLEAN
  BY <1>0 DEF Write, StreamType
<1> HIDE DEF part, rest, t, cap, n, T, h, r
<1>5. /\ PushedTail(s, rest) \in Seq(Nat) /\ PushLoss(s, rest) \in Nat
      /\ Len(PushedTail(s, rest)) <= cap
      /\ Len(PushedTail(s, rest)) <= T + r
  <2>r. r \in Nat
    BY <1>3, LenProperties DEF r
  <2>c. T <= cap
    BY DEF T, cap
  <2>1. CASE cap = 0
    <3>1. PushedTail(s, rest) = s.tail /\ PushLoss(s, rest) = r
      BY <2>1 DEF PushedTail, PushLoss, cap, r
    <3> QED BY <1>0, <1>1, <2>r, <2>c, <3>1 DEF T
  <2>2. CASE cap # 0 /\ r >= cap
    <3> DEFINE a == r - cap + 1
    <3>1. PushedTail(s, rest) = SubSeq(rest, a, r) /\ PushLoss(s, rest) = T + (r - cap)
      BY <2>2 DEF PushedTail, PushLoss, LastOf, cap, r, T
    <3>2. a \in 1 .. r + 1 /\ r - a + 1 = cap /\ T + (r - cap) \in Nat
      BY <1>0, <1>1, <2>r, <2>2
    <3> HIDE DEF a
    <3>3. \A i \in a .. r : rest[i] \in Nat
      BY <1>3, <2>r, <3>2, ElementOfSeq DEF r
    <3>4. /\ SubSeq(rest, a, r) \in Seq(Nat)
          /\ Len(SubSeq(rest, a, r)) = IF a <= r THEN r - a + 1 ELSE 0
      BY <2>r, <3>2, <3>3, SubSeqProperties
    <3>5. Len(SubSeq(rest, a, r)) = cap
      BY <1>0, <2>r, <3>2, <3>4
    <3>6. cap <= cap /\ cap <= T + r
      BY <1>0, <1>1, <2>r, <2>2
    <3> QED BY <3>1, <3>2, <3>4, <3>5, <3>6
  <2>3. CASE cap # 0 /\ ~(r >= cap)
    <3> DEFINE d == SaturatingSub(T + r, cap)
    <3>1. /\ PushedTail(s, rest) = SubSeq(s.tail, d + 1, T) \o rest
          /\ PushLoss(s, rest) = d
      BY <2>3 DEF PushedTail, PushLoss, DropFirst, cap, r, T
    <3>2. d \in 0 .. T /\ T - d + r <= cap
      BY <1>0, <1>1, <2>r, <2>c, <2>3 DEF SaturatingSub
    <3> HIDE DEF d
    <3>3. \A i \in d + 1 .. T : s.tail[i] \in Nat
      <4>1. \A i \in 1 .. Len(s.tail) : s.tail[i] \in Nat
        BY <1>0, ElementOfSeq
      <4>2. \A i \in d + 1 .. T : i \in 1 .. T
        BY <1>1, <3>2
      <4> QED BY <4>1, <4>2 DEF T
    <3>4. /\ SubSeq(s.tail, d + 1, T) \in Seq(Nat)
          /\ Len(SubSeq(s.tail, d + 1, T)) = IF d + 1 <= T THEN T - (d + 1) + 1 ELSE 0
      BY <1>1, <3>2, <3>3, SubSeqProperties
    <3>5. Len(SubSeq(s.tail, d + 1, T)) = T - d
      BY <1>1, <3>2, <3>4
    <3>6. /\ SubSeq(s.tail, d + 1, T) \o rest \in Seq(Nat)
          /\ Len(SubSeq(s.tail, d + 1, T) \o rest) = T - d + r
      BY <1>3, <3>4, <3>5, ConcatProperties DEF r
    <3>7. T - d + r <= T + r /\ d \in Nat
      BY <1>1, <2>r, <3>2
    <3> QED BY <3>1, <3>2, <3>6, <3>7
  <2> QED BY <2>1, <2>2, <2>3
<1>6. /\ t.tail \in Seq(Nat) /\ Len(t.tail) <= cap /\ h + Len(t.tail) <= T + n
  <2>1. CASE rest = <<>>
    <3>1. t.tail = s.tail /\ Len(t.tail) = T /\ T <= cap
      BY <1>4, <2>1 DEF T, cap
    <3> QED BY <1>0, <1>1, <1>h, <3>1
  <2>2. CASE rest # <<>>
    <3>1. t.tail = PushedTail(s, rest)
      BY <1>4, <2>2
    <3> DEFINE p == Len(PushedTail(s, rest))
    <3>2. p \in Nat /\ p <= T + r /\ p <= cap /\ r = n - h
      BY <1>3, <1>5, LenProperties DEF r
    <3> HIDE DEF p
    <3>3. h + p <= T + n
      BY <1>1, <1>h, <3>2
    <3> QED BY <1>5, <3>1, <3>2, <3>3 DEF p
  <2> QED BY <2>1, <2>2
<1>7. t.total \in Nat /\ t.head_written \in Nat
  BY <1>0, <1>1, <1>h, <1>4
<1>8. t.dropped \in Nat
  BY <1>0, <1>4, <1>5
<1>9. t \in StreamType
  BY <1>0, <1>4, <1>6, <1>7, <1>8
<1> QED BY <1>2, <1>4, <1>6, <1>9 DEF part, t, cap, n, T, h

\* The BufWriter stays within its capacity.
LEMMA BufferBounded ==
  ASSUME NEW cap \in Nat \ {0}, NEW buf \in Seq(Nat), NEW data \in Seq(Nat),
         Len(buf) <= cap
  PROVE  /\ Len(BufKept(cap, buf, data)) <= cap
         /\ Len(BufPassed(cap, buf, data)) + Len(BufKept(cap, buf, data))
              = Len(buf) + Len(data)
<1>0. Len(buf) \in Nat /\ Len(data) \in Nat /\ Len(<<>>) = 0
  BY EmptySeq, LenProperties
<1>1. Len(BufKept(cap, buf, data)) <= cap
  <2>1. CASE Len(data) >= cap
    BY <1>0, <2>1 DEF BufKept
  <2>2. CASE ~(Len(data) >= cap) /\ Len(buf) + Len(data) > cap
    BY <1>0, <2>2 DEF BufKept
  <2>3. CASE ~(Len(data) >= cap) /\ ~(Len(buf) + Len(data) > cap)
    <3>1. Len(buf \o data) = Len(buf) + Len(data)
      BY ConcatProperties
    <3>2. BufKept(cap, buf, data) = buf \o data
      BY <2>3 DEF BufKept
    <3> QED BY <1>0, <2>3, <3>1, <3>2
  <2> QED BY <2>1, <2>2, <2>3
<1> DEFINE p == BufPassed(cap, buf, data)
           k == BufKept(cap, buf, data)
<1>2. p \in Seq(Nat) /\ k \in Seq(Nat) /\ p \o k = buf \o data
  BY BufferConserves
<1> HIDE DEF p, k
<1>3. Len(p \o k) = Len(p) + Len(k) /\ Len(buf \o data) = Len(buf) + Len(data)
  BY <1>2, ConcatProperties
<1> QED BY <1>1, <1>2, <1>3 DEF p, k

LEMMA CreatedShape ==
  ASSUME NEW limits \in Limits
  PROVE  /\ Create(limits) \in StreamType /\ Shape(Create(limits))
         /\ Create(limits).limits = limits /\ Create(limits).total = 0
         /\ Create(limits).tail = <<>> /\ Create(limits).head_written = 0
<1> DEFINE s == Create(limits)
<1>1. /\ s.limits = limits /\ s.total = 0 /\ s.tail = <<>> /\ s.head_written = 0
      /\ s.dropped = 0 /\ s.truncating = FALSE
  BY DEF Create
<1>2. limits.head \in Nat /\ limits.tail \in Nat
  BY DEF Limits
<1>3. s \in StreamType
  BY <1>2, EmptySeq DEF Create, StreamType
<1> HIDE DEF s
<1>4. Beyond(s) = 0
  BY <1>1, <1>2 DEF Beyond, BeyondOf, SaturatingSub
<1>5. Least(limits.tail, 0) = 0
  BY <1>2 DEF Least
<1>6. Span(0 - 0 + 1, 0) = <<>>
  <2>1. Span(0 + 1, 0) = <<>>
    BY EmptyRun
  <2> QED BY <2>1
<1>7. Shape(s)
  BY <1>1, <1>4, <1>5, <1>6 DEF Shape
<1> QED BY <1>1, <1>3, <1>7 DEF s

-----------------------------------------------------------------------------
\* What the invariant says of the sizes, the options and one connection.

LEMMA LoggerSizes ==
  /\ EventSize \in Nat /\ Chunks \subseteq Nat \ {0} /\ BufCap \in Nat \ {0}
  /\ EventSize \in Sizes /\ Chunks \subseteq Sizes
BY LoggerAssumption, BudgetAssumption

LEMMA OptionTypes ==
  ASSUME NEW o \in OptionChoices
  PROVE  /\ o.raw \in BOOLEAN /\ o.jsonl \in BOOLEAN /\ o.limits \in Limits
         /\ o.limits.tail \in Nat
<1>1. o \in [raw : BOOLEAN, jsonl : BOOLEAN, limits : Limits]
  BY LoggerAssumption
<1> QED BY <1>1 DEF Limits

LEMMA MapTypes ==
  ASSUME NEW o \in OptionChoices, NEW m, MapOk(o, m), NEW k
  PROVE  /\ InMemory(m, k) \in Nat
         /\ k \in DOMAIN m =>
              /\ k \in Streams /\ StreamOk(o, m[k])
              /\ m[k].buf \in Seq(Nat) /\ m[k].st \in StreamType
              /\ m[k].st.tail \in Seq(Nat) /\ m[k].st.total \in Nat
              /\ InMemory(m, k) = Len(m[k].buf) + Len(m[k].st.tail)
         /\ k \notin DOMAIN m => InMemory(m, k) = 0
<1>1. ASSUME k \in DOMAIN m
      PROVE  /\ k \in Streams /\ StreamOk(o, m[k])
             /\ m[k].buf \in Seq(Nat) /\ m[k].st \in StreamType
             /\ m[k].st.tail \in Seq(Nat) /\ m[k].st.total \in Nat
  <2>1. k \in Streams /\ StreamOk(o, m[k]) /\ m[k] \in OpenStreams
    BY <1>1 DEF MapOk, StreamOk
  <2>2. m[k].buf \in Seq(Nat) /\ m[k].st \in StreamType
    BY <2>1 DEF OpenStreams
  <2> QED BY <2>1, <2>2 DEF StreamType
<1>2. k \in DOMAIN m => Len(m[k].buf) \in Nat /\ Len(m[k].st.tail) \in Nat
  BY <1>1, LenProperties
<1> DEFINE b == Len(m[k].buf)
           t == Len(m[k].st.tail)
<1>3. InMemory(m, k) = IF k \in DOMAIN m THEN b + t ELSE 0
  BY DEF InMemory
<1>4. k \in DOMAIN m => b \in Nat /\ t \in Nat
  BY <1>2
<1> HIDE DEF b, t
<1>5. InMemory(m, k) \in Nat
  BY <1>3, <1>4
<1>6. /\ k \in DOMAIN m => InMemory(m, k) = b + t
      /\ k \notin DOMAIN m => InMemory(m, k) = 0
  BY <1>3
<1> QED BY <1>1, <1>5, <1>6 DEF b, t

\* The bytes of stream k in files and maps like these.
HeldIn(file, tail, m, d, k) ==
  Len(file) + Len(tail) + InMemory(m, k) + InMemory(d, k)

LEMMA HeldType ==
  ASSUME LoggerTypes
  PROVE  /\ Held \in [Streams -> Nat]
         /\ \A k \in Streams :
              Held[k] = HeldIn(head_file[k], tail_file[k], raw, drained, k)
<1>1. ASSUME NEW k \in Streams
      PROVE  HeldIn(head_file[k], tail_file[k], raw, drained, k) \in Nat
  <2>1. head_file[k] \in Seq(Nat) /\ tail_file[k] \in Seq(Nat)
    BY DEF LoggerTypes
  <2>2. Len(head_file[k]) \in Nat /\ Len(tail_file[k]) \in Nat
    BY <2>1, LenProperties
  <2>3. InMemory(raw, k) \in Nat /\ InMemory(drained, k) \in Nat
    BY MapTypes DEF LoggerTypes
  <2>4. \A a, b, x, y \in Nat : a + b + x + y \in Nat
    OBVIOUS
  <2> QED BY <2>2, <2>3, <2>4, Zenon DEF HeldIn
<1>2. Held = [k \in Streams |->
               HeldIn(head_file[k], tail_file[k], raw, drained, k)]
  BY DEF Held, HeldIn
<1> QED BY <1>1, <1>2

LEMMA HeldNext ==
  ASSUME LoggerTypes'
  PROVE  /\ Held' \in [Streams -> Nat]
         /\ \A k \in Streams :
              Held'[k] = HeldIn(head_file'[k], tail_file'[k], raw', drained', k)
<1>1. LoggerTypes =>
        /\ Held \in [Streams -> Nat]
        /\ \A k \in Streams :
             Held[k] = HeldIn(head_file[k], tail_file[k], raw, drained, k)
  BY HeldType
<1>2. (LoggerTypes =>
         /\ Held \in [Streams -> Nat]
         /\ \A k \in Streams :
              Held[k] = HeldIn(head_file[k], tail_file[k], raw, drained, k))'
  BY HeldType, PTL
<1> QED BY <1>2

LEMMA GrantedType ==
  ASSUME NEW calls \in [Tasks -> [at : Steps, n : Nat, late : BOOLEAN]]
  PROVE  GrantedTo(calls) \in [Tasks -> Nat]
BY DEF GrantedTo

LEMMA CallTypes ==
  ASSUME Budgeted, NEW c \in Tasks
  PROVE  /\ call[c].at \in Steps /\ call[c].n \in Nat /\ call[c].late \in BOOLEAN
         /\ disk_stopped \in BOOLEAN /\ max_run_bytes \in Nat /\ admitted \in Nat
BY DEF Budgeted, BudgetTypeOK

\* All that the invariant says of connection c while the process lives.
LEMMA ConnFacts ==
  ASSUME LInv, Alive, NEW c \in Tasks
  PROVE  /\ life[c] \in Lives /\ todo[c] \in Seq(Items) /\ issued[c] \in Seq(Events)
         /\ QueueOf(life[c], todo[c], c, sent)
         /\ ChargeFor(opts, call[c], todo[c])
         /\ opts.raw => ReachOf(c, todo[c], CutOff(disk_stopped, call[c]), sent,
                                reached, unopened)
         /\ InStep(CutOff(disk_stopped, call[c]), call[c], todo[c], issued[c],
                   CountOf(jsonl, c, Len(jsonl)))
         /\ main = "running" =>
              WholeOf(c, life[c], todo[c], raw, head_file, tail_file, reached,
                      unopened)
         /\ main = "running" /\ opts.raw /\ opts.jsonl
              /\ Closing(life[c], todo[c]) /\ ~CutOff(disk_stopped, call[c])
              => GapsOf(c, todo[c], head_file, tail_file, reached, unopened, untailed, jsonl)
         /\ CountOf(jsonl, c, Len(jsonl)) \in Nat
<1>1. life[c] \in Lives /\ todo[c] \in Seq(Items) /\ issued[c] \in Seq(Events)
  BY DEF LInv, LoggerTypes, Lives
<1>2. QueueOf(life[c], todo[c], c, sent) /\ ChargeFor(opts, call[c], todo[c])
  BY DEF LInv, Queues, CallsInStep
<1>3. opts.raw => ReachOf(c, todo[c], CutOff(disk_stopped, call[c]), sent,
                          reached, unopened)
  BY DEF LInv, Reaching
<1>4. InStep(CutOff(disk_stopped, call[c]), call[c], todo[c], issued[c],
             CountOf(jsonl, c, Len(jsonl)))
  BY DEF LInv, IndexInStep
<1>5. main = "running" =>
        WholeOf(c, life[c], todo[c], raw, head_file, tail_file, reached, unopened)
  BY DEF LInv, StreamsWhole
<1>6. main = "running" /\ opts.raw /\ opts.jsonl
        /\ Closing(life[c], todo[c]) /\ ~CutOff(disk_stopped, call[c])
        => GapsOf(c, todo[c], head_file, tail_file, reached, unopened, untailed, jsonl)
  BY DEF LInv, GapsReported
<1>7. CountOf(jsonl, c, Len(jsonl)) \in Nat
  <2>1. jsonl \in Seq(Events)
    BY DEF LInv, LoggerTypes
  <2>2. Len(jsonl) \in 0 .. Len(jsonl)
    BY <2>1, LenProperties
  <2> QED BY <2>1, <2>2, CountType
<1> QED BY <1>1, <1>2, <1>3, <1>4, <1>5, <1>6, <1>7

-----------------------------------------------------------------------------
\* A step of one connection's task.

\* Nothing that belongs to another connection is touched, and the index gets
\* at most a line of c's.
Only(c) ==
  /\ main' = main /\ killed' = killed /\ opts' = opts
  /\ disk_stopped => disk_stopped'
  /\ \A d \in Tasks \ {c} :
       /\ life'[d] = life[d] /\ todo'[d] = todo[d] /\ call'[d] = call[d]
       /\ issued'[d] = issued[d]
       /\ \A dir \in Dirs :
            LET k == <<d, dir>> IN
            /\ sent'[k] = sent[k] /\ reached'[k] = reached[k]
            /\ head_file'[k] = head_file[k] /\ tail_file'[k] = tail_file[k]
            /\ untailed'[k] = untailed[k]
            /\ (k \in DOMAIN raw') <=> (k \in DOMAIN raw)
            /\ k \in DOMAIN raw => raw'[k] = raw[k]
            /\ (k \in unopened') <=> (k \in unopened)
  /\ jsonl' = jsonl \/ \E e \in Events : jsonl' = Append(jsonl, e) /\ e.conn = c

\* What is in the index stays there.
LEMMA LinesStay ==
  ASSUME NEW lines \in Seq(Events), NEW more,
         more = lines \/ \E e \in Events : more = Append(lines, e)
  PROVE  /\ Len(lines) \in Nat /\ Len(more) \in Nat /\ Len(lines) <= Len(more)
         /\ \A i \in 1 .. Len(lines) : i \in 1 .. Len(more) /\ more[i] = lines[i]
<1>1. Len(lines) \in Nat
  BY LenProperties
<1>2. CASE more = lines
  BY <1>1, <1>2
<1>3. ASSUME NEW e \in Events, more = Append(lines, e)
      PROVE  /\ Len(more) = Len(lines) + 1
             /\ \A i \in 1 .. Len(lines) : more[i] = lines[i]
  BY <1>3, AppendProperties
<1>4. CASE \E e \in Events : more = Append(lines, e)
  <2>1. /\ Len(more) = Len(lines) + 1
        /\ \A i \in 1 .. Len(lines) : more[i] = lines[i]
    BY <1>3, <1>4
  <2> QED BY <1>1, <2>1
<1> QED BY <1>2, <1>4

LEMMA ReportStays ==
  ASSUME NEW lines \in Seq(Events), NEW more, NEW k, NEW n,
         more = lines \/ \E e \in Events : more = Append(lines, e)
  PROVE  /\ ReportedIn(lines, k, n, Len(lines) + 1)
              => ReportedIn(more, k, n, Len(more) + 1)
         /\ \A j \in 1 .. Len(lines) + 1 :
              ReportedIn(lines, k, n, j) => ReportedIn(more, k, n, j)
<1>1. /\ Len(lines) \in Nat /\ Len(more) \in Nat /\ Len(lines) <= Len(more)
      /\ \A i \in 1 .. Len(lines) : i \in 1 .. Len(more) /\ more[i] = lines[i]
  BY LinesStay
<1> DEFINE ev == Event("truncated", k[1], k[2], n)
<1> HIDE DEF ev
<1>2. ASSUME NEW a \in Nat, a <= Len(lines) + 1, NEW b \in Nat, a <= b,
             \E i \in 1 .. a - 1 : lines[i] = ev
      PROVE  \E i \in 1 .. b - 1 : more[i] = ev
  BY <1>1, <1>2
<1>3. Len(lines) + 1 \in Nat /\ Len(more) + 1 \in Nat
      /\ Len(lines) + 1 <= Len(more) + 1 /\ Len(lines) + 1 <= Len(lines) + 1
  BY <1>1
<1>4. \A j \in 1 .. Len(lines) + 1 : j \in Nat /\ j <= Len(lines) + 1 /\ j <= j
  BY <1>1
<1>5. (\E i \in 1 .. Len(lines) + 1 - 1 : lines[i] = ev)
        => (\E i \in 1 .. Len(more) + 1 - 1 : more[i] = ev)
  BY <1>2, <1>3
<1>6. \A j \in 1 .. Len(lines) + 1 :
        (\E i \in 1 .. j - 1 : lines[i] = ev) => (\E i \in 1 .. j - 1 : more[i] = ev)
  BY <1>2, <1>4
<1> QED BY <1>5, <1>6 DEF ReportedIn, ev

\* So it is enough to look at c.
LEMMA ConnStep ==
  ASSUME LInv, Alive, NEW c \in Tasks, Only(c),
         QueueOf(life'[c], todo'[c], c, sent'),
         ChargeFor(opts', call'[c], todo'[c]),
         opts.raw => ReachOf(c, todo'[c], CutOff(disk_stopped', call'[c]), sent',
                             reached', unopened'),
         InStep(CutOff(disk_stopped', call'[c]), call'[c], todo'[c], issued'[c],
                CountOf(jsonl', c, Len(jsonl'))),
         main = "running" =>
           WholeOf(c, life'[c], todo'[c], raw', head_file', tail_file', reached',
                   unopened'),
         main = "running" /\ opts.raw /\ opts.jsonl
           /\ Closing(life'[c], todo'[c]) /\ ~CutOff(disk_stopped', call'[c])
           => GapsOf(c, todo'[c], head_file', tail_file', reached', unopened', untailed', jsonl')
  PROVE  /\ Queues' /\ CallsInStep' /\ Reaching' /\ IndexInStep'
         /\ StreamsWhole' /\ GapsReported'
<1>j. /\ jsonl \in Seq(Events)
      /\ jsonl' = jsonl \/ \E e \in Events : jsonl' = Append(jsonl, e) /\ e.conn = c
  BY DEF LInv, LoggerTypes, Only
<1>o. opts' = opts /\ main' = main /\ Alive' /\ (disk_stopped => disk_stopped')
  BY DEF Only, Alive
<1>1. ASSUME NEW d \in Tasks, d # c
      PROVE  /\ QueueOf(life'[d], todo'[d], d, sent')
             /\ ChargeFor(opts', call'[d], todo'[d])
             /\ opts.raw => ReachOf(d, todo'[d], CutOff(disk_stopped', call'[d]),
                                    sent', reached', unopened')
             /\ InStep(CutOff(disk_stopped', call'[d]), call'[d], todo'[d],
                       issued'[d], CountOf(jsonl', d, Len(jsonl')))
             /\ main = "running" =>
                  WholeOf(d, life'[d], todo'[d], raw', head_file', tail_file',
                          reached', unopened')
             /\ main = "running" /\ opts.raw /\ opts.jsonl
                  /\ Closing(life'[d], todo'[d]) /\ ~CutOff(disk_stopped', call'[d])
                  => GapsOf(d, todo'[d], head_file', tail_file', reached',
                            unopened', untailed', jsonl')
  <2>1. /\ life'[d] = life[d] /\ todo'[d] = todo[d] /\ call'[d] = call[d]
        /\ issued'[d] = issued[d]
    BY <1>1 DEF Only
  <2>2. \A dir \in Dirs :
          LET k == <<d, dir>> IN
          /\ sent'[k] = sent[k] /\ reached'[k] = reached[k]
          /\ head_file'[k] = head_file[k] /\ tail_file'[k] = tail_file[k]
          /\ untailed'[k] = untailed[k]
          /\ (k \in DOMAIN raw') <=> (k \in DOMAIN raw)
          /\ k \in DOMAIN raw => raw'[k] = raw[k]
          /\ (k \in unopened') <=> (k \in unopened)
    BY <1>1 DEF Only
  <2>3. CutOff(disk_stopped, call[d]) => CutOff(disk_stopped', call'[d])
    BY <1>o, <2>1 DEF CutOff
  <2>4. CountOf(jsonl', d, Len(jsonl')) = CountOf(jsonl, d, Len(jsonl))
    <3>1. CASE jsonl' = jsonl
      BY <3>1
    <3>2. ASSUME NEW e \in Events, jsonl' = Append(jsonl, e), e.conn = c
          PROVE  CountOf(jsonl', d, Len(jsonl')) = CountOf(jsonl, d, Len(jsonl))
      <4>1. CountOf(jsonl', d, Len(jsonl'))
              = CountOf(jsonl, d, Len(jsonl)) + (IF e.conn = d THEN 1 ELSE 0)
        BY <1>j, <3>2, CountAppend
      <4>2. CountOf(jsonl, d, Len(jsonl)) \in Nat
        BY ConnFacts
      <4> QED BY <1>1, <3>2, <4>1, <4>2
    <3> QED BY <1>j, <3>1, <3>2
  <2>5. QueueOf(life'[d], todo'[d], d, sent')
    <3>1. QueueOf(life[d], todo[d], d, sent)
      BY ConnFacts
    <3>2. \A dir \in Dirs : sent'[<<d, dir>>] = sent[<<d, dir>>]
      BY <2>2
    <3>3. OpenQueue(todo[d], d, sent) => OpenQueue(todo[d], d, sent')
      BY <3>2 DEF OpenQueue
    <3> QED BY <2>1, <3>1, <3>2, <3>3 DEF QueueOf
  <2>6. ChargeFor(opts', call'[d], todo'[d])
    BY <1>o, <2>1, ConnFacts
  <2>7. opts.raw => ReachOf(d, todo'[d], CutOff(disk_stopped', call'[d]),
                            sent', reached', unopened')
    <3>1. opts.raw => ReachOf(d, todo[d], CutOff(disk_stopped, call[d]), sent,
                              reached, unopened)
      BY ConnFacts
    <3> QED BY <2>1, <2>2, <2>3, <3>1, Zenon DEF ReachOf
  <2>8. InStep(CutOff(disk_stopped', call'[d]), call'[d], todo'[d],
               issued'[d], CountOf(jsonl', d, Len(jsonl')))
    <3>1. InStep(CutOff(disk_stopped, call[d]), call[d], todo[d], issued[d],
                 CountOf(jsonl, d, Len(jsonl)))
      BY ConnFacts
    <3> QED BY <2>1, <2>3, <2>4, <3>1, Zenon DEF InStep
  <2>9. main = "running" =>
          WholeOf(d, life'[d], todo'[d], raw', head_file', tail_file',
                  reached', unopened')
    <3>1. main = "running" =>
            WholeOf(d, life[d], todo[d], raw, head_file, tail_file, reached, unopened)
      BY ConnFacts
    <3> QED BY <2>1, <2>2, <3>1, Zenon DEF WholeOf, WholeAt
  <2>10. ASSUME main = "running", opts.raw, opts.jsonl,
                Closing(life'[d], todo'[d]), ~CutOff(disk_stopped', call'[d])
         PROVE  GapsOf(d, todo'[d], head_file', tail_file', reached', unopened', untailed',
                       jsonl')
    <3>1. GapsOf(d, todo[d], head_file, tail_file, reached, unopened, untailed, jsonl)
      BY <2>1, <2>3, <2>10, ConnFacts
    <3>2. \A k, n : ReportedIn(jsonl, k, n, Len(jsonl) + 1)
                      => ReportedIn(jsonl', k, n, Len(jsonl') + 1)
      BY <1>j, ReportStays
    <3> QED BY <2>1, <2>2, <3>1, <3>2, Zenon DEF GapsOf
  <2> QED BY <2>5, <2>6, <2>7, <2>8, <2>9, <2>10
<1>2. Queues' /\ CallsInStep'
  BY <1>1 DEF Queues, CallsInStep
<1>3. Reaching'
  BY <1>1, <1>o DEF Reaching
<1>4. IndexInStep'
  BY <1>1 DEF IndexInStep
<1>5. StreamsWhole'
  BY <1>1, <1>o DEF StreamsWhole
<1>6. GapsReported'
  BY <1>1, <1>o DEF GapsReported
<1> QED BY <1>2, <1>3, <1>4, <1>5, <1>6

-----------------------------------------------------------------------------
\* The budget under the Logger.

LEMMA BudgetedStep ==
  ASSUME Budgeted, Alive, BudgetNext \/ UNCHANGED budgetVars
  PROVE  Budgeted' /\ max_run_bytes' = max_run_bytes
         /\ (disk_stopped => disk_stopped')
<1>1. BudgetInv'
  BY BudgetStep DEF Budgeted
<1>2. BudgetTypeOK' /\ CapHolds'
  BY <1>1 DEF BudgetInv
<1>t. call \in [Tasks -> [at : Steps, n : Nat, late : BOOLEAN]]
  BY DEF Budgeted, BudgetTypeOK
<1>3. /\ \A c \in Tasks : call'[c].at = "refused" => disk_stopped'
      /\ max_run_bytes' = max_run_bytes /\ (disk_stopped => disk_stopped')
  <2>0. \A c \in Tasks : call[c].at = "refused" => disk_stopped
    BY DEF Budgeted
  <2>1. ASSUME NEW t \in Tasks, NEW n \in Sizes, BeginCharge(t, n)
        PROVE  /\ \A c \in Tasks : call'[c].at = "refused" => disk_stopped'
               /\ max_run_bytes' = max_run_bytes /\ (disk_stopped => disk_stopped')
    BY <1>t, <2>0, <2>1 DEF BeginCharge
  <2>2. ASSUME NEW t \in Tasks, Load(t)
        PROVE  /\ \A c \in Tasks : call'[c].at = "refused" => disk_stopped'
               /\ max_run_bytes' = max_run_bytes /\ (disk_stopped => disk_stopped')
    BY <1>t, <2>0, <2>2 DEF Load, GoTo
  <2>3. ASSUME NEW t \in Tasks, Add(t)
        PROVE  /\ \A c \in Tasks : call'[c].at = "refused" => disk_stopped'
               /\ max_run_bytes' = max_run_bytes /\ (disk_stopped => disk_stopped')
    BY <1>t, <2>0, <2>3 DEF Add, GoTo
  <2>4. ASSUME NEW t \in Tasks, Refund(t)
        PROVE  /\ \A c \in Tasks : call'[c].at = "refused" => disk_stopped'
               /\ max_run_bytes' = max_run_bytes /\ (disk_stopped => disk_stopped')
    BY <1>t, <2>0, <2>4 DEF Refund, GoTo
  <2>5. ASSUME NEW t \in Tasks, Stop(t)
        PROVE  /\ \A c \in Tasks : call'[c].at = "refused" => disk_stopped'
               /\ max_run_bytes' = max_run_bytes /\ (disk_stopped => disk_stopped')
    BY <1>t, <2>0, <2>5 DEF Stop, GoTo
  <2>6. ASSUME NEW t \in Tasks, EndCharge(t)
        PROVE  /\ \A c \in Tasks : call'[c].at = "refused" => disk_stopped'
               /\ max_run_bytes' = max_run_bytes /\ (disk_stopped => disk_stopped')
    BY <1>t, <2>0, <2>6 DEF EndCharge, Idle
  <2>7. CASE UNCHANGED budgetVars
    BY <2>0, <2>7 DEF budgetVars
  <2> QED BY <2>1, <2>2, <2>3, <2>4, <2>5, <2>6, <2>7 DEF BudgetNext, ChargeStep
<1> QED BY <1>1, <1>2, <1>3 DEF Budgeted

\* A call of charge begins.
LEMMA BeginFacts ==
  ASSUME Budgeted, Alive, NEW c \in Tasks, NEW n \in Sizes, BeginCharge(c, n)
  PROVE  /\ Budgeted' /\ max_run_bytes' = max_run_bytes
         /\ disk_stopped' = disk_stopped /\ admitted' = admitted
         /\ call[c].at = "idle" /\ call'[c].at # "idle" /\ call'[c].n = n
         /\ CutOff(disk_stopped', call'[c]) <=> CutOff(disk_stopped, call[c])
         /\ \A d \in Tasks \ {c} : call'[d] = call[d]
         /\ max_run_bytes > 0 => GrantedTo(call') = GrantedTo(call)
<1>t. call \in [Tasks -> [at : Steps, n : Nat, late : BOOLEAN]]
  BY DEF Budgeted, BudgetTypeOK
<1>1. /\ call[c].at = "idle"
      /\ call' = [call EXCEPT ![c] =
           [at |-> IF max_run_bytes = 0 THEN "granted" ELSE "load",
            n |-> n, late |-> disk_stopped]]
      /\ max_run_bytes' = max_run_bytes /\ disk_stopped' = disk_stopped
      /\ admitted' = admitted
  BY DEF BeginCharge
<1>2. Budgeted'
  BY BudgetedStep DEF BudgetNext
<1>3. /\ call'[c].at # "idle" /\ call'[c].n = n /\ call'[c].late = disk_stopped
      /\ max_run_bytes > 0 => call'[c].at # "granted"
      /\ \A d \in Tasks \ {c} : call'[d] = call[d]
  BY <1>t, <1>1
<1>4. max_run_bytes > 0 => GrantedTo(call') = GrantedTo(call)
  <2> SUFFICES ASSUME max_run_bytes > 0 PROVE GrantedTo(call') = GrantedTo(call)
    OBVIOUS
  <2>1. \A t \in Tasks : (IF call'[t].at = "granted" THEN call'[t].n ELSE 0)
                           = (IF call[t].at = "granted" THEN call[t].n ELSE 0)
    BY <1>1, <1>3
  <2> QED BY <2>1, Zenon DEF GrantedTo
<1> QED BY <1>1, <1>2, <1>3, <1>4 DEF CutOff

\* A step inside charge: what it grants is admitted.
LEMMA ChargeFacts ==
  ASSUME Budgeted, Alive, NEW c \in Tasks, ChargeStep(c)
  PROVE  /\ Budgeted' /\ max_run_bytes' = max_run_bytes
         /\ disk_stopped => disk_stopped'
         /\ call[c].at # "idle" /\ call'[c].at # "idle" /\ call'[c].n = call[c].n
         /\ CutOff(disk_stopped, call[c]) => CutOff(disk_stopped', call'[c])
         /\ \A d \in Tasks \ {c} : call'[d] = call[d]
         /\ max_run_bytes > 0 =>
              Total(GrantedTo(call')) + admitted <= Total(GrantedTo(call)) + admitted'
<1>t. /\ call \in [Tasks -> [at : Steps, n : Nat, late : BOOLEAN]]
      /\ admitted \in Nat
  BY DEF Budgeted, BudgetTypeOK
<1>1. Budgeted' /\ max_run_bytes' = max_run_bytes /\ (disk_stopped => disk_stopped')
  BY BudgetedStep DEF BudgetNext
<1>2. /\ call[c].at \in {"load", "add", "refund", "stop"}
      /\ call'[c].n = call[c].n /\ call'[c].late = call[c].late
      /\ call'[c].at # "idle" /\ \A d \in Tasks \ {c} : call'[d] = call[d]
  <2>1. CASE Load(c)
    BY <1>t, <2>1 DEF Load, GoTo
  <2>2. CASE Add(c)
    BY <1>t, <2>2 DEF Add, GoTo
  <2>3. CASE Refund(c)
    BY <1>t, <2>3 DEF Refund, GoTo
  <2>4. CASE Stop(c)
    BY <1>t, <2>4 DEF Stop, GoTo
  <2> QED BY <2>1, <2>2, <2>3, <2>4 DEF ChargeStep
<1>3. /\ call'[c].at = "granted" => admitted' = admitted + call[c].n
      /\ call'[c].at # "granted" => admitted' = admitted
  <2>1. CASE Load(c)
    BY <1>t, <2>1 DEF Load, GoTo
  <2>2. CASE Add(c)
    <3>1. /\ call'[c].at = IF disk_used + call[c].n > max_run_bytes
                           THEN "refund" ELSE "granted"
          /\ admitted' = admitted + IF disk_used + call[c].n > max_run_bytes
                                    THEN 0 ELSE call[c].n
      BY <1>t, <2>2 DEF Add, GoTo
    <3> QED BY <1>t, <3>1
  <2>3. CASE Refund(c)
    BY <1>t, <2>3 DEF Refund, GoTo
  <2>4. CASE Stop(c)
    BY <1>t, <2>4 DEF Stop, GoTo
  <2> QED BY <2>1, <2>2, <2>3, <2>4 DEF ChargeStep
<1>4. Total(GrantedTo(call')) + admitted <= Total(GrantedTo(call)) + admitted'
  <2> DEFINE f == GrantedTo(call)
             g == GrantedTo(call')
             n == IF call'[c].at = "granted" THEN call[c].n ELSE 0
  <2>1. call' \in [Tasks -> [at : Steps, n : Nat, late : BOOLEAN]]
    BY <1>1 DEF Budgeted, BudgetTypeOK
  <2>2. f \in [Tasks -> Nat] /\ g \in [Tasks -> Nat]
    BY <1>t, <2>1, GrantedType
  <2>3. n \in Nat /\ admitted' = admitted + n
    BY <1>t, <1>3
  <2>4. f[c] = 0 /\ g[c] = n /\ \A d \in Tasks \ {c} : g[d] = f[d]
    BY <1>2 DEF GrantedTo
  <2> HIDE DEF f, g, n
  <2>5. g[c] <= f[c] + n /\ \A d \in Tasks \ {c} : g[d] <= f[d]
    BY <2>2, <2>3, <2>4
  <2>6. Total(g) <= Total(f) + n
    BY <2>2, <2>3, <2>5, BudgetAssumption, TotalGrow
  <2>7. Total(f) \in Nat /\ Total(g) \in Nat
    BY <2>2, BudgetAssumption, TotalType
  <2>8. Total(g) + admitted <= Total(f) + admitted'
    BY <1>t, <2>3, <2>6, <2>7
  <2> QED BY <2>8 DEF f, g
<1> QED BY <1>1, <1>2, <1>4 DEF CutOff

\* A call of charge returns.
LEMMA EndFacts ==
  ASSUME Budgeted, Alive, NEW c \in Tasks, EndCharge(c)
  PROVE  /\ Budgeted' /\ max_run_bytes' = max_run_bytes
         /\ disk_stopped' = disk_stopped /\ admitted' = admitted
         /\ call[c].at # "idle" /\ call'[c].at = "idle"
         /\ \A d \in Tasks \ {c} : call'[d] = call[d]
         /\ call[c].at = "granted" => ~CutOff(disk_stopped, call[c])
         /\ call[c].at # "granted" => disk_stopped
         /\ Total(GrantedTo(call))
              = Total(GrantedTo(call'))
                  + (IF call[c].at = "granted" THEN call[c].n ELSE 0)
<1>t. call \in [Tasks -> [at : Steps, n : Nat, late : BOOLEAN]]
  BY DEF Budgeted, BudgetTypeOK
<1>1. /\ call[c].at \in {"granted", "refused"}
      /\ call' = [call EXCEPT ![c] = [at |-> "idle", n |-> 0, late |-> FALSE]]
      /\ max_run_bytes' = max_run_bytes /\ disk_stopped' = disk_stopped
      /\ admitted' = admitted
  BY DEF EndCharge, Idle
<1>2. Budgeted'
  BY BudgetedStep DEF BudgetNext
<1>3. call'[c].at = "idle" /\ \A d \in Tasks \ {c} : call'[d] = call[d]
  BY <1>t, <1>1
<1>4. call[c].at = "granted" => ~CutOff(disk_stopped, call[c])
  <2>1. call[c].late => call[c].at \in {"idle", "load", "refused"}
    BY DEF Budgeted, BudgetInv, LateCallsRefused
  <2> QED BY <2>1 DEF CutOff
<1>5. call[c].at # "granted" => disk_stopped
  BY <1>1 DEF Budgeted
<1>6. Total(GrantedTo(call))
        = Total(GrantedTo(call')) + (IF call[c].at = "granted" THEN call[c].n ELSE 0)
  <2> DEFINE f == GrantedTo(call)
             g == GrantedTo(call')
  <2>1. call' \in [Tasks -> [at : Steps, n : Nat, late : BOOLEAN]]
    BY <1>2 DEF Budgeted, BudgetTypeOK
  <2>2. f \in [Tasks -> Nat] /\ g \in [Tasks -> Nat]
    BY <1>t, <2>1, GrantedType
  <2>3. /\ f[c] = IF call[c].at = "granted" THEN call[c].n ELSE 0
        /\ g[c] = 0 /\ \A d \in Tasks \ {c} : g[d] = f[d]
    BY <1>3 DEF GrantedTo
  <2> HIDE DEF f, g
  <2>4. Total(f) = Total(g) + f[c]
    BY <2>2, <2>3, BudgetAssumption, TotalDrop
  <2> QED BY <2>3, <2>4 DEF f, g
<1> QED BY <1>1, <1>2, <1>3, <1>4, <1>5, <1>6

LEMMA SameBudget ==
  ASSUME Budgeted, Alive, UNCHANGED budgetVars
  PROVE  /\ Budgeted' /\ call' = call /\ disk_stopped' = disk_stopped
         /\ max_run_bytes' = max_run_bytes /\ admitted' = admitted
BY BudgetedStep DEF budgetVars

-----------------------------------------------------------------------------
\* What a step leaves alone.

\* Steps after which less is held in files and memory.
LEMMA SpaceStays ==
  ASSUME LInv, LoggerTypes', Budgeted', jsonl' = jsonl,
         max_run_bytes' = max_run_bytes,
         \A k \in Streams :
           HeldIn(head_file'[k], tail_file'[k], raw', drained', k)
             <= HeldIn(head_file[k], tail_file[k], raw, drained, k),
         max_run_bytes > 0 =>
           Total(GrantedTo(call')) + admitted <= Total(GrantedTo(call)) + admitted'
  PROVE  SpaceIsGranted'
<1> SUFFICES ASSUME max_run_bytes > 0
             PROVE  Len(jsonl) * EventSize + Total(Held') + Total(GrantedTo(call'))
                      <= admitted'
  BY DEF SpaceIsGranted
<1>1. Len(jsonl) * EventSize + Total(Held) + Total(GrantedTo(call)) <= admitted
  BY DEF LInv, SpaceIsGranted
<1>2. Total(GrantedTo(call')) + admitted <= Total(GrantedTo(call)) + admitted'
  OBVIOUS
<1> DEFINE f == Held
           g == Held'
<1>3. /\ f \in [Streams -> Nat] /\ g \in [Streams -> Nat]
      /\ \A k \in Streams : g[k] <= f[k]
  <2>1. /\ f \in [Streams -> Nat]
        /\ \A k \in Streams :
             f[k] = HeldIn(head_file[k], tail_file[k], raw, drained, k)
    BY HeldType DEF LInv
  <2>2. /\ g \in [Streams -> Nat]
        /\ \A k \in Streams :
             g[k] = HeldIn(head_file'[k], tail_file'[k], raw', drained', k)
    BY HeldNext
  <2> QED BY <2>1, <2>2
<1> HIDE DEF f, g
<1>4. Total(g) <= Total(f) /\ Total(f) \in Nat /\ Total(g) \in Nat
  BY <1>3, StreamsFinite, TotalLe, TotalType
<1> DEFINE e == Len(jsonl) * EventSize
           a == Total(GrantedTo(call))
           b == Total(GrantedTo(call'))
<1>5. e \in Nat
  <2>1. Len(jsonl) \in Nat /\ EventSize \in Nat
    BY LoggerSizes, LenProperties DEF LInv, LoggerTypes
  <2> QED BY <2>1
<1>6. a \in Nat /\ b \in Nat /\ admitted \in Nat /\ admitted' \in Nat
  <2>1. GrantedTo(call) \in [Tasks -> Nat] /\ admitted \in Nat
    BY GrantedType DEF LInv, Budgeted, BudgetTypeOK
  <2>2. GrantedTo(call') \in [Tasks -> Nat] /\ admitted' \in Nat
    BY GrantedType DEF Budgeted, BudgetTypeOK
  <2> QED BY <2>1, <2>2, BudgetAssumption, TotalType
<1> HIDE DEF e, a, b
<1> DEFINE x == Total(f)
           y == Total(g)
<1>7. e + x + a <= admitted /\ b + admitted <= a + admitted'
  BY <1>1, <1>2 DEF e, a, b, f
<1>8. e + y + b <= admitted'
  <2>1. y <= x /\ x \in Nat /\ y \in Nat
    BY <1>4
  <2> HIDE DEF x, y
  <2> QED BY <1>5, <1>6, <1>7, <2>1
<1> QED BY <1>8 DEF e, b, g

\* The properties about the index, of the variables they read.
PrefixOf(lines, iss) ==
  \A i \in 1 .. Len(lines) :
    LET c == lines[i].conn
        n == CountOf(lines, c, i)
    IN  n <= Len(iss[c]) /\ lines[i] = iss[c][n]

ReportsAll(lines, heads, tails, rch, lost, ut) ==
  \A j \in 1 .. Len(lines) :
    lines[j].event = "close" =>
      \A dir \in Dirs :
        LET k == <<lines[j].conn, dir>> IN
        k \notin lost /\ rch[k] - Len(heads[k]) - Len(tails[k]) > ut[k]
          => ReportedIn(lines, k, rch[k], j)

LEMMA PrefixMeans == EventsArePrefix <=> PrefixOf(jsonl, issued)
BY DEF EventsArePrefix, PrefixOf, LinesOf, CountOf

LEMMA ClosedMeans ==
  LoggerTypes =>
    (ClosedMeansReported <=>
       (main = "running" /\ opts.raw =>
          ReportsAll(jsonl, head_file, tail_file, reached, unopened, untailed)))
<1> SUFFICES ASSUME LoggerTypes
             PROVE  ClosedMeansReported <=>
                      (main = "running" /\ opts.raw =>
                         ReportsAll(jsonl, head_file, tail_file, reached, unopened, untailed))
  OBVIOUS
<1>1. ASSUME NEW j \in 1 .. Len(jsonl)
      PROVE  /\ \A dir \in Dirs :
                  /\ <<jsonl[j].conn, dir>> \in Streams
                  /\ <<jsonl[j].conn, dir>>[1] = jsonl[j].conn
             /\ \A k \in Streams : k[1] = jsonl[j].conn =>
                  \E dir \in Dirs : k = <<jsonl[j].conn, dir>>
  <2>1. jsonl[j].conn \in Tasks
    <3>1. jsonl[j] \in Events
      BY <1>1, ElementOfSeq DEF LoggerTypes
    <3> QED BY <3>1 DEF Events
  <2> QED BY <2>1 DEF Streams
<1>2. \A k, j : Reported(k, j) <=> ReportedIn(jsonl, k, reached[k], j)
  BY DEF Reported, ReportedIn
<1>3. \A k : Missing(k) = reached[k] - Len(head_file[k]) - Len(tail_file[k])
  BY DEF Missing
<1>4. ASSUME NEW j \in 1 .. Len(jsonl)
      PROVE  (\A k \in Streams \ unopened :
                k[1] = jsonl[j].conn /\ Missing(k) > untailed[k] => Reported(k, j))
             <=>
             (\A dir \in Dirs :
                LET k == <<jsonl[j].conn, dir>> IN
                k \notin unopened
                  /\ reached[k] - Len(head_file[k]) - Len(tail_file[k]) > untailed[k]
                  => ReportedIn(jsonl, k, reached[k], j))
  <2>1. ASSUME NEW k \in Streams, k[1] = jsonl[j].conn
        PROVE  \E dir \in Dirs : k = <<jsonl[j].conn, dir>>
    BY <1>1, <2>1
  <2> QED BY <1>1, <1>2, <1>3, <2>1, Zenon
<1> QED BY <1>4, Zenon DEF ClosedMeansReported, ReportsAll

\* A stream without a gap reads as one.
LEMMA WholeIsGapless ==
  LoggerTypes /\ Alive /\ StreamsWhole => RawIsGapless
<1> SUFFICES ASSUME LoggerTypes, Alive, StreamsWhole, main = "running",
                    NEW k \in Streams \ unopened
             PROVE  IF k \in DOMAIN raw
                    THEN /\ head_file[k] \o raw[k].buf = Span(1, raw[k].st.head_written)
                         /\ raw[k].st.tail
                              = Span(reached[k] - Len(raw[k].st.tail) + 1, reached[k])
                    ELSE /\ head_file[k] = Span(1, Len(head_file[k]))
                         /\ tail_file[k]
                              = Span(reached[k] - Len(tail_file[k]) + 1, reached[k])
  BY DEF RawIsGapless
<1>1. PICK c \in Tasks, dir \in Dirs : k = <<c, dir>>
  BY DEF Streams
<1>2. WholeAt(raw, life[c], todo[c], k, head_file[k], tail_file[k], reached[k])
  <2>1. WholeOf(c, life[c], todo[c], raw, head_file, tail_file, reached, unopened)
    BY DEF StreamsWhole
  <2> QED BY <1>1, <2>1 DEF WholeOf
<1>3. CASE k \in DOMAIN raw
  <2>1. StreamWhole(raw[k], head_file[k], tail_file[k], reached[k])
    BY <1>2, <1>3 DEF WholeAt
  <2>2. raw[k].st \in StreamType
    BY <1>3, MapTypes DEF LoggerTypes
  <2> DEFINE s == raw[k].st
  <2>3. /\ Shape(s) /\ s.total = reached[k]
        /\ head_file[k] \o raw[k].buf = Span(1, s.head_written)
    BY <2>1 DEF StreamWhole
  <2>4. s.tail = Span(s.total - Len(s.tail) + 1, s.total)
    BY <2>2, <2>3, ShapeNumbers
  <2> HIDE DEF s
  <2>5. s.tail = Span(reached[k] - Len(s.tail) + 1, reached[k])
    BY <2>3, <2>4
  <2> QED BY <1>3, <2>3, <2>5 DEF s
<1>4. CASE k \notin DOMAIN raw
  BY <1>2, <1>4 DEF WholeAt, Gapless
<1> QED BY <1>3, <1>4

\* While a connection has something to do, its close line is not there.
LEMMA NotClosedYet ==
  ASSUME LInv, NEW c, life[c] # "closed" \/ todo[c] # <<>>
  PROVE  \A j \in 1 .. Len(jsonl) :
           jsonl[j].event = "close" => jsonl[j].conn # c
BY DEF LInv, CloseIsLast

LEMMA CloseStays ==
  ASSUME LInv, NEW c \in Tasks, jsonl' = jsonl,
         life[c] # "closed" \/ todo[c] # <<>>,
         \A d \in Tasks \ {c} : life'[d] = life[d] /\ todo'[d] = todo[d]
  PROVE  CloseIsLast'
<1>1. \A j \in 1 .. Len(jsonl) : jsonl[j].conn \in Tasks
  <2> TAKE j \in 1 .. Len(jsonl)
  <2>1. jsonl[j] \in Events
    BY ElementOfSeq DEF LInv, LoggerTypes
  <2> QED BY <2>1 DEF Events
<1>2. \A j \in 1 .. Len(jsonl) : jsonl[j].event = "close" => jsonl[j].conn # c
  BY NotClosedYet
<1>3. CloseIsLast
  BY DEF LInv
<1> QED BY <1>1, <1>2, <1>3 DEF CloseIsLast

\* The streams of a connection without a close line may change.
LEMMA ClosedStays ==
  ASSUME LInv, LoggerTypes', NEW c \in Tasks, jsonl' = jsonl,
         life[c] # "closed" \/ todo[c] # <<>>, main' = main, opts' = opts,
         unopened \subseteq unopened',
         \A d \in Tasks \ {c}, dir \in Dirs :
           LET k == <<d, dir>> IN
           /\ reached'[k] = reached[k] /\ untailed'[k] = untailed[k]
           /\ head_file'[k] = head_file[k] /\ tail_file'[k] = tail_file[k]
  PROVE  ClosedMeansReported'
<1>1. (LoggerTypes =>
         (ClosedMeansReported <=>
            (main = "running" /\ opts.raw =>
               ReportsAll(jsonl, head_file, tail_file, reached, unopened, untailed))))'
  BY ClosedMeans, PTL
<1>2. SUFFICES ASSUME main' = "running", opts'.raw
               PROVE  ReportsAll(jsonl', head_file', tail_file', reached', unopened', untailed')
  BY <1>1
<1>3. ReportsAll(jsonl, head_file, tail_file, reached, unopened, untailed)
  BY <1>2, ClosedMeans DEF LInv
<1>4. \A j \in 1 .. Len(jsonl) : jsonl[j].event = "close" =>
        jsonl[j].conn \in Tasks \ {c}
  <2> TAKE j \in 1 .. Len(jsonl)
  <2>1. jsonl[j] \in Events
    BY ElementOfSeq DEF LInv, LoggerTypes
  <2>2. jsonl[j].conn \in Tasks
    BY <2>1 DEF Events
  <2> QED BY <2>2, NotClosedYet
<1> SUFFICES ASSUME NEW j \in 1 .. Len(jsonl), jsonl[j].event = "close", NEW dir \in Dirs,
                    NEW k, k = <<jsonl[j].conn, dir>>, k \notin unopened',
                    reached'[k] - Len(head_file'[k]) - Len(tail_file'[k]) > untailed'[k]
             PROVE  ReportedIn(jsonl, k, reached'[k], j)
  BY DEF ReportsAll
<1>5. jsonl[j].conn \in Tasks \ {c}
  BY <1>4
<1>6. /\ reached'[k] = reached[k] /\ untailed'[k] = untailed[k]
      /\ head_file'[k] = head_file[k] /\ tail_file'[k] = tail_file[k]
  BY <1>5
<1>7. k \notin unopened
  OBVIOUS
<1>8. reached[k] - Len(head_file[k]) - Len(tail_file[k]) > untailed[k]
        => ReportedIn(jsonl, k, reached[k], j)
  BY <1>3, <1>7 DEF ReportsAll
<1> QED BY <1>6, <1>8

\* Steps that leave streams, index and main alone.
LEMMA QuietStep ==
  ASSUME LInv, LoggerTypes', Budgeted', NEW c \in Tasks,
         UNCHANGED <<sinkVars, jsonl, mainVars>>,
         max_run_bytes' = max_run_bytes,
         max_run_bytes > 0 =>
           Total(GrantedTo(call')) + admitted <= Total(GrantedTo(call)) + admitted'
  PROVE  EventsHaveBytes' /\ RawIsGapless' /\ ClosedMeansReported' /\ SpaceIsGranted'
<1>1. /\ raw' = raw /\ head_file' = head_file /\ tail_file' = tail_file
      /\ reached' = reached /\ unopened' = unopened /\ untailed' = untailed
      /\ jsonl' = jsonl
      /\ opts' = opts /\ main' = main /\ drained' = drained /\ killed' = killed
  BY DEF sinkVars, mainVars
<1>2. EventsHaveBytes' /\ RawIsGapless' /\ ClosedMeansReported'
  <2>1. EventsHaveBytes'
    BY <1>1 DEF LInv, EventsHaveBytes
  <2>2. RawIsGapless'
    BY <1>1 DEF LInv, RawIsGapless
  <2>3. (LoggerTypes =>
           (ClosedMeansReported <=>
              (main = "running" /\ opts.raw =>
                 ReportsAll(jsonl, head_file, tail_file, reached, unopened, untailed))))'
    BY ClosedMeans, PTL
  <2>4. ClosedMeansReported'
    BY <1>1, <2>3, ClosedMeans DEF LInv
  <2> QED BY <2>1, <2>2, <2>4
<1>3. \A k \in Streams :
        HeldIn(head_file'[k], tail_file'[k], raw', drained', k)
          <= HeldIn(head_file[k], tail_file[k], raw, drained, k)
  <2> TAKE k \in Streams
  <2>1. HeldIn(head_file[k], tail_file[k], raw, drained, k) \in Nat
    BY HeldType DEF LInv
  <2> QED BY <1>1, <2>1
<1> QED BY <1>1, <1>2, <1>3, SpaceStays

\* Of a task that issues nothing, or one event.
LEMMA PrefixStays ==
  ASSUME LInv, NEW c \in Tasks, jsonl' = jsonl,
         issued' = issued
           \/ \E e \in Events : issued' = [issued EXCEPT ![c] = Append(@, e)]
  PROVE  EventsArePrefix'
<1>1. (EventsArePrefix <=> PrefixOf(jsonl, issued))'
  BY PrefixMeans, PTL
<1>2. PrefixOf(jsonl, issued)
  BY PrefixMeans DEF LInv
<1>3. CASE issued' = issued
  BY <1>1, <1>2, <1>3
<1>4. ASSUME NEW e \in Events, issued' = [issued EXCEPT ![c] = Append(@, e)]
      PROVE  PrefixOf(jsonl, issued')
  <2> SUFFICES ASSUME NEW i \in 1 .. Len(jsonl)
               PROVE  LET d == jsonl[i].conn
                          n == CountOf(jsonl, d, i)
                      IN  n <= Len(issued'[d]) /\ jsonl[i] = issued'[d][n]
    BY DEF PrefixOf
  <2> DEFINE d == jsonl[i].conn
             n == CountOf(jsonl, d, i)
  <2>1. /\ jsonl \in Seq(Events) /\ issued \in [Tasks -> Seq(Events)]
        /\ jsonl[i] \in Events
    BY ElementOfSeq DEF LInv, LoggerTypes
  <2>2. d \in Tasks
    BY <2>1 DEF Events
  <2>3. n \in Nat \ {0}
    <3>1. i \in 0 .. Len(jsonl) /\ i \in 1 .. i
      BY LenProperties, <2>1
    <3>2. n \in Nat
      BY <2>1, <3>1, CountType
    <3>3. IsFiniteSet({j \in 1 .. i : jsonl[j].conn = d})
      <4>1. IsFiniteSet(1 .. i)
        BY <3>1, FS_Interval
      <4> QED BY <4>1, FS_Subset
    <3>4. i \in {j \in 1 .. i : jsonl[j].conn = d}
      BY <3>1
    <3>5. n # 0
      BY <3>3, <3>4, FS_EmptySet DEF CountOf
    <3> QED BY <3>2, <3>5
  <2>4. n <= Len(issued[d]) /\ jsonl[i] = issued[d][n]
    BY <1>2 DEF PrefixOf
  <2>5. CASE d = c
    <3> DEFINE s == issued[c]
    <3>1. s \in Seq(Events) /\ issued'[d] = Append(s, e)
      BY <1>4, <2>1, <2>5
    <3>2. Len(s) \in Nat /\ n \in 1 .. Len(s)
      BY <2>3, <2>4, <2>5, <3>1, LenProperties
    <3>3. Len(Append(s, e)) = Len(s) + 1 /\ Append(s, e)[n] = s[n]
      BY <3>1, <3>2, AppendProperties
    <3> HIDE DEF n, d, s
    <3>4. n <= Len(s) + 1
      BY <3>2
    <3> QED BY <2>4, <2>5, <3>1, <3>3, <3>4 DEF s, n, d
  <2>6. CASE d # c
    BY <1>4, <2>1, <2>2, <2>4, <2>6
  <2> QED BY <2>5, <2>6
<1> QED BY <1>1, <1>3, <1>4

-----------------------------------------------------------------------------
\* The steps that leave streams and index alone.

LEMMA ItemTypes ==
  /\ \A kind \in {"open", "notice", "data", "truncated", "close"}, c \in Tasks,
        dir \in Dirs \cup {"none"}, n \in Nat : Event(kind, c, dir, n) \in Events
  /\ \A e \in Events : EventItem(e) \in Items
  /\ \A dir \in Dirs, data \in Seq(Nat) : RawItem(dir, data) \in Items
  /\ FinishItem \in Items
BY DEF Event, Events, EventItem, RawItem, Items

LEMMA QueueTypes ==
  ASSUME NEW x \in Items
  PROVE  /\ <<x>> \in Seq(Items) /\ Len(<<x>>) = 1 /\ <<x>>[1] = x /\ <<x>> # <<>>
         /\ \A y \in Items : /\ <<x, y>> \in Seq(Items) /\ Len(<<x, y>>) = 2
                             /\ <<x, y>>[1] = x /\ <<x, y>>[2] = y /\ <<x, y>> # <<>>
OBVIOUS

LEMMA NotWaiting ==
  ASSUME NEW q, ~AtRaw(q)
  PROVE  \A dir : Waiting(q, dir) = 0
BY DEF Waiting

LEMMA ReachSame ==
  ASSUME NEW c, NEW q, NEW r, NEW cut, NEW over, NEW snt, NEW rch, NEW lost,
         ReachOf(c, q, cut, snt, rch, lost), cut => over,
         \A dir \in Dirs : Waiting(r, dir) = Waiting(q, dir)
  PROVE  ReachOf(c, r, over, snt, rch, lost)
BY Zenon DEF ReachOf

\* What such a step has to keep of its own connection.
LEMMA QuietKeeps ==
  ASSUME LInv, Alive, NEW c \in Tasks, UNCHANGED <<sinkVars, jsonl, mainVars>>,
         life' \in [Tasks -> Lives], todo' \in [Tasks -> Seq(Items)],
         sent' \in [Streams -> Nat],
         issued' = issued
           \/ \E e \in Events : issued' = [issued EXCEPT ![c] = Append(@, e)],
         Budgeted', max_run_bytes' = max_run_bytes, disk_stopped => disk_stopped',
         max_run_bytes > 0 =>
           Total(GrantedTo(call')) + admitted <= Total(GrantedTo(call)) + admitted',
         \A d \in Tasks \ {c} :
           /\ life'[d] = life[d] /\ todo'[d] = todo[d] /\ call'[d] = call[d]
           /\ \A dir \in Dirs : sent'[<<d, dir>>] = sent[<<d, dir>>],
         life[c] # "closed" \/ todo[c] # <<>>,
         QueueOf(life'[c], todo'[c], c, sent'),
         ChargeFor(opts, call'[c], todo'[c]),
         opts.raw => ReachOf(c, todo'[c], CutOff(disk_stopped', call'[c]), sent',
                             reached, unopened),
         InStep(CutOff(disk_stopped', call'[c]), call'[c], todo'[c], issued'[c],
                CountOf(jsonl, c, Len(jsonl))),
         Unfinished(life'[c], todo'[c]) => Unfinished(life[c], todo[c]),
         main = "running" /\ opts.raw /\ opts.jsonl
           /\ Closing(life'[c], todo'[c]) /\ ~CutOff(disk_stopped', call'[c])
           => GapsOf(c, todo'[c], head_file, tail_file, reached, unopened, untailed, jsonl)
  PROVE  LInv'
<1>1. /\ raw' = raw /\ head_file' = head_file /\ tail_file' = tail_file
      /\ reached' = reached /\ unopened' = unopened /\ untailed' = untailed
      /\ jsonl' = jsonl
      /\ opts' = opts /\ main' = main /\ drained' = drained /\ killed' = killed
  BY DEF sinkVars, mainVars
<1>2. issued' \in [Tasks -> Seq(Events)]
      /\ \A d \in Tasks \ {c} : issued'[d] = issued[d]
  <2>1. issued \in [Tasks -> Seq(Events)]
    BY DEF LInv, LoggerTypes
  <2>2. \A e \in Events : Append(issued[c], e) \in Seq(Events)
    BY <2>1, AppendProperties
  <2> QED BY <2>1, <2>2
<1>3. LoggerTypes'
  BY <1>1, <1>2 DEF LInv, LoggerTypes, Lives
<1>4. Only(c)
  BY <1>1, <1>2 DEF Only
<1>5. main = "running" =>
        WholeOf(c, life'[c], todo'[c], raw', head_file', tail_file', reached',
                unopened')
  <2>1. main = "running" =>
          WholeOf(c, life[c], todo[c], raw, head_file, tail_file, reached, unopened)
    BY ConnFacts
  <2> QED BY <1>1, <2>1, Zenon DEF WholeOf, WholeAt
<1>6. /\ Queues' /\ CallsInStep' /\ Reaching' /\ IndexInStep'
      /\ StreamsWhole' /\ GapsReported'
  BY <1>1, <1>4, <1>5, ConnStep
<1>7. EventsHaveBytes' /\ RawIsGapless' /\ ClosedMeansReported' /\ SpaceIsGranted'
  BY <1>3, QuietStep
<1>8. EventsArePrefix'
  BY <1>1, PrefixStays
<1>9. CloseIsLast'
  BY <1>1, CloseStays
<1> QED BY <1>3, <1>6, <1>7, <1>8, <1>9 DEF LInv

\* A task with nothing to do is in no call, and nothing of it waits.
LEMMA AtRest ==
  ASSUME LInv, Alive, NEW c \in Tasks, todo[c] = <<>>
  PROVE  call[c].at = "idle" /\ \A dir : Waiting(todo[c], dir) = 0
<1>1. ChargeFor(opts, call[c], todo[c])
  BY ConnFacts
<1>2. ~AtRaw(todo[c]) /\ ~AtEvent(todo[c])
  BY DEF AtRaw, AtEvent
<1> QED BY <1>1, <1>2, NotWaiting DEF ChargeFor

\* Without a cap or a call nothing of the budget moves.
LEMMA SameSpace ==
  ASSUME Budgeted, call' = call, admitted' = admitted
  PROVE  Total(GrantedTo(call')) + admitted <= Total(GrantedTo(call)) + admitted'
<1>1. Total(GrantedTo(call)) \in Nat /\ admitted \in Nat
  BY GrantedType, BudgetAssumption, TotalType DEF Budgeted, BudgetTypeOK
<1> QED BY <1>1

\* A task begins one of the Logger's operations: the queue is all there is to
\* look at.
LEMMA BeginKeeps ==
  ASSUME LInv, Alive, NEW c \in Tasks, todo[c] = <<>>, life[c] \in {"new", "open"},
         NEW l \in Lives, NEW q \in Seq(Items),
         life' = [life EXCEPT ![c] = l], todo' = [todo EXCEPT ![c] = q],
         sent' \in [Streams -> Nat],
         \A d \in Tasks \ {c}, dir \in Dirs : sent'[<<d, dir>>] = sent[<<d, dir>>],
         UNCHANGED <<budgetVars, issued, sinkVars, jsonl, mainVars>>,
         QueueOf(l, q, c, sent'),
         opts.raw => ReachOf(c, q, CutOff(disk_stopped, call[c]), sent', reached,
                             unopened),
         Unfinished(l, q) => Unfinished(life[c], todo[c]),
         main = "running" /\ opts.raw /\ Closing(l, q) =>
           GapsOf(c, q, head_file, tail_file, reached, unopened, untailed, jsonl)
  PROVE  LInv'
<1>1. /\ life \in [Tasks -> Lives] /\ todo \in [Tasks -> Seq(Items)] /\ Budgeted
  BY DEF LInv, LoggerTypes, Lives
<1>2. /\ Budgeted' /\ call' = call /\ disk_stopped' = disk_stopped
      /\ max_run_bytes' = max_run_bytes /\ admitted' = admitted
  BY <1>1, SameBudget
<1>3. call[c].at = "idle"
  BY AtRest
<1>4. life'[c] = l /\ todo'[c] = q
      /\ \A d \in Tasks \ {c} : life'[d] = life[d] /\ todo'[d] = todo[d]
  BY <1>1
<1>5. life' \in [Tasks -> Lives] /\ todo' \in [Tasks -> Seq(Items)]
  BY <1>1
<1>6. ChargeFor(opts, call'[c], todo'[c])
  BY <1>2, <1>3 DEF ChargeFor
<1>7. InStep(CutOff(disk_stopped', call'[c]), call'[c], todo'[c], issued'[c],
             CountOf(jsonl, c, Len(jsonl)))
  <2>1. InStep(CutOff(disk_stopped, call[c]), call[c], todo[c], issued[c],
               CountOf(jsonl, c, Len(jsonl)))
    BY ConnFacts
  <2> QED BY <1>2, <1>3, <2>1, Zenon DEF InStep
<1>8. Total(GrantedTo(call')) + admitted <= Total(GrantedTo(call)) + admitted'
  BY <1>1, <1>2, SameSpace
<1> QED BY <1>2, <1>4, <1>5, <1>6, <1>7, <1>8, QuietKeeps

LEMMA OpenKeeps ==
  ASSUME LInv, NEW c \in Tasks, Open(c)
  PROVE  LInv'
<1> DEFINE item == EventItem(Event("open", c, "none", 0))
           q == <<item>>
<1>1. /\ Alive /\ life[c] = "new"
      /\ life' = [life EXCEPT ![c] = "open"] /\ todo' = [todo EXCEPT ![c] = q]
      /\ UNCHANGED <<budgetVars, issued, sinkVars, jsonl, mainVars>> /\ sent' = sent
  BY DEF Open
<1>2. todo[c] = <<>> /\ call[c].at = "idle" /\ \A dir : Waiting(todo[c], dir) = 0
  <2>1. todo[c] = <<>>
    BY <1>1, ConnFacts DEF QueueOf
  <2> QED BY <1>1, <2>1, AtRest
<1>3. item \in Items /\ item.what = "event"
  BY ItemTypes DEF EventItem
<1>4. q \in Seq(Items) /\ Len(q) = 1 /\ q[1] = item
  BY <1>3, QueueTypes
<1> HIDE DEF item, q
<1>5. ~AtRaw(q)
  BY <1>3, <1>4 DEF AtRaw
<1>6. QueueOf("open", q, c, sent)
  BY <1>4 DEF QueueOf, OpenQueue, item
<1>7. opts.raw => ReachOf(c, q, CutOff(disk_stopped, call[c]), sent, reached, unopened)
  <2>1. opts.raw => ReachOf(c, todo[c], CutOff(disk_stopped, call[c]), sent,
                            reached, unopened)
    BY <1>1, ConnFacts
  <2>2. \A dir \in Dirs : Waiting(q, dir) = Waiting(todo[c], dir)
    BY <1>2, <1>5, NotWaiting
  <2> QED BY <2>1, <2>2, ReachSame
<1>8. Unfinished(life[c], todo[c]) /\ ~Closing("open", q)
  BY <1>1 DEF Unfinished, Closing
<1>9. sent \in [Streams -> Nat] /\ "open" \in Lives
  BY DEF LInv, LoggerTypes, Lives
<1> QED BY <1>1, <1>2, <1>4, <1>6, <1>7, <1>8, <1>9, BeginKeeps

LEMMA NoticeKeeps ==
  ASSUME LInv, Marks, NEW c \in Tasks, Notice(c)
  PROVE  LInv'
<1> DEFINE item == EventItem(Event("notice", c, "none", 0))
           q == <<item>>
<1>1. /\ Alive /\ life[c] = "new"
      /\ life' = [life EXCEPT ![c] = "closed"] /\ todo' = [todo EXCEPT ![c] = q]
      /\ UNCHANGED <<budgetVars, issued, sinkVars, jsonl, mainVars>> /\ sent' = sent
  BY DEF Notice
<1>2. /\ todo[c] = <<>> /\ call[c].at = "idle" /\ \A dir : Waiting(todo[c], dir) = 0
      /\ \A dir \in Dirs : sent[<<c, dir>>] = 0
  <2>1. todo[c] = <<>> /\ \A dir \in Dirs : sent[<<c, dir>>] = 0
    BY <1>1, ConnFacts DEF QueueOf
  <2> QED BY <1>1, <2>1, AtRest
<1>3. item \in Items /\ item.what = "event" /\ IsEvent(item, "notice", c)
  BY ItemTypes DEF EventItem, IsEvent, Event
<1>4. q \in Seq(Items) /\ Len(q) = 1 /\ q[1] = item
  BY <1>3, QueueTypes
<1> HIDE DEF item, q
<1>5. ~AtRaw(q) /\ ~AtFinish(q)
  BY <1>3, <1>4 DEF AtRaw, AtFinish
<1>6. QueueOf("closed", q, c, sent)
  BY <1>3, <1>4 DEF QueueOf, ClosedQueue
<1>r. opts.raw => ReachOf(c, todo[c], CutOff(disk_stopped, call[c]), sent,
                          reached, unopened)
  BY <1>1, ConnFacts
<1>7. opts.raw => ReachOf(c, q, CutOff(disk_stopped, call[c]), sent, reached, unopened)
  <2>1. \A dir \in Dirs : Waiting(q, dir) = Waiting(todo[c], dir)
    BY <1>2, <1>5, NotWaiting
  <2> QED BY <1>r, <2>1, ReachSame
<1>8. ~Unfinished("closed", q)
  BY <1>5 DEF Unfinished
<1>9. sent \in [Streams -> Nat] /\ "closed" \in Lives
  BY DEF LInv, LoggerTypes, Lives
\* Nothing was sent, so nothing can be missing.
<1>10. opts.raw => GapsOf(c, q, head_file, tail_file, reached, unopened, untailed, jsonl)
  <2> SUFFICES ASSUME opts.raw, NEW dir \in Dirs
               PROVE  LET k == <<c, dir>> IN
                      ~(reached[k] - Len(head_file[k]) - Len(tail_file[k]) > untailed[k])
    BY Zenon DEF GapsOf
  <2> DEFINE k == <<c, dir>>
  <2>1. k \in Streams
    BY DEF Streams
  <2>2. reached[k] + Waiting(todo[c], dir) <= sent[k]
    BY <1>r DEF ReachOf
  <2>3. reached[k] \in Nat /\ head_file[k] \in Seq(Nat) /\ tail_file[k] \in Seq(Nat)
    BY <2>1 DEF LInv, LoggerTypes
  <2> DEFINE h == Len(head_file[k])
             t == Len(tail_file[k])
             n == reached[k]
             u == untailed[k]
  <2>4. h \in Nat /\ t \in Nat /\ n \in Nat /\ u \in Nat
    BY <2>1, <2>3, LenProperties DEF Marks
  <2>5. n + 0 <= 0
    BY <1>2, <2>2
  <2> HIDE DEF h, t, n, u
  <2>6. ~(n - h - t > u)
    BY <2>4, <2>5
  <2> QED BY <2>6 DEF h, t, n, u
<1> QED BY <1>1, <1>2, <1>4, <1>6, <1>7, <1>8, <1>9, <1>10, BeginKeeps

LEMMA DataKeeps ==
  ASSUME LInv, NEW c \in Tasks, NEW dir \in Dirs, NEW n \in Chunks, Data(c, dir, n)
  PROVE  LInv'
<1> DEFINE k == <<c, dir>>
           a == sent[k]
           data == Run(a, n)
           x == RawItem(dir, data)
           y == EventItem(Event("data", c, dir, data[Len(data)]))
           q == <<x, y>>
<1>0. n \in Nat \ {0} /\ k \in Streams
  BY LoggerSizes DEF Streams
<1>t. sent \in [Streams -> Nat] /\ a \in Nat
  BY <1>0 DEF LInv, LoggerTypes
<1>1. /\ Alive /\ life[c] = "open" /\ todo[c] = <<>>
      /\ sent' = [sent EXCEPT ![k] = a + n] /\ todo' = [todo EXCEPT ![c] = q]
      /\ life' = life
      /\ UNCHANGED <<budgetVars, issued, sinkVars, jsonl, mainVars>>
  BY DEF Data, DataItems, Run
<1>2. call[c].at = "idle" /\ \A d : Waiting(todo[c], d) = 0
  BY <1>1, AtRest
<1> HIDE DEF k, a
<1>3. data \in Seq(Nat) /\ Len(data) = n /\ data[Len(data)] = a + n
  <2>1. data \in Seq(Nat) /\ Len(data) = n /\ \A i \in 1 .. n : data[i] = a + i
    BY <1>0, <1>t, RunIsSeq
  <2> HIDE DEF data
  <2> QED BY <1>0, <2>1
<1>4. x \in Items /\ x.what = "raw" /\ x.dir = dir /\ x.data = data
  BY <1>3, ItemTypes DEF RawItem
<1>5. y \in Items /\ y = EventItem(Event("data", c, dir, a + n))
  <2>1. a + n \in Nat
    BY <1>0, <1>t
  <2> QED BY <1>3, <2>1, ItemTypes
<1> HIDE DEF x, y, data
<1>6. q \in Seq(Items) /\ Len(q) = 2 /\ q[1] = x /\ q[2] = y /\ q # <<>>
  BY <1>4, <1>5, QueueTypes
<1> HIDE DEF q
<1>7. AtRaw(q) /\ ~AtEvent(q)
  BY <1>4, <1>6 DEF AtRaw, AtEvent
<1>8. sent' \in [Streams -> Nat] /\ sent'[k] = a + n
      /\ \A j \in Streams \ {k} : sent'[j] = sent[j]
  BY <1>0, <1>1, <1>t
<1>9. \A d \in Tasks \ {c}, e \in Dirs : sent'[<<d, e>>] = sent[<<d, e>>]
  BY <1>8 DEF Streams, k
<1>10. QueueOf("open", q, c, sent')
  <2>1. n <= a + n /\ a + n - n = a
    BY <1>0, <1>t
  <2>a. sent'[<<c, dir>>] = a + n /\ sent'[<<c, dir>>] - n = a
    <3>1. sent'[<<c, dir>>] = a + n
      BY <1>8 DEF k
    <3>2. (a + n) - n = a
      BY <1>0, <1>t
    <3> QED BY <3>1, <3>2
  <2>2. q[1] = RawItem(dir, Run(sent'[<<c, dir>>] - n, n))
        /\ q[2] = EventItem(Event("data", c, dir, sent'[<<c, dir>>]))
    BY <1>5, <1>6, <2>a DEF x, data
  <2>3. OpenQueue(q, c, sent')
    BY <1>6, <1>8, <2>1, <2>2 DEF OpenQueue, k
  <2> QED BY <2>3 DEF QueueOf
<1>11. ASSUME opts.raw
       PROVE  ReachOf(c, q, CutOff(disk_stopped, call[c]), sent', reached, unopened)
  <2>1. ReachOf(c, todo[c], CutOff(disk_stopped, call[c]), sent, reached, unopened)
    BY <1>1, <1>11, ConnFacts
  <2> SUFFICES ASSUME NEW e \in Dirs
               PROVE  LET j == <<c, e>> IN
                      /\ reached[j] + Waiting(q, e) <= sent'[j]
                      /\ \/ j \in unopened \/ CutOff(disk_stopped, call[c])
                         \/ reached[j] + Waiting(q, e) = sent'[j]
    BY DEF ReachOf
  <2> DEFINE j == <<c, e>>
  <2>2. j \in Streams
    BY DEF Streams
  <2>3. /\ reached[j] + 0 <= sent[j]
        /\ j \in unopened \/ CutOff(disk_stopped, call[c]) \/ reached[j] + 0 = sent[j]
    BY <1>2, <2>1 DEF ReachOf
  <2>4. reached[j] \in Nat /\ sent[j] \in Nat
    BY <2>2 DEF LInv, LoggerTypes
  <2>5. CASE e = dir
    <3>1. Waiting(q, e) = n /\ sent'[j] = sent[j] + n
      BY <1>3, <1>4, <1>6, <1>7, <1>8, <2>5 DEF Waiting, a, k
    <3> HIDE DEF j
    <3>2. /\ reached[j] + n <= sent[j] + n
          /\ reached[j] + 0 = sent[j] => reached[j] + n = sent[j] + n
      BY <1>0, <2>3, <2>4
    <3>3. /\ reached[j] + Waiting(q, e) <= sent'[j]
          /\ reached[j] + 0 = sent[j] => reached[j] + Waiting(q, e) = sent'[j]
      BY <3>1, <3>2
    <3> QED BY <2>3, <3>3, Zenon DEF j
  <2>6. CASE e # dir
    <3>1. Waiting(q, e) = 0 /\ sent'[j] = sent[j]
      BY <1>4, <1>6, <1>8, <2>2, <2>6 DEF Waiting, k
    <3> QED BY <2>3, <3>1
  <2> QED BY <2>5, <2>6
<1>12. Unfinished(life[c], todo[c]) /\ ~Closing("open", q)
  BY <1>1 DEF Unfinished, Closing
<1>13. life' = [life EXCEPT ![c] = "open"] /\ "open" \in Lives
  BY <1>1 DEF LInv, LoggerTypes, Lives
<1> QED BY <1>1, <1>6, <1>7, <1>8, <1>9, <1>10, <1>11, <1>12, <1>13, BeginKeeps

LEMMA CloseKeeps ==
  ASSUME LInv, NEW c \in Tasks, Close(c)
  PROVE  LInv'
<1> DEFINE x == FinishItem
           y == EventItem(Event("close", c, "none", 0))
           q == <<x, y>>
<1>1. /\ Alive /\ life[c] = "open" /\ todo[c] = <<>>
      /\ life' = [life EXCEPT ![c] = "closed"] /\ todo' = [todo EXCEPT ![c] = q]
      /\ UNCHANGED <<budgetVars, issued, sinkVars, jsonl, mainVars>> /\ sent' = sent
  BY DEF Close
<1>2. call[c].at = "idle" /\ \A dir : Waiting(todo[c], dir) = 0
  BY <1>1, AtRest
<1>3. x \in Items /\ y \in Items /\ x.what = "finish" /\ IsEvent(y, "close", c)
  BY ItemTypes DEF EventItem, IsEvent, Event, FinishItem
<1>4. q \in Seq(Items) /\ Len(q) = 2 /\ q[1] = x /\ q[2] = y /\ q # <<>>
  BY <1>3, QueueTypes
<1> HIDE DEF x, y, q
<1>5. ~AtRaw(q) /\ AtFinish(q)
  BY <1>3, <1>4 DEF AtRaw, AtFinish
<1>6. QueueOf("closed", q, c, sent)
  BY <1>3, <1>4 DEF QueueOf, ClosedQueue, x
<1>7. opts.raw => ReachOf(c, q, CutOff(disk_stopped, call[c]), sent, reached, unopened)
  <2>1. opts.raw => ReachOf(c, todo[c], CutOff(disk_stopped, call[c]), sent,
                            reached, unopened)
    BY <1>1, ConnFacts
  <2>2. \A dir \in Dirs : Waiting(q, dir) = Waiting(todo[c], dir)
    BY <1>2, <1>5, NotWaiting
  <2> QED BY <2>1, <2>2, ReachSame
<1>8. Unfinished(life[c], todo[c]) /\ ~Closing("closed", q)
  BY <1>1, <1>5 DEF Unfinished, Closing
<1>9. sent \in [Streams -> Nat] /\ "closed" \in Lives
  BY DEF LInv, LoggerTypes, Lives
<1> QED BY <1>1, <1>2, <1>4, <1>6, <1>7, <1>8, <1>9, BeginKeeps

\* The item at hand.
LEMMA AtFacts ==
  ASSUME LInv, NEW c \in Tasks, NEW what, At(c, what)
  PROVE  /\ Alive /\ todo[c] # <<>> /\ Head(todo[c]) = todo[c][1]
         /\ todo[c][1].what = what /\ Tail(todo[c]) \in Seq(Items)
         /\ todo[c] \in Seq(Items) /\ todo[c][1] \in Items
         /\ what = "event" => AtEvent(todo[c])
         /\ what = "raw" => AtRaw(todo[c])
         /\ what = "finish" => AtFinish(todo[c])
<1>1. Alive /\ todo[c] # <<>> /\ Head(todo[c]).what = what
  BY DEF At
<1>2. todo[c] \in Seq(Items)
  BY DEF LInv, LoggerTypes
<1>3. /\ Head(todo[c]) = todo[c][1] /\ todo[c][1] \in Items
      /\ Tail(todo[c]) \in Seq(Items)
  BY <1>1, <1>2, QueueHead
<1> QED BY <1>1, <1>2, <1>3 DEF AtEvent, AtRaw, AtFinish

\* An item is dropped: its sink is off, or the run has stopped.
LEMMA DropKeeps ==
  ASSUME LInv, Alive, NEW c \in Tasks, AtEvent(todo[c]) \/ AtRaw(todo[c]),
         life' = life, sent' = sent, issued' = issued, Done(c),
         UNCHANGED <<sinkVars, jsonl, mainVars>>,
         Budgeted', max_run_bytes' = max_run_bytes, disk_stopped' = disk_stopped,
         max_run_bytes > 0 =>
           Total(GrantedTo(call')) + admitted <= Total(GrantedTo(call)) + admitted',
         call'[c].at = "idle", \A d \in Tasks \ {c} : call'[d] = call[d],
         \/ disk_stopped
         \/ call[c].at = "idle" /\ AtEvent(todo[c]) /\ ~opts.jsonl
         \/ call[c].at = "idle" /\ AtRaw(todo[c]) /\ ~opts.raw
  PROVE  LInv'
<1> DEFINE q == todo[c]
           r == Tail(todo[c])
<1>1. /\ life \in [Tasks -> Lives] /\ todo \in [Tasks -> Seq(Items)] /\ Budgeted
      /\ sent \in [Streams -> Nat] /\ life[c] \in Lives
  BY DEF LInv, LoggerTypes, Lives
<1>2. q # <<>> /\ q \in Seq(Items) /\ r \in Seq(Items)
  <2>1. q # <<>> /\ q \in Seq(Items)
    BY <1>1 DEF AtEvent, AtRaw
  <2> QED BY <2>1, QueueHead
<1>3. /\ todo'[c] = r /\ \A d \in Tasks \ {c} : todo'[d] = todo[d]
      /\ todo' \in [Tasks -> Seq(Items)]
  BY <1>1, <1>2 DEF Done
<1>4. /\ QueueOf(life[c], r, c, sent) /\ ~AtRaw(r) /\ ~AtFinish(r)
  BY <1>1, <1>2, ConnFacts, QueueTail
<1>5. \A dir : Waiting(r, dir) = 0
  BY <1>4, NotWaiting
<1>6. ChargeFor(opts, call'[c], todo'[c])
  BY DEF ChargeFor
<1>7. ASSUME opts.raw
      PROVE  ReachOf(c, r, CutOff(disk_stopped', call'[c]), sent, reached, unopened)
  <2>1. ReachOf(c, q, CutOff(disk_stopped, call[c]), sent, reached, unopened)
    BY <1>7, ConnFacts
  <2>2. CASE disk_stopped
    <3>1. CutOff(disk_stopped', call'[c])
      BY <2>2 DEF CutOff
    <3> SUFFICES ASSUME NEW dir \in Dirs
                 PROVE  reached[<<c, dir>>] + Waiting(r, dir) <= sent[<<c, dir>>]
      BY <3>1 DEF ReachOf
    <3> DEFINE k == <<c, dir>>
               w == Waiting(q, dir)
    <3>2. reached[k] + w <= sent[k]
      BY <2>1 DEF ReachOf
    <3>3. reached[k] \in Nat /\ sent[k] \in Nat
      BY DEF LInv, LoggerTypes, Streams
    <3>4. w \in Nat
      <4>1. CASE AtRaw(q) /\ q[1].dir = dir
        <5>1. q[1] \in Items /\ q[1].what = "raw"
          BY <1>2, <4>1, QueueHead DEF AtRaw
        <5>2. q[1].data \in Seq(Nat)
          BY <5>1 DEF Items, FinishItem
        <5> QED BY <4>1, <5>2, LenProperties DEF Waiting
      <4>2. CASE ~(AtRaw(q) /\ q[1].dir = dir)
        BY <4>2 DEF Waiting
      <4> QED BY <4>1, <4>2
    <3> HIDE DEF k, w
    <3>5. reached[k] + 0 <= sent[k]
      BY <3>2, <3>3, <3>4
    <3> QED BY <1>5, <3>5 DEF k
  <2>3. CASE call[c].at = "idle" /\ AtEvent(q)
    <3>1. ~AtRaw(q)
      BY <2>3 DEF AtRaw, AtEvent
    <3>2. \A dir \in Dirs : Waiting(r, dir) = Waiting(q, dir)
      BY <1>5, <3>1, NotWaiting
    <3>3. CutOff(disk_stopped, call[c]) => CutOff(disk_stopped', call'[c])
      BY DEF CutOff
    <3> HIDE DEF q, r
    <3> QED BY <2>1, <3>2, <3>3, ReachSame
  <2> QED BY <1>7, <2>2, <2>3
<1>8. InStep(CutOff(disk_stopped', call'[c]), call'[c], todo'[c], issued'[c],
             CountOf(jsonl, c, Len(jsonl)))
  <2> DEFINE w == CountOf(jsonl, c, Len(jsonl))
             m == Len(issued[c])
  <2>1. InStep(CutOff(disk_stopped, call[c]), call[c], q, issued[c], w)
    BY ConnFacts
  <2>2. w \in Nat /\ m \in Nat
    BY ConnFacts, LenProperties
  <2>3. CASE disk_stopped
    <3>1. CutOff(disk_stopped', call'[c])
      BY <2>3 DEF CutOff
    <3>2. w <= m - 1 \/ w <= m
      BY <2>1 DEF InStep
    <3>3. w <= m
      BY <2>2, <3>2
    <3> QED BY <3>1, <3>3 DEF InStep
  <2>4. CASE call[c].at = "idle"
    <3>1. CutOff(disk_stopped, call[c]) <=> CutOff(disk_stopped', call'[c])
      BY <2>4 DEF CutOff
    <3> QED BY <2>1, <2>4, <3>1, Zenon DEF InStep
  <2> QED BY <2>3, <2>4
<1>9. Unfinished(life[c], r) => Unfinished(life[c], q)
  BY <1>4 DEF Unfinished
<1>10. disk_stopped => CutOff(disk_stopped', call'[c])
  BY DEF CutOff
<1> HIDE DEF q, r
<1> QED BY <1>1, <1>2, <1>3, <1>4, <1>6, <1>7, <1>8, <1>9, <1>10, QuietKeeps DEF q

LEMMA SkipKeeps ==
  ASSUME LInv, NEW c \in Tasks, SkipItem(c)
  PROVE  LInv'
<1>1. /\ (At(c, "event") /\ ~opts.jsonl) \/ (At(c, "raw") /\ ~opts.raw)
      /\ call[c].at = "idle" /\ Done(c) /\ UNCHANGED budgetVars
      /\ life' = life /\ sent' = sent /\ issued' = issued
      /\ UNCHANGED <<sinkVars, jsonl, mainVars>>
  BY DEF SkipItem
<1>2. Alive /\ Budgeted
  BY <1>1, AtFacts DEF LInv
<1>3. /\ Budgeted' /\ call' = call /\ disk_stopped' = disk_stopped
      /\ max_run_bytes' = max_run_bytes /\ admitted' = admitted
  BY <1>1, <1>2, SameBudget
<1>4. Total(GrantedTo(call')) + admitted <= Total(GrantedTo(call)) + admitted'
  BY <1>2, <1>3, SameSpace
<1>5. \/ AtEvent(todo[c]) /\ ~opts.jsonl
      \/ AtRaw(todo[c]) /\ ~opts.raw
  BY <1>1, AtFacts
<1> QED BY <1>1, <1>2, <1>3, <1>4, <1>5, DropKeeps

LEMMA RefusedKeeps ==
  ASSUME LInv, NEW c \in Tasks, Refused(c)
  PROVE  LInv'
<1>1. /\ At(c, "event") \/ At(c, "raw")
      /\ call[c].at = "refused" /\ EndCharge(c) /\ Done(c)
      /\ life' = life /\ sent' = sent /\ issued' = issued
      /\ UNCHANGED <<sinkVars, jsonl, mainVars>>
  BY DEF Refused
<1>2. Alive /\ Budgeted /\ (AtEvent(todo[c]) \/ AtRaw(todo[c]))
  BY <1>1, AtFacts DEF LInv
<1>3. /\ Budgeted' /\ max_run_bytes' = max_run_bytes
      /\ disk_stopped' = disk_stopped /\ admitted' = admitted
      /\ call'[c].at = "idle" /\ disk_stopped
      /\ \A d \in Tasks \ {c} : call'[d] = call[d]
      /\ Total(GrantedTo(call)) = Total(GrantedTo(call')) + 0
  BY <1>1, <1>2, EndFacts
<1>4. Total(GrantedTo(call')) + admitted <= Total(GrantedTo(call)) + admitted'
  <2>1. Total(GrantedTo(call')) \in Nat /\ admitted \in Nat
    <3>1. GrantedTo(call') \in [Tasks -> Nat]
      BY <1>3, GrantedType DEF Budgeted, BudgetTypeOK
    <3> QED BY <1>2, <3>1, BudgetAssumption, TotalType DEF Budgeted, BudgetTypeOK
  <2> QED BY <1>3, <2>1
<1> QED BY <1>1, <1>2, <1>3, <1>4, DropKeeps

\* A step of charge, under the item it is for.
LEMMA CallKeeps ==
  ASSUME LInv, Alive, NEW c \in Tasks, todo[c] # <<>>,
         UNCHANGED <<sinkVars, jsonl, mainVars>>,
         life' = life, todo' = todo, sent' = sent,
         issued' = issued
           \/ \E e \in Events : issued' = [issued EXCEPT ![c] = Append(@, e)],
         Budgeted', max_run_bytes' = max_run_bytes, disk_stopped => disk_stopped',
         max_run_bytes > 0 =>
           Total(GrantedTo(call')) + admitted <= Total(GrantedTo(call)) + admitted',
         \A d \in Tasks \ {c} : call'[d] = call[d],
         CutOff(disk_stopped, call[c]) => CutOff(disk_stopped', call'[c]),
         ChargeFor(opts, call'[c], todo[c]),
         InStep(CutOff(disk_stopped', call'[c]), call'[c], todo[c], issued'[c],
                CountOf(jsonl, c, Len(jsonl)))
  PROVE  LInv'
<1>1. /\ life \in [Tasks -> Lives] /\ todo \in [Tasks -> Seq(Items)]
      /\ sent \in [Streams -> Nat]
  BY DEF LInv, LoggerTypes, Lives
<1>2. QueueOf(life[c], todo[c], c, sent)
  BY ConnFacts
<1>3. opts.raw => ReachOf(c, todo[c], CutOff(disk_stopped', call'[c]), sent,
                          reached, unopened)
  <2>1. opts.raw => ReachOf(c, todo[c], CutOff(disk_stopped, call[c]), sent,
                            reached, unopened)
    BY ConnFacts
  <2> QED BY <2>1, ReachSame
<1>4. main = "running" /\ opts.raw /\ opts.jsonl
        /\ Closing(life[c], todo[c]) /\ ~CutOff(disk_stopped', call'[c])
        => GapsOf(c, todo[c], head_file, tail_file, reached, unopened, untailed, jsonl)
  BY ConnFacts
<1> QED BY <1>1, <1>2, <1>3, <1>4, QuietKeeps

LEMMA EmitBeginKeeps ==
  ASSUME LInv, NEW c \in Tasks, EmitBegin(c)
  PROVE  LInv'
<1> DEFINE e == todo[c][1].ev
<1>1. /\ At(c, "event") /\ opts.jsonl /\ BeginCharge(c, EventSize)
      /\ life' = life /\ todo' = todo /\ sent' = sent
      /\ UNCHANGED <<sinkVars, jsonl, mainVars>>
  BY DEF EmitBegin
<1>2. /\ Alive /\ todo[c] # <<>> /\ AtEvent(todo[c]) /\ Budgeted
      /\ Head(todo[c]) = todo[c][1]
  BY <1>1, AtFacts DEF LInv
<1>3. issued' = [issued EXCEPT ![c] = Append(@, e)] /\ e \in Events
  <2>1. issued' = [issued EXCEPT ![c] = Append(@, e)]
    BY <1>2 DEF EmitBegin
  <2> QED BY <1>2, <2>1, ConnFacts, QueueEvent
<1>4. /\ Budgeted' /\ max_run_bytes' = max_run_bytes
      /\ disk_stopped' = disk_stopped /\ admitted' = admitted
      /\ call[c].at = "idle" /\ call'[c].at # "idle" /\ call'[c].n = EventSize
      /\ CutOff(disk_stopped', call'[c]) <=> CutOff(disk_stopped, call[c])
      /\ \A d \in Tasks \ {c} : call'[d] = call[d]
      /\ max_run_bytes > 0 => GrantedTo(call') = GrantedTo(call)
  BY <1>1, <1>2, LoggerSizes, BeginFacts
<1>5. ChargeFor(opts, call'[c], todo[c])
  BY <1>1, <1>2, <1>4 DEF ChargeFor
<1>6. InStep(CutOff(disk_stopped', call'[c]), call'[c], todo[c], issued'[c],
             CountOf(jsonl, c, Len(jsonl)))
  <2> DEFINE w == CountOf(jsonl, c, Len(jsonl))
             s == issued[c]
             m == Len(s)
             cut == CutOff(disk_stopped, call[c])
  <2>1. s \in Seq(Events) /\ w \in Nat /\ InStep(cut, call[c], todo[c], s, w)
    BY <1>2, ConnFacts
  <2>2. w <= m /\ (cut \/ w = m)
    BY <1>4, <2>1 DEF InStep
  <2>3. issued'[c] = Append(s, e)
    BY <1>3 DEF LInv, LoggerTypes
  <2>4. m \in Nat /\ Len(Append(s, e)) = m + 1 /\ Append(s, e)[m + 1] = e
    BY <1>3, <2>1, AppendProperties, LenProperties
  <2> HIDE DEF w, m, s, e, cut
  <2>5. Len(issued'[c]) = m + 1 /\ issued'[c][Len(issued'[c])] = e
    BY <2>3, <2>4
  <2>6. m + 1 > 0 /\ (m + 1) - 1 = m
    BY <2>4
  <2>7. /\ Len(issued'[c]) > 0
        /\ w <= Len(issued'[c]) - 1 /\ (cut \/ w = Len(issued'[c]) - 1)
    BY <2>2, <2>5, <2>6
  <2> QED BY <1>2, <1>4, <2>5, <2>7 DEF InStep, w, e, cut
<1>7. max_run_bytes > 0 =>
        Total(GrantedTo(call')) + admitted <= Total(GrantedTo(call)) + admitted'
  <2>1. Total(GrantedTo(call)) \in Nat /\ admitted \in Nat
    BY <1>2, GrantedType, BudgetAssumption, TotalType DEF Budgeted, BudgetTypeOK
  <2> QED BY <1>4, <2>1
<1> HIDE DEF e
<1> QED BY <1>1, <1>2, <1>3, <1>4, <1>5, <1>6, <1>7, CallKeeps

\* A call that is already under way, or for bytes: the issued events stay.
LEMMA InStepStays ==
  ASSUME NEW q, NEW cut, NEW over, NEW place, NEW there, NEW issue, NEW w,
         InStep(cut, place, q, issue, w), cut => over,
         (place.at # "idle" /\ AtEvent(q)) <=> (there.at # "idle" /\ AtEvent(q))
  PROVE  InStep(over, there, q, issue, w)
BY Zenon DEF InStep

LEMMA RawBeginKeeps ==
  ASSUME LInv, NEW c \in Tasks, RawBegin(c)
  PROVE  LInv'
<1> DEFINE n == Len(todo[c][1].data)
<1>1. /\ At(c, "raw") /\ opts.raw /\ BeginCharge(c, Len(Head(todo[c]).data))
      /\ life' = life /\ todo' = todo /\ sent' = sent /\ issued' = issued
      /\ UNCHANGED <<sinkVars, jsonl, mainVars>>
  BY DEF RawBegin, appVars
<1>2. /\ Alive /\ todo[c] # <<>> /\ AtRaw(todo[c]) /\ Budgeted
      /\ Head(todo[c]) = todo[c][1] /\ ~AtEvent(todo[c])
  BY <1>1, AtFacts DEF LInv, AtRaw, AtEvent
<1>3. n \in Sizes
  <2>1. \E dir \in Dirs, m \in Chunks :
          m <= sent[<<c, dir>>] /\ todo[c][1].data = Run(sent[<<c, dir>>] - m, m)
    <3>1. /\ life[c] \in Lives /\ todo[c] \in Seq(Items) /\ c \in Tasks
          /\ QueueOf(life[c], todo[c], c, sent) /\ AtRaw(todo[c])
      BY <1>2, ConnFacts
    <3>2. LastSent(todo[c], c, sent)
      BY ONLY <3>1, QueueRaw, ZenonT(30)
    <3> QED BY <3>2 DEF LastSent
  <2>2. PICK dir \in Dirs, m \in Chunks :
          m <= sent[<<c, dir>>] /\ todo[c][1].data = Run(sent[<<c, dir>>] - m, m)
    BY <2>1
  <2> DEFINE a == sent[<<c, dir>>]
  <2>3. a \in Nat /\ m \in Nat /\ m <= a
    BY <2>2, LoggerSizes DEF LInv, LoggerTypes, Streams
  <2> HIDE DEF a
  <2>4. a - m \in Nat
    BY <2>3
  <2>5. Len(Run(a - m, m)) = m
    BY <2>3, <2>4, RunIsSeq
  <2> QED BY <2>2, <2>5, LoggerSizes DEF a
<1>4. /\ Budgeted' /\ max_run_bytes' = max_run_bytes
      /\ disk_stopped' = disk_stopped /\ admitted' = admitted
      /\ call[c].at = "idle" /\ call'[c].at # "idle" /\ call'[c].n = n
      /\ CutOff(disk_stopped', call'[c]) <=> CutOff(disk_stopped, call[c])
      /\ \A d \in Tasks \ {c} : call'[d] = call[d]
      /\ max_run_bytes > 0 => GrantedTo(call') = GrantedTo(call)
  BY <1>1, <1>2, <1>3, BeginFacts
<1>5. ChargeFor(opts, call'[c], todo[c])
  BY <1>1, <1>2, <1>4 DEF ChargeFor
<1>6. InStep(CutOff(disk_stopped', call'[c]), call'[c], todo[c], issued'[c],
             CountOf(jsonl, c, Len(jsonl)))
  <2>1. InStep(CutOff(disk_stopped, call[c]), call[c], todo[c], issued[c],
               CountOf(jsonl, c, Len(jsonl)))
    BY <1>2, ConnFacts
  <2> QED BY <1>1, <1>2, <1>4, <2>1, InStepStays
<1>7. max_run_bytes > 0 =>
        Total(GrantedTo(call')) + admitted <= Total(GrantedTo(call)) + admitted'
  <2>1. Total(GrantedTo(call)) \in Nat /\ admitted \in Nat
    BY <1>2, GrantedType, BudgetAssumption, TotalType DEF Budgeted, BudgetTypeOK
  <2> QED BY <1>4, <2>1
<1> QED BY <1>1, <1>2, <1>4, <1>5, <1>6, <1>7, CallKeeps

LEMMA ChargingKeeps ==
  ASSUME LInv, NEW c \in Tasks, Charging(c)
  PROVE  LInv'
<1>1. /\ Alive /\ ChargeStep(c)
      /\ life' = life /\ todo' = todo /\ sent' = sent /\ issued' = issued
      /\ UNCHANGED <<sinkVars, jsonl, mainVars>>
  BY DEF Charging, appVars
<1>2. /\ Budgeted' /\ max_run_bytes' = max_run_bytes
      /\ disk_stopped => disk_stopped'
      /\ call[c].at # "idle" /\ call'[c].at # "idle" /\ call'[c].n = call[c].n
      /\ CutOff(disk_stopped, call[c]) => CutOff(disk_stopped', call'[c])
      /\ \A d \in Tasks \ {c} : call'[d] = call[d]
      /\ max_run_bytes > 0 =>
           Total(GrantedTo(call')) + admitted <= Total(GrantedTo(call)) + admitted'
  BY <1>1, ChargeFacts DEF LInv
<1>3. ChargeFor(opts, call[c], todo[c])
  BY <1>1, ConnFacts
<1>4. todo[c] # <<>> /\ ChargeFor(opts, call'[c], todo[c])
  BY <1>2, <1>3 DEF ChargeFor, AtEvent, AtRaw
<1>5. InStep(CutOff(disk_stopped', call'[c]), call'[c], todo[c], issued'[c],
             CountOf(jsonl, c, Len(jsonl)))
  <2>1. InStep(CutOff(disk_stopped, call[c]), call[c], todo[c], issued[c],
               CountOf(jsonl, c, Len(jsonl)))
    BY <1>1, ConnFacts
  <2> QED BY <1>1, <1>2, <2>1, InStepStays
<1> QED BY <1>1, <1>2, <1>4, <1>5, CallKeeps

LEMMA DieKeeps ==
  ASSUME LInv, NEW c \in Tasks, Die(c)
  PROVE  LInv'
<1>1. /\ Alive /\ life[c] \in {"open", "closed"} /\ call[c].at = "idle" /\ Prints(c)
      /\ life[c] = "closed" => todo[c] # <<>>
      /\ life' = [life EXCEPT ![c] = "dead"] /\ todo' = [todo EXCEPT ![c] = <<>>]
      /\ UNCHANGED budgetVars /\ sent' = sent /\ issued' = issued
      /\ UNCHANGED <<sinkVars, jsonl, mainVars>>
  BY DEF Die
<1>2. /\ life \in [Tasks -> Lives] /\ todo \in [Tasks -> Seq(Items)]
      /\ sent \in [Streams -> Nat] /\ Budgeted
  BY DEF LInv, LoggerTypes, Lives
<1>3. /\ Budgeted' /\ call' = call /\ disk_stopped' = disk_stopped
      /\ max_run_bytes' = max_run_bytes /\ admitted' = admitted
  BY <1>1, <1>2, SameBudget
<1>4. ~AtRaw(todo[c])
  <2>1. CASE todo[c] = <<>>
    BY <2>1 DEF AtRaw
  <2>2. CASE todo[c] # <<>>
    <3>1. Head(todo[c]) = todo[c][1]
      BY <1>2, <2>2, QueueHead
    <3>2. Prints(c)
      BY <1>1
    <3>3. Head(todo[c]).what = "event"
      BY <2>2, <3>2 DEF Prints, At
    <3> QED BY <3>1, <3>3 DEF AtRaw
  <2> QED BY <2>1, <2>2
<1>5. life'[c] = "dead" /\ todo'[c] = <<>>
      /\ \A d \in Tasks \ {c} : life'[d] = life[d] /\ todo'[d] = todo[d]
  BY <1>1, <1>2
<1>6. life' \in [Tasks -> Lives] /\ todo' \in [Tasks -> Seq(Items)]
  BY <1>1, <1>2, EmptySeq DEF Lives
<1>7. QueueOf(life'[c], todo'[c], c, sent')
  BY <1>5 DEF QueueOf
<1>8. ChargeFor(opts, call'[c], todo'[c])
  BY <1>1, <1>3 DEF ChargeFor
<1>9. opts.raw => ReachOf(c, todo'[c], CutOff(disk_stopped', call'[c]), sent',
                          reached, unopened)
  <2>1. opts.raw => ReachOf(c, todo[c], CutOff(disk_stopped, call[c]), sent,
                            reached, unopened)
    BY <1>1, ConnFacts
  <2>2. ~AtRaw(todo'[c])
    BY <1>5 DEF AtRaw
  <2>3. \A dir \in Dirs : Waiting(todo'[c], dir) = Waiting(todo[c], dir)
    BY <1>4, <2>2, NotWaiting
  <2> QED BY <1>1, <1>3, <2>1, <2>3, ReachSame
<1>10. InStep(CutOff(disk_stopped', call'[c]), call'[c], todo'[c], issued'[c],
              CountOf(jsonl, c, Len(jsonl)))
  <2>1. InStep(CutOff(disk_stopped, call[c]), call[c], todo[c], issued[c],
               CountOf(jsonl, c, Len(jsonl)))
    BY <1>1, ConnFacts
  <2> QED BY <1>1, <1>3, <2>1, Zenon DEF InStep
<1>11. ~Unfinished(life'[c], todo'[c]) /\ ~Closing(life'[c], todo'[c])
  BY <1>5 DEF Unfinished, Closing
<1>12. Total(GrantedTo(call')) + admitted <= Total(GrantedTo(call)) + admitted'
  BY <1>2, <1>3, SameSpace
<1>13. life[c] # "closed" \/ todo[c] # <<>>
  BY <1>1
<1> QED BY <1>1, <1>2, <1>3, <1>5, <1>6, <1>7, <1>8, <1>9, <1>10, <1>11, <1>12,
           <1>13, QuietKeeps

-----------------------------------------------------------------------------
\* The steps that write.

\* A stream that is not finished later was not finished before.
LEMMA WholeStays ==
  ASSUME NEW c, NEW l, NEW q, NEW j, NEW r, NEW m, NEW heads, NEW tails, NEW rch,
         NEW lost, NEW more, WholeOf(c, l, q, m, heads, tails, rch, lost),
         Unfinished(j, r) => Unfinished(l, q), lost \subseteq more
  PROVE  WholeOf(c, j, r, m, heads, tails, rch, more)
BY Zenon DEF WholeOf, WholeAt

\* What one more line does for the gaps of its connection.
LEMMA GapsLine ==
  ASSUME NEW c, NEW q \in Seq(Items), AtEvent(q), NEW heads, NEW tails, NEW rch,
         NEW lost, NEW ut, NEW lines \in Seq(Events), q[1].ev \in Events,
         GapsOf(c, q, heads, tails, rch, lost, ut, lines)
  PROVE  GapsOf(c, Tail(q), heads, tails, rch, lost, ut, Append(lines, q[1].ev))
<1> DEFINE e == q[1].ev
           more == Append(lines, e)
           r == Tail(q)
<1>1. /\ Len(lines) \in Nat /\ Len(more) = Len(lines) + 1 /\ more[Len(lines) + 1] = e
  BY AppendProperties, LenProperties
<1>2. /\ Len(q) \in Nat \ {0} /\ Len(r) = Len(q) - 1
      /\ \A i \in 1 .. Len(q) - 1 : r[i] = q[i + 1]
  BY QueueHead DEF AtEvent
<1>3. \A k, n : ReportedIn(lines, k, n, Len(lines) + 1)
                  => ReportedIn(more, k, n, Len(more) + 1)
  <2>1. more = lines \/ \E v \in Events : more = Append(lines, v)
    OBVIOUS
  <2>2. lines \in Seq(Events)
    OBVIOUS
  <2> HIDE DEF more
  <2> QED BY <2>1, <2>2, ReportStays, ZenonT(30)
<1>4. ASSUME NEW k, NEW n, ToReport(q, k, n)
      PROVE  ReportedIn(more, k, n, Len(more) + 1) \/ ToReport(r, k, n)
  <2> DEFINE ev == Event("truncated", k[1], k[2], n)
  <2>1. PICK i \in 1 .. Len(q) : q[i] = EventItem(ev)
    BY <1>4 DEF ToReport
  <2>2. CASE i = 1
    <3>1. e = ev
      BY <2>1, <2>2 DEF EventItem
    <3> HIDE DEF e, ev, more
    <3>2. Len(lines) + 1 \in 1 .. (Len(more) + 1) - 1
      BY <1>1
    <3>3. more[Len(lines) + 1] = ev
      BY <1>1, <3>1
    <3> QED BY <3>2, <3>3, Zenon DEF ReportedIn, ev
  <2>3. CASE i # 1
    <3> DEFINE m == Len(q)
               h == i - 1
    <3>m. m \in Nat /\ i \in 1 .. m /\ Len(r) = m - 1
      BY <1>2
    <3> HIDE DEF m, r
    <3>1. h \in 1 .. m - 1 /\ h + 1 = i
      BY <2>3, <3>m
    <3> HIDE DEF h
    <3>2. r[h] = q[h + 1]
      BY <1>2, <3>1 DEF m, r
    <3>3. h \in 1 .. Len(r) /\ r[h] = EventItem(ev)
      BY <2>1, <3>m, <3>1, <3>2
    <3> QED BY <3>3, Zenon DEF ToReport
  <2> QED BY <2>2, <2>3
<1> HIDE DEF more, r, e
<1> QED BY <1>3, <1>4, Zenon DEF GapsOf, more, r, e

LEMMA EmitCommitKeeps ==
  ASSUME LInv, NEW c \in Tasks, EmitCommit(c)
  PROVE  LInv'
<1> DEFINE q == todo[c]
           r == Tail(todo[c])
           e == todo[c][1].ev
           w == CountOf(jsonl, c, Len(jsonl))
           m == Len(issued[c])
<1>1. /\ At(c, "event") /\ call[c].at = "granted" /\ EndCharge(c)
      /\ jsonl' = Append(jsonl, Head(todo[c]).ev) /\ Done(c)
      /\ life' = life /\ sent' = sent /\ issued' = issued
      /\ raw' = raw /\ head_file' = head_file /\ tail_file' = tail_file
      /\ reached' = reached /\ unopened' = unopened /\ untailed' = untailed
      /\ opts' = opts /\ main' = main /\ drained' = drained /\ killed' = killed
  BY DEF EmitCommit, sinkVars, mainVars
<1>2. /\ Alive /\ q # <<>> /\ AtEvent(q) /\ ~AtRaw(q) /\ ~AtFinish(q)
      /\ q \in Seq(Items) /\ r \in Seq(Items) /\ jsonl' = Append(jsonl, e)
  BY <1>1, AtFacts DEF AtEvent, AtRaw, AtFinish
<1>t. /\ LoggerTypes /\ Budgeted /\ jsonl \in Seq(Events) /\ life[c] \in Lives
      /\ todo \in [Tasks -> Seq(Items)]
  BY DEF LInv, LoggerTypes, Lives
<1>3. /\ QueueOf(life[c], q, c, sent) /\ ChargeFor(opts, call[c], q)
      /\ InStep(CutOff(disk_stopped, call[c]), call[c], q, issued[c], w)
      /\ w \in Nat /\ m \in Nat
  BY <1>2, ConnFacts, LenProperties
<1>4. /\ Budgeted' /\ max_run_bytes' = max_run_bytes
      /\ disk_stopped' = disk_stopped /\ admitted' = admitted
      /\ call[c].at # "idle" /\ call'[c].at = "idle"
      /\ \A d \in Tasks \ {c} : call'[d] = call[d]
      /\ ~CutOff(disk_stopped, call[c])
      /\ Total(GrantedTo(call)) = Total(GrantedTo(call')) + call[c].n
  BY <1>1, <1>2, <1>t, EndFacts
<1>5. opts.jsonl /\ call[c].n = EventSize
  BY <1>2, <1>3, <1>4 DEF ChargeFor
<1>6. /\ e \in Events /\ e.conn = c
      /\ e.event = "close" => life[c] = "closed" /\ Len(q) = 1
      /\ e.event = "data" => e.dir \in Dirs /\ e.upto = sent[<<c, e.dir>>]
  BY <1>2, <1>3, <1>t, QueueEvent
<1>7. QueueOf(life[c], r, c, sent) /\ ~AtRaw(r) /\ ~AtFinish(r)
  BY <1>2, <1>3, <1>t, QueueTail
<1>8. /\ todo'[c] = r /\ \A d \in Tasks \ {c} : todo'[d] = todo[d]
      /\ todo' \in [Tasks -> Seq(Items)]
  BY <1>1, <1>2, <1>t DEF Done
<1>9. /\ m > 0 /\ issued[c][m] = e /\ w = m - 1
  BY <1>2, <1>3, <1>4 DEF InStep
<1>10. /\ jsonl' \in Seq(Events) /\ Len(jsonl) \in Nat /\ Len(jsonl') = Len(jsonl) + 1
       /\ \A i \in 1 .. Len(jsonl) : jsonl'[i] = jsonl[i]
       /\ jsonl'[Len(jsonl) + 1] = e
  BY <1>2, <1>t, <1>6, AppendProperties, LenProperties
<1>11. /\ CountOf(jsonl', c, Len(jsonl')) = m
       /\ \A d : \A i \in 1 .. Len(jsonl) : CountOf(jsonl', d, i) = CountOf(jsonl, d, i)
  <2>1. CountOf(jsonl', c, Len(jsonl')) = w + 1
    BY <1>2, <1>t, <1>6, CountAppend
  <2>2. \A d : \A i \in 1 .. Len(jsonl) : CountOf(jsonl', d, i) = CountOf(jsonl, d, i)
    BY <1>2, <1>t, <1>6, CountAppend
  <2> HIDE DEF w, m
  <2> QED BY <1>3, <1>9, <2>1, <2>2
<1> HIDE DEF q, r, e, w, m
<1>12. LoggerTypes'
  <2>1. \A j \in 1 .. Len(jsonl') : jsonl'[j].event = "data" => jsonl'[j].dir \in Dirs
    <3> TAKE j \in 1 .. Len(jsonl')
    <3>1. CASE j \in 1 .. Len(jsonl)
      BY <1>10, <1>t, <3>1 DEF LoggerTypes
    <3>2. CASE j = Len(jsonl) + 1
      BY <1>6, <1>10, <3>2
    <3> QED BY <1>10, <3>1, <3>2
  <2> QED BY <1>1, <1>t, <1>8, <1>10, <2>1 DEF LoggerTypes
<1>13. Only(c)
  BY <1>1, <1>2, <1>4, <1>6, <1>8 DEF Only
<1>14. opts.raw => ReachOf(c, todo[c], CutOff(disk_stopped, call[c]), sent,
                           reached, unopened)
  BY <1>2, ConnFacts
<1>15. /\ Queues' /\ CallsInStep' /\ Reaching' /\ IndexInStep'
       /\ StreamsWhole' /\ GapsReported'
  <2>1. QueueOf(life'[c], todo'[c], c, sent')
    BY <1>1, <1>7, <1>8
  <2>2. ChargeFor(opts', call'[c], todo'[c])
    BY <1>4 DEF ChargeFor
  <2>3. opts.raw => ReachOf(c, todo'[c], CutOff(disk_stopped', call'[c]), sent',
                            reached', unopened')
    <3>1. \A dir \in Dirs : Waiting(r, dir) = Waiting(q, dir)
      BY <1>2, <1>7, NotWaiting
    <3> QED BY <1>1, <1>4, <1>8, <1>14, <3>1, ReachSame DEF q
  <2>4. InStep(CutOff(disk_stopped', call'[c]), call'[c], todo'[c], issued'[c],
               CountOf(jsonl', c, Len(jsonl')))
    <3>1. m <= Len(issued'[c]) /\ m = Len(issued'[c])
      BY <1>1, <1>3 DEF m
    <3> QED BY <1>4, <1>11, <3>1 DEF InStep
  <2>5. main = "running" =>
          WholeOf(c, life'[c], todo'[c], raw', head_file', tail_file', reached',
                  unopened')
    <3>1. main = "running" =>
            WholeOf(c, life[c], todo[c], raw, head_file, tail_file, reached, unopened)
      BY <1>2, ConnFacts
    <3>2. Unfinished(life[c], r) => Unfinished(life[c], q)
      BY <1>7 DEF Unfinished
    <3> QED BY <1>1, <1>8, <3>1, <3>2, WholeStays DEF q
  <2>6. main = "running" /\ opts.raw /\ opts.jsonl
          /\ Closing(life'[c], todo'[c]) /\ ~CutOff(disk_stopped', call'[c])
          => GapsOf(c, todo'[c], head_file', tail_file', reached', unopened', untailed', jsonl')
    <3> SUFFICES ASSUME main = "running", opts.raw, Closing(life[c], r)
                 PROVE  GapsOf(c, r, head_file, tail_file, reached, unopened, untailed, jsonl')
      BY <1>1, <1>8
    <3>1. Closing(life[c], q)
      BY <1>2 DEF Closing
    <3>2. GapsOf(c, q, head_file, tail_file, reached, unopened, untailed, jsonl)
      BY <1>2, <1>4, <1>5, <3>1, ConnFacts DEF q
    <3> QED BY <1>2, <1>6, <1>t, <3>2, GapsLine DEF r, e, q
  <2> QED BY <1>2, <1>13, <2>1, <2>2, <2>3, <2>4, <2>5, <2>6, ConnStep
<1>16. EventsHaveBytes'
  <2> SUFFICES ASSUME opts.raw, NEW i \in 1 .. Len(jsonl'),
                      jsonl'[i].event = "data",
                      <<jsonl'[i].conn, jsonl'[i].dir>> \notin unopened
               PROVE  jsonl'[i].upto <= reached[<<jsonl'[i].conn, jsonl'[i].dir>>]
    BY <1>1 DEF EventsHaveBytes
  <2>1. CASE i \in 1 .. Len(jsonl)
    BY <1>10, <2>1 DEF LInv, EventsHaveBytes
  <2>2. CASE i = Len(jsonl) + 1
    <3>1. /\ e.event = "data" /\ <<c, e.dir>> \notin unopened /\ jsonl'[i] = e
          /\ e.dir \in Dirs /\ e.upto = sent[<<c, e.dir>>]
      BY <1>6, <1>10, <2>2
    <3>2. reached[<<c, e.dir>>] + Waiting(q, e.dir) = sent[<<c, e.dir>>]
      BY <1>4, <1>14, <3>1 DEF ReachOf, q
    <3>3. Waiting(q, e.dir) = 0
      BY <1>2, NotWaiting
    <3>4. reached[<<c, e.dir>>] \in Nat
      BY <3>1 DEF LInv, LoggerTypes, Streams
    <3> DEFINE n == reached[<<c, e.dir>>]
    <3>5. n \in Nat /\ n + 0 = sent[<<c, e.dir>>]
      BY <3>2, <3>3, <3>4
    <3>6. sent[<<c, e.dir>>] <= n
      <4> HIDE DEF n
      <4> QED BY <3>5
    <3> QED BY <1>6, <3>1, <3>6
  <2> QED BY <1>10, <2>1, <2>2
<1>17. EventsArePrefix'
  <2>0. (EventsArePrefix <=> PrefixOf(jsonl, issued))'
    BY PrefixMeans, PTL
  <2>1. PrefixOf(jsonl, issued)
    BY PrefixMeans DEF LInv
  <2>2. ASSUME NEW i \in 1 .. Len(jsonl)
        PROVE  LET d == jsonl'[i].conn
                   n == CountOf(jsonl', d, i)
               IN  n <= Len(issued[d]) /\ jsonl'[i] = issued[d][n]
    BY <1>10, <1>11, <2>1 DEF PrefixOf
  <2>3. m <= Len(issued[c]) /\ jsonl'[Len(jsonl')] = issued[c][m]
    BY <1>3, <1>9, <1>10 DEF m
  <2>4. ASSUME NEW i \in 1 .. Len(jsonl'), i \notin 1 .. Len(jsonl)
        PROVE  i = Len(jsonl') /\ jsonl'[i].conn = c
    BY <1>6, <1>10, <2>4
  <2>5. PrefixOf(jsonl', issued')
    BY <1>1, <1>11, <2>2, <2>3, <2>4, Zenon DEF PrefixOf
  <2> QED BY <2>0, <2>5
<1>18. RawIsGapless'
  BY <1>1 DEF LInv, RawIsGapless
<1>19. CloseIsLast'
  <2> SUFFICES ASSUME NEW j \in 1 .. Len(jsonl'), jsonl'[j].event = "close"
               PROVE  /\ life'[jsonl'[j].conn] = "closed"
                      /\ todo'[jsonl'[j].conn] = <<>>
    BY DEF CloseIsLast
  <2>1. CASE j \in 1 .. Len(jsonl)
    <3>1. jsonl'[j] = jsonl[j] /\ jsonl[j] \in Events
      BY <1>10, <1>t, <2>1, ElementOfSeq
    <3>2. jsonl[j].conn # c
      BY <1>2, <2>1, <3>1, NotClosedYet DEF q
    <3>3. jsonl[j].conn \in Tasks \ {c}
      BY <3>1, <3>2 DEF Events
    <3>4. life[jsonl[j].conn] = "closed" /\ todo[jsonl[j].conn] = <<>>
      BY <2>1, <3>1 DEF LInv, CloseIsLast
    <3> QED BY <1>1, <1>8, <3>1, <3>3, <3>4
  <2>2. CASE j = Len(jsonl) + 1
    <3>1. e.event = "close" /\ jsonl'[j].conn = c
      BY <1>6, <1>10, <2>2
    <3>2. life[c] = "closed" /\ Len(q) = 1
      BY <1>6, <3>1
    <3>3. r = <<>>
      <4>1. Len(r) = Len(q) - 1
        BY <1>2, QueueHead DEF r, q
      <4>2. Len(r) = 0
        BY <3>2, <4>1
      <4> QED BY <1>2, <4>2, EmptySeq
    <3> QED BY <1>1, <1>8, <3>1, <3>2, <3>3
  <2> QED BY <1>10, <2>1, <2>2
<1>20. ClosedMeansReported'
  <2>0. (LoggerTypes =>
           (ClosedMeansReported <=>
              (main = "running" /\ opts.raw =>
                 ReportsAll(jsonl, head_file, tail_file, reached, unopened, untailed))))'
    BY ClosedMeans, PTL
  <2> SUFFICES ASSUME main = "running", opts.raw
               PROVE  ReportsAll(jsonl', head_file, tail_file, reached, unopened, untailed)
    BY <1>1, <1>12, <2>0
  <2>1. ReportsAll(jsonl, head_file, tail_file, reached, unopened, untailed)
    BY <1>t, ClosedMeans DEF LInv
  <2>r. \A k, n : \A j \in 1 .. Len(jsonl) + 1 :
          ReportedIn(jsonl, k, n, j) => ReportedIn(jsonl', k, n, j)
    BY <1>2, <1>6, <1>t, ReportStays
  <2> SUFFICES ASSUME NEW j \in 1 .. Len(jsonl'), jsonl'[j].event = "close",
                      NEW dir \in Dirs, <<jsonl'[j].conn, dir>> \notin unopened,
                      LET k == <<jsonl'[j].conn, dir>> IN
                      reached[k] - Len(head_file[k]) - Len(tail_file[k]) > untailed[k]
               PROVE  LET k == <<jsonl'[j].conn, dir>> IN
                      ReportedIn(jsonl', k, reached[k], j)
    BY DEF ReportsAll
  <2> DEFINE k == <<jsonl'[j].conn, dir>>
  <2>2. CASE j \in 1 .. Len(jsonl)
    <3>1. jsonl'[j] = jsonl[j] /\ j \in 1 .. Len(jsonl) + 1
      BY <1>10, <2>2
    <3>2. ReportedIn(jsonl, k, reached[k], j)
      BY <2>1, <2>2, <3>1 DEF ReportsAll
    <3> HIDE DEF k
    <3>3. ReportedIn(jsonl', k, reached[k], j)
      BY <2>r, <3>1, <3>2
    <3> QED BY <3>3 DEF k
  <2>3. CASE j = Len(jsonl) + 1
    <3>1. e.event = "close" /\ jsonl'[j].conn = c
      BY <1>6, <1>10, <2>3
    <3>2. Closing(life[c], q) /\ Len(q) = 1
      BY <1>2, <1>6, <3>1 DEF Closing
    <3>3. GapsOf(c, q, head_file, tail_file, reached, unopened, untailed, jsonl)
      BY <1>2, <1>4, <1>5, <3>2, ConnFacts DEF q
    <3>4. k = <<c, dir>>
      BY <3>1
    <3>5. \/ ReportedIn(jsonl, k, reached[k], Len(jsonl) + 1)
          \/ ToReport(q, k, reached[k])
      BY <3>3, <3>4 DEF GapsOf
    <3> HIDE DEF k
    <3>6. ~ToReport(q, k, reached[k])
      <4> SUFFICES ASSUME ToReport(q, k, reached[k]) PROVE FALSE
        OBVIOUS
      <4>1. PICK i \in 1 .. Len(q) :
              q[i] = EventItem(Event("truncated", k[1], k[2], reached[k]))
        BY DEF ToReport
      <4>2. q[1] = EventItem(Event("truncated", k[1], k[2], reached[k]))
        BY <3>2, <4>1
      <4>3. q[1].ev.event = "truncated"
        BY <4>2 DEF EventItem, Event
      <4> QED BY <3>1, <4>3 DEF e, q
    <3>7. Len(jsonl) + 1 \in 1 .. Len(jsonl) + 1
      BY <1>10
    <3>8. ReportedIn(jsonl', k, reached[k], j)
      BY <2>3, <2>r, <3>5, <3>6, <3>7
    <3> QED BY <3>8 DEF k
  <2> QED BY <1>10, <2>2, <2>3
<1>21. SpaceIsGranted'
  <2> SUFFICES ASSUME max_run_bytes > 0
               PROVE  Len(jsonl') * EventSize + Total(Held') + Total(GrantedTo(call'))
                        <= admitted
    BY <1>4 DEF SpaceIsGranted
  <2>1. Len(jsonl) * EventSize + Total(Held) + Total(GrantedTo(call)) <= admitted
    BY DEF LInv, SpaceIsGranted
  <2>2. Held' = Held
    BY <1>1 DEF Held
  <2> DEFINE n == Len(jsonl)
             h == Total(Held)
             b == Total(GrantedTo(call'))
  <2>3. n \in Nat /\ Len(jsonl') = n + 1 /\ EventSize \in Nat
    BY <1>10, LoggerSizes
  <2>4. h \in Nat
    BY <1>t, HeldType, StreamsFinite, TotalType
  <2>5. b \in Nat /\ admitted \in Nat
    <3>1. GrantedTo(call') \in [Tasks -> Nat]
      BY <1>4, GrantedType DEF Budgeted, BudgetTypeOK
    <3> QED BY <1>t, <3>1, BudgetAssumption, TotalType DEF Budgeted, BudgetTypeOK
  <2>6. Total(GrantedTo(call)) = b + EventSize
    BY <1>4, <1>5
  <2> HIDE DEF n, h, b
  <2>7. n * EventSize + h + (b + EventSize) <= admitted
    BY <2>1, <2>6 DEF n, h
  <2>8. (n + 1) * EventSize = n * EventSize + EventSize /\ n * EventSize \in Nat
    BY <2>3
  <2>9. (n + 1) * EventSize + h + b <= admitted
    BY <2>3, <2>4, <2>5, <2>7, <2>8
  <2> QED BY <2>2, <2>3, <2>9 DEF h, b
<1> QED BY <1>4, <1>12, <1>15, <1>16, <1>17, <1>18, <1>19, <1>20, <1>21 DEF LInv

-----------------------------------------------------------------------------
\* The steps that write to a stream.

\* The stream that raw_write finds or creates.
LEMMA StreamOfOk ==
  ASSUME LoggerTypes, NEW k \in Streams
  PROVE  LET s == StreamOf(k) IN
         /\ StreamOk(opts, s) /\ s.st \in StreamType /\ s.buf \in Seq(Nat)
         /\ Len(s.buf) \in Nat /\ Len(s.st.tail) \in Nat
         /\ InMemory(raw, k) = Len(s.buf) + Len(s.st.tail)
<1> DEFINE s == StreamOf(k)
<1>1. opts \in OptionChoices /\ MapOk(opts, raw) /\ opts.limits \in Limits
      /\ opts.limits.tail \in Nat
  BY OptionTypes DEF LoggerTypes
<1>2. CASE k \in DOMAIN raw
  <2>1. s = raw[k]
    BY <1>2 DEF StreamOf
  <2>2. /\ StreamOk(opts, raw[k]) /\ raw[k].buf \in Seq(Nat) /\ raw[k].st \in StreamType
        /\ raw[k].st.tail \in Seq(Nat)
        /\ InMemory(raw, k) = Len(raw[k].buf) + Len(raw[k].st.tail)
    BY <1>1, <1>2, MapTypes
  <2> QED BY <2>1, <2>2, LenProperties
<1>3. CASE k \notin DOMAIN raw
  <2> DEFINE n == Create(opts.limits)
  <2>1. s = [st |-> n, buf |-> <<>>]
    BY <1>3 DEF StreamOf
  <2>2. n \in StreamType /\ n.limits = opts.limits /\ n.tail = <<>>
    BY <1>1, CreatedShape
  <2> HIDE DEF n
  <2>3. s.st = n /\ s.buf = <<>> /\ s \in OpenStreams
    BY <2>1, <2>2 DEF OpenStreams
  <2>4. Len(<<>>) = 0 /\ <<>> \in Seq(Nat) /\ 0 <= BufCap
    BY LoggerSizes, EmptySeq
  <2>5. InMemory(raw, k) = 0
    BY <1>3 DEF InMemory
  <2> QED BY <1>1, <2>2, <2>3, <2>4, <2>5 DEF StreamOk
<1> QED BY <1>2, <1>3

\* A write keeps the stream as the options have it, and makes no bytes.
LEMMA WriteOk ==
  ASSUME NEW o \in OptionChoices, NEW s, StreamOk(o, s), s.st \in StreamType,
         s.buf \in Seq(Nat), NEW data \in Seq(Nat), NEW file \in Seq(Nat)
  PROVE  LET part == HeadPart(s.st, data)
             kept == BufKept(BufCap, s.buf, part)
             passed == BufPassed(BufCap, s.buf, part)
             t == Write(s.st, data)
         IN
         /\ StreamOk(o, [st |-> t, buf |-> kept])
         /\ file \o passed \in Seq(Nat)
         /\ Len(file \o passed) + (Len(kept) + Len(t.tail))
              <= Len(file) + (Len(s.buf) + Len(s.st.tail)) + Len(data)
<1> DEFINE part == HeadPart(s.st, data)
           kept == BufKept(BufCap, s.buf, part)
           passed == BufPassed(BufCap, s.buf, part)
           t == Write(s.st, data)
<1>1. /\ s.st.limits = o.limits /\ Len(s.buf) <= BufCap
      /\ Len(s.st.tail) <= s.st.limits.tail
  BY DEF StreamOk
<1>2. /\ t \in StreamType /\ t.limits = s.st.limits /\ part \in Seq(Nat)
      /\ Len(t.tail) <= s.st.limits.tail
      /\ Len(part) + Len(t.tail) <= Len(s.st.tail) + Len(data)
  BY <1>1, WriteTypes
<1> HIDE DEF part, t
<1>3. /\ passed \in Seq(Nat) /\ kept \in Seq(Nat) /\ Len(kept) <= BufCap
      /\ Len(passed) + Len(kept) = Len(s.buf) + Len(part)
  BY <1>1, <1>2, LoggerSizes, BufferConserves, BufferBounded
<1> HIDE DEF passed, kept
<1>4. file \o passed \in Seq(Nat) /\ Len(file \o passed) = Len(file) + Len(passed)
  BY <1>3, ConcatProperties
<1>5. StreamOk(o, [st |-> t, buf |-> kept])
  BY <1>1, <1>2, <1>3 DEF StreamOk, OpenStreams
<1>6. s.st.tail \in Seq(Nat) /\ t.tail \in Seq(Nat)
  BY <1>2 DEF StreamType
<1> DEFINE F == Len(file)
           B == Len(s.buf)
           T == Len(s.st.tail)
           P == Len(passed)
           K == Len(kept)
           U == Len(t.tail)
           H == Len(part)
           N == Len(data)
           G == Len(file \o passed)
<1>7. /\ F \in Nat /\ B \in Nat /\ T \in Nat /\ P \in Nat /\ K \in Nat /\ U \in Nat
      /\ H \in Nat /\ N \in Nat /\ G = F + P /\ P + K = B + H /\ H + U <= T + N
  BY <1>2, <1>3, <1>4, <1>6, LenProperties
<1> HIDE DEF F, B, T, P, K, U, H, N, G
<1>8. G + (K + U) <= F + (B + T) + N
  BY <1>7
<1> QED BY <1>4, <1>5, <1>8 DEF F, B, T, P, K, U, H, N, G, part, kept, passed, t

\* A write of what comes next keeps the stream whole.
LEMMA WriteWhole ==
  ASSUME NEW s, s.st \in StreamType, s.buf \in Seq(Nat), NEW file \in Seq(Nat),
         NEW tail, NEW a \in Nat, NEW n \in Nat \ {0}, StreamWhole(s, file, tail, a)
  PROVE  LET data == Run(a, n)
             part == HeadPart(s.st, data)
         IN  StreamWhole([st |-> Write(s.st, data), buf |-> BufKept(BufCap, s.buf, part)],
                         file \o BufPassed(BufCap, s.buf, part), tail, a + n)
<1> DEFINE data == Run(a, n)
           part == HeadPart(s.st, data)
           kept == BufKept(BufCap, s.buf, part)
           passed == BufPassed(BufCap, s.buf, part)
           t == Write(s.st, data)
           h == s.st.head_written
           g == t.head_written
<1>1. /\ Shape(s.st) /\ s.st.total = a /\ file \o s.buf = Span(1, h) /\ tail = <<>>
  BY DEF StreamWhole
<1>2. data = Span(s.st.total + 1, s.st.total + n)
  BY <1>1 DEF Run
<1> HIDE DEF data
<1>3. /\ t \in StreamType /\ t.total = a + n /\ Shape(t)
      /\ part = Span(h + 1, g) /\ part \in Seq(Nat) /\ h <= g
  <2> DEFINE x == s.st
             d == Span(x.total + 1, x.total + n)
  <2>1. x \in StreamType /\ Shape(x)
    BY <1>1
  <2> HIDE DEF x
  <2>2. /\ Write(x, d) \in StreamType /\ Write(x, d).total = x.total + n
        /\ Shape(Write(x, d)) /\ x.head_written <= Write(x, d).head_written
        /\ HeadPart(x, d) = Span(x.head_written + 1, Write(x, d).head_written)
        /\ HeadPart(x, d) \in Seq(Nat)
    BY <2>1, WriteKeepsShape
  <2>3. d = data /\ x.total = a
    BY <1>1, <1>2 DEF x
  <2> HIDE DEF d
  <2> QED BY <2>2, <2>3 DEF x
<1>4. h \in Nat /\ g \in Nat
  BY <1>3 DEF StreamType
<1> HIDE DEF part, t, h, g
<1>5. passed \in Seq(Nat) /\ kept \in Seq(Nat) /\ passed \o kept = s.buf \o part
  <2>1. BufCap \in Nat \ {0} /\ s.buf \in Seq(Nat) /\ part \in Seq(Nat)
    BY <1>3, LoggerSizes
  <2>2. /\ BufPassed(BufCap, s.buf, part) \in Seq(Nat)
        /\ BufKept(BufCap, s.buf, part) \in Seq(Nat)
        /\ BufPassed(BufCap, s.buf, part) \o BufKept(BufCap, s.buf, part) = s.buf \o part
    BY ONLY <2>1, BufferConserves, ZenonT(30)
  <2> QED BY <2>2, Zenon
<1> HIDE DEF passed, kept
<1>6. (file \o passed) \o kept = (file \o s.buf) \o part
  <2>1. (file \o passed) \o kept = file \o (passed \o kept)
    BY <1>5, JoinAssociates
  <2>2. (file \o s.buf) \o part = file \o (s.buf \o part)
    BY <1>3, JoinAssociates
  <2> QED BY <1>5, <2>1, <2>2
<1>7. Span(1, h) \o Span(h + 1, g) = Span(1, g)
  <2>1. 1 \in Nat /\ 1 <= h + 1 /\ h \in Int /\ g \in Int
    BY <1>4
  <2> QED BY <1>3, <2>1, SpanConcat
<1>8. (file \o passed) \o kept = Span(1, g)
  BY <1>1, <1>3, <1>6, <1>7
<1> QED BY <1>1, <1>3, <1>8 DEF StreamWhole, data, part, kept, passed, t, g

\* Bytes that were granted: the last n sent, all earlier ones have arrived.
LEMMA RawFacts ==
  ASSUME LInv, NEW c \in Tasks, At(c, "raw"), call[c].at = "granted", EndCharge(c),
         Done(c), life' = life, sent' = sent, issued' = issued, jsonl' = jsonl
  PROVE  LET k == <<c, todo[c][1].dir>>
             n == call[c].n
             q == todo[c]
             r == Tail(todo[c])
         IN
         /\ Alive /\ opts.raw /\ life[c] = "open" /\ Head(q) = q[1]
         /\ k \in Streams /\ n \in Nat \ {0} /\ sent[k] \in Nat /\ n <= sent[k]
         /\ q[1].data = Run(sent[k] - n, n) /\ q[1].data \in Seq(Nat)
         /\ Len(q[1].data) = n /\ q[1].data[Len(q[1].data)] = sent[k]
         /\ reached[k] \in Nat /\ reached[k] + n <= sent[k]
         /\ k \notin unopened => reached[k] = sent[k] - n
         /\ \A dir \in Dirs \ {q[1].dir} :
              LET j == <<c, dir>> IN
              /\ j # k /\ reached[j] + 0 <= sent[j]
              /\ j \in unopened \/ reached[j] + 0 = sent[j]
         /\ todo' \in [Tasks -> Seq(Items)] /\ todo'[c] = r
         /\ \A d \in Tasks \ {c} : todo'[d] = todo[d] /\ call'[d] = call[d]
         /\ QueueOf(life[c], r, c, sent) /\ ChargeFor(opts, call'[c], r)
         /\ \A dir : Waiting(r, dir) = 0
         /\ InStep(CutOff(disk_stopped', call'[c]), call'[c], r, issued[c],
                   CountOf(jsonl, c, Len(jsonl)))
         /\ Budgeted' /\ max_run_bytes' = max_run_bytes
         /\ disk_stopped' = disk_stopped /\ admitted' = admitted
         /\ Total(GrantedTo(call)) = Total(GrantedTo(call')) + n
<1> DEFINE q == todo[c]
           r == Tail(todo[c])
           k == <<c, todo[c][1].dir>>
           n == call[c].n
<1>1. /\ Alive /\ q # <<>> /\ Head(q) = q[1] /\ AtRaw(q) /\ ~AtEvent(q)
      /\ q \in Seq(Items) /\ q[1] \in Items /\ q[1].what = "raw" /\ r \in Seq(Items)
  BY AtFacts DEF AtRaw, AtEvent
<1>t. /\ Budgeted /\ life[c] \in Lives /\ todo \in [Tasks -> Seq(Items)]
      /\ sent \in [Streams -> Nat] /\ reached \in [Streams -> Nat]
  BY DEF LInv, LoggerTypes, Lives
<1>2. /\ QueueOf(life[c], q, c, sent) /\ ChargeFor(opts, call[c], q)
      /\ InStep(CutOff(disk_stopped, call[c]), call[c], q, issued[c],
                CountOf(jsonl, c, Len(jsonl)))
  BY <1>1, ConnFacts
<1>3. /\ Budgeted' /\ max_run_bytes' = max_run_bytes
      /\ disk_stopped' = disk_stopped /\ admitted' = admitted
      /\ call[c].at # "idle" /\ call'[c].at = "idle"
      /\ \A d \in Tasks \ {c} : call'[d] = call[d]
      /\ ~CutOff(disk_stopped, call[c])
      /\ Total(GrantedTo(call)) = Total(GrantedTo(call')) + n
  BY <1>1, <1>t, EndFacts
<1>4. opts.raw /\ n = Len(q[1].data)
  BY <1>1, <1>2, <1>3 DEF ChargeFor
<1>5. /\ QueueOf(life[c], r, c, sent) /\ ~AtRaw(r) /\ ~AtFinish(r)
  BY <1>1, <1>2, <1>t, QueueTail
<1>6. /\ todo'[c] = r /\ \A d \in Tasks \ {c} : todo'[d] = todo[d]
      /\ todo' \in [Tasks -> Seq(Items)]
  BY <1>1, <1>t DEF Done
<1>7. life[c] = "open"
      /\ \E dir \in Dirs, m \in Chunks :
           /\ m <= sent[<<c, dir>>] /\ q[1].dir = dir
           /\ q[1].data = Run(sent[<<c, dir>>] - m, m)
  <2>1. /\ life[c] \in Lives /\ q \in Seq(Items) /\ c \in Tasks /\ AtRaw(q)
        /\ QueueOf(life[c], q, c, sent)
    BY <1>1, <1>2, <1>t
  <2> HIDE DEF q
  <2>2. life[c] = "open" /\ LastSent(q, c, sent)
    BY ONLY <2>1, QueueRaw, ZenonT(30)
  <2> QED BY <2>2, Zenon DEF LastSent
<1>8. PICK m \in Chunks : /\ q[1].dir \in Dirs /\ m <= sent[k]
                          /\ q[1].data = Run(sent[k] - m, m)
  BY <1>7
<1>9. k \in Streams
  BY <1>8 DEF Streams
<1> HIDE DEF q, r, k, n
<1>10. /\ sent[k] \in Nat /\ reached[k] \in Nat /\ m \in Nat \ {0}
  BY <1>9, <1>t, LoggerSizes
<1>11. /\ n = m /\ q[1].data \in Seq(Nat) /\ q[1].data[n] = sent[k]
  <2> DEFINE a == sent[k] - m
  <2>1. a \in Nat /\ a + m = sent[k] /\ m \in Nat /\ m \in 1 .. m
    BY <1>8, <1>10
  <2> HIDE DEF a
  <2>2. /\ Run(a, m) \in Seq(Nat) /\ Len(Run(a, m)) = m /\ Run(a, m)[m] = a + m
    BY <2>1, RunIsSeq
  <2>3. q[1].data = Run(a, m)
    BY <1>8 DEF a
  <2> QED BY <1>4, <2>1, <2>2, <2>3
<1>12. \A dir \in Dirs :
         LET j == <<c, dir>> IN
         /\ reached[j] + Waiting(q, dir) <= sent[j]
         /\ j \in unopened \/ reached[j] + Waiting(q, dir) = sent[j]
  <2>1. ReachOf(c, q, CutOff(disk_stopped, call[c]), sent, reached, unopened)
    BY <1>1, <1>4, ConnFacts DEF q
  <2> QED BY <1>3, <2>1 DEF ReachOf
<1>13. /\ Waiting(q, q[1].dir) = n
       /\ \A dir \in Dirs \ {q[1].dir} : Waiting(q, dir) = 0
  BY <1>1, <1>4 DEF Waiting
<1>14. /\ reached[k] + n <= sent[k] /\ (k \notin unopened => reached[k] + n = sent[k])
  BY <1>8, <1>12, <1>13 DEF k, q
<1>15. k \notin unopened => reached[k] = sent[k] - n
  BY <1>10, <1>11, <1>14
<1>16. \A dir \in Dirs \ {q[1].dir} :
         LET j == <<c, dir>> IN
         /\ j # k /\ reached[j] + 0 <= sent[j]
         /\ j \in unopened \/ reached[j] + 0 = sent[j]
  <2> TAKE dir \in Dirs \ {q[1].dir}
  <2>1. <<c, dir>> # k
    BY DEF k, q
  <2> QED BY <1>12, <1>13, <2>1
<1>17. /\ ChargeFor(opts, call'[c], r) /\ \A dir : Waiting(r, dir) = 0
  BY <1>3, <1>5, NotWaiting DEF ChargeFor
<1>18. InStep(CutOff(disk_stopped', call'[c]), call'[c], r, issued[c],
              CountOf(jsonl, c, Len(jsonl)))
  BY <1>1, <1>2, <1>3, Zenon DEF InStep
<1>19. q[1].data = Run(sent[k] - n, n) /\ Len(q[1].data) = n /\ n <= sent[k]
  BY <1>4, <1>8, <1>11
<1> QED BY <1>1, <1>3, <1>4, <1>5, <1>6, <1>7, <1>9, <1>10, <1>11, <1>14, <1>15,
           <1>16, <1>17, <1>18, <1>19 DEF q, r, k, n

\* Where a stream had arrived up to n, and now up to all that was sent.
LEMMA ReachAfter ==
  ASSUME NEW c, NEW dir \in Dirs, NEW r, \A e : Waiting(r, e) = 0, NEW over, NEW snt,
         NEW rch, NEW lost, NEW here, NEW more, lost \subseteq more,
         \A e \in Dirs \ {dir} :
           LET j == <<c, e>> IN
           /\ here[j] = rch[j] /\ rch[j] + 0 <= snt[j]
           /\ j \in lost \/ rch[j] + 0 = snt[j],
         here[<<c, dir>>] + 0 <= snt[<<c, dir>>],
         <<c, dir>> \in more \/ here[<<c, dir>>] + 0 = snt[<<c, dir>>]
  PROVE  ReachOf(c, r, over, snt, here, more)
<1> SUFFICES ASSUME NEW e \in Dirs
             PROVE  LET j == <<c, e>> IN
                    /\ here[j] + Waiting(r, e) <= snt[j]
                    /\ j \in more \/ over \/ here[j] + Waiting(r, e) = snt[j]
  BY DEF ReachOf
<1>1. Waiting(r, e) = 0
  OBVIOUS
<1>2. CASE e = dir
  BY <1>1, <1>2
<1>3. CASE e # dir
  BY <1>1, <1>3
<1> QED BY <1>2, <1>3

LEMMA RawCommitKeeps ==
  ASSUME LInv, NEW c \in Tasks, RawCommit(c)
  PROVE  LInv'
<1> DEFINE q == todo[c]
           r == Tail(todo[c])
           dir == todo[c][1].dir
           k == <<c, dir>>
           n == call[c].n
           data == todo[c][1].data
           s == StreamOf(k)
           part == HeadPart(s.st, data)
           t == Write(s.st, data)
           kept == BufKept(BufCap, s.buf, part)
           passed == BufPassed(BufCap, s.buf, part)
           new == [st |-> t, buf |-> kept]
<1>0. /\ At(c, "raw") /\ call[c].at = "granted" /\ EndCharge(c) /\ Done(c)
      /\ life' = life /\ sent' = sent /\ issued' = issued /\ jsonl' = jsonl
      /\ tail_file' = tail_file /\ unopened' = unopened /\ untailed' = untailed
      /\ opts' = opts /\ main' = main /\ drained' = drained /\ killed' = killed
  BY DEF RawCommit, mainVars
<1>1. /\ Alive /\ opts.raw /\ life[c] = "open" /\ Head(q) = q[1]
      /\ k \in Streams /\ n \in Nat \ {0} /\ sent[k] \in Nat /\ n <= sent[k]
      /\ data = Run(sent[k] - n, n) /\ data \in Seq(Nat)
      /\ Len(data) = n /\ data[Len(data)] = sent[k]
      /\ reached[k] \in Nat /\ reached[k] + n <= sent[k]
      /\ k \notin unopened => reached[k] = sent[k] - n
  BY <1>0, RawFacts
<1>2. /\ \A e \in Dirs \ {dir} :
           LET j == <<c, e>> IN
           /\ j # k /\ reached[j] + 0 <= sent[j]
           /\ j \in unopened \/ reached[j] + 0 = sent[j]
      /\ todo' \in [Tasks -> Seq(Items)] /\ todo'[c] = r
      /\ \A d \in Tasks \ {c} : todo'[d] = todo[d] /\ call'[d] = call[d]
      /\ QueueOf(life[c], r, c, sent) /\ ChargeFor(opts, call'[c], r)
      /\ \A e : Waiting(r, e) = 0
      /\ InStep(CutOff(disk_stopped', call'[c]), call'[c], r, issued[c],
                CountOf(jsonl, c, Len(jsonl)))
  BY <1>0, RawFacts
<1>3. /\ Budgeted' /\ max_run_bytes' = max_run_bytes
      /\ disk_stopped' = disk_stopped /\ admitted' = admitted
      /\ Total(GrantedTo(call)) = Total(GrantedTo(call')) + n
  BY <1>0, RawFacts
<1>4. /\ raw' = WithStream(k, new)
      /\ head_file' = [head_file EXCEPT ![k] = @ \o passed]
      /\ reached' = [reached EXCEPT ![k] = sent[k]]
  BY <1>1 DEF RawCommit
<1>t. /\ LoggerTypes /\ Budgeted /\ opts \in OptionChoices /\ MapOk(opts, raw)
      /\ head_file \in [Streams -> Seq(Nat)] /\ reached \in [Streams -> Nat]
      /\ sent \in [Streams -> Nat]
  BY DEF LInv, LoggerTypes
<1>d. dir \in Dirs
  BY <1>1 DEF Streams
<1> DEFINE R == Run(sent[k] - n, n)
<1>5. /\ StreamOk(opts, s) /\ s.st \in StreamType /\ s.buf \in Seq(Nat)
      /\ Len(s.buf) \in Nat /\ Len(s.st.tail) \in Nat
      /\ InMemory(raw, k) = Len(s.buf) + Len(s.st.tail)
  BY <1>1, <1>t, StreamOfOk
<1> HIDE DEF q, r, dir, k, n, data, s
<1>6. /\ StreamOk(opts, new) /\ head_file[k] \o passed \in Seq(Nat)
      /\ Len(head_file[k] \o passed) + (Len(kept) + Len(t.tail))
           <= Len(head_file[k]) + (Len(s.buf) + Len(s.st.tail)) + n
  <2>1. head_file[k] \in Seq(Nat)
    BY <1>1, <1>t
  <2> QED BY <1>1, <1>t, <1>5, <2>1, WriteOk
<1> HIDE DEF part, t, kept, passed
<1>7. /\ DOMAIN raw' = DOMAIN raw \cup {k} /\ raw'[k] = new
      /\ \A j \in DOMAIN raw \ {k} : raw'[j] = raw[j]
  BY <1>4 DEF WithStream
<1>8. /\ head_file' \in [Streams -> Seq(Nat)] /\ reached' \in [Streams -> Nat]
      /\ head_file'[k] = head_file[k] \o passed /\ reached'[k] = sent[k]
      /\ \A j \in Streams \ {k} :
           head_file'[j] = head_file[j] /\ reached'[j] = reached[j]
  BY <1>1, <1>4, <1>6, <1>t
<1>o. \A d \in Tasks, e \in Dirs :
        /\ <<d, e>> \in Streams
        /\ <<d, e>> = k <=> (d = c /\ e = dir)
  BY DEF Streams, k
<1>9. LoggerTypes'
  <2>1. \A j \in DOMAIN raw' : StreamOk(opts, raw'[j])
    <3> TAKE j \in DOMAIN raw'
    <3>1. CASE j = k
      BY <1>6, <1>7, <3>1
    <3>2. CASE j # k
      BY <1>7, <1>t, <3>2 DEF MapOk
    <3> QED BY <3>1, <3>2
  <2>2. MapOk(opts, raw')
    BY <1>1, <1>7, <1>t, <2>1 DEF MapOk
  <2> QED BY <1>0, <1>2, <1>8, <1>t, <2>2 DEF LoggerTypes
<1>10. Only(c)
  <2>1. \A d \in Tasks \ {c}, e \in Dirs :
          /\ <<d, e>> \in Streams \ {k}
          /\ (<<d, e>> \in DOMAIN raw') <=> (<<d, e>> \in DOMAIN raw)
          /\ <<d, e>> \in DOMAIN raw => raw'[<<d, e>>] = raw[<<d, e>>]
    BY <1>7, <1>o
  <2> QED BY <1>0, <1>2, <1>3, <1>8, <2>1 DEF Only
<1>11. opts.raw => ReachOf(c, r, CutOff(disk_stopped', call'[c]), sent, reached',
                           unopened)
  <2>1. \A e \in Dirs \ {dir} :
          LET j == <<c, e>> IN
          /\ reached'[j] = reached[j] /\ reached[j] + 0 <= sent[j]
          /\ j \in unopened \/ reached[j] + 0 = sent[j]
    BY <1>2, <1>8, <1>o
  <2>2. reached'[k] + 0 <= sent[k] /\ reached'[k] + 0 = sent[k]
    BY <1>1, <1>8
  <2>3. \A e : Waiting(r, e) = 0
    BY <1>2
  <2>4. <<c, dir>> = k
    BY DEF k
  <2>5. ReachOf(c, r, CutOff(disk_stopped', call'[c]), sent, reached', unopened)
    BY <1>d, <2>1, <2>2, <2>3, <2>4, ReachAfter, Zenon
  <2> QED BY <2>5
<1>12. main = "running" =>
         WholeOf(c, life[c], r, raw', head_file', tail_file, reached', unopened)
  <2> SUFFICES ASSUME main = "running", NEW e \in Dirs, <<c, e>> \notin unopened
               PROVE  LET j == <<c, e>> IN
                      WholeAt(raw', life[c], r, j, head_file'[j], tail_file[j],
                              reached'[j])
    BY DEF WholeOf
  <2>1. WholeAt(raw, life[c], q, <<c, e>>, head_file[<<c, e>>], tail_file[<<c, e>>],
                reached[<<c, e>>])
    BY <1>1, ConnFacts DEF WholeOf, q
  <2>2. CASE e = dir
    <3>1. k \notin unopened /\ k = <<c, e>>
      BY <2>2 DEF k
    <3> DEFINE a == reached[k]
    <3>2. a \in Nat /\ a = sent[k] - n /\ a + n = sent[k]
      BY <1>1, <3>1
    <3>3. StreamWhole(s, head_file[k], tail_file[k], a)
      <4>1. CASE k \in DOMAIN raw
        BY <2>1, <3>1, <4>1 DEF WholeAt, s, StreamOf
      <4>2. CASE k \notin DOMAIN raw
        <5>1. a = 0 /\ head_file[k] = <<>> /\ tail_file[k] = <<>>
          BY <1>1, <2>1, <3>1, <4>2 DEF WholeAt, Unfinished
        <5>2. s = [st |-> Create(opts.limits), buf |-> <<>>]
          BY <4>2 DEF s, StreamOf
        <5>3. /\ Shape(Create(opts.limits)) /\ Create(opts.limits).total = 0
              /\ Create(opts.limits).head_written = 0
          BY <1>t, OptionTypes, CreatedShape
        <5>4. <<>> \o <<>> = Span(1, 0)
          <6>1. Span(1, 0) = <<>>
            <7>1. Span(0 + 1, 0) = <<>> /\ 0 + 1 = 1
              BY EmptyRun
            <7> QED BY <7>1
          <6>2. <<>> \o <<>> = <<>>
            OBVIOUS
          <6> QED BY <6>1, <6>2
        <5>5. s.st = Create(opts.limits) /\ s.buf = <<>>
          BY <5>2
        <5> QED BY <5>1, <5>3, <5>4, <5>5 DEF StreamWhole
      <4> QED BY <4>1, <4>2
    <3> HIDE DEF a
    <3>4. head_file[k] \in Seq(Nat) /\ data = Run(a, n)
      BY <1>1, <1>t, <3>2
    <3>5. StreamWhole(new, head_file[k] \o passed, tail_file[k], a + n)
      BY <1>1, <1>5, <3>2, <3>3, <3>4, WriteWhole DEF part, t, kept, passed
    <3>6. StreamWhole(raw'[k], head_file'[k], tail_file[k], reached'[k])
      BY <1>7, <1>8, <3>2, <3>5
    <3> QED BY <1>7, <3>1, <3>6 DEF WholeAt
  <2>3. CASE e # dir
    <3>1. <<c, e>> \in Streams \ {k}
      BY <1>o, <2>3
    <3>2. Unfinished(life[c], q)
      BY <1>1 DEF Unfinished
    <3> QED BY <1>7, <1>8, <2>1, <3>1, <3>2 DEF WholeAt
  <2> QED BY <2>2, <2>3
<1>13. /\ Queues' /\ CallsInStep' /\ Reaching' /\ IndexInStep'
       /\ StreamsWhole' /\ GapsReported'
  <2>1. ~Closing(life[c], r)
    BY <1>1 DEF Closing
  <2> QED BY <1>0, <1>1, <1>2, <1>10, <1>11, <1>12, <2>1, ConnStep
<1>14. EventsHaveBytes'
  <2> SUFFICES ASSUME NEW i \in 1 .. Len(jsonl), jsonl[i].event = "data",
                      <<jsonl[i].conn, jsonl[i].dir>> \notin unopened
               PROVE  jsonl[i].upto <= reached'[<<jsonl[i].conn, jsonl[i].dir>>]
    BY <1>0, <1>1 DEF EventsHaveBytes
  <2> DEFINE j == <<jsonl[i].conn, jsonl[i].dir>>
  <2>1. jsonl[i] \in Events /\ jsonl[i].dir \in Dirs
    BY <1>t, ElementOfSeq DEF LoggerTypes
  <2>2. j \in Streams /\ jsonl[i].upto \in Nat
    BY <2>1 DEF Events, Streams
  <2>3. jsonl[i].upto <= reached[j]
    BY <1>1 DEF LInv, EventsHaveBytes
  <2> DEFINE u == jsonl[i].upto
             x == reached[j]
             y == reached'[j]
  <2>4. x \in Nat /\ y \in Nat /\ u \in Nat /\ u <= x /\ x <= y
    <3>1. CASE j = k
      <4>1. reached[k] <= sent[k]
        BY <1>1
      <4> QED BY <1>1, <1>8, <2>2, <2>3, <3>1, <4>1
    <3>2. CASE j # k
      <4>1. y = x /\ x \in Nat
        BY <1>8, <1>t, <2>2, <3>2
      <4> QED BY <2>2, <2>3, <4>1
    <3> QED BY <3>1, <3>2
  <2> HIDE DEF u, x, y
  <2>5. u <= y
    BY <2>4
  <2> QED BY <2>5 DEF u, y
<1>15. EventsArePrefix'
  BY <1>0, PrefixStays
<1>16. RawIsGapless'
  <2>1. (LoggerTypes /\ Alive /\ StreamsWhole => RawIsGapless)'
    BY WholeIsGapless, PTL
  <2>2. Alive'
    BY <1>0, <1>1 DEF Alive
  <2> QED BY <1>9, <1>13, <2>1, <2>2
<1>17. CloseIsLast'
  BY <1>0, <1>1, <1>2, CloseStays
<1>18. ClosedMeansReported'
  <2>1. \A d \in Tasks \ {c}, e \in Dirs :
          LET j == <<d, e>> IN
          /\ reached'[j] = reached[j] /\ untailed'[j] = untailed[j]
          /\ head_file'[j] = head_file[j] /\ tail_file'[j] = tail_file[j]
    BY <1>0, <1>8, <1>o
  <2> QED BY <1>0, <1>1, <1>9, <2>1, ClosedStays
<1>19. SpaceIsGranted'
  <2> SUFFICES ASSUME max_run_bytes > 0
               PROVE  Len(jsonl) * EventSize + Total(Held') + Total(GrantedTo(call'))
                        <= admitted
    BY <1>0, <1>3 DEF SpaceIsGranted
  <2> DEFINE f == Held
             g == Held'
  <2>1. Len(jsonl) * EventSize + Total(f) + Total(GrantedTo(call)) <= admitted
    BY DEF LInv, SpaceIsGranted
  <2>2. /\ f \in [Streams -> Nat]
        /\ \A j \in Streams :
             f[j] = HeldIn(head_file[j], tail_file[j], raw, drained, j)
    BY <1>t, HeldType
  <2>3. /\ g \in [Streams -> Nat]
        /\ \A j \in Streams :
             g[j] = HeldIn(head_file'[j], tail_file'[j], raw', drained', j)
    BY <1>9, HeldNext
  <2> HIDE DEF f, g
  <2>4. g[k] <= f[k] + n
    <3> DEFINE F == Len(head_file[k])
               G == Len(head_file[k] \o passed)
               T == Len(tail_file[k])
               A == Len(s.buf) + Len(s.st.tail)
               B == Len(kept) + Len(t.tail)
               D == InMemory(drained, k)
    <3>1. f[k] = F + T + A + D
      BY <1>1, <1>5, <2>2 DEF HeldIn
    <3>2. g[k] = G + T + B + D
      <4>1. InMemory(raw', k) = B
        BY <1>7 DEF InMemory
      <4> QED BY <1>0, <1>1, <1>8, <2>3, <4>1 DEF HeldIn
    <3>3. /\ F \in Nat /\ G \in Nat /\ T \in Nat /\ A \in Nat /\ D \in Nat
          /\ B \in Nat
      <4>1. tail_file[k] \in Seq(Nat) /\ head_file[k] \in Seq(Nat)
        BY <1>1 DEF LInv, LoggerTypes
      <4>2. D \in Nat
        BY MapTypes DEF LInv, LoggerTypes
      <4>3. new \in OpenStreams
        BY <1>6 DEF StreamOk
      <4>4. kept \in Seq(Nat) /\ t.tail \in Seq(Nat)
        BY <4>3 DEF OpenStreams, StreamType
      <4>5. Len(kept) \in Nat /\ Len(t.tail) \in Nat
        BY <4>4, LenProperties
      <4>6. A \in Nat /\ B \in Nat
        <5>1. \A a, b \in Nat : a + b \in Nat
          OBVIOUS
        <5> QED BY <1>5, <4>5, <5>1, Zenon
      <4>7. F \in Nat /\ G \in Nat /\ T \in Nat
        BY <1>6, <4>1, LenProperties
      <4> QED BY <4>2, <4>6, <4>7
    <3>4. G + B <= F + A + n
      BY <1>6
    <3> HIDE DEF F, G, T, A, B, D
    <3>5. G + T + B + D <= (F + T + A + D) + n
      BY <1>1, <3>3, <3>4
    <3> QED BY <3>1, <3>2, <3>5
  <2>5. \A j \in Streams \ {k} : g[j] <= f[j]
    <3> TAKE j \in Streams \ {k}
    <3>1. InMemory(raw', j) = InMemory(raw, j)
      BY <1>7 DEF InMemory
    <3>2. g[j] = f[j]
      BY <1>0, <1>8, <2>2, <2>3, <3>1 DEF HeldIn
    <3>3. f[j] \in Nat
      BY <2>2
    <3> QED BY <3>2, <3>3
  <2>6. Total(g) <= Total(f) + n
    BY <1>1, <2>2, <2>3, <2>4, <2>5, StreamsFinite, TotalGrow
  <2> DEFINE u == Len(jsonl) * EventSize
             x == Total(f)
             y == Total(g)
             b == Total(GrantedTo(call'))
  <2>7. u \in Nat
    <3>1. Len(jsonl) \in Nat /\ EventSize \in Nat
      BY LoggerSizes, LenProperties DEF LInv, LoggerTypes
    <3> QED BY <3>1
  <2>8. x \in Nat /\ y \in Nat
    BY <2>2, <2>3, StreamsFinite, TotalType
  <2>9. b \in Nat /\ admitted \in Nat
    <3>1. GrantedTo(call') \in [Tasks -> Nat]
      BY <1>3, GrantedType DEF Budgeted, BudgetTypeOK
    <3> QED BY <1>t, <3>1, BudgetAssumption, TotalType DEF Budgeted, BudgetTypeOK
  <2>10. u + x + (b + n) <= admitted /\ y <= x + n
    BY <1>3, <2>1, <2>6
  <2> HIDE DEF u, x, y, b
  <2>11. u + y + b <= admitted
    BY <1>1, <2>7, <2>8, <2>9, <2>10
  <2> QED BY <2>11 DEF u, y, b, g
<1> QED BY <1>3, <1>9, <1>13, <1>14, <1>15, <1>16, <1>17, <1>18, <1>19 DEF LInv

LEMMA RawOpenFailsKeeps ==
  ASSUME LInv, NEW c \in Tasks, RawOpenFails(c)
  PROVE  LInv'
<1> DEFINE q == todo[c]
           r == Tail(todo[c])
           dir == todo[c][1].dir
           k == <<c, dir>>
           n == call[c].n
<1>0. /\ At(c, "raw") /\ call[c].at = "granted" /\ EndCharge(c) /\ Done(c)
      /\ life' = life /\ sent' = sent /\ issued' = issued /\ jsonl' = jsonl
      /\ raw' = raw /\ head_file' = head_file /\ tail_file' = tail_file
      /\ reached' = reached /\ untailed' = untailed
      /\ opts' = opts /\ main' = main /\ drained' = drained /\ killed' = killed
  BY DEF RawOpenFails, mainVars
<1>1. /\ Alive /\ opts.raw /\ life[c] = "open" /\ Head(q) = q[1]
      /\ k \in Streams /\ n \in Nat \ {0} /\ sent[k] \in Nat
      /\ reached[k] \in Nat /\ reached[k] + n <= sent[k]
  BY <1>0, RawFacts
<1>2. /\ \A e \in Dirs \ {dir} :
           LET j == <<c, e>> IN
           /\ j # k /\ reached[j] + 0 <= sent[j]
           /\ j \in unopened \/ reached[j] + 0 = sent[j]
      /\ todo' \in [Tasks -> Seq(Items)] /\ todo'[c] = r
      /\ \A d \in Tasks \ {c} : todo'[d] = todo[d] /\ call'[d] = call[d]
      /\ QueueOf(life[c], r, c, sent) /\ ChargeFor(opts, call'[c], r)
      /\ \A e : Waiting(r, e) = 0
      /\ InStep(CutOff(disk_stopped', call'[c]), call'[c], r, issued[c],
                CountOf(jsonl, c, Len(jsonl)))
  BY <1>0, RawFacts
<1>3. /\ Budgeted' /\ max_run_bytes' = max_run_bytes
      /\ disk_stopped' = disk_stopped /\ admitted' = admitted
      /\ Total(GrantedTo(call)) = Total(GrantedTo(call')) + n
  BY <1>0, RawFacts
<1>4. unopened' = unopened \cup {k}
  BY <1>1 DEF RawOpenFails
<1>d. dir \in Dirs
  BY <1>1 DEF Streams
<1>t. LoggerTypes /\ Budgeted /\ sent \in [Streams -> Nat] /\ reached \in [Streams -> Nat]
  BY DEF LInv, LoggerTypes
<1> HIDE DEF q, r, dir, k, n
<1>o. \A d \in Tasks, e \in Dirs :
        /\ <<d, e>> \in Streams
        /\ <<d, e>> = k <=> (d = c /\ e = dir)
  BY DEF Streams, k
<1>5. LoggerTypes'
  BY <1>0, <1>1, <1>2, <1>4, <1>t DEF LoggerTypes
<1>6. Only(c)
  <2>1. \A d \in Tasks \ {c}, e \in Dirs :
          (<<d, e>> \in unopened') <=> (<<d, e>> \in unopened)
    BY <1>4, <1>o
  <2> QED BY <1>0, <1>2, <1>3, <2>1 DEF Only
<1>7. ReachOf(c, r, CutOff(disk_stopped', call'[c]), sent, reached, unopened')
  <2>1. \A e \in Dirs \ {dir} :
          LET j == <<c, e>> IN
          /\ reached[j] = reached[j] /\ reached[j] + 0 <= sent[j]
          /\ j \in unopened \/ reached[j] + 0 = sent[j]
    BY <1>2
  <2>2. reached[k] + 0 <= sent[k]
    BY <1>1
  <2>3. \A e : Waiting(r, e) = 0
    BY <1>2
  <2>4. <<c, dir>> = k /\ k \in unopened' /\ unopened \subseteq unopened'
    BY <1>4 DEF k
  <2> QED BY <1>d, <2>1, <2>2, <2>3, <2>4, ReachAfter, Zenon
<1>8. /\ Queues' /\ CallsInStep' /\ Reaching' /\ IndexInStep'
      /\ StreamsWhole' /\ GapsReported'
  <2>1. main = "running" =>
          WholeOf(c, life[c], q, raw, head_file, tail_file, reached, unopened)
    BY <1>1, ConnFacts DEF q
  <2>2. main = "running" =>
          WholeOf(c, life[c], r, raw, head_file, tail_file, reached, unopened')
    <3>1. Unfinished(life[c], q) /\ unopened \subseteq unopened'
      BY <1>1, <1>4 DEF Unfinished
    <3> QED BY <2>1, <3>1, WholeStays
  <2>3. ~Closing(life[c], r)
    BY <1>1 DEF Closing
  <2> QED BY <1>0, <1>1, <1>2, <1>6, <1>7, <2>2, <2>3, ConnStep
<1>9. EventsHaveBytes' /\ RawIsGapless'
  <2>1. EventsHaveBytes'
    BY <1>0, <1>4 DEF LInv, EventsHaveBytes
  <2>2. RawIsGapless'
    BY <1>0, <1>4 DEF LInv, RawIsGapless
  <2> QED BY <2>1, <2>2
<1>10. EventsArePrefix'
  BY <1>0, PrefixStays
<1>11. CloseIsLast'
  BY <1>0, <1>1, <1>2, CloseStays
<1>12. ClosedMeansReported'
  BY <1>0, <1>1, <1>4, <1>5, ClosedStays
<1>13. SpaceIsGranted'
  <2>1. \A j \in Streams :
          HeldIn(head_file'[j], tail_file'[j], raw', drained', j)
            <= HeldIn(head_file[j], tail_file[j], raw, drained, j)
    <3> TAKE j \in Streams
    <3>1. HeldIn(head_file[j], tail_file[j], raw, drained, j) \in Nat
      BY <1>t, HeldType
    <3> QED BY <1>0, <3>1
  <2>2. Total(GrantedTo(call')) + admitted <= Total(GrantedTo(call)) + admitted'
    <3>1. Total(GrantedTo(call')) \in Nat /\ admitted \in Nat
      <4>1. GrantedTo(call') \in [Tasks -> Nat]
        BY <1>3, GrantedType DEF Budgeted, BudgetTypeOK
      <4> QED BY <1>t, <4>1, BudgetAssumption, TotalType DEF Budgeted, BudgetTypeOK
    <3> QED BY <1>1, <1>3, <3>1
  <2> QED BY <1>0, <1>3, <1>5, <2>1, <2>2, SpaceStays
<1> QED BY <1>3, <1>5, <1>8, <1>9, <1>10, <1>11, <1>12, <1>13 DEF LInv

-----------------------------------------------------------------------------
\* The end of a stream.

\* Finishing streams of a map moves bytes from memory to the files, or drops
\* them.
LEMMA FinishOk ==
  ASSUME LoggerTypes, NEW m, MapOk(opts, m), NEW ks, ks \subseteq DOMAIN m,
         NEW failed
  PROVE  /\ FinishedHeads(m, ks) \in [Streams -> Seq(Nat)]
         /\ FinishedTails(m, ks, failed) \in [Streams -> Seq(Nat)]
         /\ MapOk(opts, Without(m, ks)) /\ DOMAIN Without(m, ks) = DOMAIN m \ ks
<1>0. /\ opts \in OptionChoices /\ head_file \in [Streams -> Seq(Nat)]
      /\ tail_file \in [Streams -> Seq(Nat)] /\ DOMAIN m \subseteq Streams
  BY DEF LoggerTypes, MapOk
<1>1. \A k \in DOMAIN m : /\ StreamOk(opts, m[k]) /\ m[k].buf \in Seq(Nat)
                          /\ m[k].st.tail \in Seq(Nat)
  BY <1>0, MapTypes
<1>2. FinishedHeads(m, ks) \in [Streams -> Seq(Nat)]
  <2>1. \A k \in ks : head_file[k] \o m[k].buf \in Seq(Nat)
    BY <1>0, <1>1, ConcatProperties
  <2> QED BY <1>0, <2>1 DEF FinishedHeads
<1>3. FinishedTails(m, ks, failed) \in [Streams -> Seq(Nat)]
  BY <1>0, <1>1 DEF FinishedTails
<1>4. /\ DOMAIN Without(m, ks) = DOMAIN m \ ks
      /\ \A k \in DOMAIN m \ ks : Without(m, ks)[k] = m[k]
  BY DEF Without
<1>5. MapOk(opts, Without(m, ks))
  BY <1>0, <1>1, <1>4 DEF MapOk
<1> QED BY <1>2, <1>3, <1>4, <1>5

LEMMA FinishAt ==
  ASSUME NEW m, NEW ks, ks \subseteq DOMAIN m, NEW k \in Streams
  PROVE  /\ k \notin ks => InMemory(Without(m, ks), k) = InMemory(m, k)
         /\ k \in ks => InMemory(Without(m, ks), k) = 0
<1>1. /\ k \in DOMAIN m /\ k \notin ks => Without(m, ks)[k] = m[k]
      /\ DOMAIN Without(m, ks) = DOMAIN m \ ks
  BY DEF Without
<1> QED BY <1>1 DEF InMemory

\* So no more bytes are held than before.
LEMMA FinishHolds ==
  ASSUME LoggerTypes, NEW m, MapOk(opts, m), NEW ks, ks \subseteq DOMAIN m,
         NEW k \in Streams, NEW rest \in Nat, NEW failed
  PROVE  Len(FinishedHeads(m, ks)[k]) + Len(FinishedTails(m, ks, failed)[k])
             + InMemory(Without(m, ks), k) + rest
           <= Len(head_file[k]) + Len(tail_file[k]) + InMemory(m, k) + rest
<1>f. /\ FinishedHeads(m, ks) \in [Streams -> Seq(Nat)]
      /\ FinishedTails(m, ks, failed) \in [Streams -> Seq(Nat)]
      /\ MapOk(opts, Without(m, ks))
  BY FinishOk
<1> DEFINE w == Without(m, ks)
           x == FinishedHeads(m, ks)[k]
           y == FinishedTails(m, ks, failed)[k]
           H == Len(head_file[k])
           T == Len(tail_file[k])
           M == InMemory(m, k)
           W == InMemory(w, k)
           X == Len(x)
           Y == Len(y)
<1>0. /\ opts \in OptionChoices /\ head_file[k] \in Seq(Nat) /\ tail_file[k] \in Seq(Nat)
  BY DEF LoggerTypes
<1>1. /\ x \in Seq(Nat) /\ y \in Seq(Nat) /\ MapOk(opts, w)
  BY <1>f
<1>2. H \in Nat /\ T \in Nat /\ M \in Nat /\ W \in Nat /\ X \in Nat /\ Y \in Nat
  BY <1>0, <1>1, LenProperties, MapTypes
<1>3. CASE k \notin ks
  <2>1. x = head_file[k] /\ y = tail_file[k]
    BY <1>3 DEF FinishedHeads, FinishedTails
  <2>2. W = M
    BY <1>3, FinishAt
  <2>3. X = H /\ Y = T
    BY <2>1
  <2> HIDE DEF w, H, T, M, W, X, Y
  <2>4. X + Y + W + rest <= H + T + M + rest
    BY <1>2, <2>2, <2>3
  <2> QED BY <2>4 DEF w, H, T, M, W, X, Y
<1>4. CASE k \in ks
  <2> DEFINE B == Len(m[k].buf)
             S == Len(m[k].st.tail)
  <2>1. /\ m[k].buf \in Seq(Nat) /\ m[k].st.tail \in Seq(Nat) /\ M = B + S
    BY <1>0, <1>4, MapTypes
  <2>2. B \in Nat /\ S \in Nat
    BY <2>1, LenProperties
  <2>3. x = head_file[k] \o m[k].buf
    BY <1>4 DEF FinishedHeads
  <2>4. X = H + B
    <3> HIDE DEF x
    <3>1. head_file[k] \in Seq(Nat)
      BY <1>0
    <3> QED BY <2>1, <2>3, <3>1, ConcatProperties
  <2>5. Y = S \/ Y = T
    <3>1. y = m[k].st.tail \/ y = tail_file[k]
      BY <1>4 DEF FinishedTails
    <3> HIDE DEF y
    <3> QED BY <3>1
  <2>6. W = 0
    BY <1>4, FinishAt
  <2> HIDE DEF w, H, T, M, W, X, Y, B, S, x, y
  <2>7. X + Y + W + rest <= H + T + M + rest
    BY <1>2, <2>1, <2>2, <2>4, <2>5, <2>6
  <2> QED BY <2>7 DEF w, H, T, M, W, X, Y, x, y
<1> QED BY <1>3, <1>4

\* What a finished stream leaves in its files.
LEMMA FinishGapless ==
  ASSUME NEW s, s.st \in StreamType, s.buf \in Seq(Nat), NEW file \in Seq(Nat),
         NEW tail, NEW n \in Nat, StreamWhole(s, file, tail, n),
         NEW lost \in BOOLEAN
  PROVE  LET back == IF ~lost /\ s.st.tail # <<>> THEN s.st.tail ELSE tail
             gone == IF lost THEN Len(s.st.tail) ELSE 0
         IN  /\ Gapless(file \o s.buf, back, n)
             /\ n - Len(file \o s.buf) - Len(back) = s.st.dropped + gone
             /\ s.st.total = n
<1> DEFINE h == s.st.head_written
           t == Len(s.st.tail)
           d == s.st.dropped
<1>1. /\ Shape(s.st) /\ s.st.total = n /\ file \o s.buf = Span(1, h) /\ tail = <<>>
  BY DEF StreamWhole
<1>2. /\ n = h + t + d /\ s.st.tail = Span(n - t + 1, n)
  <2> DEFINE x == s.st
  <2>1. x \in StreamType /\ Shape(x)
    BY <1>1
  <2> HIDE DEF x
  <2>2. /\ x.total = x.head_written + Len(x.tail) + x.dropped
        /\ x.tail = Span(x.total - Len(x.tail) + 1, x.total)
    BY <2>1, ShapeNumbers
  <2> QED BY <1>1, <2>2 DEF x
<1>3. h \in Nat /\ t \in Nat /\ d \in Nat
  <2>1. s.st.tail \in Seq(Nat)
    BY DEF StreamType
  <2> QED BY <2>1, LenProperties DEF StreamType
<1> DEFINE back == IF ~lost /\ s.st.tail # <<>> THEN s.st.tail ELSE tail
           gone == IF lost THEN Len(s.st.tail) ELSE 0
           b == Len(back)
<1>4. back = IF lost THEN <<>> ELSE s.st.tail
  BY <1>1
<1>g. gone = IF lost THEN t ELSE 0
  OBVIOUS
<1>b. b = IF lost THEN 0 ELSE t
  BY <1>4
<1> HIDE DEF back, gone, b, h, t, d
<1>5. Len(Span(1, h)) = h
  <2>1. 1 \in Nat /\ h \in Int /\ 1 <= h + 1 /\ h - 1 + 1 = h
    BY <1>3
  <2> QED BY <2>1, SpanType
<1>6. Len(file \o s.buf) = h
  BY <1>1, <1>5
<1>7. n - h - b = d + gone
  BY <1>2, <1>3, <1>b, <1>g
<1>8. Gapless(file \o s.buf, back, n)
  <2>1. CASE lost
    <3>1. <<>> = Span(n + 1, n) /\ n - 0 + 1 = n + 1
      BY EmptyRun
    <3>2. b = 0 /\ back = <<>>
      BY <1>4, <1>b, <2>1
    <3> QED BY <1>1, <1>6, <3>1, <3>2 DEF Gapless, b
  <2>2. CASE ~lost
    <3>1. b = t /\ back = s.st.tail
      BY <1>4, <1>b, <2>2
    <3> QED BY <1>1, <1>2, <1>6, <3>1 DEF Gapless, b
  <2> QED BY <2>1, <2>2
<1> QED BY <1>1, <1>6, <1>7, <1>8 DEF back, gone, b, d

\* The queue after close_raw: reports, then the close event.
Joined(r, a, b, last) ==
  /\ r \in Seq(Items) /\ Len(r) \in Nat \ {0} /\ r[Len(r)] = last
  /\ \A i \in 1 .. Len(r) - 1 :
       \/ \E j \in 1 .. Len(a) : r[i] = a[j]
       \/ \E j \in 1 .. Len(b) : r[i] = b[j]
  /\ \A j \in 1 .. Len(a) : \E i \in 1 .. Len(r) : r[i] = a[j]
  /\ \A j \in 1 .. Len(b) : \E i \in 1 .. Len(r) : r[i] = b[j]

LEMMA ReportQueue ==
  ASSUME NEW a \in Seq(Items), NEW b \in Seq(Items), NEW d \in Seq(Items), Len(d) = 1
  PROVE  Joined(a \o b \o d, a, b, d[1])
<1> DEFINE x == a \o b
           m == Len(a)
           n == Len(b)
           r == x \o d
<1>1. /\ x \in Seq(Items) /\ Len(x) = m + n
      /\ \A i \in 1 .. m + n : x[i] = IF i <= m THEN a[i] ELSE b[i - m]
  BY ConcatProperties
<1>x. x \in Seq(Items)
  BY <1>1
<1> HIDE DEF x
<1>2. /\ r \in Seq(Items) /\ Len(r) = Len(x) + 1
      /\ \A i \in 1 .. Len(x) + 1 : r[i] = IF i <= Len(x) THEN x[i] ELSE d[i - Len(x)]
  <2>1. /\ r \in Seq(Items) /\ Len(r) = Len(x) + Len(d)
        /\ \A i \in 1 .. Len(x) + Len(d) :
             r[i] = IF i <= Len(x) THEN x[i] ELSE d[i - Len(x)]
    BY <1>x, ConcatProperties
  <2> QED BY <2>1
<1> HIDE DEF r
<1>3. m \in Nat /\ n \in Nat
  BY LenProperties
<1> HIDE DEF m, n
<1>4. Len(r) = m + n + 1
  BY <1>1, <1>2, <1>3
<1>5. r[m + n + 1] = d[1]
  <2>1. m + n + 1 \in 1 .. Len(x) + 1 /\ ~(m + n + 1 <= Len(x))
        /\ m + n + 1 - Len(x) = 1
    BY <1>1, <1>3
  <2> QED BY <1>2, <2>1
<1>6. \A i \in 1 .. m + n : r[i] = IF i <= m THEN a[i] ELSE b[i - m]
  <2> TAKE i \in 1 .. m + n
  <2>1. i \in 1 .. Len(x) + 1 /\ i <= Len(x)
    BY <1>1, <1>3
  <2> QED BY <1>1, <1>2, <2>1
<1>7. ASSUME NEW i \in 1 .. m + n
      PROVE  \/ \E j \in 1 .. m : r[i] = a[j]
             \/ \E j \in 1 .. n : r[i] = b[j]
  <2>1. CASE i <= m
    BY <1>3, <1>6, <2>1
  <2>2. CASE ~(i <= m)
    <3>1. i - m \in 1 .. n
      BY <1>3, <2>2
    <3> QED BY <1>6, <2>2, <3>1
  <2> QED BY <2>1, <2>2
<1>8. ASSUME NEW j \in 1 .. m
      PROVE  j \in 1 .. m + n + 1 /\ r[j] = a[j]
  <2>1. j \in 1 .. m + n /\ j <= m /\ j \in 1 .. m + n + 1
    BY <1>3
  <2> QED BY <1>6, <2>1
<1>9. ASSUME NEW j \in 1 .. n
      PROVE  m + j \in 1 .. m + n + 1 /\ r[m + j] = b[j]
  <2>1. m + j \in 1 .. m + n /\ ~(m + j <= m) /\ (m + j) - m = j
        /\ m + j \in 1 .. m + n + 1
    BY <1>3
  <2> QED BY <1>6, <2>1
<1>10. m + n + 1 \in Nat \ {0} /\ (m + n + 1) - 1 = m + n
  BY <1>3
<1>11. /\ \A j \in 1 .. m : \E i \in 1 .. m + n + 1 : r[i] = a[j]
       /\ \A j \in 1 .. n : \E i \in 1 .. m + n + 1 : r[i] = b[j]
  BY <1>8, <1>9
<1>12. Joined(r, a, b, d[1])
  BY <1>2, <1>4, <1>5, <1>7, <1>10, <1>11 DEF m, n, Joined
<1> QED BY <1>12 DEF r, x

\* What is at the head of such a queue is an event.
LEMMA ReportsAhead ==
  ASSUME NEW r, NEW c, Len(r) \in Nat \ {0}, IsEvent(r[Len(r)], "close", c),
         \A i \in 1 .. Len(r) - 1 : IsEvent(r[i], "truncated", c)
  PROVE  ~AtRaw(r) /\ ~AtFinish(r) /\ ClosedQueue(r, c)
<1>1. r[1].what = "event"
  <2>1. CASE Len(r) = 1
    BY <2>1 DEF IsEvent
  <2>2. CASE Len(r) # 1
    <3>1. 1 \in 1 .. Len(r) - 1
      BY <2>2, OneIsBefore
    <3> QED BY <3>1 DEF IsEvent
  <2> QED BY <2>1, <2>2
<1> QED BY <1>1 DEF AtRaw, AtFinish, ClosedQueue

\* The report of one stream: nothing, or its truncated event.
LEMMA ReportOf ==
  ASSUME LoggerTypes, NEW c \in Tasks, NEW dir \in Dirs
  PROVE  LET k == <<c, dir>> IN
         /\ Report(k) \in Seq(Items)
         /\ \A j \in 1 .. Len(Report(k)) : IsEvent(Report(k)[j], "truncated", c)
         /\ k \in DOMAIN raw /\ raw[k].st.dropped > 0 =>
              /\ 1 \in 1 .. Len(Report(k))
              /\ Report(k)[1]
                   = EventItem(Event("truncated", k[1], k[2], raw[k].st.total))
<1> DEFINE k == <<c, dir>>
           item == EventItem(Event("truncated", k[1], k[2], raw[k].st.total))
<1>0. k[1] = c /\ k[2] = dir
  OBVIOUS
<1> HIDE DEF k
<1>1. CASE k \in DOMAIN raw /\ raw[k].st.dropped > 0
  <2>1. Report(k) = <<item>>
    BY <1>1 DEF Report
  <2>2. raw[k].st.total \in Nat
    BY <1>1, MapTypes DEF LoggerTypes
  <2>3. item \in Items /\ IsEvent(item, "truncated", c)
    BY <1>0, <2>2, ItemTypes DEF IsEvent, EventItem, Event
  <2> HIDE DEF item
  <2>4. <<item>> \in Seq(Items) /\ Len(<<item>>) = 1 /\ <<item>>[1] = item
    BY <2>3, QueueTypes
  <2>5. 1 \in 1 .. 1 /\ \A j \in 1 .. 1 : j = 1
    OBVIOUS
  <2> QED BY <2>1, <2>3, <2>4, <2>5 DEF k, item
<1>2. CASE ~(k \in DOMAIN raw /\ raw[k].st.dropped > 0)
  <2>1. Report(k) = <<>>
    BY <1>2 DEF Report
  <2>2. <<>> \in Seq(Items) /\ Len(<<>>) = 0 /\ 1 .. 0 = {}
    BY EmptySeq
  <2>3. /\ Report(k) \in Seq(Items)
        /\ \A j \in 1 .. Len(Report(k)) : IsEvent(Report(k)[j], "truncated", c)
    BY <2>1, <2>2
  <2> QED BY <1>2, <2>3 DEF k
<1> QED BY <1>1, <1>2

LEMMA CloseRawKeeps ==
  ASSUME LInv, Marks, NEW c \in Tasks, NEW failed, CloseRaw(c, failed)
  PROVE  LInv'
<1> DEFINE q == todo[c]
           y == Tail(todo[c])
           ks == StreamsOf(c, raw)
           a == Report(<<c, "rx">>)
           b == Report(<<c, "tx">>)
           r == IF opts.raw THEN a \o b \o y ELSE y
<1>1. /\ At(c, "finish") /\ UNCHANGED budgetVars
      /\ todo' = [todo EXCEPT ![c] = r]
      /\ raw' = Without(raw, ks) /\ head_file' = FinishedHeads(raw, ks)
      /\ tail_file' = FinishedTails(raw, ks, failed)
      /\ untailed' = LostTails(raw, failed) /\ failed \subseteq ks
      /\ life' = life /\ sent' = sent /\ issued' = issued /\ jsonl' = jsonl
      /\ reached' = reached /\ unopened' = unopened
      /\ opts' = opts /\ main' = main /\ drained' = drained /\ killed' = killed
  BY DEF CloseRaw, ReportsFirst, WithRing, mainVars
<1>t. /\ LoggerTypes /\ Budgeted /\ opts \in OptionChoices /\ MapOk(opts, raw)
      /\ head_file \in [Streams -> Seq(Nat)] /\ tail_file \in [Streams -> Seq(Nat)]
      /\ reached \in [Streams -> Nat] /\ life \in [Tasks -> Lives]
      /\ todo \in [Tasks -> Seq(Items)] /\ untailed \in [Streams -> Nat]
  BY DEF LInv, LoggerTypes, Lives, Marks
<1>2. /\ Alive /\ q # <<>> /\ AtFinish(q) /\ ~AtRaw(q) /\ ~AtEvent(q)
      /\ q \in Seq(Items) /\ y \in Seq(Items)
  BY <1>1, AtFacts DEF AtEvent, AtRaw, AtFinish
<1>3. life[c] = "closed" /\ Len(q) = 2 /\ IsEvent(q[2], "close", c)
  <2>1. QueueOf(life[c], q, c, sent) /\ life[c] \in Lives
    BY <1>2, ConnFacts
  <2> HIDE DEF q
  <2> QED BY <1>2, <2>1, QueueFinish
<1>4. /\ Budgeted' /\ call' = call /\ disk_stopped' = disk_stopped
      /\ max_run_bytes' = max_run_bytes /\ admitted' = admitted
  BY <1>1, <1>2, <1>t, SameBudget
<1>5. call[c].at = "idle"
  <2>1. ChargeFor(opts, call[c], q)
    BY <1>2, ConnFacts
  <2> QED BY <1>2, <2>1 DEF ChargeFor
<1>6. Len(y) = 1 /\ y[1] = q[2]
  <2>1. Len(y) = Len(q) - 1 /\ \A i \in 1 .. Len(q) - 1 : y[i] = q[i + 1]
    BY <1>2, QueueHead
  <2> HIDE DEF y
  <2> QED BY <1>3, <2>1
<1>k. /\ ks \subseteq DOMAIN raw
      /\ \A d \in Tasks, e \in Dirs :
           /\ <<d, e>> \in Streams
           /\ <<d, e>> \in ks <=> (d = c /\ <<d, e>> \in DOMAIN raw)
  BY DEF StreamsOf, Streams
<1>7. /\ a \in Seq(Items) /\ b \in Seq(Items)
      /\ \A j \in 1 .. Len(a) : IsEvent(a[j], "truncated", c)
      /\ \A j \in 1 .. Len(b) : IsEvent(b[j], "truncated", c)
  <2>1. "rx" \in Dirs /\ "tx" \in Dirs
    BY DEF Dirs
  <2> QED BY <1>t, <2>1, ReportOf
<1> HIDE DEF q, y, a, b, ks
\* The queue: the reports, then the close line.
<1>8. /\ r \in Seq(Items) /\ Len(r) \in Nat \ {0} /\ IsEvent(r[Len(r)], "close", c)
      /\ \A i \in 1 .. Len(r) - 1 : IsEvent(r[i], "truncated", c)
      /\ opts.raw =>
           /\ \A j \in 1 .. Len(a) : \E i \in 1 .. Len(r) : r[i] = a[j]
           /\ \A j \in 1 .. Len(b) : \E i \in 1 .. Len(r) : r[i] = b[j]
  <2>1. CASE opts.raw
    <3>1. r = a \o b \o y
      BY <2>1
    <3> HIDE DEF r
    <3>2. Joined(a \o b \o y, a, b, y[1])
      <4>1. /\ a \in Seq(Items) /\ b \in Seq(Items) /\ y \in Seq(Items)
            /\ Len(y) = 1
        BY <1>2, <1>6, <1>7
      <4> QED BY <4>1, ReportQueue
    <3>3. Joined(r, a, b, y[1])
      BY <3>1, <3>2
    <3> QED BY <1>3, <1>6, <1>7, <3>3 DEF Joined
  <2>2. CASE ~opts.raw
    <3>1. r = y
      BY <2>2
    <3> HIDE DEF r
    <3>2. Len(r) = 1 /\ r[1] = q[2] /\ r \in Seq(Items)
      BY <1>2, <1>6, <3>1
    <3>3. 1 \in Nat \ {0} /\ 1 .. 1 - 1 = {}
      OBVIOUS
    <3> QED BY <1>3, <2>2, <3>2, <3>3
  <2> QED BY <2>1, <2>2
<1> HIDE DEF r
<1>9. ~AtRaw(r) /\ ~AtFinish(r) /\ ClosedQueue(r, c)
  BY <1>8, ReportsAhead
<1>10. /\ todo'[c] = r /\ \A d \in Tasks \ {c} : todo'[d] = todo[d]
       /\ todo' \in [Tasks -> Seq(Items)]
  BY <1>1, <1>8, <1>t
<1>11. LoggerTypes'
  <2>1. /\ head_file' \in [Streams -> Seq(Nat)] /\ tail_file' \in [Streams -> Seq(Nat)]
        /\ MapOk(opts, raw')
    BY <1>1, <1>k, <1>t, FinishOk
  <2> QED BY <1>1, <1>10, <1>t, <2>1 DEF LoggerTypes
<1>12. ASSUME NEW k \in Streams
       PROVE  /\ k \notin ks => /\ head_file'[k] = head_file[k]
                                /\ tail_file'[k] = tail_file[k]
                                /\ untailed'[k] = untailed[k]
                                /\ (k \in DOMAIN raw') <=> (k \in DOMAIN raw)
                                /\ k \in DOMAIN raw => raw'[k] = raw[k]
              /\ k \in ks =>
                   /\ k \in DOMAIN raw /\ k \notin DOMAIN raw'
                   /\ head_file'[k] = head_file[k] \o raw[k].buf
                   /\ tail_file'[k] = IF k \notin failed /\ raw[k].st.tail # <<>>
                                      THEN raw[k].st.tail ELSE tail_file[k]
                   /\ untailed'[k] = untailed[k] +
                        IF k \in failed THEN Len(raw[k].st.tail) ELSE 0
  <2>1. untailed[k] \in Nat
    BY <1>t
  <2>2. /\ untailed'[k] = untailed[k] +
             IF k \in failed THEN Len(raw[k].st.tail) ELSE 0
        /\ k \notin failed => untailed'[k] = untailed[k]
    BY <1>1, <2>1 DEF LostTails
  <2> QED BY <1>1, <1>k, <2>2 DEF FinishedHeads, FinishedTails, Without
<1>13. Only(c)
  <2>1. \A d \in Tasks \ {c}, e \in Dirs :
          LET k == <<d, e>> IN
          /\ head_file'[k] = head_file[k] /\ tail_file'[k] = tail_file[k]
          /\ untailed'[k] = untailed[k]
          /\ (k \in DOMAIN raw') <=> (k \in DOMAIN raw)
          /\ k \in DOMAIN raw => raw'[k] = raw[k]
    BY <1>12, <1>k
  <2> QED BY <1>1, <1>4, <1>10, <2>1 DEF Only
<1>14. \A dir \in Dirs :
         LET k == <<c, dir>> IN
         /\ k \notin DOMAIN raw'
         /\ main = "running" /\ k \notin unopened =>
              /\ Gapless(head_file'[k], tail_file'[k], reached[k])
              /\ reached[k] - Len(head_file'[k]) - Len(tail_file'[k]) > untailed'[k] =>
                   /\ k \in DOMAIN raw /\ raw[k].st.dropped > 0
                   /\ raw[k].st.total = reached[k]
  <2> TAKE dir \in Dirs
  <2> DEFINE k == <<c, dir>>
  <2>1. k \in Streams /\ (k \in ks <=> k \in DOMAIN raw)
    BY <1>k
  <2>2. main = "running" /\ k \notin unopened =>
          WholeAt(raw, life[c], q, k, head_file[k], tail_file[k], reached[k])
    BY <1>2, ConnFacts DEF WholeOf, q
  <2> HIDE DEF k
  <2>3. reached[k] \in Nat /\ head_file[k] \in Seq(Nat)
    BY <1>t, <2>1
  <2>4. CASE k \in DOMAIN raw
    <3>1. /\ k \notin DOMAIN raw'
          /\ head_file'[k] = head_file[k] \o raw[k].buf
          /\ tail_file'[k] = IF k \notin failed /\ raw[k].st.tail # <<>>
                             THEN raw[k].st.tail ELSE tail_file[k]
          /\ untailed'[k] = untailed[k] +
               IF k \in failed THEN Len(raw[k].st.tail) ELSE 0
      BY <1>12, <2>1, <2>4
    <3>2. raw[k].st \in StreamType /\ raw[k].buf \in Seq(Nat)
      BY <1>t, <2>4, MapTypes
    <3>3. ASSUME main = "running", k \notin unopened
          PROVE  /\ Gapless(head_file'[k], tail_file'[k], reached[k])
                 /\ reached[k] - Len(head_file'[k]) - Len(tail_file'[k]) > untailed'[k]
                      => raw[k].st.dropped > 0
                 /\ raw[k].st.total = reached[k]
      <4>1. StreamWhole(raw[k], head_file[k], tail_file[k], reached[k])
        BY <2>2, <2>4, <3>3 DEF WholeAt
      <4> DEFINE s == raw[k]
                 file == head_file[k]
                 tail == tail_file[k]
                 n == reached[k]
                 lost == k \in failed
                 u == untailed[k]
      <4>2. /\ s.st \in StreamType /\ s.buf \in Seq(Nat) /\ file \in Seq(Nat)
            /\ n \in Nat /\ StreamWhole(s, file, tail, n) /\ lost \in BOOLEAN
        BY <2>3, <3>2, <4>1
      <4>u. u \in Nat
        BY <1>t, <2>1
      <4> HIDE DEF s, file, tail, n, lost, u
      <4> DEFINE back == IF ~lost /\ s.st.tail # <<>> THEN s.st.tail ELSE tail
                 gone == IF lost THEN Len(s.st.tail) ELSE 0
                 gap == n - Len(file \o s.buf) - Len(back)
                 d == s.st.dropped
      <4>3. /\ Gapless(file \o s.buf, back, n)
            /\ gap = d + gone
            /\ s.st.total = n
        BY <4>2, FinishGapless
      <4>4. /\ head_file'[k] = file \o s.buf /\ tail_file'[k] = back
            /\ untailed'[k] = u + gone
        BY <3>1 DEF s, file, tail, lost, u
      <4>5. d \in Nat /\ gone \in Nat
        <5>1. s.st.tail \in Seq(Nat) /\ d \in Nat
          BY <4>2 DEF StreamType
        <5>2. Len(s.st.tail) \in Nat
          BY <5>1, LenProperties
        <5> QED BY <5>1, <5>2
      <4>6. gap = reached[k] - Len(head_file'[k]) - Len(tail_file'[k])
        BY <4>4 DEF n
      <4> HIDE DEF back, gone, gap, d
      <4>7. gap > u + gone => d > 0
        BY <4>3, <4>5, <4>u
      <4> QED BY <4>3, <4>4, <4>6, <4>7 DEF s, n, d
    <3> QED BY <2>4, <3>1, <3>3 DEF k
  <2>5. CASE k \notin DOMAIN raw
    <3>1. /\ k \notin DOMAIN raw'
          /\ head_file'[k] = head_file[k] /\ tail_file'[k] = tail_file[k]
          /\ untailed'[k] = untailed[k] /\ untailed[k] \in Nat
      BY <1>12, <1>t, <2>1, <2>5
    <3>2. ASSUME main = "running", k \notin unopened
          PROVE  /\ Gapless(head_file[k], tail_file[k], reached[k])
                 /\ ~(reached[k] - Len(head_file[k]) - Len(tail_file[k]) > untailed[k])
      <4>1. Unfinished(life[c], q)
        BY <1>2, <1>3 DEF Unfinished
      <4>2. /\ Gapless(head_file[k], tail_file[k], reached[k])
            /\ reached[k] = 0 /\ head_file[k] = <<>> /\ tail_file[k] = <<>>
        BY <2>2, <2>5, <3>2, <4>1 DEF WholeAt
      <4>3. Len(<<>>) = 0 /\ ~(0 - 0 - 0 > untailed[k])
        BY <3>1
      <4> QED BY <4>2, <4>3
    <3> QED BY <3>1, <3>2 DEF k
  <2> QED BY <2>4, <2>5
<1>15. /\ Queues' /\ CallsInStep' /\ Reaching' /\ IndexInStep'
       /\ StreamsWhole' /\ GapsReported'
  <2>1. QueueOf(life'[c], todo'[c], c, sent')
    BY <1>1, <1>3, <1>9, <1>10 DEF QueueOf
  <2>2. ChargeFor(opts', call'[c], todo'[c])
    BY <1>4, <1>5 DEF ChargeFor
  <2>3. opts.raw => ReachOf(c, todo'[c], CutOff(disk_stopped', call'[c]), sent',
                            reached', unopened')
    <3>1. opts.raw => ReachOf(c, q, CutOff(disk_stopped, call[c]), sent,
                              reached, unopened)
      BY <1>2, ConnFacts DEF q
    <3>2. \A dir \in Dirs : Waiting(r, dir) = Waiting(q, dir)
      BY <1>2, <1>9, NotWaiting
    <3> QED BY <1>1, <1>4, <1>10, <3>1, <3>2, ReachSame
  <2>4. InStep(CutOff(disk_stopped', call'[c]), call'[c], todo'[c], issued'[c],
               CountOf(jsonl', c, Len(jsonl')))
    <3>1. InStep(CutOff(disk_stopped, call[c]), call[c], q, issued[c],
                 CountOf(jsonl, c, Len(jsonl)))
      BY <1>2, ConnFacts DEF q
    <3> QED BY <1>1, <1>4, <1>5, <3>1, Zenon DEF InStep
  <2>5. main = "running" =>
          WholeOf(c, life'[c], todo'[c], raw', head_file', tail_file', reached',
                  unopened')
    <3>1. ~Unfinished(life[c], r)
      BY <1>3, <1>9 DEF Unfinished
    <3> QED BY <1>1, <1>10, <1>14, <3>1 DEF WholeOf, WholeAt
  <2>6. opts.raw /\ main = "running" =>
          GapsOf(c, todo'[c], head_file', tail_file', reached', unopened', untailed', jsonl')
    <3> SUFFICES ASSUME opts.raw, main = "running", NEW dir \in Dirs,
                        <<c, dir>> \notin unopened,
                        LET k == <<c, dir>> IN
                        reached[k] - Len(head_file'[k]) - Len(tail_file'[k]) > untailed'[k]
                 PROVE  ToReport(r, <<c, dir>>, reached[<<c, dir>>])
      BY <1>1, <1>10 DEF GapsOf
    <3> DEFINE k == <<c, dir>>
               ev == EventItem(Event("truncated", k[1], k[2], reached[k]))
    <3>1. /\ k \in DOMAIN raw /\ raw[k].st.dropped > 0
          /\ raw[k].st.total = reached[k]
      BY <1>14
    <3>2. 1 \in 1 .. Len(Report(k)) /\ Report(k)[1] = ev
      BY <1>t, <3>1, ReportOf
    <3>3. Report(k) = a \/ Report(k) = b
      BY DEF a, b, Dirs
    <3> HIDE DEF k, ev
    <3>4. \E i \in 1 .. Len(r) : r[i] = ev
      <4>1. CASE Report(k) = a
        <5>1. 1 \in 1 .. Len(a) /\ a[1] = ev
          BY <3>2, <4>1
        <5> QED BY <1>8, <5>1
      <4>2. CASE Report(k) = b
        <5>1. 1 \in 1 .. Len(b) /\ b[1] = ev
          BY <3>2, <4>2
        <5> QED BY <1>8, <5>1
      <4> QED BY <3>3, <4>1, <4>2
    <3> QED BY <3>4 DEF ToReport, k, ev
  <2> QED BY <1>2, <1>13, <2>1, <2>2, <2>3, <2>4, <2>5, <2>6, ConnStep
<1>16. EventsHaveBytes'
  BY <1>1 DEF LInv, EventsHaveBytes
<1>17. EventsArePrefix'
  BY <1>1, PrefixStays
<1>18. RawIsGapless'
  <2>1. (LoggerTypes /\ Alive /\ StreamsWhole => RawIsGapless)'
    BY WholeIsGapless, PTL
  <2>2. Alive'
    BY <1>1, <1>2 DEF Alive
  <2> QED BY <1>11, <1>15, <2>1, <2>2
<1>19. CloseIsLast'
  BY <1>1, <1>2, <1>10, CloseStays DEF q
<1>20. ClosedMeansReported'
  <2>1. \A d \in Tasks \ {c}, e \in Dirs :
          LET j == <<d, e>> IN
          /\ reached'[j] = reached[j] /\ untailed'[j] = untailed[j]
          /\ head_file'[j] = head_file[j] /\ tail_file'[j] = tail_file[j]
    BY <1>1, <1>12, <1>k
  <2> QED BY <1>1, <1>2, <1>11, <2>1, ClosedStays DEF q
<1>21. SpaceIsGranted'
  <2>1. \A k \in Streams :
          HeldIn(head_file'[k], tail_file'[k], raw', drained', k)
            <= HeldIn(head_file[k], tail_file[k], raw, drained, k)
    <3> TAKE k \in Streams
    <3>1. InMemory(drained, k) \in Nat
      BY <1>t, MapTypes DEF LoggerTypes
    <3> QED BY <1>1, <1>k, <1>t, <3>1, FinishHolds DEF HeldIn
  <2>2. Total(GrantedTo(call')) + admitted <= Total(GrantedTo(call)) + admitted'
    BY <1>4, <1>t, SameSpace
  <2> QED BY <1>1, <1>4, <1>11, <2>1, <2>2, SpaceStays
<1> QED BY <1>4, <1>11, <1>15, <1>16, <1>17, <1>18, <1>19, <1>20, <1>21 DEF LInv

-----------------------------------------------------------------------------
\* The main task, and the end of the process.

\* From ctrl-c on only types, index and sizes are at stake.
LEMMA MainKeeps ==
  ASSUME LInv, Alive,
         UNCHANGED <<budgetVars, appVars, reached, unopened, jsonl, opts, killed>>,
         main' \in {"flushing", "stopping", "exited"},
         head_file' \in [Streams -> Seq(Nat)], tail_file' \in [Streams -> Seq(Nat)],
         MapOk(opts, raw'), MapOk(opts, drained'),
         \A k \in Streams :
           HeldIn(head_file'[k], tail_file'[k], raw', drained', k)
             <= HeldIn(head_file[k], tail_file[k], raw, drained, k)
  PROVE  LInv'
<1>1. /\ life' = life /\ todo' = todo /\ sent' = sent /\ issued' = issued
      /\ reached' = reached /\ unopened' = unopened /\ jsonl' = jsonl
      /\ opts' = opts /\ killed' = killed /\ UNCHANGED budgetVars
  BY DEF appVars
<1>2. /\ Budgeted' /\ call' = call /\ disk_stopped' = disk_stopped
      /\ max_run_bytes' = max_run_bytes /\ admitted' = admitted
  BY <1>1, SameBudget DEF LInv
<1>3. LoggerTypes'
  BY <1>1 DEF LInv, LoggerTypes
<1>4. main' # "running"
  OBVIOUS
<1>5. StreamsWhole' /\ RawIsGapless' /\ GapsReported' /\ ClosedMeansReported'
  BY <1>4 DEF StreamsWhole, RawIsGapless, GapsReported, ClosedMeansReported
<1>6. Queues' /\ CallsInStep'
  BY <1>1, <1>2 DEF LInv, Queues, CallsInStep
<1>7. Reaching' /\ IndexInStep'
  BY <1>1, <1>2 DEF LInv, Reaching, IndexInStep
<1>8. EventsHaveBytes' /\ CloseIsLast'
  BY <1>1 DEF LInv, EventsHaveBytes, CloseIsLast
<1>9. EventsArePrefix'
  <2>1. (EventsArePrefix <=> PrefixOf(jsonl, issued))'
    BY PrefixMeans, PTL
  <2> QED BY <1>1, <2>1, PrefixMeans DEF LInv
<1>10. SpaceIsGranted'
  <2>1. Total(GrantedTo(call')) + admitted <= Total(GrantedTo(call)) + admitted'
    BY <1>2, SameSpace DEF LInv
  <2> QED BY <1>1, <1>2, <1>3, <2>1, SpaceStays
<1> QED BY <1>2, <1>3, <1>5, <1>6, <1>7, <1>8, <1>9, <1>10 DEF LInv

\* Nothing is in an empty map.
LEMMA EmptyMap ==
  /\ DOMAIN NoStreams = {} /\ \A k : InMemory(NoStreams, k) = 0
  /\ \A o : MapOk(o, NoStreams)
<1>1. DOMAIN NoStreams = {}
  BY DEF NoStreams
<1> QED BY <1>1, Zenon DEF InMemory, MapOk

\* The sizes of one stream.
LEMMA StreamSizes ==
  ASSUME LoggerTypes, NEW k \in Streams
  PROVE  /\ Len(head_file[k]) \in Nat /\ Len(tail_file[k]) \in Nat
         /\ InMemory(raw, k) \in Nat /\ InMemory(drained, k) \in Nat
<1>1. head_file[k] \in Seq(Nat) /\ tail_file[k] \in Seq(Nat)
  BY DEF LoggerTypes
<1>2. InMemory(raw, k) \in Nat /\ InMemory(drained, k) \in Nat
  BY MapTypes DEF LoggerTypes
<1> QED BY <1>1, <1>2, LenProperties

LEMMA FlushDrainKeeps ==
  ASSUME LInv, FlushDrain
  PROVE  LInv'
<1>1. /\ Alive /\ main' = "flushing" /\ drained' = raw /\ raw' = NoStreams
      /\ head_file' = head_file /\ tail_file' = tail_file
      /\ UNCHANGED <<budgetVars, appVars, reached, unopened, jsonl, opts, killed>>
  BY DEF FlushDrain
<1>2. /\ LoggerTypes /\ MapOk(opts, raw)
      /\ head_file \in [Streams -> Seq(Nat)] /\ tail_file \in [Streams -> Seq(Nat)]
  BY DEF LInv, LoggerTypes
<1>3. ASSUME NEW k \in Streams
      PROVE  HeldIn(head_file[k], tail_file[k], NoStreams, raw, k)
               <= HeldIn(head_file[k], tail_file[k], raw, drained, k)
  <2> DEFINE h == Len(head_file[k])
             t == Len(tail_file[k])
             r == InMemory(raw, k)
             d == InMemory(drained, k)
  <2>1. h \in Nat /\ t \in Nat /\ r \in Nat /\ d \in Nat
    BY <1>2, StreamSizes
  <2>2. InMemory(NoStreams, k) = 0
    BY EmptyMap
  <2> HIDE DEF h, t, r, d
  <2>3. h + t + 0 + r <= h + t + r + d
    BY <2>1
  <2> QED BY <2>2, <2>3 DEF HeldIn, h, t, r, d
<1>4. MapOk(opts, raw') /\ MapOk(opts, drained')
  BY <1>1, <1>2, EmptyMap
<1> QED BY <1>1, <1>2, <1>3, <1>4, MainKeeps

LEMMA FlushFinishKeeps ==
  ASSUME LInv, NEW k \in Streams, NEW failed, FlushFinish(k, failed)
  PROVE  LInv'
<1> DEFINE w == Without(drained, {k})
           heads == FinishedHeads(drained, {k})
           tails == FinishedTails(drained, {k}, failed)
<1>1. /\ Alive /\ main = "flushing" /\ k \in DOMAIN drained
      /\ main' = main /\ drained' = w /\ raw' = raw
      /\ head_file' = heads /\ tail_file' = tails
      /\ UNCHANGED <<budgetVars, appVars, reached, unopened, jsonl, opts, killed>>
  BY DEF FlushFinish
<1>2. /\ LoggerTypes /\ MapOk(opts, raw) /\ MapOk(opts, drained)
      /\ {k} \subseteq DOMAIN drained
  BY <1>1 DEF LInv, LoggerTypes
<1>3. /\ heads \in [Streams -> Seq(Nat)] /\ tails \in [Streams -> Seq(Nat)]
      /\ MapOk(opts, w)
  BY <1>2, FinishOk
<1>4. ASSUME NEW j \in Streams
      PROVE  HeldIn(heads[j], tails[j], raw, w, j)
               <= HeldIn(head_file[j], tail_file[j], raw, drained, j)
  <2> DEFINE rest == InMemory(raw, j)
             x == Len(heads[j])
             y == Len(tails[j])
             z == InMemory(w, j)
             h == Len(head_file[j])
             t == Len(tail_file[j])
             d == InMemory(drained, j)
  <2>1. h \in Nat /\ t \in Nat /\ rest \in Nat /\ d \in Nat
    BY <1>2, StreamSizes
  <2>2. x + y + z + rest <= h + t + d + rest
    BY <1>2, <2>1, FinishHolds
  <2>3. heads[j] \in Seq(Nat) /\ tails[j] \in Seq(Nat) /\ opts \in OptionChoices
    BY <1>3 DEF LInv, LoggerTypes
  <2>4. x \in Nat /\ y \in Nat /\ z \in Nat
    BY <1>3, <2>3, LenProperties, MapTypes
  <2> HIDE DEF x, y, z, h, t, d, rest
  <2>5. x + y + rest + z <= h + t + rest + d
    BY <2>1, <2>2, <2>4
  <2> QED BY <2>5 DEF HeldIn, x, y, z, h, t, d, rest
<1> HIDE DEF w, heads, tails
<1> QED BY <1>1, <1>2, <1>3, <1>4, MainKeeps

\* The main task goes on, or dies, and touches no stream.
LEMMA StoppingKeeps ==
  ASSUME LInv, Summary \/ MainDies
  PROVE  LInv'
<1>1. /\ Alive /\ main' = "stopping" /\ drained' = drained /\ raw' = raw
      /\ head_file' = head_file /\ tail_file' = tail_file
      /\ UNCHANGED <<budgetVars, appVars, reached, unopened, jsonl, opts, killed>>
  BY DEF Summary, MainDies, sinkVars
<1>2. /\ LoggerTypes /\ MapOk(opts, raw) /\ MapOk(opts, drained)
      /\ head_file \in [Streams -> Seq(Nat)] /\ tail_file \in [Streams -> Seq(Nat)]
  BY DEF LInv, LoggerTypes
<1>3. ASSUME NEW k \in Streams
      PROVE  HeldIn(head_file[k], tail_file[k], raw, drained, k)
               <= HeldIn(head_file[k], tail_file[k], raw, drained, k)
  <2>1. HeldIn(head_file[k], tail_file[k], raw, drained, k) \in Nat
    BY <1>2, HeldType
  <2> QED BY <2>1
<1> QED BY <1>1, <1>2, <1>3, MainKeeps

LEMMA ExitKeeps ==
  ASSUME LInv, Exit
  PROVE  LInv'
<1> DEFINE ks == DOMAIN raw
           heads == FinishedHeads(raw, ks)
<1>1. /\ Alive /\ main' = "exited" /\ drained' = drained /\ raw' = NoStreams
      /\ head_file' = heads /\ tail_file' = tail_file
      /\ UNCHANGED <<budgetVars, appVars, reached, unopened, jsonl, opts, killed>>
  BY DEF Exit
<1>2. /\ LoggerTypes /\ MapOk(opts, raw) /\ MapOk(opts, drained)
      /\ head_file \in [Streams -> Seq(Nat)] /\ tail_file \in [Streams -> Seq(Nat)]
      /\ opts \in OptionChoices
  BY DEF LInv, LoggerTypes
<1>3. heads \in [Streams -> Seq(Nat)]
  BY <1>2, FinishOk
<1>4. ASSUME NEW j \in Streams
      PROVE  HeldIn(heads[j], tail_file[j], NoStreams, drained, j)
               <= HeldIn(head_file[j], tail_file[j], raw, drained, j)
  <2> DEFINE x == Len(heads[j])
             h == Len(head_file[j])
             t == Len(tail_file[j])
             r == InMemory(raw, j)
             d == InMemory(drained, j)
  <2>1. h \in Nat /\ t \in Nat /\ r \in Nat /\ d \in Nat
    BY <1>2, StreamSizes
  <2>2. x \in Nat /\ x <= h + r
    <3>1. CASE j \in ks
      <4> DEFINE b == Len(raw[j].buf)
                 u == Len(raw[j].st.tail)
      <4>1. /\ raw[j].buf \in Seq(Nat) /\ raw[j].st.tail \in Seq(Nat)
            /\ r = b + u
        BY <1>2, <3>1, MapTypes
      <4>2. b \in Nat /\ u \in Nat
        BY <4>1, LenProperties
      <4>3. heads[j] = head_file[j] \o raw[j].buf
        BY <3>1, Zenon DEF FinishedHeads
      <4>4. x = h + b
        <5>1. head_file[j] \in Seq(Nat)
          BY <1>2
        <5> DEFINE file == head_file[j]
                   buf == raw[j].buf
        <5>2. file \in Seq(Nat) /\ buf \in Seq(Nat) /\ heads[j] = file \o buf
          BY <4>1, <4>3, <5>1
        <5> HIDE DEF heads, file, buf
        <5>3. Len(heads[j]) = Len(file) + Len(buf)
          BY <5>2, ConcatProperties
        <5> QED BY <5>3 DEF file, buf
      <4> HIDE DEF x, h, r, b, u
      <4> QED BY <2>1, <4>1, <4>2, <4>4
    <3>2. CASE j \notin ks
      <4>1. heads[j] = head_file[j]
        BY <3>2 DEF FinishedHeads
      <4>2. x = h
        BY <4>1
      <4> HIDE DEF x, h, r
      <4> QED BY <2>1, <4>2
    <3> QED BY <3>1, <3>2
  <2>3. InMemory(NoStreams, j) = 0
    BY EmptyMap
  <2> HIDE DEF x, h, t, r, d
  <2>4. x + t + 0 + d <= h + t + r + d
    BY <2>1, <2>2
  <2> QED BY <2>3, <2>4 DEF HeldIn, x, h, t, r, d
<1>5. MapOk(opts, raw')
  BY <1>1, EmptyMap
<1> HIDE DEF heads
<1> QED BY <1>1, <1>2, <1>3, <1>4, <1>5, MainKeeps

\* A kill forgets what is in memory and all calls; the files stay.
LEMMA KillKeeps ==
  ASSUME LInv, Kill
  PROVE  LInv'
<1>1. /\ Alive /\ killed' = TRUE /\ raw' = NoStreams /\ drained' = NoStreams
      /\ todo' = [c \in Tasks |-> <<>>] /\ call' = [c \in Tasks |-> Idle]
      /\ max_run_bytes' = max_run_bytes /\ disk_used' = disk_used
      /\ disk_stopped' = disk_stopped /\ admitted' = admitted
      /\ limit_lines' = limit_lines /\ life' = life /\ sent' = sent
      /\ issued' = issued /\ head_file' = head_file /\ tail_file' = tail_file
      /\ reached' = reached /\ unopened' = unopened /\ untailed' = untailed
      /\ jsonl' = jsonl /\ opts' = opts /\ main' = main
  BY DEF Kill
<1>2. ~Alive'
  BY <1>1 DEF Alive
<1>3. LoggerTypes'
  <2>1. <<>> \in Seq(Items)
    OBVIOUS
  <2>2. todo' \in [Tasks -> Seq(Items)]
    BY <1>1, <2>1
  <2>3. MapOk(opts', raw') /\ MapOk(opts', drained')
    BY <1>1, EmptyMap
  <2> QED BY <1>1, <2>2, <2>3 DEF LInv, LoggerTypes
<1>4. Budgeted'
  <2>1. Idle \in [at : Steps, n : Nat, late : BOOLEAN] /\ Idle.at = "idle"
    BY DEF Idle, Steps
  <2>2. call' \in [Tasks -> [at : Steps, n : Nat, late : BOOLEAN]]
        /\ \A c \in Tasks : call'[c].at = "idle"
    BY <1>1, <2>1
  <2>3. BudgetTypeOK' /\ CapHolds'
    BY <1>1, <2>2 DEF LInv, Budgeted, BudgetTypeOK, CapHolds
  <2> QED BY <1>2, <2>2, <2>3 DEF Budgeted
<1>5. Queues'
  <2> SUFFICES ASSUME NEW c \in Tasks PROVE QueueOf(life'[c], todo'[c], c, sent')
    BY DEF Queues
  <2>1. QueueOf(life[c], todo[c], c, sent) /\ todo'[c] = <<>>
    BY <1>1 DEF LInv, Queues
  <2> QED BY <1>1, <2>1 DEF QueueOf, OpenQueue, ClosedQueue
<1>6. CallsInStep'
  BY <1>1 DEF CallsInStep, ChargeFor, Idle
<1>7. /\ Reaching' /\ IndexInStep' /\ StreamsWhole' /\ GapsReported'
  BY <1>2 DEF Reaching, IndexInStep, StreamsWhole, GapsReported
<1>8. EventsHaveBytes'
  BY <1>1 DEF LInv, EventsHaveBytes
<1>9. EventsArePrefix'
  <2>1. (EventsArePrefix <=> PrefixOf(jsonl, issued))'
    BY PrefixMeans, PTL
  <2> QED BY <1>1, <2>1, PrefixMeans DEF LInv
<1>10. CloseIsLast'
  <2>1. \A j \in 1 .. Len(jsonl) : jsonl[j].conn \in Tasks
    <3> TAKE j \in 1 .. Len(jsonl)
    <3>1. jsonl[j] \in Events
      BY ElementOfSeq DEF LInv, LoggerTypes
    <3> QED BY <3>1 DEF Events
  <2> QED BY <1>1, <2>1 DEF LInv, CloseIsLast
<1>11. ClosedMeansReported'
  <2>1. (LoggerTypes =>
           (ClosedMeansReported <=>
              (main = "running" /\ opts.raw =>
                 ReportsAll(jsonl, head_file, tail_file, reached, unopened, untailed))))'
    BY ClosedMeans, PTL
  <2>2. main = "running" /\ opts.raw =>
          ReportsAll(jsonl, head_file, tail_file, reached, unopened, untailed)
    BY ClosedMeans DEF LInv
  <2> QED BY <1>1, <1>3, <2>1, <2>2
\* What was in files so far has no hole; a tail file is of a finished stream.
<1>12. RawIsGapless'
  <2> SUFFICES ASSUME main = "running", NEW k \in Streams \ unopened
               PROVE  Gapless(head_file[k], tail_file[k], reached[k])
    BY <1>1, EmptyMap, Zenon DEF RawIsGapless, Gapless
  <2>1. PICK c \in Tasks, dir \in Dirs : k = <<c, dir>>
    BY DEF Streams
  <2>2. WholeAt(raw, life[c], todo[c], k, head_file[k], tail_file[k], reached[k])
    <3>1. WholeOf(c, life[c], todo[c], raw, head_file, tail_file, reached, unopened)
      BY <1>1, ConnFacts
    <3> QED BY <2>1, <3>1 DEF WholeOf
  <2>3. CASE k \notin DOMAIN raw
    BY <2>2, <2>3 DEF WholeAt
  <2>4. CASE k \in DOMAIN raw
    <3>1. StreamWhole(raw[k], head_file[k], tail_file[k], reached[k])
      BY <2>2, <2>4 DEF WholeAt
    <3>2. raw[k].buf \in Seq(Nat) /\ raw[k].st \in StreamType
      BY <2>4, MapTypes DEF LInv, LoggerTypes
    <3>3. head_file[k] \in Seq(Nat) /\ reached[k] \in Nat
      BY DEF LInv, LoggerTypes
    <3> DEFINE file == head_file[k]
               buf == raw[k].buf
               n == raw[k].st.head_written
    <3>4. file \o buf = Span(1, n) /\ n \in Nat /\ tail_file[k] = <<>>
      BY <3>1, <3>2 DEF StreamWhole, StreamType
    <3>5. file = Span(1, Len(file))
      <4>1. file \in Seq(Nat) /\ buf \in Seq(Nat)
        BY <3>2, <3>3
      <4> HIDE DEF file, buf, n
      <4> QED BY <3>4, <4>1, PrefixOfRun
    <3>6. tail_file[k] = Span(reached[k] - Len(tail_file[k]) + 1, reached[k])
      <4>1. Len(<<>>) = 0 /\ <<>> = Span(reached[k] + 1, reached[k])
        BY <3>3, EmptyRun
      <4>2. reached[k] - 0 + 1 = reached[k] + 1
        BY <3>3
      <4> QED BY <3>4, <4>1, <4>2
    <3> QED BY <3>5, <3>6 DEF Gapless
  <2> QED BY <2>3, <2>4
<1>13. SpaceIsGranted'
  <2>1. ASSUME NEW k \in Streams
        PROVE  HeldIn(head_file[k], tail_file[k], NoStreams, NoStreams, k)
                 <= HeldIn(head_file[k], tail_file[k], raw, drained, k)
    <3> DEFINE h == Len(head_file[k])
               t == Len(tail_file[k])
               r == InMemory(raw, k)
               d == InMemory(drained, k)
    <3>1. h \in Nat /\ t \in Nat /\ r \in Nat /\ d \in Nat
      BY StreamSizes DEF LInv
    <3>2. InMemory(NoStreams, k) = 0
      BY EmptyMap
    <3> HIDE DEF h, t, r, d
    <3>3. h + t + 0 + 0 <= h + t + r + d
      BY <3>1
    <3> QED BY <3>2, <3>3 DEF HeldIn, h, t, r, d
  <2>2. Total(GrantedTo(call')) + admitted <= Total(GrantedTo(call)) + admitted'
    <3>1. /\ call \in [Tasks -> [at : Steps, n : Nat, late : BOOLEAN]]
          /\ call' \in [Tasks -> [at : Steps, n : Nat, late : BOOLEAN]]
          /\ admitted \in Nat
      BY <1>4 DEF LInv, Budgeted, BudgetTypeOK
    <3> DEFINE f == GrantedTo(call)
               g == GrantedTo(call')
    <3>2. f \in [Tasks -> Nat] /\ g \in [Tasks -> Nat]
      BY <3>1, GrantedType
    <3>3. \A t \in Tasks : g[t] = 0
      BY <1>1 DEF GrantedTo, Idle
    <3> HIDE DEF f, g
    <3>4. \A t \in Tasks : g[t] <= f[t]
      BY <3>2, <3>3
    <3>5. Total(g) <= Total(f) /\ Total(f) \in Nat /\ Total(g) \in Nat
      BY <3>2, <3>4, BudgetAssumption, TotalLe, TotalType
    <3>6. Total(g) + admitted <= Total(f) + admitted
      BY <3>1, <3>5
    <3> QED BY <1>1, <3>6 DEF f, g
  <2> QED BY <1>1, <1>3, <1>4, <2>1, <2>2, SpaceStays
<1> QED BY <1>3, <1>4, <1>5, <1>6, <1>7, <1>8, <1>9, <1>10, <1>11, <1>12, <1>13
        DEF LInv

-----------------------------------------------------------------------------
\* The invariant holds.

LEMMA LoggerInitially == LoggerInit => LInv
<1> SUFFICES ASSUME LoggerInit PROVE LInv
  OBVIOUS
<1>1. /\ BudgetInit /\ opts \in OptionChoices
      /\ life = [c \in Tasks |-> "new"] /\ todo = [c \in Tasks |-> <<>>]
      /\ sent = [k \in Streams |-> 0] /\ raw = NoStreams
      /\ head_file = [k \in Streams |-> <<>>]
      /\ tail_file = [k \in Streams |-> <<>>]
      /\ jsonl = <<>> /\ main = "running" /\ drained = NoStreams /\ killed = FALSE
      /\ issued = [c \in Tasks |-> <<>>] /\ reached = [k \in Streams |-> 0]
      /\ unopened = {}
  BY DEF LoggerInit
<1>2. /\ \A S : <<>> \in Seq(S) /\ Len(<<>>) = 0 /\ 1 .. 0 = {}
      /\ \A n : n \notin 1 .. Len(jsonl)
  BY <1>1
<1>3. \A c \in Tasks, dir \in Dirs : <<c, dir>> \in Streams
  BY DEF Streams
<1>4. call = [c \in Tasks |-> Idle] /\ Idle.at = "idle"
  BY <1>1 DEF BudgetInit, Idle
<1>5. Budgeted
  <2>1. BudgetInv
    BY <1>1, BudgetInitially
  <2> QED BY <1>4, <2>1 DEF Budgeted, BudgetInv
<1>6. LoggerTypes
  <2>1. MapOk(opts, raw) /\ MapOk(opts, drained)
    BY <1>1, EmptyMap
  <2> QED BY <1>1, <1>2, <2>1 DEF LoggerTypes
<1>7. Queues /\ CallsInStep
  BY <1>1, <1>3, <1>4 DEF Queues, QueueOf, CallsInStep, ChargeFor
<1>8. ASSUME NEW c \in Tasks
      PROVE  /\ \A dir \in Dirs : Waiting(todo[c], dir) = 0
             /\ ~AtEvent(todo[c]) /\ ~Closing(life[c], todo[c])
  BY <1>1 DEF Waiting, AtRaw, AtEvent, Closing
<1>9. Reaching
  <2> SUFFICES ASSUME NEW c \in Tasks, NEW dir \in Dirs
               PROVE  /\ reached[<<c, dir>>] + Waiting(todo[c], dir) <= sent[<<c, dir>>]
                      /\ reached[<<c, dir>>] + Waiting(todo[c], dir) = sent[<<c, dir>>]
    BY DEF Reaching, ReachOf
  <2>1. reached[<<c, dir>>] = 0 /\ sent[<<c, dir>>] = 0
    BY <1>1, <1>3
  <2> QED BY <1>8, <2>1
<1>10. EventsHaveBytes /\ CloseIsLast /\ EventsArePrefix
  BY <1>2 DEF EventsHaveBytes, CloseIsLast, EventsArePrefix
<1>11. ClosedMeansReported
  BY <1>2 DEF ClosedMeansReported
<1>12. IndexInStep
  <2> SUFFICES ASSUME NEW c \in Tasks
               PROVE  /\ ~AtEvent(todo[c])
                      /\ CountOf(jsonl, c, Len(jsonl)) = 0 /\ Len(issued[c]) = 0
    BY DEF IndexInStep, InStep
  <2>1. {j \in 1 .. Len(jsonl) : jsonl[j].conn = c} = {}
    BY <1>2
  <2>2. CountOf(jsonl, c, Len(jsonl)) = 0
    BY <2>1, FS_EmptySet DEF CountOf
  <2> QED BY <1>1, <1>2, <1>8, <2>2
<1>13. StreamsWhole
  <2> SUFFICES ASSUME NEW c \in Tasks, NEW dir \in Dirs
               PROVE  LET k == <<c, dir>> IN
                      /\ k \notin DOMAIN raw
                      /\ Gapless(head_file[k], tail_file[k], reached[k])
                      /\ reached[k] = 0 /\ head_file[k] = <<>> /\ tail_file[k] = <<>>
    BY DEF StreamsWhole, WholeOf, WholeAt
  <2> DEFINE k == <<c, dir>>
  <2>1. reached[k] = 0 /\ head_file[k] = <<>> /\ tail_file[k] = <<>>
    BY <1>1, <1>3
  <2>2. Gapless(<<>>, <<>>, 0)
    <3>1. <<>> = Span(0 + 1, 0) /\ 0 + 1 = 1 /\ 0 - 0 + 1 = 1
      BY EmptyRun
    <3> QED BY <1>2, <3>1 DEF Gapless
  <2> QED BY <1>1, <2>1, <2>2, EmptyMap
<1>14. RawIsGapless
  <2>1. Alive
    BY <1>1 DEF Alive
  <2> QED BY <1>6, <1>13, <2>1, WholeIsGapless
<1>15. GapsReported
  BY <1>8 DEF GapsReported
<1>16. SpaceIsGranted
  <2>1. ASSUME NEW S, NEW f \in [S -> Nat], \A x \in S : f[x] = 0
        PROVE  Total(f) = 0
    <3>1. UNION {{k} \X (1 .. f[k]) : k \in DOMAIN f} = {}
      BY <2>1
    <3> QED BY <3>1, FS_EmptySet DEF Total
  <2>2. Total(Held) = 0
    <3>1. /\ Held \in [Streams -> Nat]
          /\ \A k \in Streams :
               Held[k] = HeldIn(head_file[k], tail_file[k], raw, drained, k)
      BY <1>6, HeldType
    <3>2. \A k \in Streams : HeldIn(head_file[k], tail_file[k], raw, drained, k) = 0
      <4> TAKE k \in Streams
      <4>1. InMemory(raw, k) = 0 /\ InMemory(drained, k) = 0
        BY <1>1, EmptyMap
      <4>2. Len(head_file[k]) = 0 /\ Len(tail_file[k]) = 0
        BY <1>1, <1>2
      <4>3. 0 + 0 + 0 + 0 = 0
        OBVIOUS
      <4> QED BY <4>1, <4>2, <4>3 DEF HeldIn
    <3> QED BY <2>1, <3>1, <3>2
  <2>3. Total(GrantedTo(call)) = 0
    <3>1. GrantedTo(call) \in [Tasks -> Nat]
      BY <1>5, GrantedType DEF Budgeted, BudgetTypeOK
    <3>2. \A t \in Tasks : GrantedTo(call)[t] = 0
      BY <1>4 DEF GrantedTo
    <3> QED BY <2>1, <3>1, <3>2
  <2>4. Len(jsonl) * EventSize = 0
    <3>1. EventSize \in Nat /\ Len(jsonl) = 0
      BY <1>1, <1>2, LoggerSizes
    <3> QED BY <3>1
  <2>5. admitted = 0
    BY <1>1 DEF BudgetInit
  <2> QED BY <2>2, <2>3, <2>4, <2>5 DEF SpaceIsGranted
<1> QED BY <1>5, <1>6, <1>7, <1>9, <1>10, <1>11, <1>12, <1>13, <1>14, <1>15, <1>16
        DEF LInv

LEMMA EndedKeeps ==
  ASSUME LInv, UNCHANGED loggerVars
  PROVE  LInv'
<1>1. /\ max_run_bytes' = max_run_bytes /\ disk_used' = disk_used
      /\ disk_stopped' = disk_stopped /\ call' = call /\ admitted' = admitted
      /\ limit_lines' = limit_lines /\ life' = life /\ todo' = todo /\ sent' = sent
      /\ issued' = issued /\ raw' = raw /\ head_file' = head_file
      /\ tail_file' = tail_file /\ reached' = reached /\ unopened' = unopened
      /\ untailed' = untailed /\ jsonl' = jsonl /\ opts' = opts /\ main' = main /\ drained' = drained
      /\ killed' = killed
  BY DEF loggerVars, budgetVars, appVars, sinkVars, mainVars
<1>t. LoggerTypes'
  BY <1>1 DEF LInv, LoggerTypes
<1>2. Queues' /\ CallsInStep'
  BY <1>1 DEF LInv, Queues, CallsInStep
<1>r. Reaching'
  BY <1>1 DEF LInv, Reaching, Alive
<1>3. Budgeted'
  <2>1. BudgetInv => BudgetInv'
    BY <1>1, BudgetStep DEF budgetVars
  <2>2. BudgetTypeOK' /\ CapHolds' /\ (Alive' <=> Alive)
    BY <1>1 DEF LInv, Budgeted, BudgetTypeOK, CapHolds, Alive
  <2>3. \A c \in Tasks : call'[c].at = "refused" => disk_stopped'
    BY <1>1 DEF LInv, Budgeted
  <2>4. Alive => BudgetInv
    BY DEF LInv, Budgeted
  <2> QED BY <2>1, <2>2, <2>3, <2>4 DEF Budgeted
<1>4. EventsHaveBytes' /\ IndexInStep' /\ StreamsWhole' /\ GapsReported'
  BY <1>1 DEF LInv, EventsHaveBytes, IndexInStep, StreamsWhole, GapsReported, Alive
<1>5. EventsArePrefix' /\ RawIsGapless' /\ CloseIsLast'
  BY <1>1 DEF LInv, EventsArePrefix, LinesOf, RawIsGapless, CloseIsLast
<1>6. ClosedMeansReported' /\ SpaceIsGranted'
  BY <1>1 DEF LInv, ClosedMeansReported, Reported, Missing, SpaceIsGranted, Held,
              InMemory
<1> QED BY <1>t, <1>2, <1>r, <1>3, <1>4, <1>5, <1>6 DEF LInv

LEMMA LoggerStep == LInv /\ Marks /\ [LoggerNext]_loggerVars => LInv'
<1> SUFFICES ASSUME LInv, Marks, [LoggerNext]_loggerVars PROVE LInv'
  OBVIOUS
<1>1. ASSUME NEW c \in Tasks, Open(c) PROVE LInv'
  BY <1>1, OpenKeeps
<1>2. ASSUME NEW c \in Tasks, Close(c) PROVE LInv'
  BY <1>2, CloseKeeps
<1>3. ASSUME NEW c \in Tasks, Notice(c) PROVE LInv'
  BY <1>3, NoticeKeeps
<1>4. ASSUME NEW c \in Tasks, Die(c) PROVE LInv'
  BY <1>4, DieKeeps
<1>5. ASSUME NEW c \in Tasks, NEW dir \in Dirs, NEW n \in Chunks, Data(c, dir, n)
      PROVE  LInv'
  BY <1>5, DataKeeps
<1>6. ASSUME NEW c \in Tasks, SkipItem(c) PROVE LInv'
  BY <1>6, SkipKeeps
<1>7. ASSUME NEW c \in Tasks, EmitBegin(c) PROVE LInv'
  BY <1>7, EmitBeginKeeps
<1>8. ASSUME NEW c \in Tasks, EmitCommit(c) PROVE LInv'
  BY <1>8, EmitCommitKeeps
<1>9. ASSUME NEW c \in Tasks, RawBegin(c) PROVE LInv'
  BY <1>9, RawBeginKeeps
<1>10. ASSUME NEW c \in Tasks, RawCommit(c) PROVE LInv'
  BY <1>10, RawCommitKeeps
<1>11. ASSUME NEW c \in Tasks, RawOpenFails(c) PROVE LInv'
  BY <1>11, RawOpenFailsKeeps
<1>12. ASSUME NEW c \in Tasks, Refused(c) PROVE LInv'
  BY <1>12, RefusedKeeps
<1>13. ASSUME NEW c \in Tasks, NEW failed, CloseRaw(c, failed) PROVE LInv'
  BY <1>13, CloseRawKeeps
<1>14. ASSUME NEW c \in Tasks, Charging(c) PROVE LInv'
  BY <1>14, ChargingKeeps
<1>15. CASE FlushDrain
  BY <1>15, FlushDrainKeeps
<1>16. CASE Summary \/ MainDies
  BY <1>16, StoppingKeeps
<1>17. CASE Exit
  BY <1>17, ExitKeeps
<1>18. CASE Kill
  BY <1>18, KillKeeps
<1>19. ASSUME NEW k \in Streams, NEW failed, FlushFinish(k, failed) PROVE LInv'
  BY <1>19, FlushFinishKeeps
<1>20. CASE Ended \/ UNCHANGED loggerVars
  BY <1>20, EndedKeeps DEF Ended
<1> QED
  BY <1>1, <1>2, <1>3, <1>4, <1>5, <1>6, <1>7, <1>8, <1>9, <1>10, <1>11, <1>12,
     <1>13, <1>14, <1>15, <1>16, <1>17, <1>18, <1>19, <1>20, Zenon DEF LoggerNext

\* Nothing but the types of the calls' marks and of what the rings lost.
LEMMA MarksInitially == LoggerInit => Marks
BY DEF LoggerInit, Marks

\* What rings lost is a number of bytes.
LEMMA LostTailsType ==
  ASSUME LInv, Marks, NEW m, MapOk(opts, m), NEW failed, failed \subseteq DOMAIN m
  PROVE  LostTails(m, failed) \in [Streams -> Nat]
<1>1. opts \in OptionChoices /\ untailed \in [Streams -> Nat]
  BY DEF LInv, LoggerTypes, Marks
<1>2. ASSUME NEW k \in Streams
      PROVE  (untailed[k] + IF k \in failed THEN Len(m[k].st.tail) ELSE 0) \in Nat
  <2>1. untailed[k] \in Nat
    BY <1>1
  <2>2. CASE k \in failed
    <3>1. m[k].st.tail \in Seq(Nat)
      BY <1>1, <2>2, MapTypes
    <3>2. Len(m[k].st.tail) \in Nat
      BY <3>1, LenProperties
    <3> QED BY <2>1, <2>2, <3>2
  <2>3. CASE k \notin failed
    BY <2>1, <2>3
  <2> QED BY <2>2, <2>3
<1> QED BY <1>2 DEF LostTails

LEMMA MarksStep == LInv /\ Marks /\ [LoggerNext]_loggerVars => Marks'
<1> SUFFICES ASSUME LInv, Marks, [LoggerNext]_loggerVars PROVE Marks'
  OBVIOUS
<1>t. /\ first \in [Tasks -> BOOLEAN] /\ untailed \in [Streams -> Nat]
      /\ MapOk(opts, raw) /\ MapOk(opts, drained)
  BY DEF LInv, LoggerTypes, Marks
<1> USE DEF Marks
<1>1. ASSUME NEW c \in Tasks,
             \/ Open(c) \/ Close(c) \/ Notice(c)
             \/ \E dir \in Dirs, n \in Chunks : Data(c, dir, n)
             \/ EmitCommit(c) \/ RawBegin(c) \/ RawOpenFails(c) \/ Refused(c)
             \/ Charging(c)
      PROVE  Marks'
  <2>1. first' = first /\ untailed' = untailed
    BY <1>1, Zenon DEF Open, Close, Notice, Data, EmitCommit, RawBegin, RawOpenFails,
       Refused, Charging, appVars, sinkVars
  <2> QED BY <1>t, <2>1
<1>2. ASSUME NEW c \in Tasks, SkipItem(c) \/ EmitBegin(c) \/ Die(c)
      PROVE  Marks'
  <2>1. first' = [first EXCEPT ![c] = FALSE] /\ untailed' = untailed
    BY <1>2, Zenon DEF SkipItem, EmitBegin, Die, Printed, sinkVars
  <2> QED BY <1>t, <2>1
<1>3. ASSUME NEW c \in Tasks, RawCommit(c)
      PROVE  Marks'
  <2>1. PICK s, data : first' = [first EXCEPT ![c] = Announces(s, data)]
    BY <1>3, Zenon DEF RawCommit
  <2>2. Announces(s, data) \in BOOLEAN
    BY DEF Announces
  <2>3. untailed' = untailed
    BY <1>3 DEF RawCommit
  <2> QED BY <1>t, <2>1, <2>2, <2>3
<1>4. ASSUME NEW c \in Tasks, NEW failed, CloseRaw(c, failed)
      PROVE  Marks'
  <2>1. first' = first /\ untailed' = LostTails(raw, failed)
        /\ failed \subseteq DOMAIN raw
    BY <1>4 DEF CloseRaw, WithRing, StreamsOf
  <2> QED BY <1>t, <2>1, LostTailsType
<1>5. ASSUME NEW k \in Streams, NEW failed, FlushFinish(k, failed)
      PROVE  Marks'
  <2>1. first' = first /\ untailed' = LostTails(drained, failed)
        /\ failed \subseteq DOMAIN drained
    BY <1>5 DEF FlushFinish, WithRing, appVars
  <2> QED BY <1>t, <2>1, LostTailsType
<1>6. CASE FlushDrain \/ MainDies \/ Summary \/ Exit \/ Kill \/ Ended
             \/ UNCHANGED loggerVars
  <2>1. first' = first /\ untailed' = untailed
    BY <1>6, Zenon DEF FlushDrain, MainDies, Summary, Exit, Kill, Ended, loggerVars,
       appVars, sinkVars
  <2> QED BY <1>t, <2>1
<1> QED BY <1>1, <1>2, <1>3, <1>4, <1>5, <1>6, Zenon DEF LoggerNext

LEMMA LoggerInvariant == LoggerSpec => []LInv /\ []Marks
BY LoggerInitially, MarksInitially, LoggerStep, MarksStep, PTL DEF LoggerSpec

LEMMA LInvGivesAll ==
  LInv /\ Marks => LoggerTypeOK /\ DiskWithinCap
<1> SUFFICES ASSUME LInv, Marks PROVE LoggerTypeOK /\ DiskWithinCap
  OBVIOUS
<1>1. LoggerTypeOK
  <2>1. \A m : MapOk(opts, m) =>
          /\ DOMAIN m \subseteq Streams
          /\ \A k \in DOMAIN m : m[k] \in OpenStreams /\ Bounded(m[k])
    BY DEF MapOk, StreamOk, Bounded
  <2> QED BY <2>1 DEF LInv, LoggerTypes, Budgeted, LoggerTypeOK, Marks
<1>2. DiskWithinCap
  <2> SUFFICES ASSUME max_run_bytes > 0 PROVE CapturedBytes <= max_run_bytes
    BY DEF DiskWithinCap
  <2> DEFINE e == Len(jsonl) * EventSize
             h == Total(Held)
             g == Total(GrantedTo(call))
  <2>1. e + h + g <= admitted /\ admitted <= max_run_bytes
    BY DEF LInv, SpaceIsGranted, Budgeted, CapHolds
  <2>2. admitted \in Nat /\ max_run_bytes \in Nat
    BY DEF LInv, Budgeted, BudgetTypeOK
  <2>3. h \in Nat
    BY HeldType, StreamsFinite, TotalType DEF LInv
  <2>4. g \in Nat
    BY GrantedType, BudgetAssumption, TotalType DEF LInv, Budgeted, BudgetTypeOK
  <2>5. e \in Nat
    <3>1. Len(jsonl) \in Nat /\ EventSize \in Nat
      BY LoggerSizes, LenProperties DEF LInv, LoggerTypes
    <3> QED BY <3>1
  <2> HIDE DEF e, h, g
  <2>6. e + h <= max_run_bytes
    BY <2>1, <2>2, <2>3, <2>4, <2>5
  <2> QED BY <2>6 DEF CapturedBytes, e, h
<1> QED BY <1>1, <1>2

\* The Logger's state keeps its types, and what an open stream holds in memory
\* is bounded by its buffer and its ring.
THEOREM LoggerTypeCorrect == LoggerSpec => []LoggerTypeOK
BY LoggerInvariant, LInvGivesAll, PTL

\* However the tasks' charges interleave, the index never skips an event of a
\* connection (emit and charge).
THEOREM IndexSkipsNothing == LoggerSpec => []EventsArePrefix
BY LoggerInvariant, PTL DEF LInv

\* Up to ctrl-c every .bin is its direction from the first byte on, and every
\* tail file its last bytes (raw_write, close_raw, stream.rs).
THEOREM CaptureIsGapless == LoggerSpec => []RawIsGapless
BY LoggerInvariant, PTL DEF LInv

\* A data line in the index is about bytes that went to the capture (data).
THEOREM IndexIsBacked == LoggerSpec => []EventsHaveBytes
BY LoggerInvariant, PTL DEF LInv

\* Up to ctrl-c a close line comes after the report of every gap but those that
\* rings without a tail file leave, which are never reported (close_raw).
THEOREM CloseComesLast == LoggerSpec => []ClosedMeansReported
BY LoggerInvariant, PTL DEF LInv

\* All the files of a run together stay within --max-run-bytes (charge).
THEOREM RunStaysWithinCap == LoggerSpec => []DiskWithinCap
BY LoggerInvariant, LInvGivesAll, PTL
=============================================================================
