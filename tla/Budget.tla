------------------------------- MODULE Budget --------------------------------
(***************************************************************************)
(* The run's disk budget (Logger::charge, log.rs), called by every task    *)
(* that is about to write, with no lock around it.  Each atomic operation  *)
(* on disk_used and disk_stopped is a step of its own; the operations on   *)
(* one atomic are totally ordered whatever their Ordering, and a stale     *)
(* view of disk_stopped is a Load that happened earlier, so interleaving   *)
(* the steps loses no behaviour.                                           *)
(***************************************************************************)
EXTENDS Integers, FiniteSets

CONSTANTS
  Tasks,       \* the tasks that write through the Logger
  Sizes,       \* how many bytes one write may be
  CapChoices   \* values --max-run-bytes may have, 0 for no cap

ASSUME BudgetAssumption ==
  /\ IsFiniteSet(Tasks)
  /\ Sizes \subseteq Nat \ {0}
  /\ CapChoices \subseteq Nat

VARIABLES
  max_run_bytes,  \* the option, fixed when the run starts
  disk_used,      \* the AtomicU64
  disk_stopped,   \* the AtomicBool
  call,           \* where each task is in charge(n)
  admitted,       \* history: bytes charge granted against the cap
  limit_lines     \* history: LIMIT lines printed

budgetVars ==
  <<max_run_bytes, disk_used, disk_stopped, call, admitted, limit_lines>>

Steps == {"idle", "load", "add", "refund", "stop", "granted", "refused"}

\* `late` remembers that the run was already stopped when the call began.
Idle == [at |-> "idle", n |-> 0, late |-> FALSE]

BudgetTypeOK ==
  /\ max_run_bytes \in Nat
  /\ disk_used \in Nat
  /\ disk_stopped \in BOOLEAN
  /\ call \in [Tasks -> [at : Steps, n : Nat, late : BOOLEAN]]
  /\ admitted \in Nat
  /\ limit_lines \in Nat

BudgetInit ==
  /\ max_run_bytes \in CapChoices
  /\ disk_used = 0
  /\ disk_stopped = FALSE
  /\ call = [t \in Tasks |-> Idle]
  /\ admitted = 0
  /\ limit_lines = 0

GoTo(t, step) == call' = [call EXCEPT ![t].at = step]

\* charge(n) is called: with no cap it returns true at once.
BeginCharge(t, n) ==
  /\ call[t].at = "idle"
  /\ call' = [call EXCEPT ![t] =
       [at |-> IF max_run_bytes = 0 THEN "granted" ELSE "load",
        n |-> n, late |-> disk_stopped]]
  /\ UNCHANGED <<max_run_bytes, disk_used, disk_stopped, admitted, limit_lines>>

\* Slip: the flag is not looked at.
LoadIgnoresStop(t) ==
  /\ call[t].at = "load"
  /\ GoTo(t, "add")
  /\ UNCHANGED <<max_run_bytes, disk_used, disk_stopped, admitted, limit_lines>>

Load(t) ==
  /\ call[t].at = "load"
  /\ GoTo(t, IF disk_stopped THEN "refused" ELSE "add")
  /\ UNCHANGED <<max_run_bytes, disk_used, disk_stopped, admitted, limit_lines>>

\* Slip: the cap is compared with what was used before this write.
AddComparesOld(t) ==
  LET used == disk_used IN
  /\ call[t].at = "add"
  /\ disk_used' = disk_used + call[t].n
  /\ GoTo(t, IF used > max_run_bytes THEN "refund" ELSE "granted")
  /\ admitted' = admitted + IF used > max_run_bytes THEN 0 ELSE call[t].n
  /\ UNCHANGED <<max_run_bytes, disk_stopped, limit_lines>>

\* Slip: the bytes are charged only when they fit, yet given back all the same.
AddComparesFirst(t) ==
  LET used == disk_used + call[t].n
      fits == used <= max_run_bytes
  IN  /\ call[t].at = "add"
      /\ disk_used' = IF fits THEN used ELSE disk_used
      /\ GoTo(t, IF fits THEN "granted" ELSE "refund")
      /\ admitted' = admitted + IF fits THEN call[t].n ELSE 0
      /\ UNCHANGED <<max_run_bytes, disk_stopped, limit_lines>>

\* One fetch_add, then the comparison with what it returned.
Add(t) ==
  LET used == disk_used + call[t].n IN
  /\ call[t].at = "add"
  /\ disk_used' = used
  /\ GoTo(t, IF used > max_run_bytes THEN "refund" ELSE "granted")
  /\ admitted' = admitted + IF used > max_run_bytes THEN 0 ELSE call[t].n
  /\ UNCHANGED <<max_run_bytes, disk_stopped, limit_lines>>

\* Slip: the bytes of a refused write stay charged.
KeepsOvercharge(t) ==
  /\ call[t].at = "refund"
  /\ GoTo(t, "stop")
  /\ UNCHANGED <<max_run_bytes, disk_used, disk_stopped, admitted, limit_lines>>

Refund(t) ==
  /\ call[t].at = "refund"
  /\ disk_used' = disk_used - call[t].n
  /\ GoTo(t, "stop")
  /\ UNCHANGED <<max_run_bytes, disk_stopped, admitted, limit_lines>>

\* Slip: a plain store, so every refused writer announces the limit.
StopAnnouncesAlways(t) ==
  /\ call[t].at = "stop"
  /\ disk_stopped' = TRUE
  /\ limit_lines' = limit_lines + 1
  /\ GoTo(t, "refused")
  /\ UNCHANGED <<max_run_bytes, disk_used, admitted>>

\* The swap: the first to set the flag prints the LIMIT line.
Stop(t) ==
  /\ call[t].at = "stop"
  /\ disk_stopped' = TRUE
  /\ limit_lines' = limit_lines + IF disk_stopped THEN 0 ELSE 1
  /\ GoTo(t, "refused")
  /\ UNCHANGED <<max_run_bytes, disk_used, admitted>>

\* charge returns, true from "granted" and false from "refused".
EndCharge(t) ==
  /\ call[t].at \in {"granted", "refused"}
  /\ call' = [call EXCEPT ![t] = Idle]
  /\ UNCHANGED <<max_run_bytes, disk_used, disk_stopped, admitted, limit_lines>>

\* The steps inside charge, between its call and its return.
ChargeStep(t) == Load(t) \/ Add(t) \/ Refund(t) \/ Stop(t)

BudgetNext ==
  \E t \in Tasks :
    \/ \E n \in Sizes : BeginCharge(t, n)
    \/ ChargeStep(t)
    \/ EndCharge(t)

BudgetSpec == BudgetInit /\ [][BudgetNext]_budgetVars

-----------------------------------------------------------------------------
\* The bytes charged and not yet given back by writes about to be refused.
Refunding == {t \in Tasks : call[t].at = "refund"}
Overcharge == UNION {{t} \X (1 .. call[t].n) : t \in Refunding}

\* disk_used is what was granted plus what is being given back; once nobody
\* is inside charge it is exactly what was granted ("counting it would make
\* the summary claim more was captured than really was", log.rs:188-189).
UsedIsGranted == disk_used = admitted + Cardinality(Overcharge)

\* However the writers interleave, the run never gets more than its cap.
CapHolds == max_run_bytes > 0 => admitted <= max_run_bytes

\* A call that began after the limit was announced gets nothing, even while
\* refunds make disk_used drop below the cap again ("disk writes stop").
LateCallsRefused ==
  \A t \in Tasks : call[t].late => call[t].at \in {"idle", "load", "refused"}

\* The LIMIT line appears once, when the run stops, however many are refused.
LimitAnnouncedOnce == limit_lines = IF disk_stopped THEN 1 ELSE 0
=============================================================================
