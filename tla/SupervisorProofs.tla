--------------------------- MODULE SupervisorProofs ---------------------------
(***************************************************************************)
(* main leaves its loop for a reason, for any finite set of listeners.     *)
(* What has been joined is the key: a listener that is neither spawned     *)
(* late nor still in the set has ended, and the count of the failed ones   *)
(* is positive exactly when one of those could not bind.                   *)
(***************************************************************************)
EXTENDS Supervisor, TLAPS

SupervisorTypeOK ==
  /\ listener \in [Listeners -> {"absent", "starting", "up", "failed", "panicked"}]
  /\ set \in SUBSET Listeners
  /\ failed \in Nat
  /\ main \in {"spawning", "select", "waiting", "flush", "summary", "exited"}
  /\ heard \in BOOLEAN
  /\ stdout \in {"open", "closed"}
  /\ outcome \in {"none", "killed", "panic", "error", "ok"}

Looping == main \in {"select", "waiting"}
Leaving == main \in {"flush", "summary"}
Completed == outcome \in {"error", "ok"}

\* A listener outside the set was not spawned yet, or it has ended.
JoinedHaveEnded ==
  \A l \in Listeners \ set :
    \/ Ended(l)
    \/ listener[l] = "absent" /\ ~Looping /\ ~Leaving /\ ~Completed

\* The count says whether a joined listener could not bind.
FailedIsCounted ==
  failed > 0 <=> \E l \in Listeners \ set : listener[l] = "failed"

\* The loop goes on as long as there is a listener to join; only a signal that
\* was heard leaves it earlier.
LoopHasListeners ==
  /\ Looping => set # {}
  /\ heard => set # {} /\ main # "spawning" /\ main # "select"
  /\ Leaving /\ ~heard => set = {}

\* What the exit status says.
OutcomeIsRight ==
  /\ main = "exited" <=> outcome # "none"
  /\ outcome = "error" => set = {} /\ failed > 0
  /\ outcome = "ok" /\ ~heard => set = {} /\ failed = 0

SInv ==
  /\ SupervisorTypeOK
  /\ JoinedHaveEnded
  /\ FailedIsCounted
  /\ LoopHasListeners
  /\ OutcomeIsRight

-----------------------------------------------------------------------------
LEMMA SupervisorInitially == SupervisorInit => SInv
<1> SUFFICES ASSUME SupervisorInit PROVE SInv
  OBVIOUS
<1>1. SupervisorTypeOK
  BY DEF SupervisorInit, SupervisorTypeOK
<1>2. JoinedHaveEnded
  BY DEF SupervisorInit, JoinedHaveEnded, Looping, Leaving, Completed
<1>3. FailedIsCounted
  BY DEF SupervisorInit, FailedIsCounted
<1>4. LoopHasListeners /\ OutcomeIsRight
  BY DEF SupervisorInit, LoopHasListeners, OutcomeIsRight, Looping, Leaving
<1> QED BY <1>1, <1>2, <1>3, <1>4 DEF SInv

LEMMA SupervisorStep == SInv /\ [SupervisorNext]_supervisorVars => SInv'
<1> SUFFICES ASSUME SInv, [SupervisorNext]_supervisorVars PROVE SInv'
  OBVIOUS
<1> USE DEF SInv, Runs, Ended, Looping, Leaving, Completed, Exit
<1>1. ASSUME NEW l \in Listeners, Bind(l) PROVE SInv'
  <2>1. /\ listener[l] = "starting" /\ main # "exited"
        /\ listener' \in {[listener EXCEPT ![l] = "up"], [listener EXCEPT ![l] = "failed"]}
        /\ UNCHANGED <<set, failed, main, heard, stdout, outcome>>
    BY <1>1 DEF Bind, signalVars
  <2>2. l \in set
    BY <2>1 DEF JoinedHaveEnded
  <2>3. SupervisorTypeOK'
    BY <2>1 DEF SupervisorTypeOK
  <2>4. \A k \in Listeners \ set : listener'[k] = listener[k]
    BY <2>1, <2>2 DEF SupervisorTypeOK
  <2>5. JoinedHaveEnded' /\ FailedIsCounted'
    BY <2>1, <2>4 DEF JoinedHaveEnded, FailedIsCounted
  <2> QED BY <2>1, <2>3, <2>5 DEF LoopHasListeners, OutcomeIsRight
<1>2. ASSUME NEW l \in Listeners, PanicAtPrintln(l) PROVE SInv'
  <2>1. /\ listener[l] = "up"
        /\ listener' = [listener EXCEPT ![l] = "panicked"]
        /\ UNCHANGED <<set, failed, main, heard, stdout, outcome>>
    BY <1>2 DEF PanicAtPrintln, signalVars
  <2>2. l \in set
    BY <2>1 DEF JoinedHaveEnded
  <2>3. SupervisorTypeOK'
    BY <2>1 DEF SupervisorTypeOK
  <2>4. \A k \in Listeners \ set : listener'[k] = listener[k]
    BY <2>1, <2>2 DEF SupervisorTypeOK
  <2>5. JoinedHaveEnded' /\ FailedIsCounted'
    BY <2>1, <2>4 DEF JoinedHaveEnded, FailedIsCounted
  <2> QED BY <2>1, <2>3, <2>5 DEF LoopHasListeners, OutcomeIsRight
<1>3. CASE CloseStdout
  BY <1>3 DEF CloseStdout, taskVars, signalVars, SupervisorTypeOK, JoinedHaveEnded,
     FailedIsCounted, LoopHasListeners, OutcomeIsRight
<1>4. CASE Press
  <2>1. /\ UNCHANGED <<listener, set, failed, heard, stdout>>
        /\ main # "exited"
        /\ \/ UNCHANGED <<main, outcome>>
           \/ main' = "exited" /\ outcome' = "killed"
    BY <1>4 DEF Press, taskVars
  <2>2. CASE UNCHANGED <<main, outcome>>
    BY <2>1, <2>2 DEF SupervisorTypeOK, JoinedHaveEnded, FailedIsCounted,
       LoopHasListeners, OutcomeIsRight
  <2>3. CASE main' = "exited" /\ outcome' = "killed"
    BY <2>1, <2>3 DEF SupervisorTypeOK, JoinedHaveEnded, FailedIsCounted,
       LoopHasListeners, OutcomeIsRight
  <2> QED BY <2>1, <2>2, <2>3
<1>5. CASE Tell
  <2>1. /\ UNCHANGED <<listener, set, failed, main, stdout, outcome>>
        /\ main # "exited"
        /\ heard' = (heard \/ main = "waiting")
    BY <1>5 DEF Tell, taskVars
  <2>2. SupervisorTypeOK' /\ JoinedHaveEnded' /\ FailedIsCounted'
    BY <2>1 DEF SupervisorTypeOK, JoinedHaveEnded, FailedIsCounted
  <2>3. LoopHasListeners' /\ OutcomeIsRight'
    BY <2>1 DEF SupervisorTypeOK, LoopHasListeners, OutcomeIsRight
  <2> QED BY <2>2, <2>3
<1>6. ASSUME NEW l \in Listeners, Spawn(l) PROVE SInv'
  <2>1. /\ main = "spawning" /\ listener[l] = "absent"
        /\ listener' = [listener EXCEPT ![l] = "starting"]
        /\ set' = set \cup {l}
        /\ main' = IF set' = Listeners THEN "select" ELSE main
        /\ UNCHANGED <<failed, heard, stdout, outcome>>
    BY <1>6 DEF Spawn, signalVars
  <2>2. SupervisorTypeOK'
    BY <2>1 DEF SupervisorTypeOK
  <2>3. \A k \in Listeners \ set' : listener'[k] = listener[k]
    BY <2>1 DEF SupervisorTypeOK
  <2>4. JoinedHaveEnded'
    BY <2>1, <2>3 DEF JoinedHaveEnded, OutcomeIsRight
  <2>5. FailedIsCounted'
    BY <2>1, <2>3 DEF FailedIsCounted
  <2>6. LoopHasListeners' /\ OutcomeIsRight'
    BY <2>1 DEF LoopHasListeners, OutcomeIsRight
  <2> QED BY <2>2, <2>4, <2>5, <2>6
<1>7. ASSUME NEW l \in Listeners, Join(l) PROVE SInv'
  <2>1. /\ main \in {"select", "waiting"} /\ l \in set
        /\ listener[l] \in {"failed", "panicked"}
        /\ set' = set \ {l}
        /\ failed' = failed + IF listener[l] = "failed" THEN 1 ELSE 0
        /\ heard' = FALSE
        /\ main' = IF set' = {} THEN "flush" ELSE "select"
        /\ UNCHANGED <<listener, stdout, outcome>>
    BY <1>7 DEF Join, NoneLeft
  <2>2. SupervisorTypeOK'
    <3>1. failed \in Nat /\ failed' \in Nat
      BY <2>1 DEF SupervisorTypeOK
    <3>2. set' \in SUBSET Listeners
      BY <2>1 DEF SupervisorTypeOK
    <3> QED BY <2>1, <3>1, <3>2 DEF SupervisorTypeOK
  <2>3. JoinedHaveEnded'
    BY <2>1 DEF JoinedHaveEnded
  <2>4. FailedIsCounted'
    BY <2>1 DEF FailedIsCounted, SupervisorTypeOK
  <2>5. LoopHasListeners' /\ OutcomeIsRight'
    BY <2>1 DEF LoopHasListeners, OutcomeIsRight
  <2> QED BY <2>2, <2>3, <2>4, <2>5
<1>8. CASE Listen
  BY <1>8 DEF Listen, taskVars, SupervisorTypeOK, JoinedHaveEnded,
     FailedIsCounted, LoopHasListeners, OutcomeIsRight
<1>9. CASE Asked
  <2>1. /\ main = "waiting" /\ heard
        /\ UNCHANGED <<listener, set, failed, heard, stdout>>
        /\ \/ main' = "flush" /\ UNCHANGED outcome
           \/ main' = "exited" /\ outcome' = "panic"
    BY <1>9 DEF Asked, Printing, taskVars, signalVars
  <2>2. SupervisorTypeOK' /\ FailedIsCounted'
    BY <2>1 DEF SupervisorTypeOK, FailedIsCounted
  <2>3. JoinedHaveEnded' /\ LoopHasListeners' /\ OutcomeIsRight'
    BY <2>1 DEF JoinedHaveEnded, LoopHasListeners, OutcomeIsRight
  <2> QED BY <2>2, <2>3
<1>10. CASE Flush
  <2>1. /\ main = "flush"
        /\ UNCHANGED <<listener, set, failed, heard, stdout>>
        /\ \/ main' = "summary" /\ UNCHANGED outcome
           \/ main' = "exited" /\ outcome' = "panic"
    BY <1>10 DEF Flush, taskVars, signalVars
  <2>2. SupervisorTypeOK' /\ FailedIsCounted'
    BY <2>1 DEF SupervisorTypeOK, FailedIsCounted
  <2>3. JoinedHaveEnded' /\ LoopHasListeners' /\ OutcomeIsRight'
    BY <2>1 DEF JoinedHaveEnded, LoopHasListeners, OutcomeIsRight
  <2> QED BY <2>2, <2>3
<1>11. CASE Summary
  <2>1. /\ main = "summary" /\ main' = "exited"
        /\ UNCHANGED <<listener, set, failed, heard, stdout>>
        /\ outcome' = IF stdout = "closed" THEN "panic"
                      ELSE IF failed > 0 /\ set = {} THEN "error" ELSE "ok"
    BY <1>11 DEF Summary, NoneStarted, taskVars, signalVars
  <2>2. SupervisorTypeOK' /\ FailedIsCounted'
    BY <2>1 DEF SupervisorTypeOK, FailedIsCounted
  <2>3. JoinedHaveEnded' /\ LoopHasListeners'
    BY <2>1 DEF JoinedHaveEnded, LoopHasListeners
  <2>4. OutcomeIsRight'
    BY <2>1 DEF LoopHasListeners, OutcomeIsRight, SupervisorTypeOK
  <2> QED BY <2>2, <2>3, <2>4
<1>12. CASE UNCHANGED supervisorVars
  BY <1>12 DEF supervisorVars, taskVars, signalVars, SupervisorTypeOK,
     JoinedHaveEnded, FailedIsCounted, LoopHasListeners, OutcomeIsRight
<1> QED BY <1>1, <1>2, <1>3, <1>4, <1>5, <1>6, <1>7, <1>8, <1>9, <1>10, <1>11,
        <1>12 DEF SupervisorNext, MainStep, Gone

LEMMA SupervisorInvariant == SupervisorSpec => []SInv
BY SupervisorInitially, SupervisorStep, PTL DEF SupervisorSpec

\* With any number of listeners, in any order of binds, failures, panics and
\* signals, main leaves its loop by itself only when nothing is or can come up,
\* and its exit status says whether something could not bind.
THEOREM SupervisorLeavesForAReason == SupervisorSpec => []LeavesForAReason
<1>1. SInv => LeavesForAReason
  <2> SUFFICES ASSUME SInv PROVE LeavesForAReason
    OBVIOUS
  <2> USE DEF SInv, Ended, Leaving, Completed
  <2>1. main \in {"flush", "summary"} /\ ~heard => \A l \in Listeners : Ended(l)
    BY DEF JoinedHaveEnded, LoopHasListeners
  <2>2. outcome = "error" => \A l \in Listeners : Ended(l)
    BY DEF JoinedHaveEnded, OutcomeIsRight
  <2>3. outcome = "error" => \E l \in Listeners : listener[l] = "failed"
    BY DEF FailedIsCounted, OutcomeIsRight
  <2>4. outcome = "ok" /\ ~heard => \A l \in Listeners : listener[l] = "panicked"
    BY DEF JoinedHaveEnded, FailedIsCounted, OutcomeIsRight, SupervisorTypeOK
  <2> QED BY <2>1, <2>2, <2>3, <2>4 DEF LeavesForAReason
<1> QED BY SupervisorInvariant, <1>1, PTL
=============================================================================
