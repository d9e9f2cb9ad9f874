------------------------------ MODULE Supervisor ------------------------------
(***************************************************************************)
(* main.rs from the first spawn on: the listener tasks, the loop that      *)
(* joins them and waits for ctrl-c, and how the process ends.  A signal    *)
(* reaches the program in two steps: the handler notes it (pending) and    *)
(* the runtime's driver tells the receivers there are at that moment;      *)
(* every pass of the loop makes a new one and drops it at its end.  Before *)
(* the first pass polls one, SIGINT has its default action.  println!      *)
(* panics once nobody reads stdout (kls | head).                           *)
(***************************************************************************)
EXTENDS Integers, FiniteSets

CONSTANTS
  Listeners  \* the listeners of the command line and the config file

ASSUME SupervisorAssumption == IsFiniteSet(Listeners) /\ Listeners # {}

VARIABLES
  listener,   \* each: "absent", "starting", "up", "failed", "panicked"
  set,        \* the JoinSet: spawned and not yet joined
  failed,     \* joined listeners that could not bind
  main,       \* where main is
  installed,  \* tokio's SIGINT handler is there
  pending,    \* a signal was noted and is not yet told
  heard,      \* this pass's receiver was told
  stdout,     \* "open" or "closed"
  flushed,    \* logger.flush() finished every stream
  outcome     \* how the process ended

signalVars == <<installed, pending, heard>>
taskVars == <<listener, set>>
supervisorVars ==
  <<taskVars, failed, main, signalVars, stdout, flushed, outcome>>

SupervisorInit ==
  /\ listener = [l \in Listeners |-> "absent"]
  /\ set = {}
  /\ failed = 0
  /\ main = "spawning"
  /\ installed = FALSE /\ pending = FALSE /\ heard = FALSE
  /\ stdout = "open"
  /\ flushed = FALSE
  /\ outcome = "none"

Runs == main # "exited"
Ended(l) == listener[l] \in {"failed", "panicked"}

-----------------------------------------------------------------------------
\* The listener tasks.

\* run: up to its accept or receive loop, which it never leaves; or it returns
\* the error of its bind.
Bind(l) ==
  /\ Runs /\ listener[l] = "starting"
  /\ \E outcomeOfBind \in {"up", "failed"} :
       listener' = [listener EXCEPT ![l] = outcomeOfBind]
  /\ UNCHANGED <<set, failed, main, signalVars, stdout, flushed, outcome>>

\* A console line of the listener's own task, its listen line included.
PanicAtPrintln(l) ==
  /\ Runs /\ listener[l] = "up" /\ stdout = "closed"
  /\ listener' = [listener EXCEPT ![l] = "panicked"]
  /\ UNCHANGED <<set, failed, main, signalVars, stdout, flushed, outcome>>

CloseStdout ==
  /\ Runs /\ stdout' = "closed"
  /\ UNCHANGED <<taskVars, failed, main, signalVars, flushed, outcome>>

-----------------------------------------------------------------------------
\* Signals.

Exit(how) == main' = "exited" /\ outcome' = how

\* ctrl-c is pressed.
Press ==
  /\ Runs
  /\ IF installed THEN pending' = TRUE /\ UNCHANGED <<main, outcome>>
     ELSE Exit("killed") /\ UNCHANGED pending
  /\ UNCHANGED <<taskVars, failed, installed, heard, stdout, flushed>>

\* The driver tells who is listening; nobody may be.
Tell ==
  /\ Runs /\ pending
  /\ pending' = FALSE
  /\ heard' = (heard \/ main = "waiting")
  /\ UNCHANGED <<taskVars, failed, main, installed, stdout, flushed, outcome>>

-----------------------------------------------------------------------------
\* main.

Spawn(l) ==
  /\ main = "spawning" /\ listener[l] = "absent"
  /\ listener' = [listener EXCEPT ![l] = "starting"]
  /\ set' = set \cup {l}
  /\ main' = IF set' = Listeners THEN "select" ELSE main
  /\ UNCHANGED <<failed, signalVars, stdout, flushed, outcome>>

\* Slip: ctrl_c() is made once, before the loop.
ListenOnce ==
  /\ main = "select" /\ ~installed
  /\ main' = "waiting"
  /\ installed' = TRUE
  /\ UNCHANGED <<taskVars, failed, pending, heard, stdout, flushed, outcome>>

\* select! polls ctrl_c(): from here on this pass can hear a signal.
Listen ==
  /\ main = "select"
  /\ main' = "waiting"
  /\ installed' = TRUE
  /\ UNCHANGED <<taskVars, failed, pending, heard, stdout, flushed, outcome>>

\* Slip: main leaves when it has seen every listener fail to bind.
AllFailed(rest, count) == count = Cardinality(Listeners)

\* set.is_empty()
NoneLeft(rest, count) == rest = {}

\* select! takes the join branch: join_next may be polled before ctrl_c(), or
\* chosen although a signal was heard; the receiver goes with the pass.
Join(l) ==
  /\ main \in {"select", "waiting"}
  /\ l \in set /\ Ended(l)
  /\ set' = set \ {l}
  /\ failed' = failed + IF listener[l] = "failed" THEN 1 ELSE 0
  /\ heard' = FALSE
  /\ main' = IF NoneLeft(set', failed') THEN "flush" ELSE "select"
  /\ UNCHANGED <<listener, installed, pending, stdout, flushed, outcome>>

\* A println! of main's: it goes on to `next`, or it panics.
Printing(next) ==
  IF stdout = "open" THEN main' = next /\ UNCHANGED outcome ELSE Exit("panic")

\* select! takes the ctrl-c branch, which prints an empty line.
Asked ==
  /\ main = "waiting" /\ heard
  /\ Printing("flush")
  /\ UNCHANGED <<taskVars, failed, signalVars, stdout, flushed>>

\* logger.flush() prints one line per truncated stream.
Flush ==
  /\ main = "flush"
  /\ \/ main' = "summary" /\ flushed' = TRUE /\ UNCHANGED outcome
     \/ stdout = "closed" /\ Exit("panic") /\ UNCHANGED flushed
  /\ UNCHANGED <<taskVars, failed, signalVars, stdout>>

\* Slip: one listener that failed makes the run fail.
AnyFailed == failed > 0
NoneStarted == failed > 0 /\ set = {}

\* logger.summary(), then the exit status.
Summary ==
  /\ main = "summary"
  /\ Exit(IF stdout = "closed" THEN "panic" ELSE IF NoneStarted THEN "error" ELSE "ok")
  /\ UNCHANGED <<taskVars, failed, signalVars, stdout, flushed>>

MainStep ==
  \/ \E l \in Listeners : Spawn(l) \/ Join(l)
  \/ Listen \/ Asked \/ Flush \/ Summary

Gone == ~Runs /\ UNCHANGED supervisorVars

SupervisorNext ==
  \/ \E l \in Listeners : Bind(l) \/ PanicAtPrintln(l)
  \/ CloseStdout \/ Press \/ Tell \/ MainStep \/ Gone

\* The runtime runs main when it can go on, every task, and its signal driver.
SupervisorSpec ==
  /\ SupervisorInit /\ [][SupervisorNext]_supervisorVars
  /\ WF_supervisorVars(MainStep) /\ WF_supervisorVars(Tell)
  /\ \A l \in Listeners : WF_supervisorVars(Bind(l))

-----------------------------------------------------------------------------
\* The loop is left by itself only when no listener is up or could still come
\* up, whatever failed or panicked in between, and the run is an error exactly
\* when it was left so and some listener could not bind ("keep running for the
\* listeners that did come up", main.rs:271).
LeavesForAReason ==
  /\ main \in {"flush", "summary"} /\ ~heard => \A l \in Listeners : Ended(l)
  /\ outcome = "error" =>
       /\ \A l \in Listeners : Ended(l)
       /\ \E l \in Listeners : listener[l] = "failed"
  /\ outcome = "ok" /\ ~heard => \A l \in Listeners : listener[l] = "panicked"

\* A run none of whose listeners is left comes to its end, with no ctrl-c.
AllGoneEnds == (\A l \in Listeners : Ended(l)) ~> ~Runs

\* One press may go unheard, while a listener's end is being handled; whoever
\* presses again and again ends the run.
PressingAgainEnds == []<><<Press>>_supervisorVars => <>~Runs

-----------------------------------------------------------------------------
\* "finish every stream still open at shutdown.  connections live at ctrl-c
\* would otherwise lose their buffered head bytes and never get a tail file"
\* (log.rs:566): checked to be violated.
CtrlCFlushes == main = "exited" /\ heard => flushed
=============================================================================
