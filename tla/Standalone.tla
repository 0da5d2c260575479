----------------------------- MODULE Standalone -----------------------------
(***************************************************************************)
(* The standalone daemon's loop between the intake queue and the clients'  *)
(* result destinations, with the failures the code meets: a broker that    *)
(* fails to receive, to take an acknowledgement or to send, a device that  *)
(* cannot be read or refuses a task, SIGTERM at any moment, and crashes.   *)
(*                                                                         *)
(* A task is a model value; several copies of it may exist, because a      *)
(* message whose acknowledgement failed is delivered again.  Each copy is  *)
(* counted where it is: queued, in the handler's hands, ready in the       *)
(* scheduler, executing, answered or lost.  The components modelled        *)
(* elsewhere appear by what they promise: the own entry expires only after *)
(* a failed read (OwnDevice), and an execution that begins with the flag   *)
(* set returns no result (TaskExecution).                                  *)
(***************************************************************************)
EXTENDS Integers

CONSTANTS
  Tasks,
  Runnable,          \* the tasks the device's qubits and formats allow
  None,
  MaxAckFailures,    \* bound on the failed acknowledgements of a task
  MaxSendFailures,   \* bound on the failed sends for a task
  MaxStops           \* bound on the times the process ends

ASSUME StandaloneAssumption ==
  /\ Runnable \subseteq Tasks
  /\ None \notin Tasks
  /\ MaxAckFailures \in Nat /\ MaxSendFailures \in Nat /\ MaxStops \in Nat

VARIABLES
  unsent,         \* tasks no client has sent yet
  queued,         \* copies in common.qrmciQueue
  pc,             \* where the loop is
  flag,           \* terminationRequested
  current,        \* the task in the drain handler's or the executor's hands
  ready,          \* copies in the scheduler
  entry,          \* the own registry entry: "online", "offline" or "expired"
  readFailed,     \* a device read failed after the last refresh
  results, cancellations,         \* answers delivered for each task
  lostSends, abandoned, crashed,  \* history: copies lost, by reason
  ackFailures,    \* history: acknowledgements that failed
  stops           \* history: times the process was told to stop or crashed

answerVars == <<results, cancellations, lostSends>>
vars == <<unsent, queued, pc, flag, current, ready, entry, readFailed,
          results, cancellations, lostSends, abandoned, crashed,
          ackFailures, stops>>

Zero == [t \in Tasks |-> 0]
Incremented(f, t) == [f EXCEPT ![t] = @ + 1]
Decremented(f, t) == [f EXCEPT ![t] = @ - 1]
InHand(t) == IF current = t THEN 1 ELSE 0
Running == pc \notin {"stopped", "crashed"}

Init ==
  /\ unsent = Tasks
  /\ pc = "check" /\ flag = FALSE /\ current = None
  /\ entry \in {"online", "offline"} /\ readFailed = FALSE
  /\ queued = Zero /\ ready = Zero
  /\ results = Zero /\ cancellations = Zero
  /\ lostSends = Zero /\ abandoned = Zero /\ crashed = Zero
  /\ ackFailures = Zero /\ stops = 0

\* A client puts a task on the intake queue.
ClientSends(t) ==
  /\ t \in unsent
  /\ unsent' = unsent \ {t}
  /\ queued' = Incremented(queued, t)
  /\ UNCHANGED <<pc, flag, current, ready, entry, readFailed, answerVars,
                 abandoned, crashed, ackFailures, stops>>

\* send() is best-effort: a message the broker refuses is logged and gone.
SendLost(t) ==
  /\ lostSends[t] < MaxSendFailures
  /\ lostSends' = Incremented(lostSends, t)
  /\ UNCHANGED <<results, cancellations>>

sendResult(t) ==
  \/ results' = Incremented(results, t) /\ UNCHANGED <<cancellations, lostSends>>
  \/ SendLost(t)

sendFailure(t) ==
  \/ cancellations' = Incremented(cancellations, t) /\ UNCHANGED <<results, lostSends>>
  \/ SendLost(t)

\* The loop condition is false: what the scheduler still holds is dropped.
Stop ==
  /\ pc = "check" /\ flag
  /\ pc' = "stopped"
  /\ abandoned' = [t \in Tasks |-> abandoned[t] + ready[t]]
  /\ ready' = Zero
  /\ UNCHANGED <<unsent, queued, flag, current, entry, readFailed, answerVars,
                 crashed, ackFailures, stops>>

\* Faulty variant: a turn begins whatever the flag says.
RefreshUnchecked ==
  /\ pc = "check"
  /\ pc' = "drain"
  /\ \/ UNCHANGED <<entry, readFailed>>
     \/ readFailed /\ entry' = "expired" /\ UNCHANGED readFailed
     \/ entry' \in {"online", "offline"} /\ readFailed' = FALSE
     \/ entry' \in {entry, "expired"} /\ readFailed' = TRUE
  /\ UNCHANGED <<unsent, queued, flag, current, ready, answerVars, abandoned,
                 crashed, ackFailures, stops>>

\* refreshOwnDeviceStatus() and expire(): no slot is due, the device is read,
\* or reading it fails; the entry expires only if a read has failed.
Refresh ==
  /\ pc = "check" /\ ~flag
  /\ pc' = "drain"
  /\ \/ UNCHANGED <<entry, readFailed>>
     \/ readFailed /\ entry' = "expired" /\ UNCHANGED readFailed
     \/ entry' \in {"online", "offline"} /\ readFailed' = FALSE
     \/ entry' \in {entry, "expired"} /\ readFailed' = TRUE
  /\ UNCHANGED <<unsent, queued, flag, current, ready, answerVars, abandoned,
                 crashed, ackFailures, stops>>

\* A message is taken and acknowledged before it is handled; if the
\* acknowledgement fails the broker keeps the message and the daemon handles
\* it all the same.
receive(t) ==
  /\ pc = "drain" /\ ~flag
  /\ queued[t] > 0
  /\ \/ queued' = Decremented(queued, t) /\ UNCHANGED ackFailures
     \/ /\ ackFailures[t] < MaxAckFailures
        /\ ackFailures' = Incremented(ackFailures, t)
        /\ UNCHANGED queued
  /\ current' = t
  /\ pc' = "prepare"
  /\ UNCHANGED <<unsent, flag, ready, entry, readFailed, answerVars, abandoned,
                 crashed, stops>>

\* The flag is set, the queue is empty, or the broker fails to receive.
DrainEnds ==
  /\ pc = "drain"
  /\ pc' = "execute"
  /\ UNCHANGED <<unsent, queued, flag, current, ready, entry, readFailed,
                 answerVars, abandoned, crashed, ackFailures, stops>>

\* Faulty variant: the failure is reported and the task scheduled all the same.
selectCompileAndScheduleAnyway ==
  /\ pc = "prepare"
  /\ ready' = Incremented(ready, current)
  /\ \/ entry = "online" /\ current \in Runnable /\ UNCHANGED answerVars
     \/ sendFailure(current)
  /\ current' = None
  /\ pc' = "drain"
  /\ UNCHANGED <<unsent, queued, flag, entry, readFailed, abandoned, crashed,
                 ackFailures, stops>>

\* Faulty variant: a task that cannot be prepared is only logged.
selectCompileAndScheduleSilently ==
  /\ pc = "prepare"
  /\ ready' \in {ready, Incremented(ready, current)}
  /\ current' = None
  /\ pc' = "drain"
  /\ UNCHANGED <<unsent, queued, flag, entry, readFailed, answerVars,
                 abandoned, crashed, ackFailures, stops>>

\* Selection finds the own backend if its entry is online and suits the task;
\* compiling may still fail.  A failure is answered at once.
selectCompileAndSchedule ==
  /\ pc = "prepare"
  /\ \/ /\ entry = "online" /\ current \in Runnable
        /\ ready' = Incremented(ready, current)
        /\ UNCHANGED answerVars
     \/ sendFailure(current) /\ UNCHANGED ready
  /\ current' = None
  /\ pc' = "drain"
  /\ UNCHANGED <<unsent, queued, flag, entry, readFailed, abandoned, crashed,
                 ackFailures, stops>>

\* Faulty variant: the execution loop is left with tasks still scheduled.
ExecuteDoneEarly ==
  /\ pc = "execute"
  /\ pc' = "check"
  /\ UNCHANGED <<unsent, queued, flag, current, ready, entry, readFailed,
                 answerVars, abandoned, crashed, ackFailures, stops>>

\* getNextReadyTask() has nothing left.
ExecuteDone ==
  /\ pc = "execute" /\ ready = Zero
  /\ pc' = "check"
  /\ UNCHANGED <<unsent, queued, flag, current, ready, entry, readFailed,
                 answerVars, abandoned, crashed, ackFailures, stops>>

\* executeQuantumTask() of some ready task begins.  With the flag set it
\* returns without submitting: the task is refused, or abandoned and the loop
\* left.
ExecuteNext(t) ==
  /\ pc = "execute" /\ ready[t] > 0
  /\ ready' = Decremented(ready, t)
  /\ \/ /\ ~flag
        /\ current' = t /\ pc' = "run"
        /\ UNCHANGED <<answerVars, abandoned>>
     \/ /\ flag
        /\ sendFailure(t)
        /\ UNCHANGED <<current, pc, abandoned>>
     \/ /\ flag
        /\ abandoned' = Incremented(abandoned, t)
        /\ pc' = "check"
        /\ UNCHANGED <<current, answerVars>>
  /\ UNCHANGED <<unsent, queued, flag, entry, readFailed, crashed,
                 ackFailures, stops>>

\* Faulty variant: a shutdown is answered like any other failure, then the
\* task is counted as abandoned.
ExecuteEndsBoth ==
  /\ pc = "run"
  /\ current' = None
  /\ \/ /\ sendResult(current) \/ sendFailure(current)
        /\ pc' = "execute"
        /\ UNCHANGED abandoned
     \/ /\ flag
        /\ sendFailure(current)
        /\ abandoned' = Incremented(abandoned, current)
        /\ pc' = "check"
  /\ UNCHANGED <<unsent, queued, flag, ready, entry, readFailed, crashed,
                 ackFailures, stops>>

\* executeQuantumTask() returns: a result and a failure are answered, a
\* shutdown abandons the task and leaves the loop.
ExecuteEnds ==
  /\ pc = "run"
  /\ current' = None
  /\ \/ /\ sendResult(current) \/ sendFailure(current)
        /\ pc' = "execute"
        /\ UNCHANGED abandoned
     \/ /\ flag
        /\ abandoned' = Incremented(abandoned, current)
        /\ pc' = "check"
        /\ UNCHANGED answerVars
  /\ UNCHANGED <<unsent, queued, flag, ready, entry, readFailed, crashed,
                 ackFailures, stops>>

\* SIGINT or SIGTERM.
RequestTermination ==
  /\ Running /\ ~flag /\ stops < MaxStops
  /\ flag' = TRUE
  /\ stops' = stops + 1
  /\ UNCHANGED <<unsent, queued, pc, current, ready, entry, readFailed,
                 answerVars, abandoned, crashed, ackFailures>>

\* The process dies with all it holds in memory.
Crash ==
  /\ Running /\ stops < MaxStops
  /\ pc' = "crashed"
  /\ crashed' = [t \in Tasks |-> crashed[t] + ready[t] + InHand(t)]
  /\ ready' = Zero /\ current' = None
  /\ stops' = stops + 1
  /\ UNCHANGED <<unsent, queued, flag, entry, readFailed, answerVars,
                 abandoned, ackFailures>>

\* The daemon is started again and registers its device; if the device cannot
\* be read it exits at once, which changes nothing.
Restart ==
  /\ ~Running
  /\ pc' = "check" /\ flag' = FALSE
  /\ entry' \in {"online", "offline"} /\ readFailed' = FALSE
  /\ UNCHANGED <<unsent, queued, current, ready, answerVars, abandoned,
                 crashed, ackFailures, stops>>

\* One step of the daemon's only thread.
Daemon ==
  \/ Stop \/ Refresh \/ DrainEnds \/ selectCompileAndSchedule
  \/ ExecuteDone \/ ExecuteEnds
  \/ \E t \in Tasks : receive(t) \/ ExecuteNext(t)

Next ==
  \/ Daemon
  \/ \E t \in Tasks : ClientSends(t)
  \/ RequestTermination \/ Crash \/ Restart

Spec == Init /\ [][Next]_vars

\* The thread keeps running (executions end, see TaskExecution), the broker
\* does not fail every receive of a waiting message, and a daemon that ended
\* is started again.
FairSpec ==
  /\ Spec
  /\ WF_vars(Daemon) /\ WF_vars(Restart)
  /\ \A t \in Tasks : SF_vars(receive(t))

(***************************************************************************)
(* Properties.                                                             *)
(***************************************************************************)

Counters == [Tasks -> Nat]

TypeOK ==
  /\ unsent \subseteq Tasks
  /\ queued \in Counters /\ ready \in Counters
  /\ pc \in {"check", "drain", "prepare", "execute", "run", "stopped", "crashed"}
  /\ flag \in BOOLEAN /\ readFailed \in BOOLEAN
  /\ current \in Tasks \cup {None}
  /\ entry \in {"online", "offline", "expired"}
  /\ results \in Counters /\ cancellations \in Counters
  /\ lostSends \in Counters /\ abandoned \in Counters /\ crashed \in Counters
  /\ ackFailures \in Counters
  /\ stops \in Nat

Answers(t) == results[t] + cancellations[t]
Sent(t) == results[t] + cancellations[t] + lostSends[t]

\* Every copy of a task that left the client is in exactly one place, and the
\* only source of further copies is a failed acknowledgement: the daemon never
\* drops a task silently, answers one twice, or answers and keeps it.
EveryCopyAccountedFor ==
  \A t \in Tasks :
    queued[t] + InHand(t) + ready[t] + Sent(t) + abandoned[t] + crashed[t]
    = (IF t \in unsent THEN 0 ELSE 1) + ackFailures[t]

\* A task is executed in the turn that selected its backend: whenever one is
\* scheduled or running, the entry it was selected from is still registered
\* and online, unless the daemon is on its way out.
ExecutedInTheirTurn ==
  pc = "run" \/ (\E t \in Tasks : ready[t] > 0)
    => entry = "online" /\ (pc = "check" => flag)

\* A client that hears nothing has a reason: under fairness every task sent is
\* answered, or a send for it failed, or the process ended while holding it.
EveryTaskAnswered ==
  \A t \in Tasks :
    t \notin unsent
      ~> Answers(t) > 0 \/ lostSends[t] > 0 \/ abandoned[t] > 0 \/ crashed[t] > 0

\* A signal ends the loop, whatever the queue, the scheduler and the device
\* hold at that moment.
TerminationIsHonoured == flag ~> ~Running

\* getting-started.md: "the signal sets a termination flag, the current loop
\* turn finishes, and the process exits".  A turn that finishes answers the
\* tasks it took.
TurnFinishes == pc = "stopped" => abandoned = Zero

\* The status of a task in the terms of TaskService.
StatusOf(t) ==
  IF t \in unsent THEN "new"
  ELSE IF ackFailures[t] > 0 THEN "duplicated"
  ELSE IF results[t] > 0 THEN "result"
  ELSE IF cancellations[t] > 0 THEN "cancelled"
  ELSE IF lostSends[t] + abandoned[t] + crashed[t] > 0 THEN "lost"
  ELSE "pending"

Service == INSTANCE TaskService WITH status <- [t \in Tasks |-> StatusOf(t)]

\* The daemon implements the abstract service: at most one answer for each
\* task, never withdrawn and never replaced.
ImplementsTaskService == Service!Spec
=============================================================================
