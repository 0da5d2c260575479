---------------------------- MODULE Distributed ----------------------------
(***************************************************************************)
(* The distributed deployment: one selector and several workers, each a    *)
(* single-threaded process, joined by the broker's queues.  Clients send   *)
(* tasks to the intake queue; the selector learns backends from the        *)
(* statuses workers publish, assigns each task one of them and forwards it *)
(* to the dispatch queue the backend advertised; the worker that takes it  *)
(* compiles, submits, collects and answers.                                *)
(*                                                                         *)
(* Nothing keeps two workers from being configured with one device ID or   *)
(* with one compiler queue, so DeviceOf and QueueOf are any functions.     *)
(* Statuses are a set: the broker may deliver them in any order, and again *)
(* after a failed acknowledgement.  Time is left out: the selector may     *)
(* expire any entry at any turn.                                           *)
(***************************************************************************)
EXTENDS BackendRegistry, FiniteSets, Functions

CONSTANTS
  Tasks, Workers, Names, Queues, None,
  DeviceOf,          \* each worker's submitter.qdmiDeviceId
  QueueOf,           \* each worker's compiler.queue
  Suits,             \* the pairs <<task, name>> that canRun() accepts
  MaxAckFailures,    \* bound on the failed acknowledgements of a task
  MaxSendFailures,   \* bound on the failed sends for a task
  MaxStatuses,       \* bound on the different statuses in the status queue
  MaxStops           \* bound on the times a process ends

ASSUME DistributedAssumption ==
  /\ IsFiniteSet(Tasks) /\ IsFiniteSet(Workers)
  /\ IsFiniteSet(Names) /\ IsFiniteSet(Queues)
  /\ DeviceOf \in [Workers -> Names] /\ QueueOf \in [Workers -> Queues]
  /\ Suits \subseteq Tasks \X Names
  /\ NoQueue \notin Queues /\ None \notin Tasks /\ None \notin Tasks \X Names
  /\ MaxAckFailures \in Nat /\ MaxSendFailures \in Nat
  /\ MaxStatuses \in Nat /\ MaxStops \in Nat

\* A forwarded task: the task and its scheduled_qpu.
Assigned == Tasks \X Names

VARIABLES
  unsent,      \* tasks no client has sent yet
  intake,      \* copies in common.qrmciQueue
  statuses,    \* messages in selector.backendStatusQueue
  mail,        \* copies in each dispatch queue
  spc, sflag,  \* the selector's loop and termination flag
  entries,     \* the selector's registry
  choosing,    \* the task the selector is assigning
  pc, flag,    \* each worker's loop and termination flag
  registered,  \* the worker's registry holds its own device
  preparing,   \* the task a worker is compiling
  ready,       \* copies in a worker's scheduler
  submitted,   \* copies in a worker's submittedJobs
  results, cancellations,         \* answers delivered for each task
  lostSends, abandoned, crashed,  \* history: copies lost, by reason
  ackFailures,  \* history: acknowledgements that failed
  executedOn,   \* history: the tasks that gave results, with the device
  stops         \* history: times a process was told to stop or crashed

brokerVars == <<unsent, intake, statuses, mail>>
selectorVars == <<spc, sflag, entries, choosing>>
workerVars == <<pc, flag, registered, preparing, ready, submitted>>
answerVars == <<results, cancellations, lostSends>>
vars == <<unsent, intake, statuses, mail, spc, sflag, entries, choosing,
          pc, flag, registered, preparing, ready, submitted,
          results, cancellations, lostSends, abandoned, crashed, ackFailures,
          executedOn, stops>>

Zero == [t \in Tasks |-> 0]
Empty == [m \in Assigned |-> 0]
Incremented(f, x) == [f EXCEPT ![x] = @ + 1]
Decremented(f, x) == [f EXCEPT ![x] = @ - 1]

\* Faulty variant: the device is read without its dispatch queue.
StatusUnrouted(w, online) ==
  [name |-> DeviceOf[w], queueName |-> NoQueue, online |-> online]

\* What fromSubmitter() and toBackend() make of a worker's device.
Status(w, online) ==
  [name |-> DeviceOf[w], queueName |-> QueueOf[w], online |-> online]

Init ==
  /\ unsent = Tasks /\ intake = Zero /\ statuses = {}
  /\ mail = [q \in Queues |-> Empty]
  /\ spc = "check" /\ sflag = FALSE /\ entries = EmptyRegistry /\ choosing = None
  /\ pc = [w \in Workers |-> "check"] /\ flag = [w \in Workers |-> FALSE]
  /\ registered = [w \in Workers |-> TRUE]
  /\ preparing = [w \in Workers |-> None]
  /\ ready = [w \in Workers |-> Empty] /\ submitted = [w \in Workers |-> Empty]
  /\ results = Zero /\ cancellations = Zero
  /\ lostSends = Zero /\ abandoned = Zero /\ crashed = Zero
  /\ ackFailures = Zero /\ executedOn = {} /\ stops = 0

\* A client puts a task on the intake queue.
ClientSends(t) ==
  /\ t \in unsent
  /\ unsent' = unsent \ {t}
  /\ intake' = Incremented(intake, t)
  /\ UNCHANGED <<statuses, mail, selectorVars, workerVars, answerVars,
                 abandoned, crashed, ackFailures, executedOn, stops>>

\* send() is best-effort: a message the broker refuses is logged and gone.
SendLost(t) ==
  /\ lostSends[t] < MaxSendFailures
  /\ lostSends' = Incremented(lostSends, t)

sendResult(t) ==
  /\ \/ results' = Incremented(results, t) /\ UNCHANGED lostSends
     \/ SendLost(t) /\ UNCHANGED results
  /\ UNCHANGED cancellations

sendFailure(t) ==
  /\ \/ cancellations' = Incremented(cancellations, t) /\ UNCHANGED lostSends
     \/ SendLost(t) /\ UNCHANGED cancellations
  /\ UNCHANGED results

\* A message is acknowledged as soon as it is decoded; if that fails the
\* broker keeps it and the process handles it all the same.
AckFails(t) ==
  /\ ackFailures[t] < MaxAckFailures
  /\ ackFailures' = Incremented(ackFailures, t)

(***************************************************************************)
(* The selector.                                                           *)
(***************************************************************************)
SelectorRunning == spc \notin {"stopped", "crashed"}

SelectorStop ==
  /\ spc = "check" /\ sflag
  /\ spc' = "stopped"
  /\ UNCHANGED <<brokerVars, sflag, entries, choosing, workerVars, answerVars,
                 abandoned, crashed, ackFailures, executedOn, stops>>

SelectorBegin ==
  /\ spc = "check" /\ ~sflag
  /\ spc' = "status"
  /\ UNCHANGED <<brokerVars, sflag, entries, choosing, workerVars, answerVars,
                 abandoned, crashed, ackFailures, executedOn, stops>>

\* One status of the drain; workers publish only statuses with a name and a
\* queue, which fromPublishedStatus() accepts.
SelectorStatus(s) ==
  /\ spc = "status" /\ ~sflag
  /\ s \in statuses
  /\ statuses' \in {statuses, statuses \ {s}}
  /\ entries' = insertOrRefresh(entries, s, 0)
  /\ UNCHANGED <<unsent, intake, mail, spc, sflag, choosing, workerVars,
                 answerVars, abandoned, crashed, ackFailures, executedOn, stops>>

\* The drain ends, and expire() drops the entries not refreshed for too long.
SelectorExpire ==
  /\ spc = "status"
  /\ spc' = "tasks"
  /\ \E kept \in SUBSET DOMAIN entries : entries' = [n \in kept |-> entries[n]]
  /\ UNCHANGED <<brokerVars, sflag, choosing, workerVars, answerVars,
                 abandoned, crashed, ackFailures, executedOn, stops>>

SelectorReceive(t) ==
  /\ spc = "tasks" /\ ~sflag
  /\ intake[t] > 0
  /\ \/ intake' = Decremented(intake, t) /\ UNCHANGED ackFailures
     \/ AckFails(t) /\ UNCHANGED intake
  /\ choosing' = t
  /\ spc' = "assign"
  /\ UNCHANGED <<unsent, statuses, mail, sflag, entries, workerVars, answerVars,
                 abandoned, crashed, executedOn, stops>>

\* Faulty variant: the drain ends only when the queue is empty, whatever the
\* flag says.
SelectorTasksEndWhenEmpty ==
  /\ spc = "tasks" /\ intake = Zero
  /\ spc' = "check"
  /\ UNCHANGED <<brokerVars, sflag, entries, choosing, workerVars, answerVars,
                 abandoned, crashed, ackFailures, executedOn, stops>>

\* The flag is set, the queue is empty, or the broker fails to receive.
SelectorTasksEnd ==
  /\ spc = "tasks"
  /\ spc' = "check"
  /\ UNCHANGED <<brokerVars, sflag, entries, choosing, workerVars, answerVars,
                 abandoned, crashed, ackFailures, executedOn, stops>>

usable(t) == {n \in DOMAIN entries : entries[n].backend.online /\ <<t, n>> \in Suits}

\* Faulty variant: a task without a usable backend is only logged.
SelectorAssignSilently ==
  /\ spc = "assign"
  /\ \/ \E n \in usable(choosing) :
          mail' = [mail EXCEPT ![entries[n].backend.queueName]
                     = Incremented(@, <<choosing, n>>)]
     \/ usable(choosing) = {} /\ UNCHANGED mail
  /\ choosing' = None
  /\ spc' = "tasks"
  /\ UNCHANGED <<unsent, intake, statuses, sflag, entries, workerVars,
                 answerVars, abandoned, crashed, ackFailures, executedOn, stops>>

\* Faulty variant: a task is forwarded though its failure was reported.
SelectorAssignBoth ==
  /\ spc = "assign"
  /\ \E n \in DOMAIN entries :
       mail' = [mail EXCEPT ![entries[n].backend.queueName]
                  = Incremented(@, <<choosing, n>>)]
  /\ usable(choosing) # {} => UNCHANGED answerVars
  /\ usable(choosing) = {} => sendFailure(choosing)
  /\ choosing' = None
  /\ spc' = "tasks"
  /\ UNCHANGED <<unsent, intake, statuses, sflag, entries, workerVars,
                 abandoned, crashed, ackFailures, executedOn, stops>>

\* chooseBackend() picks a usable backend (see TaskPreparation for which); the
\* task goes to that backend's own queue.  No usable backend: a cancellation.
SelectorAssign ==
  /\ spc = "assign"
  /\ \/ \E n \in usable(choosing) :
          \/ /\ mail' = [mail EXCEPT ![entries[n].backend.queueName]
                           = Incremented(@, <<choosing, n>>)]
             /\ UNCHANGED answerVars
          \/ SendLost(choosing) /\ UNCHANGED <<mail, results, cancellations>>
     \/ usable(choosing) = {} /\ sendFailure(choosing) /\ UNCHANGED mail
  /\ choosing' = None
  /\ spc' = "tasks"
  /\ UNCHANGED <<unsent, intake, statuses, sflag, entries, workerVars,
                 abandoned, crashed, ackFailures, executedOn, stops>>

SelectorTerminate ==
  /\ SelectorRunning /\ ~sflag /\ stops < MaxStops
  /\ sflag' = TRUE /\ stops' = stops + 1
  /\ UNCHANGED <<brokerVars, spc, entries, choosing, workerVars, answerVars,
                 abandoned, crashed, ackFailures, executedOn>>

SelectorCrash ==
  /\ SelectorRunning /\ stops < MaxStops
  /\ spc' = "crashed" /\ choosing' = None
  /\ crashed' = [t \in Tasks |-> crashed[t] + IF choosing = t THEN 1 ELSE 0]
  /\ stops' = stops + 1
  /\ UNCHANGED <<brokerVars, sflag, entries, workerVars, answerVars, abandoned,
                 ackFailures, executedOn>>

\* The registry of a new selector is empty until workers publish again.
SelectorRestart ==
  /\ ~SelectorRunning
  /\ spc' = "check" /\ sflag' = FALSE /\ entries' = EmptyRegistry
  /\ UNCHANGED <<brokerVars, choosing, workerVars, answerVars, abandoned,
                 crashed, ackFailures, executedOn, stops>>

Selector ==
  \/ SelectorStop \/ SelectorBegin \/ SelectorExpire \/ SelectorTasksEnd
  \/ SelectorAssign
  \/ \E s \in statuses : SelectorStatus(s)
  \/ \E t \in Tasks : SelectorReceive(t)

(***************************************************************************)
(* A worker.                                                               *)
(***************************************************************************)
WorkerRunning(w) == pc[w] \notin {"stopped", "crashed"}
Goto(w, label) == pc' = [pc EXCEPT ![w] = label]

\* The copies of t among the forwarded tasks counted by f.
CopiesOf(f, t) == SumFunction([n \in Names |-> f[<<t, n>>]])

\* The loop condition is false: what the scheduler still holds is dropped.
WorkerStop(w) ==
  /\ pc[w] = "check" /\ flag[w]
  /\ Goto(w, "stopped")
  /\ abandoned' = [t \in Tasks |-> abandoned[t] + CopiesOf(ready[w], t)]
  /\ ready' = [ready EXCEPT ![w] = Empty]
  /\ UNCHANGED <<brokerVars, selectorVars, flag, registered,
                 preparing, submitted, answerVars, crashed, ackFailures,
                 executedOn, stops>>

publish(status) ==
  /\ Cardinality(statuses) < MaxStatuses
  /\ statuses' = statuses \cup {status}

\* refreshOwnDeviceStatus(), publication and expire(): no slot is due; the
\* device is read and its status sent, which may fail; or reading it fails.
\* After failed reads, and only then (OwnDevice), the own entry may expire.
WorkerRefresh(w) ==
  /\ pc[w] = "check" /\ ~flag[w]
  /\ Goto(w, "receive")
  /\ \/ /\ registered' = [registered EXCEPT ![w] = TRUE]
        /\ \/ UNCHANGED statuses
           \/ \E online \in BOOLEAN : publish(Status(w, online))
     \/ /\ registered' \in {registered, [registered EXCEPT ![w] = FALSE]}
        /\ UNCHANGED statuses
  /\ UNCHANGED <<unsent, intake, mail, selectorVars, flag, preparing, ready,
                 submitted, answerVars, abandoned, crashed, ackFailures,
                 executedOn, stops>>

\* One task of the worker's queue per turn, whichever backend it names.
WorkerReceive(w, m) ==
  /\ pc[w] = "receive" /\ ~flag[w]
  /\ mail[QueueOf[w]][m] > 0
  /\ \/ mail' = [mail EXCEPT ![QueueOf[w]] = Decremented(@, m)] /\ UNCHANGED ackFailures
     \/ AckFails(m[1]) /\ UNCHANGED mail
  /\ preparing' = [preparing EXCEPT ![w] = m]
  /\ Goto(w, "prepare")
  /\ UNCHANGED <<unsent, intake, statuses, selectorVars, flag, registered,
                 ready, submitted, answerVars, abandoned, crashed,
                 executedOn, stops>>

\* The flag is set, the queue stays empty, or the broker fails to receive.
WorkerReceiveNone(w) ==
  /\ pc[w] = "receive"
  /\ Goto(w, "submit")
  /\ UNCHANGED <<brokerVars, selectorVars, flag, registered,
                 preparing, ready, submitted, answerVars, abandoned, crashed,
                 ackFailures, executedOn, stops>>

\* Faulty variant: the task is compiled for the worker's own device whatever
\* backend it names.
compileAndScheduleAny(w) ==
  /\ pc[w] = "prepare"
  /\ ready' = [ready EXCEPT ![w] = Incremented(@, preparing[w])]
  /\ preparing' = [preparing EXCEPT ![w] = None]
  /\ Goto(w, "submit")
  /\ UNCHANGED <<brokerVars, selectorVars, flag, registered,
                 submitted, answerVars, abandoned, crashed, ackFailures,
                 executedOn, stops>>

\* The named backend must be the registered own device; it is not asked again
\* whether it is online or can run the task.  Compiling may fail.
compileAndSchedule(w) ==
  /\ pc[w] = "prepare"
  /\ \/ /\ registered[w] /\ preparing[w][2] = DeviceOf[w]
        /\ ready' = [ready EXCEPT ![w] = Incremented(@, preparing[w])]
        /\ UNCHANGED answerVars
     \/ sendFailure(preparing[w][1]) /\ UNCHANGED ready
  /\ preparing' = [preparing EXCEPT ![w] = None]
  /\ Goto(w, "submit")
  /\ UNCHANGED <<brokerVars, selectorVars, flag, registered,
                 submitted, abandoned, crashed, ackFailures, executedOn, stops>>

\* submitQuantumTask() of a ready task: it is submitted, refused, or, with the
\* flag set, abandoned and the loop left.
WorkerSubmit(w, m) ==
  /\ pc[w] = "submit" /\ ready[w][m] > 0
  /\ ready' = [ready EXCEPT ![w] = Decremented(@, m)]
  /\ \/ /\ ~flag[w]
        /\ submitted' = [submitted EXCEPT ![w] = Incremented(@, m)]
        /\ UNCHANGED <<pc, answerVars, abandoned>>
     \/ sendFailure(m[1]) /\ UNCHANGED <<pc, submitted, abandoned>>
     \/ /\ flag[w]
        /\ abandoned' = Incremented(abandoned, m[1])
        /\ Goto(w, "collect")
        /\ UNCHANGED <<submitted, answerVars>>
  /\ UNCHANGED <<brokerVars, selectorVars, flag, registered,
                 preparing, crashed, ackFailures, executedOn, stops>>

\* Faulty variant: collecting begins though tasks are still scheduled.
WorkerSubmitDoneEarly(w) ==
  /\ pc[w] = "submit"
  /\ Goto(w, "collect")
  /\ UNCHANGED <<brokerVars, selectorVars, flag, registered,
                 preparing, ready, submitted, answerVars, abandoned, crashed,
                 ackFailures, executedOn, stops>>

WorkerSubmitDone(w) ==
  /\ pc[w] = "submit" /\ ready[w] = Empty
  /\ Goto(w, "collect")
  /\ UNCHANGED <<brokerVars, selectorVars, flag, registered,
                 preparing, ready, submitted, answerVars, abandoned, crashed,
                 ackFailures, executedOn, stops>>

\* collectQuantumResult() of a submitted task returns: a result and a failure
\* are answered; a shutdown abandons this and all the later tasks.
WorkerCollect(w, m) ==
  /\ pc[w] = "collect" /\ submitted[w][m] > 0
  /\ \/ /\ submitted' = [submitted EXCEPT ![w] = Decremented(@, m)]
        /\ \/ /\ sendResult(m[1])
              /\ executedOn' = executedOn \cup {<<m[1], DeviceOf[w]>>}
           \/ sendFailure(m[1]) /\ UNCHANGED executedOn
        /\ UNCHANGED <<pc, abandoned>>
     \/ /\ flag[w]
        /\ abandoned' = [t \in Tasks |-> abandoned[t] + CopiesOf(submitted[w], t)]
        /\ submitted' = [submitted EXCEPT ![w] = Empty]
        /\ Goto(w, "check")
        /\ UNCHANGED <<answerVars, executedOn>>
  /\ UNCHANGED <<brokerVars, selectorVars, flag, registered,
                 preparing, ready, crashed, ackFailures, stops>>

WorkerCollectDone(w) ==
  /\ pc[w] = "collect" /\ submitted[w] = Empty
  /\ Goto(w, "check")
  /\ UNCHANGED <<brokerVars, selectorVars, flag, registered,
                 preparing, ready, submitted, answerVars, abandoned, crashed,
                 ackFailures, executedOn, stops>>

WorkerTerminate(w) ==
  /\ WorkerRunning(w) /\ ~flag[w] /\ stops < MaxStops
  /\ flag' = [flag EXCEPT ![w] = TRUE] /\ stops' = stops + 1
  /\ UNCHANGED <<brokerVars, selectorVars, pc, registered,
                 preparing, ready, submitted, answerVars, abandoned, crashed,
                 ackFailures, executedOn>>

\* The copies of t a worker holds in memory.
Held(w, t) ==
  SumFunction([n \in Names |-> ready[w][<<t, n>>] + submitted[w][<<t, n>>]
                                 + (IF preparing[w] = <<t, n>> THEN 1 ELSE 0)])

WorkerCrash(w) ==
  /\ WorkerRunning(w) /\ stops < MaxStops
  /\ Goto(w, "crashed")
  /\ crashed' = [t \in Tasks |-> crashed[t] + Held(w, t)]
  /\ preparing' = [preparing EXCEPT ![w] = None]
  /\ ready' = [ready EXCEPT ![w] = Empty]
  /\ submitted' = [submitted EXCEPT ![w] = Empty]
  /\ stops' = stops + 1
  /\ UNCHANGED <<brokerVars, selectorVars, flag, registered,
                 answerVars, abandoned, ackFailures, executedOn>>

\* A worker registers its device before its loop starts; if the device cannot
\* be opened or read it exits at once, which changes nothing.
WorkerRestart(w) ==
  /\ ~WorkerRunning(w)
  /\ Goto(w, "check")
  /\ flag' = [flag EXCEPT ![w] = FALSE]
  /\ registered' = [registered EXCEPT ![w] = TRUE]
  /\ UNCHANGED <<brokerVars, selectorVars, preparing, ready, submitted,
                 answerVars, abandoned, crashed, ackFailures, executedOn, stops>>

\* One step of a worker's only thread.
Worker(w) ==
  \/ WorkerStop(w) \/ WorkerRefresh(w) \/ WorkerReceiveNone(w)
  \/ compileAndSchedule(w) \/ WorkerSubmitDone(w) \/ WorkerCollectDone(w)
  \/ \E m \in Assigned : WorkerReceive(w, m) \/ WorkerSubmit(w, m) \/ WorkerCollect(w, m)

Next ==
  \/ \E t \in Tasks : ClientSends(t)
  \/ Selector \/ SelectorTerminate \/ SelectorCrash \/ SelectorRestart
  \/ \E w \in Workers :
       Worker(w) \/ WorkerTerminate(w) \/ WorkerCrash(w) \/ WorkerRestart(w)

Spec == Init /\ [][Next]_vars

\* Every thread keeps running (executions end, see TaskExecution), the drain of
\* the finite status queue ends, the broker does not fail every receive of a
\* waiting message, and a process that ended is started again.
FairSpec ==
  /\ Spec
  /\ WF_vars(Selector) /\ WF_vars(SelectorRestart) /\ SF_vars(SelectorExpire)
  /\ \A t \in Tasks : SF_vars(SelectorReceive(t))
  /\ \A w \in Workers :
       /\ WF_vars(Worker(w)) /\ WF_vars(WorkerRestart(w))
       /\ \A m \in Assigned : SF_vars(WorkerReceive(w, m))

(***************************************************************************)
(* Properties.                                                             *)
(***************************************************************************)

Backend == [name : Names, queueName : Queues, online : BOOLEAN]
WorkerLabels ==
  {"check", "receive", "prepare", "submit", "collect", "stopped", "crashed"}

TypeOK ==
  /\ unsent \subseteq Tasks /\ intake \in [Tasks -> Nat]
  /\ statuses \subseteq Backend
  /\ mail \in [Queues -> [Assigned -> Nat]]
  /\ spc \in {"check", "status", "tasks", "assign", "stopped", "crashed"}
  /\ sflag \in BOOLEAN /\ choosing \in Tasks \cup {None}
  /\ \A n \in DOMAIN entries : entries[n].backend \in Backend
  /\ pc \in [Workers -> WorkerLabels]
  /\ flag \in [Workers -> BOOLEAN]
  /\ registered \in [Workers -> BOOLEAN]
  /\ preparing \in [Workers -> Assigned \cup {None}]
  /\ ready \in [Workers -> [Assigned -> Nat]]
  /\ submitted \in [Workers -> [Assigned -> Nat]]
  /\ \A history \in {results, cancellations, lostSends, abandoned, crashed,
                     ackFailures} : history \in [Tasks -> Nat]
  /\ executedOn \subseteq Assigned /\ stops \in Nat

Answers(t) == results[t] + cancellations[t]

\* Every copy of a task that left the client is in exactly one place of the
\* broker, the selector or a worker, or was answered or lost; the only source
\* of further copies is a failed acknowledgement, in either process.
EveryCopyAccountedFor ==
  \A t \in Tasks :
    intake[t] + (IF choosing = t THEN 1 ELSE 0)
      + SumFunction([q \in Queues |-> CopiesOf(mail[q], t)])
      + SumFunction([w \in Workers |-> Held(w, t)])
      + Answers(t) + lostSends[t] + abandoned[t] + crashed[t]
    = (IF t \in unsent THEN 0 ELSE 1) + ackFailures[t]

\* A result always comes from a device the selector found able to run the
\* task, whichever worker took it from a queue two of them share.
ExecutedWhereAssigned ==
  /\ executedOn \subseteq Suits
  /\ \A w \in Workers, m \in Assigned :
       ready[w][m] + submitted[w][m] > 0 => m[2] = DeviceOf[w]

\* A worker never has two tasks in its scheduler and on its device: it takes
\* one per turn and is done with it before it takes the next.
OneTaskInFlight ==
  \A w \in Workers : SumFunction([t \in Tasks |-> Held(w, t)]) <= 1

\* A client that hears nothing has a reason: under fairness every task sent is
\* answered, or a send for it failed, or a process ended while holding it.
EveryTaskAnswered ==
  \A t \in Tasks :
    t \notin unsent
      ~> Answers(t) > 0 \/ lostSends[t] > 0 \/ abandoned[t] > 0 \/ crashed[t] > 0

\* A signal ends a worker's loop, whatever its queue, its scheduler and its
\* device hold at that moment, and the selector's.
TerminationIsHonoured ==
  /\ sflag ~> ~SelectorRunning
  /\ \A w \in Workers : flag[w] ~> ~WorkerRunning(w)

\* The status of a task in the terms of TaskService.
StatusOf(t) ==
  IF t \in unsent THEN "new"
  ELSE IF ackFailures[t] > 0 THEN "duplicated"
  ELSE IF results[t] > 0 THEN "result"
  ELSE IF cancellations[t] > 0 THEN "cancelled"
  ELSE IF lostSends[t] + abandoned[t] + crashed[t] > 0 THEN "lost"
  ELSE "pending"

Service == INSTANCE TaskService WITH status <- [t \in Tasks |-> StatusOf(t)]

\* The selector and the workers implement the abstract service the standalone
\* daemon implements: at most one answer for each task, never withdrawn.
ImplementsTaskService == Service!Spec
=============================================================================
