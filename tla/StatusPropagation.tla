------------------------- MODULE StatusPropagation -------------------------
(***************************************************************************)
(* How the selector learns which workers exist: each worker claims a slot  *)
(* of its throttle, reads its device and publishes its status; the         *)
(* selector drains the status queue into its registry, expires what it has *)
(* not heard from, and then assigns tasks for any length of time.          *)
(*                                                                         *)
(* Time is unbounded and kept relative to the present: slot and silence    *)
(* are ages, and an entry's lastRefreshed is minus its age.  Ages stop     *)
(* growing at a value past which nothing compares them any more.  Statuses *)
(* are delivered in order; one whose acknowledgement fails stays at the    *)
(* head of the queue.                                                      *)
(***************************************************************************)
EXTENDS BackendRegistry, Sequences

CONSTANTS
  Workers,
  DeviceOf,         \* each worker's submitter.qdmiDeviceId
  QueueOf,          \* each worker's compiler.queue
  PublishInterval,  \* the workers' submitter.backendStatusPublishInterval
  TimeToLive,       \* selector.backendRegistry.entryTimeToLive
  MaxStatuses       \* bound on the length of the status queue

\* The selector's time to live and the workers' interval come from different
\* files: nothing relates them.
ASSUME PropagationAssumption ==
  /\ PublishInterval \in Nat \ {0} /\ TimeToLive \in Nat \ {0}
  /\ MaxStatuses \in Nat
  /\ \A w \in Workers : QueueOf[w] # NoQueue

VARIABLES
  pc,        \* each worker's loop, "down" if it does not run
  slot,      \* the age of the throttle's last claimed slot
  statuses,  \* selector.backendStatusQueue
  spc,       \* the selector's loop
  entries,   \* its registry
  silence,   \* history: the age of the last status sent on a route
  lastSent   \* history: whether it said the device was online

workerVars == <<pc, slot>>
selectorVars == <<spc, entries>>
vars == <<pc, slot, statuses, spc, entries, silence, lastSent>>

\* A device name and the dispatch queue its worker advertises.
RouteOf(w) == [name |-> DeviceOf[w], queueName |-> QueueOf[w]]
Routes == {RouteOf(w) : w \in Workers}
Route(backend) == [name |-> backend.name, queueName |-> backend.queueName]

Horizon == TimeToLive + 1
Older(age, cap) == IF age < cap THEN age + 1 ELSE age

Up(w) == pc[w] # "down"
SelectorUp == spc # "down"
Goto(w, label) == pc' = [pc EXCEPT ![w] = label]

Init ==
  /\ pc = [w \in Workers |-> "down"]
  /\ slot = [w \in Workers |-> PublishInterval]
  /\ statuses = <<>>
  /\ spc = "down" /\ entries = EmptyRegistry
  /\ silence = [r \in Routes |-> Horizon]
  /\ lastSent = [r \in Routes |-> FALSE]

(***************************************************************************)
(* A worker.                                                               *)
(***************************************************************************)

\* A worker that cannot open or read its device exits at once.
WorkerStarts(w) ==
  /\ ~Up(w)
  /\ Goto(w, "loop")
  /\ UNCHANGED <<slot, statuses, selectorVars, silence, lastSent>>

\* A crash, or a signal: neither withdraws what was published.  The throttle
\* of the next process has no slot claimed, so one is due.
WorkerEnds(w) ==
  /\ Up(w)
  /\ Goto(w, "down")
  /\ slot' = [slot EXCEPT ![w] = PublishInterval]
  /\ UNCHANGED <<statuses, selectorVars, silence, lastSent>>

\* A turn in which a slot is due; in one in which none is, nothing happens
\* here.  The work of a turn takes any length of time.
claim(w) ==
  /\ pc[w] = "loop" /\ slot[w] = PublishInterval
  /\ Goto(w, "read")
  /\ slot' = [slot EXCEPT ![w] = 0]
  /\ UNCHANGED <<statuses, selectorVars, silence, lastSent>>

\* The device cannot be read, or the broker refuses the status: logged, and
\* not tried again before the next slot.
PublishFails(w) ==
  /\ pc[w] = "read"
  /\ Goto(w, "loop")
  /\ UNCHANGED <<slot, statuses, selectorVars, silence, lastSent>>

\* What fromSubmitter() and toBackend() make of a worker's device.
Status(w, online) ==
  [name |-> DeviceOf[w], queueName |-> QueueOf[w], online |-> online]

\* fromSubmitter() succeeds and the status it gives is sent.
publish(w, online) ==
  /\ pc[w] = "read" /\ Len(statuses) < MaxStatuses
  /\ Goto(w, "loop")
  /\ statuses' = Append(statuses, Status(w, online))
  /\ silence' = [silence EXCEPT ![RouteOf(w)] = 0]
  /\ lastSent' = [lastSent EXCEPT ![RouteOf(w)] = online]
  /\ UNCHANGED <<slot, selectorVars>>

Worker(w) ==
  \/ claim(w) \/ PublishFails(w)
  \/ \E online \in BOOLEAN : publish(w, online)

(***************************************************************************)
(* The selector.                                                           *)
(***************************************************************************)

\* What the process before it knew is gone.
SelectorStarts ==
  /\ ~SelectorUp
  /\ spc' = "drain" /\ entries' = EmptyRegistry
  /\ UNCHANGED <<workerVars, statuses, silence, lastSent>>

SelectorEnds ==
  /\ SelectorUp
  /\ spc' = "down" /\ entries' = EmptyRegistry
  /\ UNCHANGED <<workerVars, statuses, silence, lastSent>>

\* One status of the drain, acknowledged or not.
SelectorReceive(acked) ==
  /\ spc = "drain" /\ statuses # <<>>
  /\ entries' = insertOrRefresh(entries, Head(statuses), 0)
  /\ statuses' = IF acked THEN Tail(statuses) ELSE statuses
  /\ UNCHANGED <<workerVars, spc, silence, lastSent>>

\* The queue is empty, the broker fails to receive, or the flag is set.
SelectorDrainEnds ==
  /\ spc = "drain"
  /\ spc' = "expire"
  /\ UNCHANGED <<workerVars, statuses, entries, silence, lastSent>>

\* What the turn does next, assigning tasks and sleeping, takes any length of
\* time and changes nothing here.
SelectorExpire ==
  /\ spc = "expire"
  /\ spc' = "drain"
  /\ entries' = expire(entries, 0, TimeToLive)
  /\ UNCHANGED <<workerVars, statuses, silence, lastSent>>

Selector ==
  \/ \E acked \in BOOLEAN : SelectorReceive(acked)
  \/ SelectorDrainEnds \/ SelectorExpire

Tick ==
  /\ slot' = [w \in Workers |-> Older(slot[w], PublishInterval)]
  /\ silence' = [r \in Routes |-> Older(silence[r], Horizon)]
  /\ entries' = [n \in DOMAIN entries |->
                   [entries[n] EXCEPT !.lastRefreshed = -Older(-@, Horizon)]]
  /\ UNCHANGED <<pc, statuses, spc, lastSent>>

Next ==
  \/ \E w \in Workers : Worker(w) \/ WorkerStarts(w) \/ WorkerEnds(w)
  \/ Selector \/ SelectorStarts \/ SelectorEnds
  \/ Tick

Spec == Init /\ [][Next]_vars

\* Time passes and both threads keep running, whatever work a turn finds; the
\* device and the broker do not fail every time; the drain of the status
\* queue, which workers fill at a bounded rate, ends.  Nothing says that a
\* process that ended is started again.
FairSpec ==
  /\ Spec
  /\ WF_vars(Tick)
  /\ \A w \in Workers :
       /\ WF_vars(Worker(w))
       /\ SF_vars(\E online \in BOOLEAN : publish(w, online))
  /\ WF_vars(Selector) /\ SF_vars(SelectorReceive(TRUE)) /\ SF_vars(SelectorDrainEnds)

(***************************************************************************)
(* Properties.                                                             *)
(***************************************************************************)

Names == {DeviceOf[w] : w \in Workers}
Backend ==
  {[name |-> r.name, queueName |-> r.queueName, online |-> online] :
     r \in Routes, online \in BOOLEAN}

TypeOK ==
  /\ pc \in [Workers -> {"down", "loop", "read"}]
  /\ slot \in [Workers -> 0..PublishInterval]
  /\ statuses \in Seq(Backend) /\ Len(statuses) <= MaxStatuses
  /\ spc \in {"down", "drain", "expire"}
  /\ DOMAIN entries \subseteq Names
  /\ entries \in [DOMAIN entries -> [backend : Backend, lastRefreshed : -Horizon..0]]
  /\ \A n \in DOMAIN entries : entries[n].backend.name = n
  /\ silence \in [Routes -> 0..Horizon] /\ lastSent \in [Routes -> BOOLEAN]

Waiting(r) == \E i \in DOMAIN statuses : Route(statuses[i]) = r

\* A name keeps its dispatch queue for as long as it stays registered: two
\* workers of one name cannot take turns in diverting each other's tasks.
QueueNeverReassigned ==
  [][\A n \in DOMAIN entries \cap DOMAIN entries' :
       entries'[n].backend.queueName = entries[n].backend.queueName]_vars

\* expire() drops a backend only if nothing was sent on its route for longer
\* than the time to live, or a status that would have kept it still waits in
\* the queue because the drain before expire() stopped short of it.
DroppedOnlyAfterSilence ==
  [][\A n \in DOMAIN entries \ DOMAIN entries' :
       LET r == Route(entries[n].backend)
       IN  SelectorUp' => silence[r] > TimeToLive \/ Waiting(r)]_vars

\* With no status of a registered backend waiting, the registry says of it
\* what its workers said last, through every failed acknowledgement, expiry,
\* restart and rejected status.
NewestStatusWins ==
  \A n \in DOMAIN entries :
    LET r == Route(entries[n].backend)
    IN  ~Waiting(r) => entries[n].backend.online = lastSent[r]

Registered(r) ==
  r.name \in DOMAIN entries /\ Route(entries[r.name].backend) = r
Dead(r) == \A w \in Workers : RouteOf(w) = r => ~Up(w)

\* BackendRegistry.h: "a worker that dies stops receiving task assignments
\* instead of lingering forever".  A route all of whose workers stay down is
\* forgotten for good, even while another worker of that name keeps
\* publishing statuses that the entry makes the selector reject.
DeadWorkerForgotten ==
  \A r \in Routes : <>[](SelectorUp /\ Dead(r)) => <>[](~Registered(r))

\* Once no process ends or starts any more, each running worker is served:
\* again and again its name is registered with the queue of a worker that
\* runs, whatever crashes of the selector and of another worker that had
\* taken the name came before.
LivingWorkerReachable ==
  \A U \in SUBSET Workers \ {{}} :
    <>[](SelectorUp /\ {w \in Workers : Up(w)} = U)
      => \A w \in U : []<>(\E v \in U : /\ DeviceOf[v] = DeviceOf[w]
                                       /\ Registered(RouteOf(v)))
=============================================================================
