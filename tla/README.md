# QRM&CI: TLA+ models and proofs

TLA+ models of the QRM&CI task pipeline, TLC runs that check them on small
instances, and TLAPS proofs of their safety properties for all values of the
constants. Every definition follows the C++ source; `PROJECT.json` gives the
lines each one stands for.

## The system

QRM&CI takes quantum tasks from a RabbitMQ queue, chooses a backend for each,
compiles its circuits, runs them on a QDMI device and sends the result, or a
cancellation, to the task's result destination. It ships as three
single-threaded daemons over one library:

| Part | State | Operations | Talks to |
| --- | --- | --- | --- |
| Standalone daemon (`apps/standalone/main.cpp`) | registry, throttle, scheduler, flag | refresh, expire, drain, select + compile + schedule, execute | intake queue, device, result queues |
| Selector (`apps/distributed/selector/main.cpp`) | registry, flag | drain statuses, expire, drain tasks, assign, forward | status queue, intake queue, dispatch queues |
| Worker (`apps/distributed/worker/main.cpp`) | registry, throttle, scheduler, submitted jobs, flag | refresh + publish, receive one, compile + schedule, submit all, collect all | dispatch queue, status queue, device, result queues |
| Task execution (`Runners.cpp`, `TaskSubmission.cpp`) | jobs, histogram, per-job clock | submit, wait in slices, collect, build result | device, flag |
| Task preparation (`Runners.cpp`, `Daemon.cpp`, `CircuitFormatPolicy.cpp`) | the task, staged circuits | choose backend, compile each circuit, commit | registry, compiler |
| Backend registry, publication throttle | entries with times; last slot | insertOrRefresh, expire; claim | steady clock |
| Backend wrapper (`BackendWrapper.cpp`, `ConstantsMapping.cpp`) | none of its own | read a device, publish, rebuild from a status | device, status queue |
| Messaging (`CommunicationHandler.h`, `DaemonMessaging.h`) | the call in progress | poll or wait, acknowledge, drain, best-effort send | broker, flag |
| Configuration (`Config.cpp`) | the configuration being assembled | parse, check schema, read fields, cross-field check | file, environment |

What makes it hard is not threads, of which each process has one, but what
happens around that thread: the signal handler sets a flag at any moment; the
device finishes, fails or never finishes jobs; a message is acknowledged
before it is handled; sends are best-effort; processes end and are started
again with empty memory; and in the distributed deployment the selector decides
on statuses that may be old, about workers whose names and queues nothing keeps
distinct. `PROJECT.json` lists these hazards with the line where each bites.

## The modules

| Module | Models |
| --- | --- |
| `TaskExecution` | One call of `executeQuantumTask()`: submission loop, collection loop in slices, `buildQuantumResult()`, with the device and the handler interleaved. `pc` follows the two loops; `jobs` and `histogram` are the code's vectors; `waited`, `cancelTried` and `lateCalls` are history. |
| `CircuitFormatPolicy` | The file's tables and functions, as operators. |
| `BackendWrapper` | A backend's three forms and the conversions between them: what a device answered to the five queries of `fromSubmitter()`, the wrapper, the published message. A count is cut to its width; enumerators this build does not know are normalised when a message is rebuilt. Extends `CircuitFormatPolicy`. |
| `TaskPreparation` | One task from the registry it meets to the scheduler: the registry as read or as published, `chooseBackend()` by its own iteration in name order, `compileQuantumTask()` with one step per circuit and the staged commit, and the calls of both deployments: when `shared` holds the process that selects also compiles; otherwise a worker with its own reading does. Extends `BackendWrapper`. |
| `BackendRegistry` | The registry as a function from names to entries, and the rules for conflicts and expiry. |
| `OwnDevice` | What keeps a device-owning daemon registered with itself: throttle, device read, refresh and expiry against a clock that advances at any point of the turn. |
| `TaskService` | The abstract service: each task is answered at most once and no answer is withdrawn; a task may be lost. |
| `Standalone` | The standalone loop, counting the copies of each task wherever they are. |
| `Distributed` | Selector and workers, joined by the intake, status and dispatch queues. Extends `BackendRegistry`. |
| `Messaging` | One process's intake: `receive()` under `receiveNext()`, called once a turn or by `drainQueue()`, with every kind of timeout, against a broker whose queue never has to run empty. `ipc` follows the nested loops; `lateWait` and `lateReceived` are history. |
| `StatusPropagation` | How the selector learns of workers and forgets them: throttles, the status queue, registry and expiry on a clock, with crashes and restarts of both ends. Extends `BackendRegistry`. |
| `Configuration` | `loadConfig()`: file, schema, 28 fields in code order over three layers, cross-field check. `phase` and `index` follow `loadConfig()` and `assembleConfig()`; a `setup` is what file and environment hold. |
| `TaskExecutionProofs`, `StandaloneProofs` | The proofs about the module each is named after. |
| `DistributedProofs`, `DistributedAccountingProofs`, `DistributedServiceProofs`, `DistributedTheorems` | The proofs about `Distributed`: types and what a worker holds; the accounting; the mapping to `TaskService`; finite sums and the theorems. |
| `DaemonProofs` | The proofs about the parts of one daemon: `Messaging`, `OwnDevice`, `TaskPreparation`. |
| `DeploymentProofs` | The proofs about `StatusPropagation` and `Configuration`. |
| `MCTaskExecution`, `MCTaskPreparation`, `MCDistributed`, `MCStatusPropagation`, `MCMessaging`, `MCConfiguration` | The instances TLC checks. |

The modules build on each other by what they establish. `Standalone` and
`Distributed` treat an execution as one step that returns a result, a failure
or, only if the flag is set, a shutdown: `TaskExecution` shows that these are
the outcomes and that the call returns. They let the own entry expire only after a
failed device read: `OwnDevice` shows that this is the only way if the lag stays
within the margin of the configuration. They accept
any usable backend: `TaskPreparation` shows which one is chosen. They take a
receive and a drain as steps: `Messaging` shows that a flag ends each and that
no message is passed over. `Distributed` has no time and lets the selector
expire any entry: `StatusPropagation` shows when it does.

Definitions marked "Faulty variant" are plausible bugs of the definition that
follows them. No specification uses them. Each was put in place of the correct
definition once for the property it should break, to see that the property
notices.

### Abstractions

* A task is a model value, or a record of what the code branches on. Circuits
  and bytes are left out; in `TaskPreparation` a circuit is marked by whether
  it is source, compiled or empty.
* The scheduler is a bag that hands back any task, which allows every priority
  order. The compiler, the device and the broker may fail at each call.
* A histogram is reduced to its largest count, and `INT32_MAX` to 1, so that
  the 32-bit conversion has values on both sides of its limit.
* A duration in `Configuration` keeps its unit. The ratios between units are 10
  instead of 1000 and 10^6, and the 64-bit limit is 2^15 - 1; what matters is
  that a count can fit in one unit and not in the next. Converting with
  overflow is undefined in C++ and is modelled by the wrap that compilers emit.
* Published statuses are a set in `Distributed`: delivered in any order,
  possibly again. In `StatusPropagation` they are a queue, in which a status
  whose acknowledgement failed stays at the head.
* Time in `StatusPropagation` is unbounded and relative to the present: ages
  stop growing one unit past the time to live, where nothing compares them any
  more. In `Messaging` it passes only while the transport waits.
* A device's reading is any combination of answers to the five queries, so it
  may mix different moments. `UInt32Range` is 4, which puts counts on both sides
  of the width.

## The runs

| Run | Shows |
| --- | --- |
| `TaskExecution` | Results equal what the device measured; a shutdown during submission tries to cancel every job; the timeout is each job's own, never early and late by less than a slice, and never passed on a job that finished in its last slice; after the flag is set only the call about to be made begins (`children()`, `submitJob()`, `wait()` or `counts()`), and after a `wait()` that finds its job finished its `counts()`; `cancel()` is called only for a shutdown noticed during submission. Jobs on the device when a shutdown is noticed during collection are left there. A signal ends the call even if it waits indefinitely, and a timeout ends it without a signal. |
| `OwnDevice` | The own entry expires only after a failed read, however long reads and work take. When `expire()` runs, the last read, failed or not, is less than interval plus lag ago, and the entry dates from it if it succeeded: after a failed read the next follows within the same time. The lag is how long the turn takes from a read, or a refused `claim()`, to `expire()`. |
| `Preparation` | Through reading, publishing and rebuilding, `chooseBackend()` returns the device that is best by definition and fails only if none suits; a status means the same to the selector as to the worker that sent it; a failed compilation leaves the task as it was; a scheduled task's label maps to a format its backend supports, and is the first in the table's order if the task was compiled; a backend admitted by selection does not refuse the task for its format or for want of a backend. Selection looks neither at the optimisation level nor for empty circuits: compilation refuses a task for either only if the task has it, and what it schedules has neither. A worker reads its device anew: if it then answers differently than when it was chosen, the agreement of selection and compilation is not claimed, nor the label of a task that may not be modified. |
| `Standalone` | Every copy of every task is in one place, answered, or lost for a known reason; no task is executed in a later turn than the one that chose its backend; the daemon implements `TaskService`; every task sent is answered unless a send failed or the process ended while holding it; a signal ends the loop. |
| `DistributedSharedQueue` | The accounting across processes; no worker runs a task meant for the other device on the queue they share; selector and workers together implement `TaskService`. |
| `DistributedService` | A worker never holds two tasks, nor one twice; every task sent is answered or lost for a known reason; a signal ends each loop. |
| `Messaging` | A message that can be decoded leaves broker and process only by being handled; after the flag is set one poll is finished and one message received at most; the flag ends every wait and every drain; a worker's receive returns under any load; a waiting message is received unless one ahead of it cannot be decoded. |
| `StatusPropagation` | Two workers that claim one name with different queues: a registered name keeps its queue; the registry says what was said last; a backend is dropped only after silence longer than the time to live, or with a status of it still waiting; a dead worker is forgotten although another of that name keeps publishing; once nothing crashes any more the name is registered again and again with a worker that runs. |
| `ConfigurationLoading` | What is loaded has no fault and comes from the strongest layer; what is refused has a fault, and the error is for the first one; only a time to live too long to count in milliseconds may be refused as too short. |

`TaskService` promises at most one answer per task, never withdrawn. Of a task
whose acknowledgement failed it promises nothing, but says that this happens
before any answer and touches no other task.

Three runs find the code and a text about it in disagreement. Each checks one
property that restates the text, and TLC finds it violated:

| Run | The text | The code |
| --- | --- | --- |
| `StandaloneTurnFinishes` | `getting-started.md:177`: on a signal the current turn finishes | the turn is cut short and the tasks it took are dropped without an answer |
| `ConfigurationTimeToLive` | `Config.cpp:519`: the time to live must outlive the publish interval | compared in milliseconds, then converted unchecked to nanoseconds, where centuries overflow |
| `MessagingShutdown` | `Daemon.h:35`: loop and `receive()` consult the flag to unwind promptly instead of finishing a bounded wait | a bounded wait is one call of the transport and is finished; only an indefinite wait is cut into slices of 500 ms |

The last needs a worker whose `compiler.taskReceiveTimeout` is longer than such
a slice, and a transport that waits as long as it is told to.

Four smaller remarks, found while translating. `CircuitFormatPolicy.h:60` names
the order of targets QASM2, QIRBASESTRING, QIRADAPTIVESTRING; the table tries
IQMJSON before them (`CompilerTargetPriority`). `development-guide.md:68` has
the selector forward to `config.compiler.queue`; it forwards to the queue the
worker published (`SelectorAssign`), as `getting-started.md:223` says.
`Config.cpp:295` says an error always names the dotted key; a malformed
`QRMCI_AMQP_PORT` is reported by the variable's name (`ReadField`). The worker's
comment that several jobs are in flight at once (`worker/main.cpp:97`) holds for
the circuits of one task, not for several tasks, because the worker takes one
task per turn and collects it before the next (`OneTaskInFlight`).

### Bounds

Small sets are enough for a conflict between two of their members: `Standalone`
has two tasks; `Distributed` has one, of which a failed acknowledgement makes a
second copy, and two workers on one queue or a single worker. The safety
properties are proved for any number. `MaxAckFailures`, `MaxSendFailures` and
`MaxStops` bound how often each failure strikes, and `MaxStatuses` the statuses
waiting. At 1 or 2 they let every combination of one failure of each kind
happen, including a restart and work after it; only `DistributedSharedQueue`
leaves out failed sends, which `DistributedService` has. Tasks with one to three
circuits have a first, a middle and a last one. In `OwnDevice`, `TimeToLive`,
`PublishInterval` and `MaxLag` are chosen so that the lag is exactly the margin
the configuration guarantees, and `MaxNow` covers several intervals.
`OwnDevice`'s clock stops at `MaxNow`, where the loop goes on.
`StatusPropagation` has the time to live equal to the publish interval, so that
any delay may expire an entry (the two come from different files, and nothing
relates them), and two statuses in the queue, so that one can wait behind
another; its safety properties are proved for every setting. `Messaging` has
three decodable messages that are sent again and again, so that a drain need
never find the queue empty, one that cannot be decoded, and timeouts of zero,
below and above a poll of an indefinite wait, besides the indefinite wait
itself. `Preparation` enumerates its inputs in three families, each varied in
what one step reads. The passing runs take from seconds to about three minutes.

### Fairness

* `TaskExecution`: the executing thread keeps running. With a timeout nothing
  is assumed of the device; without one, the signal alone ends the call.
* `Standalone` and `Distributed`: each process's thread keeps running, and an
  ended process is started again (the shipped compose files and a service
  manager do). A message that waits is received in the end unless the process
  keeps ending: `receive` is strongly fair because a broker error may end any
  single drain, but not all of them. The selector's status drain ends
  (`SF(SelectorExpire)`), because `drainQueue()` stops at an empty queue and a
  worker publishes at most once per interval. No client, signal or crash is
  ever forced to happen.
* `Messaging`: the thread keeps running and time passes. The broker neither
  fails every receive of a message that can be decoded nor refuses every
  acknowledgement (strong fairness of `Deliver` and `ack(TRUE)`).
* `StatusPropagation`: time passes, both threads keep running, the device and
  the broker do not fail every time, and the status drain ends. A process that
  ended need not be started again: the two liveness properties are conditional
  on which processes run in the end.

## The proofs

The proofs have one form: an inductive invariant, a lemma that the initial
states satisfy it, one lemma per action (or group of actions) that preserves it,
and theorems that combine these with `PTL`. Every safety property of a passing
run is proved, the two refinements of `TaskService` included.

* `TaskExecutionProofs`, for every number of circuits, timeout, slice time and
  set of counts. `IInv` adds to the properties what the loops rely on: the jobs
  vector lists the circuits in order and the device knows exactly those jobs;
  the histogram is what the device measured for a prefix of them, all done; the
  program location bounds both; `elapsed` is the time the current job alone was
  waited for; and the location says which late calls can have been made
  (`LateCallsStop`). Without the second, nothing would tie a collected count to
  the job it came from; without `elapsed`, the timeout could be another job's.
  Theorems: `TypeCorrect`, `ResultsAreFaithful`, `ShutdownCancelsSubmitted`,
  `TimeoutsArePerJob`, `WaitsAreBounded`, `LateCallsAreBounded`.
* `StandaloneProofs`, for any set of tasks and any number of failures. The
  accounting law is inductive together with the types and the fact that a task
  is in hand exactly at the two places that hold one (`IInv`). `AtMostOneAnswer`
  follows from it. `TasksMeetTheirEntry` (that no task meets a later entry than
  the one it was selected from) needs one fact more, that a process that ended
  leaves no scheduled task to the next. For `StandaloneImplementsTaskService`
  every step maps to a step of `TaskService` or to none. The accounting is what
  makes it work: of a task with a copy still queued, in hand or scheduled, and
  no failed acknowledgement, no copy can have been answered or lost. `RInv` adds
  that a task no client sent has no failed acknowledgement. The others are
  `TypeCorrect` and `CopiesAreAccountedFor`.
* `DistributedProofs`, for any finite sets of tasks, workers, devices and queues.
  `IInv` follows a task from the selector to its result: what is on a dispatch
  queue or in a worker's hands names a backend that suits it, and what is
  scheduled or submitted names the worker's own device besides. This gives
  `ExecutionFollowsAssignment`. `TInv` adds the types, and `FInv` what a worker
  holds at each place of its loop: nothing, or one copy that is either scheduled
  or submitted.
* `DistributedAccountingProofs` and `DistributedServiceProofs`. `AInv` adds to
  `FInv` the accounting of each task: intake, selector, dispatch queues,
  workers, answers and losses sum to the copies made. A step moves a copy
  between two places, so each lemma says how one sum changes when one summand
  does. The mapping to `TaskService` then goes as for `Standalone`, with the
  places of both processes.
* `DistributedTheorems` proves the laws of sums that the two modules above take
  as the hypothesis `SumLaws`: a sum over a finite set is a natural number, is
  zero when all summands are, and changes by as much as the one summand that
  changes. The sum is a fold, a recursion over a finite set; each law is proved
  by induction on the set of subsets for which it holds. Theorems:
  `DistributedTypes`, `OneTaskAtATime`, `DistributedTasksAccountedFor`,
  `DistributedImplementsTaskService`.
* `DaemonProofs` on `Messaging`, for any messages and timeouts. `IntakeInv` says
  that a wait is entered only with the flag clear, so that all that was waited
  since the flag is the current wait, and that a message in hand is the head of
  the queue until it is acknowledged. Theorems: `IntakeTypeCorrect`,
  `OnePollAfterTheFlag`, `MessagesAreHandled`.
* `DaemonProofs` on `OwnDevice`, for every time to live longer than the publish
  interval and every lag within the margin between them. `OwnInv` orders the
  clocks: a read ends no earlier than the slot claimed for it, on the way to
  `expire()` the last read was less than the interval ago when the lag began, and
  unless it failed the entry was refreshed by it. Theorems:
  `OwnTypeCorrect`, `NeverExpiresItself`, `OwnEntryIsFresh`.
* `DaemonProofs` on `TaskPreparation`, for any tasks, devices and formats.
  `CompilationIsAtomic` follows from `Staged`, which keeps the staged circuits
  apart from the task until the last one, and says of a task at the compiler that
  its level is valid, its backend has a target, and no circuit compiled so far
  was empty. `PublicationIsFaithful` rests on two
  lemmas: an unknown enumerator becomes UNSPECIFIED, which no circuit type, no
  compiler target and no online status stands for. `PInv` follows the task from
  the choice to the scheduler: the registry was made from the devices' answers,
  the chosen reading is complete and admits the task, and the target is the first
  format its backend accepts (`ChosenTarget`). What the scan of `chooseBackend()` returns is an induction over the
  names it has passed: after each name, the best of them by definition, or none
  if none suits. Theorems: `PreparationTypes`, `BestBackendIsChosen`,
  `ScheduledFormatFits`, `AdmittedIsPreparable`.
* `DeploymentProofs` on `StatusPropagation`, for any workers, names, queues,
  intervals and times to live. `IInv` adds two facts about each route (a name
  with a queue): the last of its statuses in the queue says what was sent last,
  and an entry without a waiting status was refreshed no longer ago than the
  route's last status was sent. The first carries `RegistryIsCurrent` through
  failed acknowledgements; the second ties the age that `expire()` compares,
  which counts from the receipt, to the worker's silence, and gives
  `DroppedAfterSilence` with the fact that a selector that is down has an empty
  registry. The others are `TypeCorrect` and `QueuesAreStable`.
* `DeploymentProofs` on `Configuration`, for any contents of file and
  environment. `ConfigInv` adds that every stage passed was sound and that each
  field read so far has the value of its strongest layer, which later fields do
  not overwrite because no two share a key. Theorems: `ConfigTypesHold`,
  `LoadingIsSound`, `LoadingIsComplete`, and `OnlyOverflowShortens`: the property
  that `ConfigurationTimeToLive` refutes holds of every time to live that can be
  counted in the clock's ticks, so the conversion is the only way to lose what
  the cross-field check established.

The bounds `MaxAckFailures`, `MaxSendFailures`, `MaxStops`, `MaxStatuses` and
`MaxNow` are arbitrary in the proofs. The type invariants of `TaskExecution`,
`OwnDevice`, `Standalone`, `Messaging` and `StatusPropagation` are proved and not
checked by a run; those of `TaskPreparation`, `Distributed` and `Configuration`
are both.

Each theorem assumes only the named `ASSUME`s of the modules it extends, which
TLC evaluates in the runs. Five of them say more than what type a constant has:

* `TimingAssumption` (`OwnDevice`) is what `assembleConfig()` enforces: the time
  to live is longer than the publish interval.
* `LagAssumption` (`OwnDevice`) bounds the lag by the difference of the two. No
  code enforces it: a worker whose status takes longer than that to send can
  expire its own entry. Reading the device and the rest of the turn may take any
  time.
* `DistributedAssumption` has finitely many tasks, workers, names and queues.
* `PreparationAssumption` has no device with an empty name in a process that
  selects and compiles: `assembleConfig()` refuses an empty `qdmiDeviceId`.
* `SetupAssumption` (`Configuration`) says what the parsers can return: a
  numeric field of the file holds an integer, nothing, or something of another
  type; of the environment's variables only the port's is parsed and can be
  malformed.

Only model-checked: the liveness properties (`ShutdownReturns`,
`BoundedWaitReturns`, both `EveryTaskAnswered`, both `TerminationIsHonoured`,
`TerminationHonoured`, `ReceiveNextReturns`, `WaitingIsReceived`,
`DeadWorkerForgotten`, `LivingWorkerReachable`), because reasoning about fairness
needs `ENABLED`, which the prover does not support; and the three properties
that the code violates, where TLC's counterexample is the result.

## Not modelled

* Logging, the texts of errors, and the label tables made for them.
* The bytes of a message and the options of a connection: the library that
  encodes and connects is not part of the repository.
* Device placement, and the fields of a backend that only the compiler reads:
  no daemon decides anything on them.
* Locating the configuration file.
* The inside of scheduler, compiler, submitter, driver and broker, which appear
  only through the outcomes of the calls made to them.
* The overloads without a termination flag: they behave as the others do in the
  behaviours in which the flag is never set.
* Endless arrival of tasks at the standalone daemon, which keeps it from ever
  executing one: `Standalone` sends each task once. `Messaging` has endless
  arrivals and shows that a signal still ends the drain.
