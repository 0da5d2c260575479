-------------------------- MODULE TaskPreparation --------------------------
(***************************************************************************)
(* One task from selection to the scheduler: the registry it meets, as it  *)
(* was read from devices or received from their workers; chooseBackend();  *)
(* compileAndSchedule()'s lookup and compileQuantumTask().  In the         *)
(* standalone daemon one registry, of its own device, serves both halves   *)
(* (shared); in the distributed deployment the selector chooses from what  *)
(* workers published and a worker looks the choice up in its own registry, *)
(* which may hold another backend or a newer reading.                      *)
(*                                                                         *)
(* Backend names are the numbers 1..MaxName, ordered as the code orders    *)
(* strings, and 0 is the empty name.  A circuit is "source", "empty" or    *)
(* "compiled".                                                             *)
(***************************************************************************)
EXTENDS BackendWrapper

CONSTANTS
  MaxName,         \* backend names are 1..MaxName
  Inputs,          \* a task, the devices behind the registry it meets, and
                   \* whether their process also compiles
  WorkerReadings   \* what the device of a worker may answer

Names == 1..MaxName
NoReading == <<>>

Formats == CircuitFormats \cup {"newer"}
Readings == [qubitsNum : Nat, status : BackendStatuses \cup {"newer"},
             formats : SUBSET Formats,
             errors : SUBSET (STRING \X STRING), queue : STRING]

Tasks == [type : CircuitTypes, noModify : BOOLEAN, preferred : Nat,
          restricted : SUBSET Nat, nQbits : Int, level : Int,
          circuits : Seq({"source", "empty"}), scheduled : {NoName}]

\* assembleConfig() rejects an empty qdmiDeviceId, so a process names its own
\* device; a published status may name none.
ASSUME PreparationAssumption ==
  /\ MaxName \in Nat
  /\ WorkerReadings \subseteq Readings
  /\ \A input \in Inputs :
       /\ input.task \in Tasks
       /\ DOMAIN input.devices \subseteq Names \cup {NoName}
       /\ \A n \in DOMAIN input.devices : input.devices[n] \in Readings
       /\ input.shared \in BOOLEAN
       /\ input.shared => NoName \notin DOMAIN input.devices

VARIABLES
  task,       \* the task, as the code changes it
  arrived,    \* history: the task as it was received
  shared,     \* the process that selects also compiles
  policy,     \* config.selector.selectionPolicy
  devices,    \* the readings the registry was made from, by device ID
  backends,   \* the registry: a function from some names to backends
  choice,     \* history: the reading of the chosen device
  pc,
  staging,    \* compiledCircuits
  failure     \* what went wrong, or "none"

vars == <<task, arrived, shared, policy, devices, backends, choice, pc, staging,
          failure>>
inputVars == <<arrived, shared, policy>>

\* A process that reads its own devices registers those it can read.
registerOwnDevice(readings) ==
  [n \in {n \in DOMAIN readings : readable(readings[n])} |->
     fromSubmitter(n, readings[n])]

\* The selector registers the valid statuses among those workers published.
registerPublished(readings) ==
  LET own == registerOwnDevice(readings)
  IN  [n \in {n \in DOMAIN own : valid(toBackend(own[n]))} |->
         fromPublishedStatus(toBackend(own[n]))]

\* Faulty variant: equally large backends are not compared by name.
beatsIncumbentByLastName(candidate, incumbent) ==
  IF policy = "SmallestSufficient"
  THEN backends[candidate].numQubits <= backends[incumbent].numQubits
  ELSE candidate < incumbent

beatsIncumbent(candidate, incumbent) ==
  IF /\ policy = "SmallestSufficient"
     /\ backends[candidate].numQubits # backends[incumbent].numQubits
  THEN backends[candidate].numQubits < backends[incumbent].numQubits
  ELSE candidate < incumbent

usable(name) ==
  /\ name \in DOMAIN backends
  /\ isOnline(backends[name])
  /\ canRun(backends[name], task)

Policies == {"LowestName", "SmallestSufficient"}

\* The winner among the first n names of a scan in the registry's order.
chosen[n \in 0..MaxName] ==
  IF n = 0 THEN NoName
  ELSE IF usable(n) /\ (chosen[n-1] = NoName \/ beatsIncumbent(n, chosen[n-1]))
       THEN n ELSE chosen[n-1]

\* The name the selection returns, NoName if it finds none.
chooseBackend ==
  IF task.preferred # NoName /\ usable(task.preferred)
  THEN task.preferred ELSE chosen[MaxName]

Init ==
  /\ \E input \in Inputs :
       /\ task = input.task /\ arrived = input.task
       /\ devices = input.devices /\ shared = input.shared
       /\ backends = IF shared THEN registerOwnDevice(devices)
                     ELSE registerPublished(devices)
  /\ choice = NoReading
  /\ policy \in Policies
  /\ pc = "choose"
  /\ staging = <<>>
  /\ failure = "none"

\* The Error returned: its kind, but CompilationFailed is told apart by cause.
Fail(cause) ==
  /\ failure' = cause
  /\ pc' = "failed"

\* chooseBackend() and the caller's set_scheduled_qpu().
Choose ==
  /\ pc = "choose"
  /\ LET name == chooseBackend
     IN  IF name = NoName
         THEN Fail("NoBackendAvailable") /\ UNCHANGED <<task, choice>>
         ELSE /\ task' = [task EXCEPT !.scheduled = name]
              /\ choice' = devices[name]
              /\ pc' = IF shared THEN "lookup" ELSE "dispatched"
              /\ UNCHANGED failure
  /\ UNCHANGED <<inputVars, devices, backends, staging>>

\* The task reaches a worker, whose registry holds its own device as it last
\* read it, or nothing once that entry has expired.
Dispatch ==
  /\ pc = "dispatched"
  /\ \E own \in Names, r \in WorkerReadings :
       devices' \in {[n \in {own} |-> r], [n \in {} |-> r]}
  /\ backends' = registerOwnDevice(devices')
  /\ pc' = "lookup"
  /\ UNCHANGED <<task, inputVars, choice, staging, failure>>

\* What compileQuantumTask() finds wrong with a task it has to compile, before
\* it compiles anything.
compileError(backend) ==
  IF \/ ~validateInputFormatIsSupportedCircuitFormat(task.type)
     \/ ~hasCompilerTarget(backend)
  THEN "UnsupportedFormat"
  ELSE IF getCompilerOptimizationLevel(task.level) = "invalid"
    THEN "InvalidLevel" ELSE "none"

\* compileAndSchedule()'s find(), and compileQuantumTask() up to its loop.
Lookup ==
  /\ pc = "lookup"
  /\ IF task.scheduled \notin DOMAIN backends THEN Fail("NoBackendAvailable")
     ELSE IF task.noModify THEN pc' = "scheduled" /\ UNCHANGED failure
     ELSE IF compileError(backends[task.scheduled]) # "none"
       THEN Fail(compileError(backends[task.scheduled]))
     ELSE pc' = "compile" /\ UNCHANGED failure
  /\ UNCHANGED <<task, inputVars, devices, backends, choice, staging>>

\* Faulty variant: each circuit is replaced in the task as it is compiled.
CompileCircuitInPlace ==
  /\ pc = "compile" /\ Len(staging) < Len(task.circuits)
  /\ \/ /\ task.circuits[Len(staging) + 1] # "empty"
        /\ staging' = Append(staging, "compiled")
        /\ task' = [task EXCEPT !.circuits[Len(staging) + 1] = "compiled"]
        /\ UNCHANGED <<pc, failure>>
     \/ Fail("CompilerFailed") /\ UNCHANGED <<task, staging>>
  /\ UNCHANGED <<inputVars, devices, backends, choice>>

\* Faulty variant: a circuit that does not compile is passed on as it is.
CompileCircuitLenient ==
  /\ pc = "compile" /\ Len(staging) < Len(task.circuits)
  /\ \E circuit \in {"compiled", task.circuits[Len(staging) + 1]} :
       staging' = Append(staging, circuit)
  /\ UNCHANGED <<task, inputVars, devices, backends, choice, pc, failure>>

\* One turn of the compilation loop: compileSource() may succeed, fail or
\* throw; an empty circuit never reaches it.
CompileCircuit ==
  /\ pc = "compile" /\ Len(staging) < Len(task.circuits)
  /\ \/ /\ task.circuits[Len(staging) + 1] = "empty"
        /\ Fail("EmptyCircuit") /\ UNCHANGED staging
     \/ /\ task.circuits[Len(staging) + 1] # "empty"
        /\ \/ staging' = Append(staging, "compiled") /\ UNCHANGED <<pc, failure>>
           \/ Fail("CompilerFailed") /\ UNCHANGED staging
  /\ UNCHANGED <<task, inputVars, devices, backends, choice>>

\* Every circuit compiled: the task takes them and the target's label.
CompileCommit ==
  /\ pc = "compile" /\ Len(staging) = Len(task.circuits)
  /\ LET target == compilerTarget(backends[task.scheduled])
     IN  task' = [task EXCEPT !.circuits = staging,
                              !.type = target.taskCircuitType]
  /\ pc' = "scheduled"
  /\ UNCHANGED <<inputVars, devices, backends, choice, staging, failure>>

Done == pc \in {"scheduled", "failed"} /\ UNCHANGED vars

Next == Choose \/ Dispatch \/ Lookup \/ CompileCircuit \/ CompileCommit \/ Done

Spec == Init /\ [][Next]_vars

(***************************************************************************)
(* Properties.                                                             *)
(***************************************************************************)

TypeOK ==
  /\ DOMAIN backends \subseteq Names
  /\ \A n \in DOMAIN backends :
       /\ backends[n].name = n /\ backends[n].numQubits \in 0..UInt32Range-1
       /\ ~shared /\ pc \in {"choose", "dispatched"}
            => /\ backends[n].status \in BackendStatuses
               /\ backends[n].formats \subseteq CircuitFormats
  /\ choice = NoReading \/ choice \in Readings
  /\ task.scheduled \in Names \cup {NoName}
  /\ task.type \in CircuitTypes
  /\ pc \in {"choose", "dispatched", "lookup", "compile", "scheduled", "failed"}
  /\ staging \in Seq({"compiled"}) /\ Len(staging) <= Len(task.circuits)
  /\ failure \in {"none", "NoBackendAvailable", "UnsupportedFormat",
                  "InvalidLevel", "EmptyCircuit", "CompilerFailed"}

\* The devices that suit the task that arrived, stated on what they answered
\* and without the code's helpers: read in full, routable, online, large
\* enough, allowed, and either accepting the circuits as they are or fed by
\* a compiler that reads them.  A count past uint32_t is cut to its width.
Size(n) == devices[n].qubitsNum % UInt32Range
Suitable ==
  {n \in DOMAIN devices \ {NoName} :
     /\ devices[n].errors \subseteq {<<"couplingMap", "NotSupported">>}
     /\ ~shared => devices[n].queue # ""
     /\ devices[n].status \in {"IDLE", "BUSY"}
     /\ arrived.nQbits \in 0..Size(n)
     /\ arrived.restricted = {} \/ n \in arrived.restricted
     /\ \/ /\ arrived.noModify
           /\ arrived.type # "other"
           /\ mapTaskCircuitTypeToCircuitFormat(arrived.type) \in devices[n].formats
        \/ /\ ~arrived.noModify
           /\ \/ arrived.type = "quake" /\ "cudaq-quake" \in SupportedInputFormats
              \/ arrived.type = "catalyst" /\ "catalyst-quantum" \in SupportedInputFormats
           /\ {"IQMJSON", "QASM2", "QIRBASESTRING", "QIRADAPTIVESTRING"}
                \cap devices[n].formats # {}}

\* m comes before n: the smaller one, if the policy looks at sizes, and by
\* name among those it does not tell apart.
Rank(n) == IF policy = "LowestName" THEN 0 ELSE Size(n)
Better(m, n) ==
  \/ Rank(m) < Rank(n)
  \/ Rank(m) = Rank(n) /\ m < n

\* Through reading, publishing and rebuilding, chooseBackend() picks a device
\* that really is large enough: a suitable preferred one, else the first by
\* policy and then by name, whatever the order it scans in; and it fails
\* only when no device suits the task.
ChosenIsBest ==
  /\ (shared \/ pc = "dispatched") /\ task.scheduled # NoName
       => /\ arrived.nQbits <= devices[task.scheduled].qubitsNum
          /\ task.scheduled \in Suitable
          /\ arrived.preferred \in Suitable => task.scheduled = arrived.preferred
          /\ arrived.preferred \notin Suitable
               => \A n \in Suitable \ {task.scheduled} : Better(task.scheduled, n)
  /\ pc = "failed" /\ task.scheduled = NoName => Suitable = {}

\* A status means the same on both ends of the wire: what the selector
\* rebuilt from a message admits a task exactly when the worker's own reading
\* would, though unknown enumerators are normalised on one end only.
PublishingPreservesAdmission ==
  ~shared /\ pc \in {"choose", "dispatched"}
    => \A n \in DOMAIN backends :
         LET own == fromSubmitter(n, devices[n])
         IN  usable(n) <=> isOnline(own) /\ canRun(own, task)

\* compileQuantumTask() changes all of the task's circuits and its label, or
\* nothing: a failure at any circuit leaves the task as it arrived.
CompileIsAtomic ==
  \/ task = [arrived EXCEPT !.scheduled = task.scheduled]
  \/ /\ pc = "scheduled" /\ ~arrived.noModify
     /\ task.circuits = [i \in DOMAIN arrived.circuits |-> "compiled"]
     /\ task.type \in {"iqmjson", "qasm2", "qirbase", "qiradaptive"}

\* The registry that is looked up holds the reading the choice was made on:
\* in one process always, in a worker if its device answers as it did before.
SameReading ==
  /\ task.scheduled \in DOMAIN devices
  /\ choice = devices[task.scheduled]

\* What the compiler should write for a backend: the first of its outputs, in
\* their order of priority, that the backend accepts.
FirstAccepted(formats) ==
  IF "IQMJSON" \in formats THEN "iqmjson"
  ELSE IF "QASM2" \in formats THEN "qasm2"
  ELSE IF "QIRBASESTRING" \in formats THEN "qirbase"
  ELSE "qiradaptive"

\* A task given to the scheduler is labelled with a known format that the
\* backend it was compiled for accepts, and a compiled one with the first such
\* format; only a no_modify task whose worker's device answers differently
\* than when it was chosen is sent unchecked.
ScheduledFormatIsSupported ==
  pc = "scheduled" /\ (task.noModify => SameReading)
    => LET formats == backends[task.scheduled].formats
       IN  /\ mapTaskCircuitTypeToCircuitFormat(task.type) # "UNSPECIFIED"
           /\ mapTaskCircuitTypeToCircuitFormat(task.type) \in formats
           /\ ~task.noModify => task.type = FirstAccepted(formats)

\* canRun() settles formats and backend "at admission, rather than later at
\* compilation": in one process, and in a worker whose device answers as it did
\* when it was chosen, an admitted task is never refused for either again.
\* canRun() looks neither at the optimisation level nor into the circuits, so
\* a task to be compiled is still refused before the compiler is called for an
\* invalid level or an empty circuit, but only for one it has; any other
\* failure is the compiler's own, and no task with such a defect is scheduled.
AdmissionIsSound ==
  LET badLevel == arrived.level \notin 0..3
      empty    == \E i \in DOMAIN arrived.circuits : arrived.circuits[i] = "empty"
  IN  /\ shared /\ task.scheduled # NoName => SameReading
      /\ task.scheduled # NoName /\ SameReading
           => /\ failure \notin {"NoBackendAvailable", "UnsupportedFormat"}
              /\ failure = "InvalidLevel" => ~arrived.noModify /\ badLevel
              /\ failure = "EmptyCircuit" => ~arrived.noModify /\ empty
      /\ pc = "scheduled" /\ ~arrived.noModify => ~badLevel /\ ~empty
=============================================================================
