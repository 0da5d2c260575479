-------------------------- MODULE BackendWrapper ---------------------------
(***************************************************************************)
(* A backend as the pipeline sees it, and the three ways it changes form:  *)
(* read from a device, published as a status message, and rebuilt from a   *)
(* message that another process, perhaps a newer one, published.           *)
(*                                                                         *)
(* A reading is what a device answered to the five queries: qubitsNum,     *)
(* status, formats, and the set errors of the <<query, code>> that failed; *)
(* with the queue its process takes tasks from ("" if it never publishes). *)
(* "newer" stands for an enumerator this build does not know.  Of the rest *)
(* of a backend (type, instructions, connectivity, load) nothing here is   *)
(* decided.                                                                *)
(***************************************************************************)
EXTENDS CircuitFormatPolicy

CONSTANT UInt32Range    \* the number of values of a uint32_t

ASSUME WidthAssumption == UInt32Range \in Nat \ {0}

NoName == 0

BackendStatuses == {"UNSPECIFIED", "IDLE", "BUSY", "OFFLINE", "ERROR",
                    "MAINTENANCE", "CALIBRATION"}

\* Faulty variant: an unknown format is taken for the most common one.
mapProtoCircuitFormatDefaulted(format) ==
  IF format \in CircuitFormats THEN format ELSE "QASM2"

mapProtoCircuitFormat(format) ==
  IF format \in CircuitFormats THEN format ELSE "UNSPECIFIED"

mapProtoBackendStatus(status) ==
  IF status \in BackendStatuses THEN status ELSE "UNSPECIFIED"

getCompilerOptimizationLevel(level) ==
  CASE level \in {0, 1} -> "O1"
    [] level = 2 -> "O2"
    [] level = 3 -> "O3"
    [] OTHER -> "invalid"

isOnlineBackendStatus(status) == status \in {"IDLE", "BUSY"}

\* fromSubmitter() has a value: no query failed, except that a device need
\* not know its coupling map.
readable(reading) == reading.errors \subseteq {<<"couplingMap", "NotSupported">>}

fromSubmitter(name, reading) ==
  [name |-> name, numQubits |-> reading.qubitsNum % UInt32Range,
   status |-> reading.status, formats |-> reading.formats,
   queueName |-> reading.queue]

toBackend(backend) ==
  [name |-> backend.name, num_qubits |-> backend.numQubits,
   status |-> backend.status, queue_name |-> backend.queueName,
   supported_circuit_formats |-> backend.formats]

\* fromPublishedStatus() has a value.
valid(message) == message.name # NoName /\ message.queue_name # ""

fromPublishedStatus(message) ==
  [name |-> message.name, numQubits |-> message.num_qubits,
   status |-> mapProtoBackendStatus(message.status),
   formats |-> {mapProtoCircuitFormat(f) : f \in message.supported_circuit_formats},
   queueName |-> message.queue_name]

isOnline(backend) == isOnlineBackendStatus(backend.status)

canRun(backend, task) ==
  /\ task.nQbits >= 0 /\ task.nQbits <= backend.numQubits
  /\ task.restricted # {} => backend.name \in task.restricted
  /\ canPrepareTaskForBackend(task, backend.formats)

\* compilerTarget() has a value, and that value.
hasCompilerTarget(backend) == usableTargets(backend.formats) # {}
compilerTarget(backend) == chooseCompilerTarget(backend.formats)
=============================================================================
