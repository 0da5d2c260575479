------------------------- MODULE MCTaskPreparation -------------------------
(***************************************************************************)
(* The instance of TaskPreparation: some inputs vary what selection looks  *)
(* at, some what the conversions of a backend look at, others what         *)
(* compilation looks at.                                                   *)
(***************************************************************************)
EXTENDS TaskPreparation

MCSupportedInputFormats == {"cudaq-quake"}

Task(type, noModify, preferred, restricted, nQbits, level, circuits) ==
  [type |-> type, noModify |-> noModify, preferred |-> preferred,
   restricted |-> restricted, nQbits |-> nQbits, level |-> level,
   circuits |-> circuits, scheduled |-> NoName]

Reading(qubitsNum, status, formats) ==
  [qubitsNum |-> qubitsNum, status |-> status, formats |-> formats,
   errors |-> {}, queue |-> "queue"]

\* The devices of some of the names, with readings of S.
Over(names, S) == UNION {[N -> S] : N \in SUBSET names}
\* A process that also compiles never publishes: it names no queue.
Unpublished(S) == {[r EXCEPT !.queue = ""] : r \in S}
Input(tasks, devs, oneProcess) ==
  [task : tasks, devices : devs, shared : {oneProcess}]

\* Selection: every preference and allow-list, sizes below, at and above the
\* devices', a type that is compiled and one that is sent as it is.
SelectionTasks ==
  {Task(type, type # "quake", preferred, restricted, nQbits, 2, <<"source">>) :
     type \in {"quake", "qasm"}, preferred \in 0..3,
     restricted \in {{}, {1}, {2, 3}}, nQbits \in {-1, 1, 2}}
SelectionReadings ==
  {Reading(qubitsNum, "IDLE", {"QASM2"}) : qubitsNum \in {1, 2}}
    \cup {Reading(2, "BUSY", {"QASM3"}), Reading(2, "OFFLINE", {"QASM2"})}

\* Conversion: counts around the width, unknown enumerators, each query
\* failing, no queue; and tasks whose type no known format matches.
ConversionTasks ==
  {Task(type, type # "quake", 0, {}, nQbits, 2, <<"source">>) :
     type \in {"quake", "qasm", "other"}, nQbits \in 0..3}
ConversionReadings ==
  LET plain == Reading(2, "BUSY", {"QASM2", "newer"})
  IN  {Reading(qubitsNum, "IDLE", {"QASM2"}) : qubitsNum \in {2, 3, 4, 6, 7}}
        \cup {plain, [plain EXCEPT !.status = "newer"],
              [plain EXCEPT !.formats = {"newer"}], [plain EXCEPT !.queue = ""]}
        \cup {[plain EXCEPT !.errors = {<<query, code>>}] :
                query \in {"qubitsNum", "status", "operationNames",
                           "couplingMap", "supportedPayloadFormats"},
                code \in {"NotSupported", "Fatal"}}

\* Compilation: every circuit type, optimisation levels at the edges, and
\* none, one or two circuits, some empty.
CompilationTasks ==
  {Task(type, noModify, 0, {}, 1, level, circuits) :
     type \in CircuitTypes, noModify \in BOOLEAN, level \in {-1, 0, 3, 4},
     circuits \in {<<>>, <<"source">>, <<"source", "source">>, <<"source", "empty">>}}
CompilationReadings ==
  {Reading(1, "IDLE", formats) :
     formats \in {F \in SUBSET CircuitFormats : F # {}}}

MCWorkerReadings ==
  SelectionReadings \cup {Reading(6, "IDLE", {"QASM2"}), Reading(2, "BUSY", {"QASM2", "newer"})}
MCInputs ==
  Input(SelectionTasks, Over({1}, Unpublished(SelectionReadings)), TRUE)
    \cup Input(SelectionTasks, Over(1..3, SelectionReadings), FALSE)
    \cup Input(ConversionTasks, Over({1}, Unpublished(ConversionReadings)), TRUE)
    \cup Input(ConversionTasks, Over(0..1, ConversionReadings), FALSE)
    \cup Input(CompilationTasks, Over({1}, Unpublished(CompilationReadings)), TRUE)
=============================================================================
