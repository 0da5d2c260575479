------------------------ MODULE CircuitFormatPolicy ------------------------
(***************************************************************************)
(* Which circuit formats a task may be submitted in, which the compiler    *)
(* reads and writes, and whether a task can be prepared for a backend.     *)
(* "other" stands for every circuit type the code does not name.           *)
(***************************************************************************)
EXTENDS Integers, Sequences

\* MQSSCompiler::getSupportedInputFormats().
CONSTANT SupportedInputFormats

CircuitTypes == {"iqmjson", "qasm", "qasm2", "qasm3", "qir", "qirbase",
                 "quake", "catalyst", "qiradaptive", "other"}

CircuitFormats == {"IQMJSON", "QASM2", "QASM3", "QIRBASESTRING",
                   "QIRADAPTIVESTRING", "QIRBASEMODULE", "UNSPECIFIED"}

Target(format, type) == [circuitFormat |-> format, taskCircuitType |-> type]

CompilerTargetPriority ==
  << Target("IQMJSON", "iqmjson"), Target("QASM2", "qasm2"),
     Target("QIRBASESTRING", "qirbase"),
     Target("QIRADAPTIVESTRING", "qiradaptive") >>

mapTaskCircuitTypeToCircuitFormat(type) ==
  CASE type = "iqmjson" -> "IQMJSON"
    [] type \in {"qasm", "qasm2"} -> "QASM2"
    [] type = "qasm3" -> "QASM3"
    [] type \in {"qir", "qirbase", "quake", "catalyst"} -> "QIRBASESTRING"
    [] type = "qiradaptive" -> "QIRADAPTIVESTRING"
    [] OTHER -> "UNSPECIFIED"

usableTargets(formats) ==
  {i \in DOMAIN CompilerTargetPriority :
     CompilerTargetPriority[i].circuitFormat \in formats}

\* Faulty variant: the last target that the backend accepts.
chooseCompilerTargetLast(formats) ==
  CompilerTargetPriority[CHOOSE i \in usableTargets(formats) :
                           \A j \in usableTargets(formats) : i >= j]

\* The first target, in priority order, that the backend accepts; defined
\* only where usableTargets(formats) # {}.
chooseCompilerTarget(formats) ==
  CompilerTargetPriority[CHOOSE i \in usableTargets(formats) :
                           \A j \in usableTargets(formats) : i <= j]

CompilerInputFormat == [quake |-> "cudaq-quake", catalyst |-> "catalyst-quantum"]

validateInputFormatIsSupportedCircuitFormat(type) ==
  /\ type \in DOMAIN CompilerInputFormat
  /\ CompilerInputFormat[type] \in SupportedInputFormats

\* Faulty variant: a task to be compiled needs no target.
canPrepareTaskForBackendNoTarget(task, formats) ==
  IF task.noModify
  THEN /\ mapTaskCircuitTypeToCircuitFormat(task.type) # "UNSPECIFIED"
       /\ mapTaskCircuitTypeToCircuitFormat(task.type) \in formats
  ELSE validateInputFormatIsSupportedCircuitFormat(task.type)

canPrepareTaskForBackend(task, formats) ==
  IF task.noModify
  THEN /\ mapTaskCircuitTypeToCircuitFormat(task.type) # "UNSPECIFIED"
       /\ mapTaskCircuitTypeToCircuitFormat(task.type) \in formats
  ELSE /\ validateInputFormatIsSupportedCircuitFormat(task.type)
       /\ usableTargets(formats) # {}
=============================================================================
