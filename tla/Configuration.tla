--------------------------- MODULE Configuration ---------------------------
(***************************************************************************)
(* loadConfig(): a configuration is assembled from defaults, an optional   *)
(* TOML file and the environment, field by field in a fixed order, and the *)
(* first fault ends it with an error that names a key.                     *)
(*                                                                         *)
(* A string is "default", "file", "env", the empty string, or one of the   *)
(* two policies; an integer stands for itself.  Absent is a key or         *)
(* variable that is not there; Malformed a value of the wrong type, or a   *)
(* variable that is not an integer.  Durations keep their unit: seconds or *)
(* milliseconds, converted where the code compares or uses them.           *)
(***************************************************************************)
EXTENDS Integers, Sequences

CONSTANTS
  Absent, Malformed,
  Setups,        \* what the daemon may find: its file and its environment
  MsPerSecond,
  TicksPerMs,    \* the steady clock's ticks, nanoseconds, in a millisecond
  Int64Max       \* the largest count of a chrono duration

ASSUME ConfigurationAssumption ==
  /\ MsPerSecond \in Nat \ {0} /\ TicksPerMs \in Nat \ {0}
  /\ Int64Max \in Nat

Field(key, kind, overridable) ==
  [key |-> key, kind |-> kind, overridable |-> overridable]

\* The fields in the order assembleConfig() reads them.
Fields ==
  << Field("common.logDir", "string", TRUE),
     Field("common.connection.host", "required", TRUE),
     Field("common.connection.port", "port", TRUE),
     Field("common.connection.user", "string", TRUE),
     Field("common.connection.password", "string", TRUE),
     Field("common.connection.vhost", "string", TRUE),
     Field("common.daemonLogger", "string", FALSE),
     Field("common.qrmciQueue", "required", TRUE),
     Field("common.resultsQueue", "string", TRUE),
     Field("common.schedulerQueue", "string", TRUE),
     Field("common.schedulerLogger", "string", FALSE),
     Field("common.stagePollInterval", "positive", FALSE),
     Field("selector.backendStatusQueue", "required", TRUE),
     Field("selector.logger", "string", FALSE),
     Field("selector.backendRegistry.entryTimeToLive", "positive", FALSE),
     Field("selector.selectionPolicy", "policy", FALSE),
     Field("compiler.queue", "required", TRUE),
     Field("compiler.logger", "string", FALSE),
     Field("compiler.taskReceiveTimeout", "nonNegative", FALSE),
     Field("submitter.queue", "string", TRUE),
     Field("submitter.logger", "string", FALSE),
     Field("submitter.qdmiDriver", "required", TRUE),
     Field("submitter.qdmiDeviceName", "required", TRUE),
     Field("submitter.qdmiDeviceId", "required", TRUE),
     Field("submitter.qdmiClientToken", "string", TRUE),
     Field("submitter.jobWaitTimeout", "nonNegative", FALSE),
     Field("submitter.backendRegistry.entryTimeToLive", "positive", FALSE),
     Field("submitter.backendStatusPublishInterval", "positive", FALSE) >>

\* A number is an integer in the file and, for the port, in its variable;
\* every other variable is a string, which is never malformed.
ASSUME SetupAssumption ==
  /\ Absent # Malformed
  /\ {Absent, Malformed} \cap (Int \cup {"default", "lowest-name"}) = {}
  /\ \A s \in Setups, i \in DOMAIN Fields :
       /\ Fields[i].kind \in {"port", "positive", "nonNegative"} =>
            s.file[Fields[i].key] \in Int \cup {Absent, Malformed}
       /\ IF Fields[i].kind = "port"
          THEN s.env[Fields[i].key] \in Int \cup {Absent, Malformed}
          ELSE s.env[Fields[i].key] # Malformed

Keys == {Fields[i].key : i \in DOMAIN Fields}

\* The tables in the order checkSchema() walks them; "" is the root.
Tables ==
  << "", "common", "common.connection", "selector", "selector.backendRegistry",
     "compiler", "submitter", "submitter.backendRegistry" >>

\* The defaults that are numbers or are parsed; every other one is a string.
Default(field) ==
  CASE field.key = "common.connection.port" -> 5672
    [] field.key = "common.stagePollInterval" -> MsPerSecond \div 10
    [] field.key = "selector.backendRegistry.entryTimeToLive" -> 30
    [] field.key = "submitter.backendRegistry.entryTimeToLive" -> 30
    [] field.key = "submitter.backendStatusPublishInterval" -> 5 * MsPerSecond
    [] field.key = "compiler.taskReceiveTimeout" -> MsPerSecond \div 2
    [] field.key = "submitter.jobWaitTimeout" -> 0
    [] field.key = "selector.selectionPolicy" -> "lowest-name"
    [] OTHER -> "default"

VARIABLES
  setup,   \* [parses, tables, file, env]
  phase,   \* "parse", "schema", "fields", "timing", "loaded" or "error"
  index,   \* the next table or field
  config,  \* the fields read so far
  error    \* what the error names

configVars == <<setup, phase, index, config, error>>

ConfigInit ==
  /\ setup \in Setups
  /\ phase = "parse" /\ index = 1 /\ error = ""
  /\ config = [key \in {} |-> ""]

Reject(name) == phase' = "error" /\ error' = name /\ UNCHANGED <<index, config>>

\* A missing file is an empty table, one that does not parse an error.
parseConfigFile ==
  /\ phase = "parse"
  /\ IF ~setup.parses THEN Reject("file")
     ELSE phase' = "schema" /\ UNCHANGED <<index, config, error>>
  /\ UNCHANGED setup

\* One table: it must be a table and hold no unknown key.
checkTableKeys ==
  /\ phase = "schema"
  /\ IF setup.tables[Tables[index]] # "ok" THEN Reject(Tables[index])
     ELSE IF index < Len(Tables)
       THEN index' = index + 1 /\ UNCHANGED <<phase, config, error>>
     ELSE phase' = "fields" /\ index' = 1 /\ UNCHANGED <<config, error>>
  /\ UNCHANGED setup

\* The file's value of a field, the default if the key is absent; and the
\* environment's value over it, for the fields that have a variable.
tomlValueOr(field) ==
  IF setup.file[field.key] = Absent THEN Default(field) ELSE setup.file[field.key]

\* Faulty variant: the file's value wins over the environment's.
resolvedFileFirst(field) ==
  IF setup.file[field.key] = Absent /\ field.overridable /\ setup.env[field.key] # Absent
  THEN setup.env[field.key] ELSE tomlValueOr(field)

resolved(field) ==
  IF field.overridable /\ setup.env[field.key] # Absent
  THEN setup.env[field.key] ELSE tomlValueOr(field)

MaxPort == 65535

inRange(field, value) ==
  CASE field.kind = "string" -> TRUE
    [] field.kind = "required" -> value # ""
    [] field.kind = "port" -> value \in 1..MaxPort
    [] field.kind = "policy" -> value \in {"lowest-name", "smallest-sufficient"}
    [] field.kind = "positive" -> value > 0
    [] field.kind = "nonNegative" -> value >= 0

\* Faulty variant: the file is not read for a field the environment sets.
ReadFieldLazily ==
  /\ phase = "fields"
  /\ LET field == Fields[index]
         value == resolved(field)
     IN  IF value = Malformed \/ ~inRange(field, value) THEN Reject(field.key)
         ELSE /\ config' = [key \in DOMAIN config \cup {field.key} |->
                              IF key = field.key THEN value ELSE config[key]]
              /\ index' = index + 1
              /\ phase' = IF index = Len(Fields) THEN "timing" ELSE "fields"
              /\ UNCHANGED error
  /\ UNCHANGED setup

\* Faulty variant: the loop over the fields runs one past the last.
ReadFieldPastEnd ==
  /\ phase = "fields"
  /\ LET field == Fields[index]
         value == resolved(field)
     IN  IF setup.file[field.key] = Malformed THEN Reject(field.key)
         ELSE IF value = Malformed THEN Reject("QRMCI_AMQP_PORT")
         ELSE IF ~inRange(field, value) THEN Reject(field.key)
         ELSE /\ config' = [key \in DOMAIN config \cup {field.key} |->
                              IF key = field.key THEN value ELSE config[key]]
              /\ index' = index + 1
              /\ phase' = IF index > Len(Fields) THEN "timing" ELSE "fields"
              /\ UNCHANGED error
  /\ UNCHANGED setup

\* One field: a file value of the wrong type is an error even where the
\* environment overrides it; a port variable that is no integer is an error
\* naming the variable; then the resolved value is checked.
ReadField ==
  /\ phase = "fields"
  /\ LET field == Fields[index]
         value == resolved(field)
     IN  IF setup.file[field.key] = Malformed THEN Reject(field.key)
         ELSE IF value = Malformed THEN Reject("QRMCI_AMQP_PORT")
         ELSE IF ~inRange(field, value) THEN Reject(field.key)
         ELSE /\ config' = [key \in DOMAIN config \cup {field.key} |->
                              IF key = field.key THEN value ELSE config[key]]
              /\ index' = index + 1
              /\ phase' = IF index = Len(Fields) THEN "timing" ELSE "fields"
              /\ UNCHANGED error
  /\ UNCHANGED setup

\* The count of a duration after a conversion: signed 64-bit arithmetic, which
\* wraps in the code compilers emit for it.
toInt64(count) ==
  LET span == 2 * (Int64Max + 1)
      low  == count % span
  IN  IF low <= Int64Max THEN low ELSE low - span

timeToLive == config["submitter.backendRegistry.entryTimeToLive"]
publishInterval == config["submitter.backendStatusPublishInterval"]

\* The check across two fields, in their common unit, milliseconds.
CheckTimeToLive ==
  /\ phase = "timing"
  /\ IF toInt64(timeToLive * MsPerSecond) <= publishInterval
     THEN Reject("submitter.backendRegistry.entryTimeToLive")
     ELSE phase' = "loaded" /\ UNCHANGED <<index, config, error>>
  /\ UNCHANGED setup

Ended == phase \in {"loaded", "error"} /\ UNCHANGED configVars

ConfigNext == parseConfigFile \/ checkTableKeys \/ ReadField \/ CheckTimeToLive \/ Ended

ConfigSpec == ConfigInit /\ [][ConfigNext]_configVars

(***************************************************************************)
(* Properties.                                                             *)
(***************************************************************************)

ConfigTypeOK ==
  /\ phase \in {"parse", "schema", "fields", "timing", "loaded", "error"}
  /\ index \in 1..(Len(Fields) + 1)
  /\ phase = "fields" => index \in DOMAIN Fields
  /\ DOMAIN config \subseteq Keys
  /\ error \in Keys \cup {Tables[i] : i \in DOMAIN Tables}
                    \cup {"", "file", "QRMCI_AMQP_PORT"}

\* The values the layers give a field, the strongest first, and the first of
\* them that is there.
Layers(field) ==
  <<IF field.overridable THEN setup.env[field.key] ELSE Absent,
    setup.file[field.key], Default(field)>>
Strongest(field) ==
  LET present == {n \in 1..3 : Layers(field)[n] # Absent}
  IN  Layers(field)[CHOOSE n \in present : \A m \in present : n <= m]

NeverEmpty ==
  {"common.connection.host", "common.qrmciQueue", "compiler.queue",
   "selector.backendStatusQueue", "submitter.qdmiDriver",
   "submitter.qdmiDeviceName", "submitter.qdmiDeviceId"}
AboveZero ==
  {"common.stagePollInterval", "selector.backendRegistry.entryTimeToLive",
   "submitter.backendRegistry.entryTimeToLive",
   "submitter.backendStatusPublishInterval"}

\* getting-started.md's list of what a value may not be.
Faulty(field) ==
  LET value == Strongest(field)
  IN  \/ setup.file[field.key] = Malformed \/ value = Malformed
      \/ field.key \in NeverEmpty /\ value = ""
      \/ field.key \in AboveZero /\ value <= 0
      \/ field.key \in {"compiler.taskReceiveTimeout", "submitter.jobWaitTimeout"} /\ value < 0
      \/ field.key = "common.connection.port" /\ (value < 1 \/ value > MaxPort)
      \/ field.key = "selector.selectionPolicy"
           /\ value # "lowest-name" /\ value # "smallest-sufficient"

FitsSchema ==
  setup.parses /\ \A i \in DOMAIN Tables : setup.tables[Tables[i]] = "ok"

\* A configuration is loaded only from a file that parses and fits the schema
\* and from values none of which is at fault, overridden ones of the wrong
\* type included; each field then has its strongest layer's value, and the
\* own registry entry outlives the interval between its refreshes.
LoadedIsFaultless ==
  phase = "loaded" =>
    /\ FitsSchema
    /\ \A i \in DOMAIN Fields :
         ~Faulty(Fields[i]) /\ config[Fields[i].key] = Strongest(Fields[i])
    /\ timeToLive * MsPerSecond > publishInterval

\* A rejected configuration has a fault, and of several the error names the
\* first: nothing sound is refused, and no field hides an earlier one's fault.
\* Only a time to live too long to count in milliseconds may be refused as too
\* short.
FailsAtFirstFault ==
  phase = "error" =>
    \/ error = "file" /\ ~setup.parses
    \/ /\ setup.parses
       /\ \E i \in DOMAIN Tables :
            /\ error = Tables[i] /\ setup.tables[Tables[i]] # "ok"
            /\ \A j \in 1..(i - 1) : setup.tables[Tables[j]] = "ok"
    \/ /\ FitsSchema
       /\ \E i \in DOMAIN Fields :
            /\ \A j \in 1..(i - 1) : ~Faulty(Fields[j])
            /\ Faulty(Fields[i])
            /\ \/ error = Fields[i].key
               \/ error = "QRMCI_AMQP_PORT" /\ Fields[i].kind = "port"
    \/ /\ FitsSchema /\ \A i \in DOMAIN Fields : ~Faulty(Fields[i])
       /\ error = "submitter.backendRegistry.entryTimeToLive"
       /\ \/ timeToLive * MsPerSecond <= publishInterval
          \/ timeToLive * MsPerSecond > Int64Max

\* Config.cpp: the submitter's registry TTL "must outlive the interval between
\* its own status publications, or a freshly-published entry could expire
\* before the next publication refreshes it".  The registry and the throttle
\* measure both in ticks of the steady clock.
TimeToLiveOutlivesInterval ==
  phase = "loaded" =>
    toInt64(timeToLive * MsPerSecond * TicksPerMs)
      > toInt64(publishInterval * TicksPerMs)
=============================================================================
