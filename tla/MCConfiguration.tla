-------------------------- MODULE MCConfiguration --------------------------
(***************************************************************************)
(* Instances of Configuration: files and environments that leave most keys *)
(* out and vary a few together, at and around the edges of their ranges.   *)
(***************************************************************************)
EXTENDS Configuration, TLC

Only(values) ==
  [key \in Keys |-> IF key \in DOMAIN values THEN values[key] ELSE Absent]
Setup(file, env) ==
  [parses |-> TRUE, tables |-> [t \in {Tables[i] : i \in DOMAIN Tables} |-> "ok"],
   file |-> Only(file), env |-> Only(env)]

Host == "common.connection.host"
Port == "common.connection.port"
Own == "submitter.backendRegistry.entryTimeToLive"
Interval == "submitter.backendStatusPublishInterval"

\* Two fields with variables, one of them an integer, in both layers.
ConnectionSetups ==
  {Setup(Host :> h @@ Port :> p, Host :> eh @@ Port :> ep) :
     h \in {Absent, Malformed, "", "file"}, eh \in {Absent, "", "env"},
     p \in {Absent, Malformed, 0, 1, 65535, 65536},
     ep \in {Absent, Malformed, 0, 5673}}

\* The longest time to live that can be counted in milliseconds.
Longest == Int64Max \div MsPerSecond

\* The durations, with the own entry's at the edge of its cross-field check.
TimingSetups ==
  {Setup(Own :> ttl @@ Interval :> interval
           @@ "selector.backendRegistry.entryTimeToLive" :> selector
           @@ "submitter.jobWaitTimeout" :> wait, Own :> Absent) :
     ttl \in {Absent, Malformed, -1, 0, 4, 5, 6, Longest + 1, 2 * (Longest + 1)},
     interval \in {Absent, Malformed, 0, 1, 5 * MsPerSecond - 1,
                   5 * MsPerSecond, 5 * MsPerSecond + 1},
     selector \in {Absent, 0, 1}, wait \in {Absent, -1, 0}}

\* Fields without a variable (one set in the environment has no effect), the
\* policy, and files that do not parse or do not fit the schema.
OtherSetups ==
  {Setup("selector.selectionPolicy" :> policy @@ "common.daemonLogger" :> logger
           @@ "common.logDir" :> dir, "common.logDir" :> edir @@ "common.daemonLogger" :> "env") :
     policy \in {Absent, Malformed, "lowest-name", "smallest-sufficient", "file"},
     logger \in {Absent, Malformed, ""}, dir \in {Absent, Malformed, ""},
     edir \in {Absent, "env"}}
BadFiles ==
  {[Setup(Port :> 0, Port :> ep) EXCEPT !.parses = parses, !.tables[a] = state, !.tables[b] = "unknownKey"] :
     ep \in {Absent, 1}, parses \in BOOLEAN, state \in {"unknownKey", "notATable"},
     a \in {"common", "selector.backendRegistry"}, b \in {"common.connection", "submitter"}}

LoadingSetups == ConnectionSetups \cup TimingSetups \cup OtherSetups \cup BadFiles

\* A time to live of some centuries, scaled to the clock of this instance.
LongSetups ==
  {Setup(Own :> ttl, Own :> Absent) : ttl \in {Absent, 1, 30, 400, 1000}}
=============================================================================
