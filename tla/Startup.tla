------------------------------ MODULE Startup ------------------------------
(***************************************************************************)
(* From the environment to a serving process: ServerConfig::try_parse      *)
(* (src/src/base.rs:45-163), main, start and init_handler                  *)
(* (src/src/main.rs:28-127), and the binding of the ports in spawned tasks *)
(* (src/src/http/mod.rs:52-56).                                            *)
(*                                                                         *)
(* A URL is missing, invalid or valid, a key is set or not.  get_int fails *)
(* alike on a missing value and on one that is no number: None.            *)
(***************************************************************************)
EXTENDS Integers

CONSTANTS
    None,           \* no integer in the variable
    Ports,          \* integers that may be in the port variables
    Seconds,        \* integers that may be in refresh_seconds
    SecondsModulus, \* 2^64, or less where integers are bounded
    Taken,          \* ports on which other programs listen
    Realtime        \* built with feature "realtime"

ASSUME NumbersAssumption ==
    /\ Ports \subseteq Int /\ Seconds \subseteq Int
    /\ None \notin Int
    /\ SecondsModulus \in Nat \ {0}
    /\ \A n \in Seconds :  \* get_int returns an i64
           -SecondsModulus < n /\ n < SecondsModulus

U16 == 65536

PortNumbers == 1 .. U16 - 1

ASSUME TakenAssumption == Taken \subseteq PortNumbers

ASSUME FeatureAssumption == Realtime \in BOOLEAN

Urls == {"missing", "invalid", "valid"}

Environments ==
    [toggles_url : Urls, events_url : Urls, keys_url : Urls, analysis_url : Urls,
     client_sdk_key : BOOLEAN, server_sdk_key : BOOLEAN,
     refresh_seconds : Seconds \cup {None},
     server_port : Ports \cup {None}, realtime_port : Ports \cup {None}]

VARIABLES
    env,       \* the environment variables, which do not change
    pc,        \* where main is, or how it ended
    loops,     \* the two loops of sync_with
    realtime,  \* the task that serves the socket
    http       \* the task that serves HTTP

tasks == <<loops, realtime, http>>
vars == <<env, pc, tasks>>

-----------------------------------------------------------------------------

\* Fault: the check of the server key is forgotten.
AcceptedWithoutServerKey(e) ==
    /\ e.toggles_url = "valid"
    /\ e.events_url = "valid"
    /\ e.keys_url # "invalid"
    /\ e.keys_url = "missing" => e.client_sdk_key
    /\ e.analysis_url # "invalid"
    /\ e.refresh_seconds # None

\* try_parse returns Ok.
Accepted(e) ==
    /\ e.toggles_url = "valid"
    /\ e.events_url = "valid"
    /\ e.keys_url # "invalid"
    /\ e.keys_url = "missing" => e.client_sdk_key /\ e.server_sdk_key
    /\ e.analysis_url # "invalid"
    /\ e.refresh_seconds # None

\* Fault: a port is converted to a signed integer first.
PortAsI16(n, default) ==
    IF n = None THEN default ELSE IF n % U16 < 32768 THEN n % U16 ELSE 0

\* `as u16`, or the default.
Port(n, default) == IF n = None THEN default ELSE n % U16

\* What try_parse makes of an accepted environment.  refresh_seconds: `as u64`.
ServerConfig(e) ==
    [keys_url         |-> e.keys_url,
     client_sdk_key   |-> e.client_sdk_key,
     server_sdk_key   |-> e.server_sdk_key,
     refresh_interval |-> e.refresh_seconds % SecondsModulus,
     server_port      |-> Port(e.server_port, 9000),
     realtime_port    |-> Port(e.realtime_port, 9100)]

config == ServerConfig(env)

-----------------------------------------------------------------------------

Init ==
    /\ env \in Environments
    /\ pc = "config"
    /\ loops = "none"
    /\ realtime = "none"
    /\ http = "none"

\* init_server_config; main bails out on an error.
Configure ==
    /\ pc = "config"
    /\ pc' = IF Accepted(env) THEN "socket" ELSE "bailed"
    /\ UNCHANGED <<env, tasks>>

\* RealtimeSocket::serve spawns its task and returns.
ServeSocket ==
    /\ pc = "socket"
    /\ pc' = "handler"
    /\ realtime' = IF Realtime THEN "spawned" ELSE realtime
    /\ UNCHANGED <<env, loops, http>>

\* init_handler with a keys_url: interval(0) panics in sync_secret_keys, on the
\* thread of main, before a loop is spawned.
SyncWith ==
    /\ pc = "handler" /\ config.keys_url = "valid"
    /\ IF config.refresh_interval = 0
       THEN pc' = "panicked" /\ loops' = loops
       ELSE pc' = "http" /\ loops' = "running"
    /\ UNCHANGED <<env, realtime, http>>

\* init_handler without one: a pair of keys, or an error that makes start bail.
Sync ==
    /\ pc = "handler" /\ config.keys_url # "valid"
    /\ pc' = IF config.client_sdk_key /\ config.server_sdk_key THEN "http" ELSE "bailed"
    /\ UNCHANGED <<env, tasks>>

\* serve_http is spawned, and main waits for ctrl-c.
SpawnHttp ==
    /\ pc = "http"
    /\ pc' = "waiting"
    /\ http' = "spawned"
    /\ UNCHANGED <<env, loops, realtime>>

Running == pc \notin {"bailed", "panicked", "stopped"}

\* Port 0 stands for a port that the system chooses.
Free(port) ==
    \/ port = 0
    \/ /\ port \notin Taken
       /\ realtime = "listening" => port # config.realtime_port
       /\ http = "listening" => port # config.server_port

\* Server::bind, which panics in its task: main does not hear of it.
BindHttp ==
    /\ Running /\ http = "spawned"
    /\ http' = IF Free(config.server_port) THEN "listening" ELSE "dead"
    /\ UNCHANGED <<env, pc, loops, realtime>>

BindRealtime ==
    /\ Running /\ realtime = "spawned"
    /\ realtime' = IF Free(config.realtime_port) THEN "listening" ELSE "dead"
    /\ UNCHANGED <<env, pc, loops, http>>

CtrlC ==
    /\ pc = "waiting"
    /\ pc' = "stopped"
    /\ UNCHANGED <<env, tasks>>

Next ==
    \/ Configure \/ ServeSocket \/ SyncWith \/ Sync \/ SpawnHttp
    \/ BindHttp \/ BindRealtime \/ CtrlC

\* main is not interrupted and spawned tasks are run; nobody has to press ctrl-c.
Fairness ==
    /\ WF_vars(Configure \/ ServeSocket \/ SyncWith \/ Sync \/ SpawnHttp)
    /\ WF_vars(BindHttp) /\ WF_vars(BindRealtime)

Spec == Init /\ [][Next]_vars

FairSpec == Spec /\ Fairness

-----------------------------------------------------------------------------

\* Every variable has the shape the code gives it (base.rs, main.rs).
TypeOK ==
    /\ env \in Environments
    /\ pc \in {"config", "socket", "handler", "http", "waiting",
               "bailed", "panicked", "stopped"}
    /\ loops \in {"none", "running"}
    /\ realtime \in {"none", "spawned", "listening", "dead"}
    /\ http \in {"none", "spawned", "listening", "dead"}

\* A configuration is refused before anything has been started, so init_handler
\* never refuses what try_parse has accepted (base.rs:45-163, main.rs:108-119).
RefusedAtOnce == pc = "bailed" => loops = "none" /\ realtime = "none" /\ http = "none"

\* The ports that were asked for.
AskedPort(e) == IF e.server_port = None THEN 9000 ELSE e.server_port

AskedRealtimePort(e) == IF e.realtime_port = None THEN 9100 ELSE e.realtime_port

\* Why a server may miss the port it was told to listen on: there is no such
\* port, another program has it, or the other of the two servers has.
MayMiss(asked, other) ==
    \/ asked \notin 0 .. U16 - 1
    \/ asked \in Taken
    \/ Realtime /\ asked \in PortNumbers /\ other % U16 = asked

\* For every environment, sensible or not: start-up falls short of what it was
\* told only for a cause that can be read off the variables as they were written.
\* It is refused for a mistake that try_parse looks for, the process panics for
\* an interval of 0 only, and otherwise it has its server and, with a keys_url,
\* its loops, which tick at their interval unless that is negative.  A server
\* that is dead, or listens elsewhere, was told a port that it may miss: the two
\* tasks bind in either order (base.rs:45-163, main.rs:28-127, repo.rs:94,
\* http/mod.rs:52-56, realtime.rs:26-36).
FailuresHaveCause ==
    /\ pc = "bailed" => ~Accepted(env)
    /\ pc = "panicked" => env.keys_url = "valid" /\ env.refresh_seconds = 0
    /\ pc = "waiting" => http # "none" /\ (env.keys_url = "valid" <=> loops = "running")
    /\ loops = "running" =>
           env.refresh_seconds < 0 \/ config.refresh_interval = env.refresh_seconds
    /\ \/ http \in {"none", "spawned"}
       \/ http = "listening" /\ config.server_port = AskedPort(env)
       \/ MayMiss(AskedPort(env), AskedRealtimePort(env))
    /\ \/ realtime \in {"none", "spawned"}
       \/ realtime = "listening" /\ config.realtime_port = AskedRealtimePort(env)
       \/ MayMiss(AskedRealtimePort(env), AskedPort(env))

\* Ports and an interval that survive their conversions, and free ports.
Startable(e) ==
    /\ Accepted(e)
    /\ e.refresh_seconds > 0
    /\ AskedPort(e) \in PortNumbers \ Taken
    /\ AskedRealtimePort(e) \in PortNumbers
    /\ Realtime => AskedRealtimePort(e) # AskedPort(e)

ServesAsTold ==
    /\ http = "listening"
    /\ config.server_port = AskedPort(env)
    /\ loops = IF env.keys_url = "valid" THEN "running" ELSE "none"

\* A sensible configuration leads to a server that listens where it was told to
\* and, if it was given a keys_url, keeps fetching, unless it is stopped first
\* (main.rs:28-127, http/mod.rs:52-56).
StartableServes == Startable(env) ~> (ServesAsTold \/ pc = "stopped")

=============================================================================
