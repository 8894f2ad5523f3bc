---------------------------- MODULE StartupProofs ----------------------------
(* A configuration is refused before anything has been started, and every  *)
(* other way in which start-up falls short has its cause in it.            *)
EXTENDS Startup, TLAPS

\* Every variable keeps its type (base.rs:24-163, main.rs:28-127).
THEOREM StartupTypes == Spec => []TypeOK
<1>1. Init => TypeOK
  BY DEF Init, TypeOK
<1>2. TypeOK /\ [Next]_vars => TypeOK'
  BY DEF TypeOK, Next, vars, tasks, Configure, ServeSocket, SyncWith, Sync,
         SpawnHttp, BindHttp, BindRealtime, CtrlC
<1> QED
  BY <1>1, <1>2, PTL DEF Spec

\* Nothing runs before main has accepted the configuration, and what
\* init_handler sees is accepted (main.rs:30-36, 66-75).
StartInv ==
    /\ env \in Environments
    /\ pc \in {"config", "bailed"} => loops = "none" /\ realtime = "none" /\ http = "none"
    /\ pc \in {"socket", "handler"} => Accepted(env)

\* What main does next is only done with an accepted configuration, whatever the
\* environment (base.rs:45-163, main.rs:108-119).
THEOREM StartInvariant == Spec => []StartInv
<1>1. Init => StartInv
  BY DEF Init, StartInv
<1>2. ASSUME StartInv, [Next]_vars PROVE StartInv'
  <2>1. CASE Configure
    BY <1>2, <2>1 DEF Configure, StartInv, tasks, Accepted
  <2>2. CASE ServeSocket
    BY <1>2, <2>2 DEF ServeSocket, StartInv, Accepted
  <2>3. CASE SyncWith
    BY <1>2, <2>3 DEF SyncWith, StartInv
  <2>4. CASE Sync
    <3>1. env.keys_url # "valid" /\ env.keys_url \in Urls
      BY <1>2, <2>4 DEF Sync, StartInv, config, ServerConfig, Environments
    <3>2. env.client_sdk_key /\ env.server_sdk_key
      BY <1>2, <2>4, <3>1 DEF Sync, StartInv, Accepted, Urls
    <3>3. pc' = "http"
      BY <2>4, <3>2 DEF Sync, config, ServerConfig
    <3> QED
      BY <1>2, <2>4, <3>3 DEF Sync, StartInv
  <2>5. CASE SpawnHttp \/ CtrlC
    BY <1>2, <2>5 DEF SpawnHttp, CtrlC, StartInv, tasks
  <2>6. CASE BindHttp \/ BindRealtime
    BY <1>2, <2>6 DEF BindHttp, BindRealtime, Running, StartInv, Accepted
  <2>7. CASE UNCHANGED vars
    BY <1>2, <2>7 DEF vars, tasks, StartInv, Accepted
  <2> QED
    BY <1>2, <2>1, <2>2, <2>3, <2>4, <2>5, <2>6, <2>7 DEF Next
<1> QED
  BY <1>1, <1>2, PTL DEF Spec

\* init_handler never refuses what try_parse has accepted, so nothing has been
\* started when start-up is refused (base.rs:45-163, main.rs:108-119).
THEOREM RefusalLeavesNothing == Spec => []RefusedAtOnce
<1>1. StartInv => RefusedAtOnce
  BY DEF StartInv, RefusedAtOnce
<1> QED
  BY <1>1, StartInvariant, PTL

-----------------------------------------------------------------------------
(* What becomes of the integers.                                           *)

\* Cutting an integer to a width that holds it leaves it alone (base.rs:130-141).
LEMMA Fits ==
    ASSUME NEW m \in Nat, NEW n \in Nat, n < m
    PROVE  n % m = n
OBVIOUS

\* No other integer of the width becomes 0 (base.rs:130).
LEMMA OnlyZero ==
    ASSUME NEW m \in Nat, NEW n \in Int, -m < n, n < 0
    PROVE  n % m # 0
<1>1. n + m \in Nat /\ n + m < m /\ m \in Nat \ {0}
  OBVIOUS
<1>2. n % m = (n + m) % m
  OBVIOUS
<1> QED
  BY <1>1, <1>2, Fits

\* The interval is the one in the environment, unless that is negative, and then
\* it is not 0 (base.rs:124-131).
LEMMA Interval ==
    ASSUME env \in Environments, Accepted(env)
    PROVE  /\ env.refresh_seconds < 0 \/ config.refresh_interval = env.refresh_seconds
           /\ config.refresh_interval = 0 => env.refresh_seconds = 0
<1>1. env.refresh_seconds \in Seconds
  BY DEF Environments, Accepted
<1>2. /\ env.refresh_seconds \in Int /\ SecondsModulus \in Nat
      /\ -SecondsModulus < env.refresh_seconds /\ env.refresh_seconds < SecondsModulus
  BY <1>1, NumbersAssumption
<1>3. config.refresh_interval = env.refresh_seconds % SecondsModulus
  BY DEF config, ServerConfig
<1>4. CASE env.refresh_seconds < 0
  BY <1>2, <1>3, <1>4, OnlyZero
<1>5. CASE env.refresh_seconds \in Nat
  BY <1>2, <1>3, <1>5, Fits
<1> QED
  BY <1>2, <1>4, <1>5

\* A port is the one that was asked for, if there is such a port, and otherwise
\* what is left of that in 16 bits (base.rs:132-141).
LEMMA AskedPorts ==
    /\ AskedPort(env) \in 0 .. U16 - 1 => config.server_port = AskedPort(env)
    /\ AskedRealtimePort(env) \in 0 .. U16 - 1 =>
          config.realtime_port = AskedRealtimePort(env)
    /\ config.server_port = AskedPort(env) % U16
    /\ config.realtime_port = AskedRealtimePort(env) % U16
<1>1. U16 \in Nat /\ 9100 < U16
  BY SMT DEF U16
<1>2. ASSUME NEW n \in 0 .. U16 - 1 PROVE n % U16 = n
  BY <1>1, Fits
<1>3. 9000 % U16 = 9000 /\ 9100 % U16 = 9100
  BY <1>1, Fits
<1>4. config.server_port = AskedPort(env) % U16
  BY <1>3 DEF config, ServerConfig, Port, AskedPort
<1>5. config.realtime_port = AskedRealtimePort(env) % U16
  BY <1>3 DEF config, ServerConfig, Port, AskedRealtimePort
<1> QED
  BY <1>2, <1>4, <1>5

\* A port that is in use has its cause (http/mod.rs:52-56, realtime.rs:26-36).
LEMMA InUse ==
    ASSUME realtime # "none" => Realtime
    PROVE  /\ http = "spawned" /\ ~Free(config.server_port) =>
                  MayMiss(AskedPort(env), AskedRealtimePort(env))
           /\ realtime = "spawned" /\ ~Free(config.realtime_port) =>
                  MayMiss(AskedRealtimePort(env), AskedPort(env))
<1>1. U16 \in Nat /\ 0 < U16
  BY SMT DEF U16
<1>2. ASSUME NEW n \in 0 .. U16 - 1, n # 0 PROVE n \in PortNumbers
  BY <1>1, <1>2 DEF PortNumbers
<1>3. ASSUME http = "spawned", ~Free(config.server_port)
      PROVE  MayMiss(AskedPort(env), AskedRealtimePort(env))
  BY <1>2, <1>3, AskedPorts DEF Free, MayMiss
<1>4. ASSUME realtime = "spawned", ~Free(config.realtime_port)
      PROVE  MayMiss(AskedRealtimePort(env), AskedPort(env))
  BY <1>2, <1>4, AskedPorts DEF Free, MayMiss
<1> QED
  BY <1>3, <1>4

-----------------------------------------------------------------------------
(* What goes wrong.                                                        *)

\* How far main has got with an environment, and what has stopped it or one of
\* its tasks (main.rs:28-127).
CauseInv ==
    /\ pc = "bailed" <=> pc # "config" /\ ~Accepted(env)
    /\ pc = "panicked" => env.keys_url = "valid" /\ env.refresh_seconds = 0
    /\ loops = "running" => env.refresh_seconds # 0
    /\ pc \in {"http", "waiting"} => (env.keys_url = "valid" <=> loops = "running")
    /\ pc = "waiting" => http # "none"
    /\ realtime # "none" => Realtime
    /\ loops = "running" => pc \in {"http", "waiting", "stopped"}
    /\ http = "dead" => MayMiss(AskedPort(env), AskedRealtimePort(env))
    /\ realtime = "dead" => MayMiss(AskedRealtimePort(env), AskedPort(env))

\* Whatever goes wrong at start-up has a cause in the environment, for every
\* environment and all ports in use
\* (base.rs:45-163, main.rs:28-127, repo.rs:94, http/mod.rs:52-56).
THEOREM EveryFailureHasCause == Spec => []FailuresHaveCause
<1>1. Init => CauseInv
  BY DEF Init, CauseInv
<1>2. ASSUME TypeOK, StartInv, CauseInv, [Next]_vars PROVE CauseInv'
  <2> SUFFICES ASSUME ~UNCHANGED vars PROVE CauseInv'
    BY <1>2 DEF CauseInv, vars, tasks
  <2>1. env' = env /\ env \in Environments
    BY <1>2 DEF Next, Configure, ServeSocket, SyncWith, Sync, SpawnHttp, BindHttp,
                BindRealtime, CtrlC, TypeOK
  <2> USE <1>2, <2>1 DEF CauseInv, tasks, TypeOK
  <2>3. CASE Configure
    BY <2>3 DEF Configure, StartInv
  <2>4. CASE ServeSocket
    BY <2>4, FeatureAssumption DEF ServeSocket
  <2>5. CASE SyncWith
    <3>1. Accepted(env) /\ env.keys_url = "valid"
      BY <2>5 DEF SyncWith, StartInv, config, ServerConfig
    <3>2. config.refresh_interval = 0 <=> env.refresh_seconds = 0
      BY <3>1, Interval
    <3> QED
      BY <2>5, <3>1, <3>2 DEF SyncWith
  <2>6. CASE Sync
    <3>1. env.keys_url # "valid" /\ env.keys_url \in Urls
      BY <2>6 DEF Sync, config, ServerConfig, Environments
    <3>2. env.client_sdk_key /\ env.server_sdk_key
      BY <2>6, <3>1 DEF Sync, StartInv, Accepted, Urls
    <3>3. pc' = "http"
      BY <2>6, <3>2 DEF Sync, config, ServerConfig
    <3> QED
      BY <2>6, <3>1, <3>3 DEF Sync
  <2>7. CASE SpawnHttp
    BY <2>7 DEF SpawnHttp
  <2>8. CASE BindHttp
    BY <2>8, InUse DEF BindHttp
  <2>9. CASE BindRealtime
    BY <2>9, InUse DEF BindRealtime
  <2>10. CASE CtrlC
    BY <2>10 DEF CtrlC
  <2> QED
    BY <2>3, <2>4, <2>5, <2>6, <2>7, <2>8, <2>9, <2>10 DEF Next
<1>3. ASSUME TypeOK, CauseInv PROVE FailuresHaveCause
  <2>1. loops = "running" => Accepted(env)
    BY <1>3 DEF CauseInv
  <2>2. loops = "running" =>
           env.refresh_seconds < 0 \/ config.refresh_interval = env.refresh_seconds
    BY <1>3, <2>1, Interval DEF TypeOK
  <2>3. \/ http \in {"none", "spawned"}
        \/ http = "listening" /\ config.server_port = AskedPort(env)
        \/ MayMiss(AskedPort(env), AskedRealtimePort(env))
    BY <1>3, AskedPorts DEF CauseInv, TypeOK, MayMiss
  <2>4. \/ realtime \in {"none", "spawned"}
        \/ realtime = "listening" /\ config.realtime_port = AskedRealtimePort(env)
        \/ MayMiss(AskedRealtimePort(env), AskedPort(env))
    BY <1>3, AskedPorts DEF CauseInv, TypeOK, MayMiss
  <2> QED
    BY <1>3, <2>2, <2>3, <2>4 DEF CauseInv, FailuresHaveCause
<1> QED
  BY <1>1, <1>2, <1>3, StartupTypes, StartInvariant, PTL DEF Spec

=============================================================================
