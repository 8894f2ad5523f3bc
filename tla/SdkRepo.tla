------------------------------ MODULE SdkRepo ------------------------------
(***************************************************************************)
(* SdkRepository (src/src/repo.rs) with the tasks that share it: the loop  *)
(* that fetches the secret mapping, the loop that makes sdk_clients follow *)
(* it, and the HTTP handlers (src/src/http/handler.rs) that read both maps *)
(* to answer a request.                                                    *)
(*                                                                         *)
(* A task is a sequence of steps between lock acquisitions.  It holds a    *)
(* worker thread of the tokio runtime from the moment it is polled until   *)
(* it awaits again, and a task that is blocked on a lock keeps its thread. *)
(***************************************************************************)
EXTENDS SdkRequests, RwLock, Sequences, FiniteSets

CONSTANTS
    KeyTasks,     \* loops spawned by sync_secret_keys, one per sync_with
    ClientTasks,  \* loops spawned by sync_with around update_clients
    Handlers,     \* HTTP connections, each serving one request at a time
    Workers,      \* worker threads of the runtime
    Realtime,     \* whether the crate is built with feature "realtime"
    MaxVersion    \* bound: how many mappings the API publishes

Tasks == KeyTasks \cup ClientTasks \cup Handlers

ASSUME TaskKindsDisjoint ==
    /\ KeyTasks \cap ClientTasks = {}
    /\ KeyTasks \cap Handlers = {}
    /\ ClientTasks \cap Handlers = {}

ASSUME WorkersAssumption == Workers \in Nat \ {0}

ASSUME RealtimeAssumption == Realtime \in BOOLEAN

ASSUME MaxVersionAssumption == MaxVersion \in Nat

VARIABLES
    mode,            \* how init_handler started the repository
    published,       \* the API's mappings, version v at index v (external)
    secret_mapping,  \* Inner::secret_mapping
    sdk_clients,     \* Inner::sdk_clients
    mapping_lock,    \* the lock around secret_mapping
    clients_lock,    \* the lock around sdk_clients
    pc,              \* where each task is
    fetched,         \* KeyTasks: the body of the last response, `r`
    todo,            \* ClientTasks: server_sdk_keys not yet synced
    stale,           \* ClientTasks: clients of the snapshot to be removed
    current,         \* ClientTasks: the key being created or removed
    request,         \* Handlers: the request being served
    sdk_key,         \* Handlers: the server key it resolved to
    reply            \* Handlers: the response to the last request

startVars == <<mode, published>>
shared    == <<secret_mapping, sdk_clients>>
locks     == <<mapping_lock, clients_lock>>
loopVars  == <<todo, stale, current>>
httpVars  == <<request, sdk_key, reply>>

vars == <<startVars, shared, locks, pc, fetched, loopVars, httpVars>>

-----------------------------------------------------------------------------
(* Values.                                                                 *)

\* An FPClient of the map: whether its first fetch succeeded, and the client
\* key its update callback captured.  An absent entry is a key not in the map.
Clients == [state : ClientStates,
            notify : ClientSdkKeys \cup {None}]

Absent == [state |-> "absent", notify |-> None]

KeyLabels    == {"fetch", "check", "write"}
ClientLabels == {"tick", "begin", "snapshot", "sync", "create", "notify", "remove"}
HttpLabels   == {"idle", "arrived", "lookup", "client", "body", "sync_now"}

\* The await points: a task there holds no worker thread.
Awaiting == {"fetch", "tick", "idle", "arrived"}

-----------------------------------------------------------------------------
(* Helpers.                                                                *)

Present == {s \in ServerSdkKeys : sdk_clients[s].state # "absent"}

\* The mapping the API has published as version v; version 0 maps nothing.
PublishedAs(v) == IF v = 0 THEN NoMapping ELSE published[v]

\* The tasks that hold a worker thread.
Busy == {t \in Tasks : pc[t] \notin Awaiting}

\* A worker thread is free to poll one more task.
Spare == Cardinality(Busy) < Workers

Goto(t, label) == pc' = [pc EXCEPT ![t] = label]

\* Fault: setup_notify finds no client key, as when it is called too early.
NewClientsUnmapped(s) == [state : {"loading", "ready"}, notify : {None}]

\* FPClient::new, which starts to fetch, so that the client may have its toggles
\* before it is in the map, and the client key that setup_notify captures.
NewClients(s) ==
    [state  : {"loading", "ready"},
     notify : {IF Realtime THEN client_sdk_key(secret_mapping, s) ELSE None}]

\* The server key whose client answers request r, None when there is none.
Resolve(sm, r) ==
    IF r.op = "server_sdk_toggles"
    THEN IF contains_server_sdk_key(sm, r.key) THEN r.key ELSE None
    ELSE server_sdk_key(sm, r.key)

\* FPServerError::into_response, for the errors that a handler passes on.
IntoResponse(error) ==
    CASE error = "NotFound" -> 404
      [] error = "UserDecodeError" -> 400
      [] OTHER -> 500

Respond(h, status, body) ==
    /\ reply' = [reply EXCEPT ![h] = [status |-> status, body |-> body]]
    /\ request' = [request EXCEPT ![h] = NoRequest]
    /\ sdk_key' = [sdk_key EXCEPT ![h] = None]
    /\ Goto(h, "idle")

-----------------------------------------------------------------------------
(* Start-up (init_handler), and the API (external).                        *)

Init ==
    /\ mode = "boot"
    /\ published = <<>>
    /\ secret_mapping = Default
    /\ sdk_clients = [s \in ServerSdkKeys |-> Absent]
    /\ mapping_lock = Unlocked
    /\ clients_lock = Unlocked
    /\ pc = [t \in Tasks |-> IF t \in KeyTasks THEN "fetch"
                             ELSE IF t \in ClientTasks THEN "tick" ELSE "idle"]
    /\ fetched = [t \in KeyTasks |-> Default]
    /\ todo = [t \in ClientTasks |-> {}]
    /\ stale = [t \in ClientTasks |-> {}]
    /\ current = [t \in ClientTasks |-> None]
    /\ request = [h \in Handlers |-> NoRequest]
    /\ sdk_key = [h \in Handlers |-> None]
    /\ reply = [h \in Handlers |-> NoReply]

\* FP_KEYS_URL is set: both loops are spawned.
SyncWith ==
    /\ mode = "boot"
    /\ mode' = "keys"
    /\ UNCHANGED <<published, shared, locks, pc, fetched, loopVars, httpVars>>

\* FP_KEYS_URL is not set: one pair of keys, added before HTTP is served.  The
\* client is created, and its callback set up, before the pair is inserted.
Sync(c, s, version) ==
    /\ mode = "boot"
    /\ mode' = "local"
    /\ \E client \in NewClients(s) : sdk_clients' = [sdk_clients EXCEPT ![s] = client]
    /\ secret_mapping' = insert(secret_mapping, c, s, version)
    /\ UNCHANGED <<published, locks, pc, fetched, loopVars, httpVars>>

\* The API publishes a new mapping under the next version.
Publish(m) ==
    /\ Len(published) < MaxVersion
    /\ published' = Append(published, m)
    /\ UNCHANGED <<mode, shared, locks, pc, fetched, loopVars, httpVars>>

\* The first successful fetch of an FPClient makes it initialized.
Initialize(s) ==
    /\ sdk_clients[s].state = "loading"
    /\ sdk_clients' = [sdk_clients EXCEPT ![s].state = "ready"]
    /\ UNCHANGED <<startVars, secret_mapping, locks, pc, fetched, loopVars, httpVars>>

-----------------------------------------------------------------------------
(* The loop of sync_secret_keys.  A response may carry any mapping that    *)
(* has been published, so replicas of the API may lag.  A failed request   *)
(* or a body that does not parse changes nothing, so it is a stutter.      *)

Fetch(t, v) ==
    /\ mode = "keys"
    /\ pc[t] = "fetch"
    /\ Spare
    /\ fetched' = [fetched EXCEPT ![t] = Parsed(v, PublishedAs(v))]
    /\ Goto(t, "check")
    /\ UNCHANGED <<startVars, shared, locks, loopVars, httpVars>>

\* Fault: the read guard lives on while the write guard is asked for.
UpdateMappingCheckHoldingGuard(t) ==
    LET newer == fetched[t].version > secret_mapping.version IN
    /\ pc[t] = "check"
    /\ MayRead(mapping_lock)
    /\ Goto(t, IF newer THEN "write" ELSE "fetch")
    /\ mapping_lock' = IF newer THEN Read(mapping_lock, t) ELSE mapping_lock
    /\ UNCHANGED <<startVars, shared, clients_lock, fetched, loopVars, httpVars>>

\* Inner::update_mapping: compare versions under a read guard, and drop it.
UpdateMappingCheck(t) ==
    /\ pc[t] = "check"
    /\ MayRead(mapping_lock)
    /\ Goto(t, IF fetched[t].version > secret_mapping.version THEN "write" ELSE "fetch")
    /\ UNCHANGED <<startVars, shared, locks, fetched, loopVars, httpVars>>

ReserveMapping(t) ==
    /\ pc[t] = "write"
    /\ MayReserve(mapping_lock)
    /\ mapping_lock' = Reserve(mapping_lock, t)
    /\ UNCHANGED <<startVars, shared, clients_lock, pc, fetched, loopVars, httpVars>>

UpdateMapping(t) ==
    /\ pc[t] = "write"
    /\ Exclusive(mapping_lock, t)
    /\ secret_mapping' \in update_mapping(secret_mapping, fetched[t])
    /\ mapping_lock' = WriteDone(mapping_lock)
    /\ Goto(t, "fetch")
    /\ UNCHANGED <<startVars, sdk_clients, clients_lock, fetched, loopVars, httpVars>>

-----------------------------------------------------------------------------
(* Writers of sdk_clients wait for its lock here, whatever they will do.   *)

ReserveClients(t) ==
    /\ pc[t] \in {"create", "remove", "sync_now"}
    /\ MayReserve(clients_lock)
    /\ clients_lock' = Reserve(clients_lock, t)
    /\ UNCHANGED <<startVars, shared, mapping_lock, pc, fetched, loopVars, httpVars>>

-----------------------------------------------------------------------------
(* The loop of sync_with around update_clients.  The guard of              *)
(* secret_mapping is held from UpdateClientsBegin to UpdateClientsEnd.     *)

Tick(t) ==
    /\ mode = "keys"
    /\ pc[t] = "tick"
    /\ Spare
    /\ Goto(t, "begin")
    /\ UNCHANGED <<startVars, shared, locks, fetched, loopVars, httpVars>>

\* Fault: the guard is dropped at the end of the statement that takes it.
UpdateClientsBeginUnguarded(t) ==
    /\ pc[t] = "begin"
    /\ MayRead(mapping_lock)
    /\ Goto(t, "snapshot")
    /\ UNCHANGED <<startVars, shared, locks, fetched, loopVars, httpVars>>

UpdateClientsBegin(t) ==
    /\ pc[t] = "begin"
    /\ MayRead(mapping_lock)
    /\ mapping_lock' = Read(mapping_lock, t)
    /\ Goto(t, "snapshot")
    /\ UNCHANGED <<startVars, shared, clients_lock, fetched, loopVars, httpVars>>

\* Fault: clients are created for new keys and never removed.
UpdateClientsSnapshotAddOnly(t) ==
    /\ pc[t] = "snapshot"
    /\ MayRead(clients_lock)
    /\ IF secret_mapping.version > 0
       THEN /\ todo' = [todo EXCEPT ![t] = server_sdk_keys(secret_mapping)]
            /\ Goto(t, "sync")
            /\ UNCHANGED mapping_lock
       ELSE /\ mapping_lock' = ReadDone(mapping_lock, t)
            /\ Goto(t, "tick")
            /\ UNCHANGED todo
    /\ UNCHANGED <<startVars, shared, clients_lock, fetched, stale, current, httpVars>>

\* `sdk_clients.read().clone()`, and the keys to create and to remove.
UpdateClientsSnapshot(t) ==
    /\ pc[t] = "snapshot"
    /\ MayRead(clients_lock)
    /\ IF secret_mapping.version > 0
       THEN /\ todo' = [todo EXCEPT ![t] = server_sdk_keys(secret_mapping)]
            /\ stale' = [stale EXCEPT ![t] = Present \ server_sdk_keys(secret_mapping)]
            /\ Goto(t, "sync")
            /\ UNCHANGED mapping_lock
       ELSE /\ mapping_lock' = ReadDone(mapping_lock, t)
            /\ Goto(t, "tick")
            /\ UNCHANGED <<todo, stale>>
    /\ UNCHANGED <<startVars, shared, clients_lock, fetched, current, httpVars>>

\* Fault: every key gets a new client, whether it has one or not.
SyncAlways(t, k) ==
    /\ pc[t] = "sync"
    /\ k \in todo[t]
    /\ MayRead(clients_lock)
    /\ current' = [current EXCEPT ![t] = k]
    /\ Goto(t, "create")
    /\ UNCHANGED <<startVars, shared, locks, fetched, todo, stale, httpVars>>

\* Fault: the read guard of sdk_clients lives on while the client is created.
SyncCheckHoldingGuard(t, k) ==
    /\ pc[t] = "sync"
    /\ k \in todo[t]
    /\ MayRead(clients_lock)
    /\ IF k \in Present
       THEN /\ todo' = [todo EXCEPT ![t] = @ \ {k}]
            /\ UNCHANGED <<clients_lock, pc, current>>
       ELSE /\ current' = [current EXCEPT ![t] = k]
            /\ clients_lock' = Read(clients_lock, t)
            /\ Goto(t, "create")
            /\ UNCHANGED todo
    /\ UNCHANGED <<startVars, shared, mapping_lock, fetched, stale, httpVars>>

\* Inner::sync: look for the key under a read guard, and drop it.
SyncCheck(t, k) ==
    /\ pc[t] = "sync"
    /\ k \in todo[t]
    /\ MayRead(clients_lock)
    /\ IF k \in Present
       THEN /\ todo' = [todo EXCEPT ![t] = @ \ {k}]
            /\ UNCHANGED <<pc, current>>
       ELSE /\ current' = [current EXCEPT ![t] = k]
            /\ Goto(t, "create")
            /\ UNCHANGED todo
    /\ UNCHANGED <<startVars, shared, locks, fetched, stale, httpVars>>

InsertClient(t) ==
    /\ \E client \in NewClients(current[t]) :
          sdk_clients' = [sdk_clients EXCEPT ![current[t]] = client]
    /\ clients_lock' = WriteDone(clients_lock)
    /\ todo' = [todo EXCEPT ![t] = @ \ {current[t]}]
    /\ current' = [current EXCEPT ![t] = None]
    /\ Goto(t, "sync")
    /\ UNCHANGED <<startVars, secret_mapping, mapping_lock, fetched, stale, httpVars>>

SyncInsert(t) ==
    /\ pc[t] = "create"
    /\ Exclusive(clients_lock, t)
    /\ IF Realtime
       THEN /\ Goto(t, "notify")
            /\ UNCHANGED <<startVars, shared, locks, fetched, loopVars, httpVars>>
       ELSE InsertClient(t)

\* Fault: setup_notify asks for a write guard.
SetupNotifyWriting(t) ==
    /\ pc[t] = "notify"
    /\ MayRead(mapping_lock) /\ mapping_lock.readers = {}
    /\ InsertClient(t)

\* setup_notify reads secret_mapping again: its thread holds a read guard of
\* that lock (update_clients) and the write guard of sdk_clients.
SetupNotify(t) ==
    /\ pc[t] = "notify"
    /\ MayRead(mapping_lock)
    /\ InsertClient(t)

RemoveCheck(t, k) ==
    /\ pc[t] = "sync"
    /\ todo[t] = {}
    /\ k \in stale[t]
    /\ current' = [current EXCEPT ![t] = k]
    /\ Goto(t, "remove")
    /\ UNCHANGED <<startVars, shared, locks, fetched, todo, stale, httpVars>>

RemoveClient(t) ==
    /\ pc[t] = "remove"
    /\ Exclusive(clients_lock, t)
    /\ sdk_clients' = [sdk_clients EXCEPT ![current[t]] = Absent]
    /\ clients_lock' = WriteDone(clients_lock)
    /\ stale' = [stale EXCEPT ![t] = @ \ {current[t]}]
    /\ current' = [current EXCEPT ![t] = None]
    /\ Goto(t, "sync")
    /\ UNCHANGED <<startVars, secret_mapping, mapping_lock, fetched, todo, httpVars>>

UpdateClientsEnd(t) ==
    /\ pc[t] = "sync"
    /\ todo[t] = {}
    /\ stale[t] = {}
    /\ mapping_lock' = ReadDone(mapping_lock, t)
    /\ Goto(t, "tick")
    /\ UNCHANGED <<startVars, shared, clients_lock, fetched, loopVars, httpVars>>

-----------------------------------------------------------------------------
(* The HTTP handlers.  NotReady is answered 503; NotFound is answered 200  *)
(* with the empty repository, or 400 by update_toggles.                    *)

Receive(h, r) ==
    /\ mode # "boot"
    /\ pc[h] = "idle"
    /\ request' = [request EXCEPT ![h] = r]
    /\ reply' = [reply EXCEPT ![h] = NoReply]
    /\ Goto(h, "arrived")
    /\ UNCHANGED <<startVars, shared, locks, fetched, loopVars, sdk_key>>

\* A worker thread polls the connection and calls the handler of its route.
Poll(h) ==
    /\ pc[h] = "arrived"
    /\ Spare
    /\ Goto(h, IF request[h].op = "update_toggles" THEN "sync_now" ELSE "lookup")
    /\ UNCHANGED <<startVars, shared, locks, fetched, loopVars, httpVars>>

\* The same, and decode_user fails on the user parameter: 400 before any lock is
\* asked for.  A user that decodes is not looked at again.
RejectUser(h) ==
    /\ pc[h] = "arrived"
    /\ Spare
    /\ request[h].op = "client_sdk_toggles"
    /\ Respond(h, IntoResponse("UserDecodeError"), "empty")
    /\ UNCHANGED <<startVars, shared, locks, fetched, loopVars>>

\* all_secrets: secret_keys clones the mapping, of whatever version.
SecretKeys(h) ==
    LET key == server_sdk_key(secret_mapping, request[h].key) IN
    /\ pc[h] = "lookup"
    /\ request[h].op = "all_secrets"
    /\ MayRead(mapping_lock)
    /\ Respond(h, 200, IF key = None THEN "empty" ELSE key)
    /\ UNCHANGED <<startVars, shared, locks, fetched, loopVars>>

\* Fault: the guard is dropped once the server key is known.
LookupUnguarded(h) ==
    LET key == Resolve(secret_mapping, request[h]) IN
    /\ pc[h] = "lookup"
    /\ request[h].op # "all_secrets"
    /\ MayRead(mapping_lock)
    /\ IF secret_mapping.version = 0 THEN Respond(h, 503, "empty")
       ELSE IF key = None THEN Respond(h, 200, "empty")
       ELSE /\ sdk_key' = [sdk_key EXCEPT ![h] = key]
            /\ Goto(h, "client")
            /\ UNCHANGED <<request, reply>>
    /\ UNCHANGED <<startVars, shared, locks, fetched, loopVars>>

\* The part of server_sdk_repo_string, client_sdk_eval_string and
\* client_sdk_events_string that reads secret_mapping.  Its guard is kept.
Lookup(h) ==
    LET key == Resolve(secret_mapping, request[h]) IN
    /\ pc[h] = "lookup"
    /\ request[h].op # "all_secrets"
    /\ MayRead(mapping_lock)
    /\ IF secret_mapping.version = 0
       THEN Respond(h, 503, "empty") /\ UNCHANGED mapping_lock
       ELSE IF key = None
       THEN Respond(h, 200, "empty") /\ UNCHANGED mapping_lock
       ELSE /\ mapping_lock' = Read(mapping_lock, h)
            /\ sdk_key' = [sdk_key EXCEPT ![h] = key]
            /\ Goto(h, "client")
            /\ UNCHANGED <<request, reply>>
    /\ UNCHANGED <<startVars, shared, clients_lock, fetched, loopVars>>

\* The first part of repo_string, all_evaluated_string and all_event_string.
GetClient(h) ==
    /\ pc[h] = "client"
    /\ MayRead(clients_lock)
    /\ IF sdk_clients[sdk_key[h]].state = "ready"
       THEN /\ clients_lock' = Read(clients_lock, h)
            /\ Goto(h, "body")
            /\ UNCHANGED <<mapping_lock, httpVars>>
       ELSE /\ mapping_lock' = ReadDone(mapping_lock, h)
            /\ Respond(h, 503, "empty")
            /\ UNCHANGED clients_lock
    /\ UNCHANGED <<startVars, shared, fetched, loopVars>>

\* The second part: the client's repository is read, and both guards dropped.
SendBody(h) ==
    /\ pc[h] = "body"
    /\ mapping_lock' = ReadDone(mapping_lock, h)
    /\ clients_lock' = ReadDone(clients_lock, h)
    /\ Respond(h, 200, sdk_key[h])
    /\ UNCHANGED <<startVars, shared, fetched, loopVars>>

\* Fault: NotFound is left to FPServerError::into_response.
ClientSyncNowNotFound(h) ==
    /\ pc[h] = "sync_now"
    /\ Exclusive(clients_lock, h)
    /\ clients_lock' = WriteDone(clients_lock)
    /\ Respond(h, IF request[h].key \in Present THEN 200 ELSE IntoResponse("NotFound"), "empty")
    /\ UNCHANGED <<startVars, shared, mapping_lock, fetched, loopVars>>

\* update_toggles: client_sync_now looks the client up under a write guard and
\* makes it fetch, which is one more chance of Initialize.
ClientSyncNow(h) ==
    /\ pc[h] = "sync_now"
    /\ Exclusive(clients_lock, h)
    /\ clients_lock' = WriteDone(clients_lock)
    /\ Respond(h, IF request[h].key \in Present THEN 200 ELSE 400, "empty")
    /\ UNCHANGED <<startVars, shared, mapping_lock, fetched, loopVars>>

-----------------------------------------------------------------------------

Start == SyncWith \/ \E c \in ClientSdkKeys, s \in ServerSdkKeys, v \in {0, 1} : Sync(c, s, v)

\* What a task does between two await points.
KeyStep(t) == UpdateMappingCheck(t) \/ ReserveMapping(t) \/ UpdateMapping(t)

ClientStep(t) ==
    \/ UpdateClientsBegin(t)
    \/ UpdateClientsSnapshot(t)
    \/ \E k \in ServerSdkKeys : SyncCheck(t, k) \/ RemoveCheck(t, k)
    \/ ReserveClients(t)
    \/ SyncInsert(t)
    \/ SetupNotify(t)
    \/ RemoveClient(t)
    \/ UpdateClientsEnd(t)

HttpStep(h) ==
    \/ Poll(h)
    \/ RejectUser(h)
    \/ SecretKeys(h)
    \/ Lookup(h)
    \/ GetClient(h)
    \/ SendBody(h)
    \/ ReserveClients(h)
    \/ ClientSyncNow(h)

Next ==
    \/ Start
    \/ \E m \in Mappings : Publish(m)
    \/ \E s \in ServerSdkKeys : Initialize(s)
    \/ \E t \in KeyTasks : KeyStep(t) \/ \E v \in 0..Len(published) : Fetch(t, v)
    \/ \E t \in ClientTasks : ClientStep(t) \/ Tick(t)
    \/ \E h \in Handlers : HttpStep(h) \/ \E r \in Requests : Receive(h, r)

Spec == Init /\ [][Next]_vars

(***************************************************************************)
(* Fairness.  The runtime polls every ready task again and parking_lot     *)
(* serves every waiting thread, so a step that is enabled again and again  *)
(* is taken.  Assumed of the API: while a loop keeps asking, the current   *)
(* mapping arrives again and again, and an FPClient gets its toggles.      *)
(***************************************************************************)
Fairness ==
    /\ WF_vars(Start)
    /\ \A s \in ServerSdkKeys : WF_vars(Initialize(s))
    /\ \A t \in KeyTasks : SF_vars(KeyStep(t)) /\ SF_vars(Fetch(t, Len(published)))
    /\ \A t \in ClientTasks : SF_vars(ClientStep(t)) /\ SF_vars(Tick(t))
    /\ \A h \in Handlers : SF_vars(HttpStep(h))

FairSpec == Spec /\ Fairness

-----------------------------------------------------------------------------
(* Invariants.                                                             *)

\* Every variable has the shape the code gives it; in particular a response
\* has one of the three statuses the handlers choose (handler.rs:80-160).
TypeOK ==
    /\ mode \in {"boot", "keys", "local"}
    /\ published \in Seq(Mappings)
    /\ secret_mapping \in SecretMappings
    /\ sdk_clients \in [ServerSdkKeys -> Clients]
    /\ mapping_lock \in Locks(Tasks)
    /\ clients_lock \in Locks(Tasks)
    /\ pc \in [Tasks -> KeyLabels \cup ClientLabels \cup HttpLabels]
    /\ \A t \in KeyTasks : pc[t] \in KeyLabels
    /\ \A t \in ClientTasks : pc[t] \in ClientLabels
    /\ \A h \in Handlers : pc[h] \in HttpLabels
    /\ fetched \in [KeyTasks -> SecretMappings]
    /\ todo \in [ClientTasks -> SUBSET ServerSdkKeys]
    /\ stale \in [ClientTasks -> SUBSET ServerSdkKeys]
    /\ current \in [ClientTasks -> ServerSdkKeys \cup {None}]
    /\ request \in [Handlers -> Requests \cup {NoRequest}]
    /\ sdk_key \in [Handlers -> ServerSdkKeys \cup {None}]
    /\ reply \in [Handlers -> Responses \cup {NoReply}]

\* Who is inside a critical section is who owns the guards, and a client is
\* only created under the write guard of sdk_clients (repo.rs:191-210).
LockInv ==
    /\ mapping_lock.readers =
          {t \in ClientTasks : pc[t] \in {"snapshot", "sync", "create", "notify", "remove"}}
            \cup {h \in Handlers : pc[h] \in {"client", "body"}}
    /\ \A t \in mapping_lock.writer : pc[t] = "write"
    /\ clients_lock.readers = {h \in Handlers : pc[h] = "body"}
    /\ \A t \in clients_lock.writer : pc[t] \in {"create", "notify", "remove", "sync_now"}
    /\ \A t \in ClientTasks : pc[t] = "notify" => Exclusive(clients_lock, t)

\* Before start-up nothing runs, and without FP_KEYS_URL the loops never do.
StartInv ==
    /\ mode # "keys" => /\ \A t \in KeyTasks : pc[t] = "fetch"
                        /\ \A t \in ClientTasks : pc[t] = "tick"
    /\ mode = "boot" => /\ secret_mapping = Default
                        /\ Present = {}
                        /\ \A h \in Handlers : pc[h] = "idle"

\* A handler that has looked its key up still sees the mapping it read, and
\* one that has found its client still sees it ready (repo.rs:139-147, 280-296).
HandlerInv ==
    \A h \in Handlers :
        /\ IF pc[h] = "idle" THEN request[h] = NoRequest ELSE request[h] \in Requests
        /\ pc[h] = "lookup" => request[h].op # "update_toggles"
        /\ pc[h] = "sync_now" => request[h].op = "update_toggles"
        /\ pc[h] \in {"client", "body"} =>
              /\ secret_mapping.version > 0
              /\ request[h].op \notin {"update_toggles", "all_secrets"}
              /\ sdk_key[h] \in ServerSdkKeys
              /\ sdk_key[h] = Resolve(secret_mapping, request[h])
        /\ pc[h] = "body" => sdk_clients[sdk_key[h]].state = "ready"

\* Inside update_clients, todo and stale still describe the work left to make
\* sdk_clients match the mapping in force, whatever other tasks did meanwhile.
LoopInv ==
    \A t \in ClientTasks :
        /\ pc[t] \in {"sync", "create", "notify", "remove"} =>
              /\ secret_mapping.version > 0
              /\ todo[t] \subseteq server_sdk_keys(secret_mapping)
              /\ server_sdk_keys(secret_mapping) \ todo[t] \subseteq Present
              /\ stale[t] \cap server_sdk_keys(secret_mapping) = {}
              /\ Present \ server_sdk_keys(secret_mapping) \subseteq stale[t]
        /\ pc[t] \in {"create", "notify"} => current[t] \in todo[t]
        /\ pc[t] = "remove" => current[t] \in stale[t]

\* The mapping in force is, whole, one the API has published, under the version
\* it was published as; its reverse index agrees with it (secrets.rs:34-46).
MappingInv ==
    /\ ReverseOfMapping(secret_mapping)
    /\ mode = "keys" => /\ secret_mapping.version \in 0..Len(published)
                        /\ secret_mapping.mapping = PublishedAs(secret_mapping.version)
    /\ \A t \in KeyTasks : pc[t] # "fetch" =>
          /\ fetched[t].version \in 0..Len(published)
          /\ fetched[t].mapping = PublishedAs(fetched[t].version)

\* The client key a callback notifies is one that some published mapping gave
\* to the callback's server key: updates are announced to nobody else, and no
\* client is left without a key to announce to (repo.rs:245-263).
CallbackKeyWasMapped ==
    mode = "keys" /\ Realtime =>
        \A s \in Present : \E v \in 1..Len(published) :
            /\ sdk_clients[s].notify \in ClientSdkKeys
            /\ published[v][sdk_clients[s].notify] = s

\* Only polled tasks are between two locks, no more of them than there are worker
\* threads, and setup_notify is only compiled in with "realtime" (repo.rs:204-207).
WorkerInv ==
    /\ IsFiniteSet(Busy)
    /\ Cardinality(Busy) <= Workers
    /\ \A t \in ClientTasks : pc[t] = "notify" => Realtime

\* The inductive invariant behind the theorems of SdkRepoProofs.
IInv ==
    /\ TypeOK
    /\ LockInv
    /\ WorkerInv
    /\ StartInv
    /\ HandlerInv
    /\ LoopInv
    /\ MappingInv
    /\ CallbackKeyWasMapped

\* With one loop, a client is only created where there is none, and what is to be
\* removed is there, although both were looked up under guards that have been
\* dropped.  Two loops can both miss a client, and the second insert then takes
\* the place of one that may be serving (repo.rs:181-191, 220-232).
LookupsLast ==
    \A t \in ClientTasks :
        /\ pc[t] \in {"create", "notify"} => current[t] \notin Present
        /\ pc[t] \in {"sync", "create", "notify", "remove"} => stale[t] \subseteq Present

-----------------------------------------------------------------------------
(* Deadlock.                                                               *)

\* The tasks that block the next lock operation of t: those that own the writer
\* bit it needs free or, once t owns it, those whose read guards it waits for.
WaitsFor(t) ==
    CASE pc[t] \in {"check", "begin", "lookup", "notify"} -> mapping_lock.writer
      [] pc[t] = "write" -> Blockers(mapping_lock, t)
      [] pc[t] \in {"snapshot", "client"} -> clients_lock.writer
      [] pc[t] = "sync" /\ todo[t] # {} -> clients_lock.writer
      [] pc[t] \in {"create", "remove", "sync_now"} -> Blockers(clients_lock, t)
      [] OTHER -> {}

\* Nothing but the owners of a lock keeps a polled task from its next step; in
\* particular update_clients always has a key left or an end (repo.rs:218-234).
OnlyLocksBlock ==
    \A t \in Busy : WaitsFor(t) = {} =>
        \/ t \in KeyTasks /\ ENABLED KeyStep(t)
        \/ t \in ClientTasks /\ ENABLED ClientStep(t)
        \/ t \in Handlers /\ ENABLED HttpStep(t)

\* Each of these tasks waits for one of them, so none of them ever goes on.
Deadlocked(S) == S # {} /\ \A t \in S : WaitsFor(t) \cap S # {}

\* Whoever is deadlocked, update_clients has met a pending writer of the mapping
\* in setup_notify (repo.rs:219, 239, 249): there is no other deadlock, of all
\* tasks or of some, and none without "realtime" or on one worker thread.
DeadlocksInSetupNotify ==
    \A S \in SUBSET Tasks : Deadlocked(S) =>
        /\ Realtime
        /\ Workers > 1
        /\ \E t \in ClientTasks \cap S, u \in KeyTasks \cap S :
              pc[t] = "notify" /\ pc[u] = "write" /\ u \in mapping_lock.writer

-----------------------------------------------------------------------------
(* Action properties.                                                      *)

Answered(h) == reply[h] = NoReply /\ reply'[h] # NoReply

States == [s \in ServerSdkKeys |-> sdk_clients[s].state]

\* The responses that the maps, as they are now, allow h to be given.
Allowed(h) ==
    Answers(secret_mapping.version, secret_mapping.mapping, States, request[h])

\* A response agrees with the mapping and the clients in force when it is sent:
\* no SDK gets the repository of a key it is no longer mapped to, and no mapped
\* key is answered with the empty repository, which would switch its toggles
\* off (handler.rs:80-160 over repo.rs:120-170).
AnswersMatchMapping ==
    [][\A h \in Handlers : Answered(h) => reply'[h] \in Allowed(h)]_vars

\* A run of update_clients ends with a client for every mapped server key and
\* no other, under the mapping in force at its end (repo.rs:218-234).
UpdateLeavesMappedClients ==
    [][\A t \in ClientTasks : pc[t] = "sync" /\ pc'[t] = "tick"
          => Present = server_sdk_keys(secret_mapping)]_vars

\* The mapping is only ever replaced by a newer one, although the version was
\* compared under a guard that had been dropped (repo.rs:236-242).
VersionNeverRegresses ==
    [][mode = "keys" => secret_mapping'.version > secret_mapping.version]_secret_mapping

\* While its key is mapped a client that serves is neither removed nor replaced
\* by one that has yet to fetch (repo.rs:181-211, 218-234).
MappedClientStaysReady ==
    [][\A s \in server_sdk_keys(secret_mapping) :
          sdk_clients[s].state = "ready" => sdk_clients'[s].state = "ready"]_vars

\* The repository has the API's last mapping, and clients for its keys only.
Converged ==
    /\ mode = "keys"
    /\ secret_mapping.version = Len(published)
    /\ Present = server_sdk_keys(secret_mapping)

\* And it serves from all of them.
Serving == Converged /\ \A s \in Present : sdk_clients[s].state = "ready"

\* No client is under creation, so no loop acts on a look for one made before.
Settled == Serving /\ \A t \in ClientTasks : pc[t] \notin {"create", "notify"}

\* Two loops that both missed a client put one in the place of the other, which
\* may be serving by then; but once all keys are served and the inserts that were
\* under way are done, no loop replaces a client again until the API publishes
\* (repo.rs:181-211, 218-234).
SettledStays ==
    [][Settled => Settled' \/ published' # published]_vars

\* What has converged stays so until the API publishes again: neither a response
\* that was on its way, nor what is left of a run of update_clients begun under
\* other clients, nor a second loop undoes it (repo.rs:97-118, 181-242).
ConvergedStays ==
    [][Converged => Converged' \/ published' # published]_vars

-----------------------------------------------------------------------------
(* Refinement.                                                             *)

Service == INSTANCE SdkService
             WITH version <- secret_mapping.version,
                  mapping <- secret_mapping.mapping,
                  clients <- States

\* Whatever the interleaving of loops and handlers between their locks, an SDK
\* cannot tell the repository from one that does each of its operations in one
\* step and has no index to keep (repo.rs:67-242, handler.rs:80-195).
ImplementsService == Service!Spec

-----------------------------------------------------------------------------
(* Liveness.                                                               *)

\* Every request is answered (handler.rs:80-160), also when
\* every worker thread is busy as it arrives.
RequestsAnswered == \A h \in Handlers : pc[h] # "idle" ~> pc[h] = "idle"

\* Once the API stops publishing, the server holds its last mapping and serves
\* from an initialized client for exactly the server keys in it.
ClientsConverge ==
    <>[](mode = "keys" => Serving)

=============================================================================
