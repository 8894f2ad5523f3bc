# FeatureProbe Server in TLA+

A verification project for the Evaluation Server in `src/`: TLA+ modules that
model it, TLC configurations that check them on small instances, and proofs
that TLAPS checks for every value of the constants. File names of the form
`repo.rs:219` are relative to `src/src/` of the repository.

## 1. The system

The server sits between the FeatureProbe API and the SDKs. It fetches from the
API which client SDK key belongs to which server SDK key (the *secret
mapping*), runs one `FPClient` per server SDK key that keeps that key's toggles
up to date, and answers SDK requests from them.

| part | code | state | operations | interacts with |
|---|---|---|---|---|
| Secret mapping | `secrets.rs` | `version`, `mapping` (client key to server key), `reverse` index | `update_mapping`, `insert`, lookups | owned by the repository |
| SDK repository | `repo.rs` | `secret_mapping` and `sdk_clients`, each in a `parking_lot::RwLock` | `sync`, `sync_with` (two loops), `update_mapping`, `update_clients`, `setup_notify`, the `*_string` reads, `client_sync_now` | API (HTTP), FPClients, realtime socket, HTTP handlers |
| HTTP handlers | `http/handler.rs` | none of their own | `server_sdk_toggles`, `client_sdk_toggles`, `client_sdk_events`, `update_toggles`, `all_secrets` | repository, on tokio worker threads |
| Event forwarding | `http/handler.rs:197-293` | spawned sends | `handle_events`, `send_events` | repository (key translation), event services |
| Realtime socket | `realtime.rs` | socket.io rooms | `serve`, `register`, `notify_sdk` | update callbacks of the FPClients, SDK sockets |
| Configuration, start-up | `base.rs`, `main.rs` | `ServerConfig` | `try_parse`, `init_handler`, `start` | builds the other parts |
| HTTP server | `http/mod.rs` | none | routes | handlers |
| Mock handler, example | `handler.rs:306-428`, `examples/` | the body of the fixture, under a mutex | answers FPClients in tests | FPClients |
| Logging | `base.rs:189-234`, `main.rs:129-145` | none | formatting | |

External: `parking_lot::RwLock`, tokio, `FPClient` (the server SDK), socket.io,
axum, the API.

### What is hard in it

* **Concurrency.** Two background loops and every connection are tokio tasks on
  several threads. They share two maps under two locks and hold guards of both
  at once, not always in one order.
* **Check and act.** `update_mapping` compares versions and `Inner::sync` looks
  for a client under a read guard that is dropped before the write guard is
  asked for. `update_clients` decides on removals from a copy of the map.
* **Ordering and failure.** Fetches fail, time out, or return what a lagging
  replica of the API has.
* **Cached values.** The reverse index, the client key an update callback
  captures, the copy of the clients.
* **Late news.** An SDK is told to fetch by a task that runs some time after the
  update, to rooms chosen when the client was created, while sockets come and go
  and the API moves keys; it then asks, and may be answered 503.
* **Silent answers.** An unknown key gets 200 with an empty repository, so a
  wrong lookup switches toggles off instead of failing.

### What makes each part correct

* Secret mapping: the index always agrees with the mapping; only a newer version
  is taken, and taken whole.
* Repository: the mapping in force is one the API published; after a run of
  `update_clients` there is a client for exactly the mapped keys; a serving
  client of a mapped key is not lost; the server converges on the last mapping.
* Handlers: a response agrees with the mapping and the clients in force when it
  is sent; every request is answered.
* Realtime: an update is announced to the keys mapped to the client, and an SDK
  that has registered does not miss one.
* The whole: an SDK that was answered about a server key, and is entitled to hear
  of its updates, never ends up behind with nothing on its way to tell it.
* Event forwarding: a batch reaches each configured service at most once, under
  the server key of its sender.
* Start-up: a configuration is refused before anything is started, whatever else goes
  wrong has a cause in the environment, and a
  sensible one leads to a server that listens where it was told to.

`PROJECT.json` lists the hazards of the code with their lines, and the
properties that cover them.

## 2. Modules

| module | models | notes |
|---|---|---|
| `RwLock` | `parking_lot::RwLock` (external) | operators on a lock record |
| `SecretMapping` | `secrets.rs` | operators with the names of the Rust methods |
| `SdkRequests` | the requests of the routes (`http/mod.rs:63-133`) and the answers of the handlers (`handler.rs:80-195`) | operators |
| `SdkService` | what the repository promises: mappings in order, a client per mapped key, answers in one step | the abstract specification |
| `SdkRepo` | `repo.rs`, the SDK handlers of `handler.rs`, the mode chosen by `init_handler` | the state machine, a refinement of `SdkService` |
| `MCSdkRepo` | | symmetry sets for TLC |
| `SecretMappingProofs` | | lemmas on the operators |
| `SdkRepoProofs` | | the inductive invariant, the theorems, deadlock, and that `SdkRepo` implements `SdkService` |
| `Realtime` | `realtime.rs` and the update callbacks of `repo.rs:202-263` | a state machine of its own, open to clients that come and go |
| `RealtimeProofs` | | types, and that no update is missed |
| `Server` | the repository behind HTTP together with the sockets | composes `SdkService` and `Realtime` |
| `ServerProofs` | | that no SDK is left behind, from the lemmas of `RealtimeProofs` |
| `System` | the default build with SDKs: repository, callbacks, sockets, connections | composes `SdkRepo` and `Realtime`; a refinement of `Server` |
| `SystemProofs` | | that `System` implements `Server`, and so leaves no SDK behind |
| `LocalFile` | `LocalFileHttpHandlerForTest` (`handler.rs:306-428`) | a state machine of its own |
| `LocalFileProofs` | | that every fetch gets a new version |
| `Forwarding` | what `POST /api/events` promises: a batch is decided on in one step and then handed on | an abstract specification |
| `Events` | `handle_events` and what it spawns (`handler.rs:197-293`) | a state machine of its own, a refinement of `Forwarding` |
| `EventsProofs` | | the inductive invariant, the theorems, and that `Events` implements `Forwarding` |
| `Startup` | `try_parse` (`base.rs:45-163`), `main.rs:28-127`, the binding of the ports | a state machine over every environment |
| `MCStartup` | | negative integers for TLC |
| `StartupProofs` | | that refusing a configuration leaves nothing behind, and that every failure has its cause |

### How `SdkRepo` corresponds to the code

*State.* `secret_mapping` and `sdk_clients` are the two fields of `Inner`,
`mapping_lock` and `clients_lock` the locks around them. A HashMap is a total
function into its values or `None`. A client is `absent`, `loading` (created,
`initialized()` is false) or `ready`, with the client key its callback captured
in `notify`. `pc` says between which lock operations a task is. `fetched` is the
response body in the hand of a fetch loop; `todo`, `stale` and `current` are the
keys a run of `update_clients` has still to create, to remove, and the one it is
at. `request`, `sdk_key` and `reply` belong to a connection. `mode` is the
choice of `init_handler`. `FPClient::new` starts to fetch before the client is in
the map, so a client may be ready when it is inserted (`NewClients`). `published` is what the API has published (version *v*
at index *v*) and is the yardstick for the rest.

*Steps.* An action is what a task does from one lock acquisition to the next.

| action | code |
|---|---|
| `SyncWith`, `Sync` | `init_handler` (`main.rs:108-113`) calling `sync_with` or `sync` |
| `Fetch` | a response of the keys URL parses (`repo.rs:96-110`); failures change nothing |
| `UpdateMappingCheck`, `ReserveMapping`, `UpdateMapping` | `Inner::update_mapping`: compare, ask for the write guard, compare again and store |
| `Tick`, `UpdateClientsBegin` | the loop of `sync_with`; first guard of `update_clients` (`repo.rs:219`) |
| `UpdateClientsSnapshot` | copy of the clients, keys to create and to remove (`repo.rs:220-222`) |
| `SyncCheck`, `SyncInsert`, `SetupNotify` | `Inner::sync`, with `setup_notify` when built with `realtime` |
| `RemoveCheck`, `RemoveClient`, `UpdateClientsEnd` | second half of `update_clients` |
| `ReserveClients` | any `sdk_clients.write()` |
| `Receive`, `Poll`, `RejectUser` | a request arrives; a worker thread polls its connection and calls the handler of the route (`http/mod.rs:63-133`), which goes on or, when `decode_user` fails, answers 400 before it asks for a lock (`handler.rs:109-114`) |
| `Lookup`, `GetClient`, `SendBody` | the three toggle/event reads: the read of the mapping, the read of the client, the serialisation with both guards held |
| `SecretKeys` | `all_secrets`: a copy of the mapping, seen by a reader that looks one key up in it |
| `ClientSyncNow` | `update_toggles` |
| `Publish`, `Initialize` | external: the API, and a client's first fetch |

The keys of a mapping are visited in any order. Where the code iterates a
HashMap into another (`secrets.rs:40-42`) every outcome is possible, so
`update_mapping` returns a set of results. Write guards are taken in two steps,
reservation and exclusion, because that is what makes a pending writer block a
second read of the same thread. A read guard that is dropped within its
statement is only the test that it could be taken.

*Threads.* A task occupies one of `Workers` threads from the moment it is polled
(`Fetch`, `Tick`, `Poll` need a spare one) until its next await, and keeps it
while blocked on a lock. A request that has arrived waits for a thread.

*Abstractions.* Repositories, events, users and evaluation are not modelled: a
body is identified by the server key of the client it came from. Timers may fire
at any time. Errors that cannot occur on these paths (serialisation of a value
that was just parsed) are left out.

### `SdkService`, and how `SdkRepo` implements it

`SdkService` has the variables a caller can tell apart: the version and the
mapping in force, the state of each client (absent, loading, ready), and the
request and the answer on each connection. `Adopt` takes a published mapping
whole and in order, `Create` and `Remove` follow the mapping in force, and
`Answer` gives any response that `Answers` allows in one state of both maps.
There are no locks, no tasks and no index. `SdkRepo` maps to it by leaving out
its locks, program counters and what tasks remember (`Service == INSTANCE
SdkService WITH ...`), so a step of a loop or a handler is one action of
`SdkService` or a stutter: `UpdateMapping` is `Adopt`, `InsertClient` is
`Create`, `RemoveClient` is `Remove`, and whichever step sends the response is
`Answer`. Liveness is not part of `SdkService`: the finding below rules it out.

### `Realtime`

`rooms` are the socket.io rooms; `live` are the server keys with an FPClient,
which are created and removed at any time. `captured` is the client key in each
update callback, fixed when the client is created; here it can be any key or
none. An FPClient (`held` is the version of its toggles) stores new toggles and
runs its callback, which spawns a `notify_sdk` task (`Update`, then `Notify` at
any later time and in any order, also after the client is gone). A version that
arrives before the callback is set (`early`) is announced to nobody. A socket
sends `register` (`Receive`), also repeatedly or without a key; `register` joins
the room and then emits the first "update" (`JoinRoom`, `Greet`), with an await
in between. A disconnect leaves the rooms at any point. An SDK that is told
fetches (`Refetch`), as it does at its own intervals (`Poll`), and is answered
some time later (`Learn`). Events need no payload, so `inbox` is a flag.
`emit_to` is one step: it is inside the socket library.

### `Server`

`Server` is `SdkService` and `Realtime` side by side. `live` of `Realtime` is
what `SdkService` has clients for, and an SDK is `asking` while its connection
has a request. Creating, removing and first filling a client are steps of both
(`Connect`, `Drop`, `Update`); `Boot` is the single-pair mode, where `sync`
creates the client before it inserts the pair, so the callback has captured no
client key. `Connect` gives the callback any client key that the mapping has for
the server key at that moment, as the reverse index does. `Refetch` and `Poll`
send a request for the socket's key, and `Answered` is the repository's answer:
200 replaces what the SDK knows, also by nothing, and 503 changes nothing. Since
`SdkRepo` implements `SdkService`, these answers include all that the locks and
loops of the repository can lead to. Two variables only record: `last` is the
server key each SDK was last answered about, and `only` the client key that was
the only one of a server key when its client was created.

Where the code promises nothing, the properties say nothing: a client key that
the API adds to a server key, or puts in the place of another, is not told by
the client that is there already; nor is any in the single-pair mode; nor is
anybody told that a client was removed, or that a key was mapped again before
its client was removed. Of all these SDKs `AskingCatchesUp` says that they learn of it by
asking: `Current` compares what an SDK knows with what the client of its key holds, whoever
that client may tell.

### `System`

`System` is `SdkRepo`, step by step between its locks, with the variables of
`Realtime` and the two records of `Server`; each handler is the connection of one
SDK. The sockets see the repository through `Captured` (the client key in each
client's callback), `Present` and `Asking`. Most steps of `SdkRepo` leave the
sockets alone (`Background`); those that create, fill or remove a client take the
step of the sockets with them (`Boot`, `Connect`, `Update`, `Drop`), and the step
of a handler that sends the response is the one in which the SDK learns from it
(`Serve`). An SDK sends users that decode, and asks with the key of its socket.
It implements `Server` (`ImplementsServer`): what a handler has looked up under
its guards, and what a callback captured while a loop holds its own, is what the
whole steps of `Server` use. One client loop is assumed, as the binary has, and
the default build.

### `LocalFile`

The mock API that tests put behind FPClients keeps its body and makes the next
version of it at every fetch, if `version_update` is set. `Copy` and `Update` are
the two halves of `server_sdk_toggles`, under one guard; `Fixed` stands for the
handlers that return fixed text.

### `Events`

A batch goes through `handle_events` in the steps at which other threads can
come between: the copy of the mapping is read (`Authorize`, to 401 or on), each
task is spawned (`SendEvents`), the batch is answered (`Respond`). Each task
sends (`Send`) and ends with a response (`Succeed`) or an error (`Fail`: no
connection, or the timeout). `Deliver` and `Lose` are the network; a message may
be delivered after its task has ended. `UpdateMapping` replaces the mapping by
any other at any time, which is more than `SdkRepo` allows. A key counts as a
client key when it starts with "client" (`ClientPrefixed`), whatever it is. The
steps take no locks: `secret_keys` holds its guard for one statement, and what
blocking does is the subject of `SdkRepo`.

`Forwarding` has neither headers nor tasks nor messages. A batch is waiting, then
refused or accepted under the key its sender has at that moment; from then on each
configured service may get it, once, under that key, before or after the 200, or
never. `Events` maps to it (`Promise`) by leaving out its tasks, its messages and
its history, and telling of `pc` only what the sender sees: `Authorize` is `Accept`
or `Refuse`, `Respond` is `Confirm`, `Deliver` is `Forward`, and what the tasks do
is no step of it. `Forwarding` finds a batch's key by itself (`Sender`), so it also
says of a mistake in `ServerKey` what the properties stated with `ServerKey` cannot.

### `Startup`

`env` is what the environment variables hold, `Accepted` when `try_parse`
returns `Ok`, `ServerConfig` what it returns: integers cut to the width of their
type, defaults also for a value that is no number. `main` then takes the steps of
`start` in their order; each may be the last. `BindHttp` and `BindRealtime` run
in tasks of their own, so nobody hears of a failure. How the error of a refused
configuration reads, and which of several is reported, is left out.

Operators whose comment starts with "Fault:" are variants of the operator that
follows them, each with one plausible mistake. No specification uses them; they
document what the properties can tell apart (section 4).

## 3. Runs

| run | instance | checks | shows |
|---|---|---|---|
| `RepoRealtime` | default build; 2 client keys, 2 server keys, 1 loop of each kind, 1 connection, 3 threads, 2 published mappings | `TypeOK`, `CallbackKeyWasMapped`, `IInv`, `LookupsLast`, `OnlyLocksBlock`, `DeadlocksInSetupNotify`, `AnswersMatchMapping`, `MappedClientStaysReady` | answers agree with the maps; callbacks notify mapped keys; mapped clients stay; the finding is the only deadlock |
| `RepoTwoLoops` | no `realtime`; 1 client key, 2 server keys, 2 loops of each kind, 5 threads, 2 mappings | `MappingInv`, `UpdateLeavesMappedClients`, `VersionNeverRegresses`, `ConvergedStays`, `SettledStays`, `ImplementsService`, no deadlock | the repository implements the abstract service; racing loops never bring an old mapping back, leave the wrong clients or undo what has converged, nor replace a client that serves unless one of them looked for it before |
| `RepoPolling` | no `realtime`, fairness; 1 client key, 2 server keys | `DeadlocksInSetupNotify`, `RequestsAnswered`, `ClientsConverge` | no deadlock, and liveness, without realtime |
| `RepoOneWorker` | default build, one thread, fairness | `DeadlocksInSetupNotify`, `RequestsAnswered` | the deadlock needs two threads |
| `RealtimeSockets` | 2 client keys, 1 server key whose client comes and goes, 1 socket, 2 updates, fairness | `NothingMissed`, `UpdatesArrive` | a registered SDK gets every announced version or a later one |
| `ServerMoves` | 1 client key, 2 server keys, 1 SDK, 2 mappings, 2 updates of each key | `IInv`, `NoSdkBehind` | no SDK is left behind when the API moves its key |
| `ServerKeys` | 2 client keys, 1 server key, 1 SDK, 2 mappings, 1 update, fairness | `AnnouncementsArrive`, `AskingCatchesUp` | announced versions get through sockets, requests and answers; who is told nothing learns of them by asking |
| `SystemSdk` | default build; 1 key of each kind, 1 loop of each kind, 1 SDK, 2 threads, 2 mappings, 1 update | `NoSdkBehind`, `ImplementsServer` | the parts of the binary together do what `Server` says |
| `LocalFile` | 3 FPClients, 6 versions | `EveryFetchIsNew` | no two fetches get the same version |
| `EventForwarding` | 2 client keys, 2 server keys, one of each with the prefix, 1 batch, both services, fairness | `ReceivedAtMostOnce`, `SentUnderOwnKey`, `AnsweredForCause`, `ImplementsForwarding`, `BatchesSettle` | at most once, under one key; refused or accepted for a cause, as if in one step; no task is left |
| `StartupConfigs` | default build, every combination of 3 states of 4 URLs, 2 keys, 4 intervals and 7 by 7 ports, fairness | `RefusedAtOnce`, `FailuresHaveCause`, `StartableServes` | a sensible configuration is served, a refused one starts nothing, and whatever else goes wrong has its cause in the environment |
| `RepoDeadlock` | default build, 3 threads, 1 key of each kind, fairness | `RequestsAnswered` is **violated** | the finding below |

**Bounds.** `MaxVersion = 2` published mappings give a first mapping, a change,
and a late old answer after a newer one. Two server keys allow one to be added
while another is removed, and two client keys allow the client key of a server
key to change, and two client keys to share a server key. One connection is
enough for properties of one response, because connections share nothing but
the locks, and the proofs cover any number. `OnlyLocksBlock` ties `WaitsFor`, in
which the deadlock properties are stated, to the guards of the actions: a task
that waits for nobody can take a step. `DeadlocksInSetupNotify` looks at every set
of tasks, so it also finds a deadlock that leaves others running.
Two loops of each kind are more than the binary spawns, and cover an embedder
that calls `sync_with` twice. `RepoRealtime`, `SystemSdk` and `RepoDeadlock`
do not check for deadlock, because the default build can deadlock. Sockets share
nothing with each other, and batches only the mapping, so one of each meets
every case; the proofs cover any number. `MaxUpdates = 2` lets an update come
before and after the one a socket has been told of, or two tasks be pending.
In `Server` an SDK's behaviour depends on the server key it is mapped to and the
client key in the callback, so one SDK with one key that moves, and with one of
two keys of the same server key, meets the cases; two mappings let the key move
or go, and the client be made anew under another key. One update there is the
first after the callback was set. The proof covers the rest. `SystemSdk` is about
the largest instance that TLC finishes, for the steps between locks multiply those
of the sockets; two threads let any two tasks overlap. It has the client that comes, loads, goes and comes again, and the
socket and the request that meet it at each step; what two keys of a kind add is
checked of `SdkRepo` and of `Server` apart, and proved of `System`.
`Events` has no counter to bound. `StartupConfigs` (module `MCStartup`, for the negative
numbers) takes ports at the limits of 16 bits, one below 0, one beyond that wraps to another's
default, one in use, and the intervals -1, 0, 1 and none; `SecondsModulus` stands for 2^64, which TLC's integers do not hold,
and exceeds every interval of the instance, as 2^64 does every `i64` that
`get_int` returns. There deadlock is not checked, since
a process that has ended or only waits takes no further step.

**Fairness** (`Fairness` in `SdkRepo`). Start-up happens. Steps of a task are
strongly fair: tokio polls every woken task again, and `parking_lot` serves
every waiter eventually, so a task whose lock is free again and again gets it,
although others may take it in between. Assumed of the outside: `Initialize`
(the toggles URL answers eventually) and `Fetch(t, Len(published))` (the API
answers with its current mapping again and again, between any number of failed
or stale answers). Nothing is assumed of `Publish` or `Receive`. A connection
with a request is polled; whether that is a `Poll` or a `RejectUser` is left open, so
fairness never forces a 400, and a user that has been decoded is not looked at again.
In `Realtime` and `Server`, spawned tasks and callbacks run, an SDK that has been
told fetches, and it is answered, which `RequestsAnswered` shows of builds that do
not meet the finding; nothing is assumed of updates, clients, mappings, polls,
registrations and disconnects. That an SDK goes on asking is a premise of
`AskingCatchesUp`, and no fairness; that the API is quiet from some time on is what
the bounds on mappings and updates come to. In `Events`, handlers and tasks run and the timer of a request goes off; nothing is
assumed of the network, so `BatchesSettle` holds with services that never answer.
In `Startup`, `main` goes on and spawned tasks run.

### Finding: the default build can deadlock

`update_clients` holds a read guard of `secret_mapping` (`repo.rs:219`) and
calls `Inner::sync`, which takes the write guard of `sdk_clients` (191) and, in
`setup_notify`, reads `secret_mapping` again (249). `parking_lot` makes a reader
wait when a writer is waiting, also one whose thread already holds a read guard.
If a newer mapping has arrived in the meantime, `update_mapping` waits at 239
for the first guard while `update_clients` waits behind it at 249. Neither ever
goes on, and each handler that touches a map then blocks its thread as well.
`RepoDeadlock` shows the trace; `RepoPolling` (no `realtime`) and
`RepoOneWorker` (a single worker thread) show that both ingredients are needed.
The theorem `OnlyDeadlock` says that there is no other deadlock, `DeadlockIsFinal`
that nothing ends this one, and `DeadlockSilencesServer` what it takes along: the
mapping and the set of clients are frozen, and of the handlers that read a map
none answers any more, but for a 400 to a user that does not decode.

### A property that needs one loop

`MappedClientStaysReady` is false with two client loops: both may miss a key in
`Inner::sync`, and the second insert then replaces the client of the first,
which may be ready by then. The same goes for `LookupsLast`, which it rests on. The
binary spawns one loop, so the run and the theorems assume one. What holds with any
number is `SettledStays`: such a lookup, made before the first insert, is all that can
take a serving client away, and once the last mapping is served and no loop has one left,
nothing does until the API publishes again.

## 4. What the properties can tell apart

Each property of each passing run is broken by at least one fault.

| property | fault |
|---|---|
| `TypeOK` | `ClientSyncNowNotFound`: the status of an error that `update_toggles` must translate |
| `CallbackKeyWasMapped`, `UpdateLeavesMappedClients`, `ImplementsService`, `ImplementsServer` | `UpdateClientsBeginUnguarded`: `update_clients` does not keep its guard |
| `AnswersMatchMapping`, `IInv` of `SdkRepo` | `LookupUnguarded`: a handler drops the guard after the lookup |
| `MappedClientStaysReady`, `LookupsLast`, `SettledStays` | `SyncAlways`: a client is created without looking for it |
| `MappingInv` | `UpdateKeepsParsedReverse`: the parsed mapping is stored as it is |
| `VersionNeverRegresses`, `ConvergedStays` | `UpdateUnchecked`: no second comparison |
| `RequestsAnswered`, `DeadlocksInSetupNotify` | `UpdateMappingCheckHoldingGuard`: the first guard of `update_mapping` lives on |
| `DeadlocksInSetupNotify` with `realtime` | `SyncCheckHoldingGuard`: the guard of the look for the client lives on |
| `OnlyLocksBlock` | `SetupNotifyWriting`: `setup_notify` asks for a write guard under its own read guard |
| `ClientsConverge` | `UpdateClientsSnapshotAddOnly`: unmapped clients are never removed |
| `NothingMissed` | `RegisterGreetsFirst`: the first event is sent before the join |
| `UpdatesArrive`, `AnnouncementsArrive` | `NotifyServerRoom`: the client key is left out of the rooms |
| `NoSdkBehind`, `IInv` of `Server` | `ConnectUnmapped`: the callback is set up while the mapping has no client key for it |
| `AskingCatchesUp` | `BootUnversioned`: the pair is inserted under the version of an empty mapping |
| `NoSdkBehind` of `System` | `NewClientsUnmapped`: the same, in the step of `SdkRepo` |
| `EveryFetchIsNew` | `CopyUnlocked`: the guard is dropped with the statement that copies the body |
| `ReceivedAtMostOnce` | `FailRetries`: a send that failed is tried again |
| `SentUnderOwnKey` | `SendTranslatesLate`: the key is translated when the task runs |
| `AnsweredForCause` | `SendEventsEither`: the events service is only served when there is no other |
| `ImplementsForwarding` | `ServerKeyUntranslated`: a client key that is not mapped is passed on |
| `BatchesSettle` | `FailToConnect`: the request has no timeout |
| `RefusedAtOnce` | `AcceptedWithoutServerKey`: `try_parse` forgets one key |
| `StartableServes`, `FailuresHaveCause` | `PortAsI16`: a port is converted to a signed integer first |

## 5. Proofs

`SecretMappingProofs` proves, for any sets of keys, that some index always
exists, that a key is known exactly when it is mapped, and that `update_mapping`
takes a newer mapping whole and ignores the others. `InsertKeepsIndex` says when
`insert` leaves the index right: exactly when no other server key had the client
key in it. The binary calls it on an empty mapping, where that is so.

`SdkRepoProofs` proves for every number of keys, loops, connections, threads and
versions, with and without `realtime`:

* `Inductive`: `Spec => []IInv`;
* `TypeCorrect`, `MappingWasPublished`, `CallbackKeys`: the invariants of the runs;
* `AnswersAgree`, `LoopLeavesMappedClients`, `VersionsGrow`, `ConvergenceLasts`: the
  action properties;
* `ServingIsReady`: no 503 from a server that has converged and serves;
* `SettledLasts`: what has converged and serves goes on serving;
* `LookupsStay`, `MappedClientsStay`, `ServingLasts`: under the assumption of one
  client loop;
* `OnlyDeadlock`, `SomebodyGoesOn`, `DeadlockIsFinal`, `DeadlockSilencesServer`: what
  can block, for how long, and what it takes along;
* `RepoImplementsService`: that it implements `SdkService`.

Assumed: `None` is no key, and the three kinds of task are disjoint
(`NoneIsNoKey`, `TaskKindsDisjoint`); the other assumptions only give constants
their types.

**The argument.** What the properties say is true of each step only because of
what the task read some steps before. `IInv` writes that down. `LockInv` says who
owns which guard, by program counter. `HandlerInv` says what a handler knows
between its lookup and its response, `LoopInv` what a run of `update_clients`
knows of the two maps. Both rest on the lemmas `GuardedMapping` (while somebody
holds a read guard, nobody changes the mapping), `GuardedClients` and
`ClientsFollowMapping` (after start-up, only mapped keys get a client and only
unmapped ones lose it, also by decisions taken many steps ago). `MappingInv` ties
the mapping and the responses in flight to what was published;
`CallbackKeyWasMapped` then follows from it and `LoopInv` at the moment a client
is created. `StartInv` is needed because `sync` takes no part in this: it runs
before anything else. None of the properties is inductive without the others.

**Deadlock.** A set of tasks is deadlocked when each waits for one of them
(`Deadlocked`), be it all tasks or some. `OnlyDeadlock` proves
`DeadlocksInSetupNotify`: such a set has a client loop in `setup_notify` and a key
loop that owns the writer bit of `secret_mapping`. The argument orders what a task
can wait for. A handler that serialises waits for nobody, so who waits for the
readers of `sdk_clients` to leave does not wait for long; only `setup_notify` can
keep others from `sdk_clients`; only those who wait there, or `setup_notify`, can
keep a writer from `secret_mapping`; and everybody else waits for that writer. So
each such set includes a task in `setup_notify` and the writer it waits for.
`WorkerInv` adds that both have a thread, hence two threads, and that only
`realtime` has the step. `SomebodyGoesOn` turns it round: without either, as long
as a thread is taken, some task that has one waits for nobody. `DeadlockIsFinal`
says of the deadlocks there are that no step, of whomever, moves one of their
tasks or ends their waiting (`WaitingIsStuck`).
`DeadlockSilencesServer` looks at the one deadlock from outside. The two tasks of
`NotifyDeadlock` wait for each other, so they stay (`NotifyDeadlockLasts`). One
holds the write guard of `sdk_clients` and a read guard of `secret_mapping`: no
other task gets a guard of the first, and none changes the second. To answer, a
handler needs a guard of the first, or another read guard of the second, which the
pending writer keeps from everybody.

**What is looked up stays so.** With one client loop nobody else creates or
removes clients after start-up, so `LookupsStay` needs no guard; that `IInv`
keeps removals to unmapped keys then gives `MappedClientsStay`.

**Convergence.** `Converged` says that the repository has the last published mapping
and clients for exactly its keys, `Serving` that all of these are initialized.
`ConvergenceLasts` proves that nothing under way undoes the first, with any number
of loops: a response in the hand of a loop is at most as new as the mapping
(`NewerMapping`), and a run of `update_clients` only creates clients of mapped keys
and removes those of others (`ClientsFollowMapping`), of which there are none left.
What it does not say is that a ready client is not replaced by one that has yet to
load. That takes a loop which has looked for the client and not found it; once all keys
of the mapping have theirs, no loop comes to look for another in vain
(`SettledStep`). So `SettledLasts` holds with any number of loops, and with one there is
no such lookup to wait for (`LookupsStay`), which makes it `ServingLasts`; with two that
is false (section 3). So of `ClientsConverge`, which says that from
some time on the server always serves, only that it once does is left to fairness.
`ServingIsReady` says what that is worth to an SDK: no 503 any more, because a
handler answers by the maps as they are when it answers (`AnswersStep`).

**Refinement.** `RepoImplementsService` proves `Spec => ImplementsService`: under
`IInv` each action is the action of `SdkService` named above, or leaves its
variables alone. What a handler answers is allowed because of `HandlerInv`, and
what a loop creates and removes because of `LoopInv`.

**Realtime.** `NoUpdateMissed` proves `NothingMissed` for any number of keys,
sockets and updates. It is inductive given the types (`RealtimeTypes`): the
order of join and greeting is what makes it so, because a socket that has just
joined and is behind is still "joined" and not yet greeted. An announcement of
an earlier client only counts when it goes to the rooms of the present one.
`StepTold` states the induction step for any clients that come and go and any
SDKs that ask.

**Server.** `NoSdkLeftBehind` proves `NoSdkBehind` for any number of keys, SDKs,
mappings and updates. `IInv` (theorem `Inductive`) speaks of everybody the
callback reaches and not only of those entitled; that the two agree is its part
on `only` and `captured`. Steps of clients and sockets keep it by `StepTold` of
`RealtimeProofs`, instantiated for the composition. An answer keeps it because
one about `s` either gives the toggles of `s` or is a 503, and then the client
of `s` holds none (`AnswerTells`).

**System.** `SystemImplementsServer` proves `SystemSpec => ImplementsServer` for
every number of keys, handlers, mappings and updates. `SystemIsRepo` says that the
system takes no step that the repository alone could not, so everything proved of
`SdkRepo` holds of it; a step of the repository is then a step of `SdkService` by
the lemmas of `RepoImplementsService`, and what is left is that the sockets take
theirs along. The captured keys only change when a client is created or removed
(`CapturedExcept`). `ConnectImplements` needs `LookupsLast`: a client is only
created where there is none, and `IInv`, for the captured key is then one the
mapping has. `ServeImplements` needs `HandlerInv`, for the SDK learns from a
response what the mapping and the clients say as it is sent. `PayloadsStay` keeps
the key of a socket one that can be asked for. `NoSdkLeftBehindInSystem` then
takes the theorem of `ServerProofs`, instantiated for the system: `NoSdkBehind`
holds between any two locks of the repository.

**Events.** `AtMostOnce`, `OwnKey` and `AnswersHaveCause` follow from `EventsInvariant`. The
invariant says that a batch that is not accepted has no tasks and no key in its
headers, and one that is has the tasks it has got to (`BatchInv`), that
a message under way is the first of its task and carries the key of the headers
(`WireInv`), and that a service which has got a batch got that message
(`ReceivedInv`). Assumed: nothing of the keys' prefixes, only that constants have
their types. In particular a client key that does not start with "client" is
forwarded as it is: the code relies on the naming of the keys.
`EventsImplementForwarding` proves that `Events` implements `Forwarding`. A delivery
is a `Forward` because `WireInv` makes the message the first to its service, so
that it has not got the batch yet, and its key the one in the headers, which is the
one decided on.

**Start-up.** `StartupTypes` proves the types. `RefusalLeavesNothing` proves `RefusedAtOnce` for every environment:
what reaches `init_handler` has been accepted, so one of its first two branches
applies, and `bailed` is only reached from `config`. `EveryFailureHasCause`
proves `FailuresHaveCause`, which speaks of every environment and not only of sensible
ones. `CauseInv` says how far `main` has got and what has stopped it or one of its tasks.
`Interval` and `AskedPorts` say what the conversions leave of the integers: 0 is the only
interval that becomes 0, and a port that exists is not changed. So a port that turns out to
be in use (`InUse`) was not a port, or is taken, or is what is left of the other one. For a
sensible configuration (`Startable`) none of these causes is there, and
`StartableServes` adds that it gets to serve. Assumed: `SecondsModulus` exceeds the
integers of the environment and their negatives, as 2^64 does those of an `i64`.

**Mock handler.** `FetchesAreNew` proves `EveryFetchIsNew`: a connection between
its two halves holds the mutex and a copy of the body, and all versions given so
far are older than that.

**Only model-checked:**

* `RequestsAnswered`, `ClientsConverge`, `UpdatesArrive`, `AnnouncementsArrive`,
  `AskingCatchesUp`, `BatchesSettle` and `StartableServes`, since liveness under fairness is outside
  the prover's reach. Of each, what a step can spoil is proved: nothing but the
  finding blocks a task (`OnlyDeadlock`), a run of `update_clients` leaves the
  right clients, a server that has got to serve goes on (`SettledLasts`, `ServingLasts`), no SDK or socket is left behind with nothing on its way to it,
  a batch is accepted with its tasks, and nothing fails on the way to serving without a cause;
* `OnlyLocksBlock`, which speaks of `ENABLED`;
* the finding, that is, that the one deadlock can be reached.

## 6. Not modelled, and the plan

Proved are all invariants and action properties of the runs but `OnlyLocksBlock`,
and the three refinements: `SdkRepo` of `SdkService`, `System` of `Server`, and
through it what `Server` promises, and `Events` of `Forwarding`. Left are the single-pair mode and several loops
in `System`: it has the single pair (`Boot`), but an embedder with two client
loops is covered by `SdkRepo` alone.

Not modelled:

* routing by path, CORS headers and the fixed responses of `http/mod.rs`, and
  logging, which hold no state;
* the example, which calls what `Startup` and `SdkRepo` model in a fixed order;
* the evaluation of toggles, which is in the SDK crate;
* the handlers and stubs of feature `unstable`, which change nothing;
* calls of `sync` by an embedder after start-up: the binary makes one, before it
  serves. `insert` leaves the index entry of a server key that a client key was
  mapped to before (`secrets.rs:64`), which only such a call could bring out;
* event forwarding as a part of `Server`: `Events` lets the mapping change in any
  way, which is more than the repository does, and events never meet the sockets.
