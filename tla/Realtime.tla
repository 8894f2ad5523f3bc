------------------------------ MODULE Realtime ------------------------------
(***************************************************************************)
(* RealtimeSocket (src/src/realtime.rs) and the update callbacks that the  *)
(* repository installs in the clients it creates and removes               *)
(* (src/src/repo.rs:202-263): an SDK registers its key on a socket, and is *)
(* told to fetch again whenever the FPClient behind its key gets new       *)
(* toggles.                                                                *)
(*                                                                         *)
(* The socket.io rooms, the FPClients and the SDKs are external.  Being    *)
(* told twice before it fetches helps no SDK, so what waits for a socket   *)
(* is a flag, and tasks that will emit to the same rooms are one.          *)
(***************************************************************************)
EXTENDS SecretMapping

CONSTANTS
    Sdks,        \* connections of SDKs
    MaxUpdates   \* bound: how often the toggles of a server key change

Keys == ClientSdkKeys \cup ServerSdkKeys

ASSUME MaxUpdatesAssumption == MaxUpdates \in Nat

VARIABLES
    live,      \* the server keys that have an FPClient
    held,      \* version of the toggles it holds, 0 for none (external)
    early,     \* the version it held before its callback was set, 0 for none
    captured,  \* the client key in its update callback, fixed when it is set up
    pending,   \* spawned notify_sdk tasks that have not emitted yet
    rooms,     \* which sockets have joined the room of a key
    pc,        \* where the register callback of a socket is
    payload,   \* the key it was called with; None when there was none
    inbox,     \* an "update" event is on its way to the SDK
    asking,    \* the SDK is fetching
    seen       \* the versions the SDK has got by its last fetch (external)

clientVars == <<live, held, early, captured>>
socketVars == <<rooms, pc, payload>>
sdkVars    == <<inbox, asking, seen>>
vars == <<clientVars, pending, socketVars, sdkVars>>

Room(x) == IF x = None THEN {} ELSE rooms[x]

\* The sockets that the update callback of s reaches.
Audience(s) == IF s \in live THEN rooms[s] \cup Room(captured[s]) ELSE {}

Versions == 0..MaxUpdates

Nothing == [s \in ServerSdkKeys |-> 0]

Init ==
    /\ live = {}
    /\ held = Nothing
    /\ early = Nothing
    /\ captured = NoReverse
    /\ pending = {}
    /\ rooms = [x \in Keys |-> {}]
    /\ pc = [k \in Sdks |-> "off"]
    /\ payload = [k \in Sdks |-> None]
    /\ inbox = [k \in Sdks |-> FALSE]
    /\ asking = [k \in Sdks |-> FALSE]
    /\ seen = [k \in Sdks |-> Nothing]

-----------------------------------------------------------------------------

\* FPClient::new starts to fetch before setup_notify has set the callback, so
\* version n may have arrived unheard.  The callback captures client key c.
CreateClient(s, c, n) ==
    /\ s \notin live
    /\ live' = live \cup {s}
    /\ held' = [held EXCEPT ![s] = n]
    /\ early' = [early EXCEPT ![s] = n]
    /\ captured' = [captured EXCEPT ![s] = c]
    /\ UNCHANGED <<pending, socketVars, sdkVars>>

\* What the callback has spawned outlives the client.
RemoveClient(s) ==
    /\ s \in live
    /\ live' = live \ {s}
    /\ held' = [held EXCEPT ![s] = 0]
    /\ early' = [early EXCEPT ![s] = 0]
    /\ captured' = [captured EXCEPT ![s] = None]
    /\ UNCHANGED <<pending, socketVars, sdkVars>>

\* An FPClient stores new toggles and runs its callback, which spawns a task.
Update(s, n) ==
    /\ s \in live
    /\ n > held[s]
    /\ held' = [held EXCEPT ![s] = n]
    /\ pending' = pending \cup {[server |-> s, client |-> captured[s]]}
    /\ UNCHANGED <<live, early, captured, socketVars, sdkVars>>

\* Fault: the client key is left out of the rooms.
NotifyServerRoom(p) ==
    /\ p \in pending
    /\ pending' = pending \ {p}
    /\ inbox' = [k \in Sdks |-> inbox[k] \/ k \in rooms[p.server]]
    /\ UNCHANGED <<clientVars, socketVars, asking, seen>>

\* notify_sdk: emit "update" to the rooms of the server and the client key.
Notify(p) ==
    /\ p \in pending
    /\ pending' = pending \ {p}
    /\ inbox' = [k \in Sdks |-> inbox[k] \/ k \in rooms[p.server] \cup Room(p.client)]
    /\ UNCHANGED <<clientVars, socketVars, asking, seen>>

\* A "register" event arrives, also a second one on the same socket.
Receive(k, key) ==
    /\ pc[k] \in {"off", "on"}
    /\ pc' = [pc EXCEPT ![k] = "registering"]
    /\ payload' = [payload EXCEPT ![k] = key]
    /\ UNCHANGED <<clientVars, pending, rooms, sdkVars>>

\* The steps of `register`, which a disconnect can cut short: the join, if the
\* payload has a key, and the first event, whatever the payload.
JoinRoom(k, from, to) ==
    /\ pc[k] = from
    /\ pc' = [pc EXCEPT ![k] = to]
    /\ rooms' = [x \in Keys |-> IF x = payload[k] THEN rooms[x] \cup {k} ELSE rooms[x]]
    /\ UNCHANGED <<clientVars, pending, payload, sdkVars>>

Greet(k, from, to) ==
    /\ pc[k] = from
    /\ pc' = [pc EXCEPT ![k] = to]
    /\ inbox' = [inbox EXCEPT ![k] = TRUE]
    /\ UNCHANGED <<clientVars, pending, rooms, payload, asking, seen>>

\* Fault: the SDK is told to fetch before it has joined.
RegisterGreetsFirst(k) ==
    Greet(k, "registering", "joined") \/ JoinRoom(k, "joined", "on")

Register(k) ==
    JoinRoom(k, "registering", "joined") \/ Greet(k, "joined", "on")

Disconnect(k) ==
    /\ pc[k] # "off"
    /\ pc' = [pc EXCEPT ![k] = "off"]
    /\ payload' = [payload EXCEPT ![k] = None]
    /\ rooms' = [x \in Keys |-> rooms[x] \ {k}]
    /\ inbox' = [inbox EXCEPT ![k] = FALSE]
    /\ UNCHANGED <<clientVars, pending, asking, seen>>

\* The SDK handles an "update" event: it fetches from the server again.
Refetch(k) ==
    /\ inbox[k] /\ ~asking[k]
    /\ inbox' = [inbox EXCEPT ![k] = FALSE]
    /\ asking' = [asking EXCEPT ![k] = TRUE]
    /\ UNCHANGED <<clientVars, pending, socketVars, seen>>

\* The SDK fetches as it starts and at every interval of its own.
Poll(k) ==
    /\ ~asking[k]
    /\ asking' = [asking EXCEPT ![k] = TRUE]
    /\ UNCHANGED <<clientVars, pending, socketVars, inbox, seen>>

\* The server's answer leaves the SDK with these versions.
Learn(k, versions) ==
    /\ asking[k]
    /\ asking' = [asking EXCEPT ![k] = FALSE]
    /\ seen' = [seen EXCEPT ![k] = versions]
    /\ UNCHANGED <<clientVars, pending, socketVars, inbox>>

-----------------------------------------------------------------------------

Notifications == [server : ServerSdkKeys, client : ClientSdkKeys \cup {None}]

\* Clients come and go as the mapping says.
Step ==
    \/ \E s \in ServerSdkKeys, c \in ClientSdkKeys \cup {None}, n \in Versions :
          CreateClient(s, c, n)
    \/ \E s \in ServerSdkKeys : RemoveClient(s) \/ \E n \in Versions : Update(s, n)
    \/ \E p \in pending : Notify(p)
    \/ \E k \in Sdks, key \in Keys \cup {None} : Receive(k, key)
    \/ \E k \in Sdks : Register(k) \/ Disconnect(k) \/ Refetch(k) \/ Poll(k)

\* Here every fetch is answered in full; Server has the answers of the repository.
Next == Step \/ \E k \in Sdks : Learn(k, held)

\* Spawned tasks run, and an SDK that has been told to fetch does.
Fairness ==
    /\ \A p \in Notifications : WF_vars(Notify(p))
    /\ \A k \in Sdks : WF_vars(Register(k)) /\ WF_vars(Refetch(k)) /\ WF_vars(Learn(k, held))

Spec == Init /\ [][Next]_vars

FairSpec == Spec /\ Fairness

-----------------------------------------------------------------------------

\* Every variable has the shape the code gives it (realtime.rs, repo.rs:248-261).
TypeOK ==
    /\ live \subseteq ServerSdkKeys
    /\ held \in [ServerSdkKeys -> Versions]
    /\ early \in [ServerSdkKeys -> Versions]
    /\ captured \in Reverses
    /\ pending \subseteq Notifications
    /\ rooms \in [Keys -> SUBSET Sdks]
    /\ pc \in [Sdks -> {"off", "registering", "joined", "on"}]
    /\ payload \in [Sdks -> Keys \cup {None}]
    /\ inbox \in [Sdks -> BOOLEAN]
    /\ asking \in [Sdks -> BOOLEAN]
    /\ seen \in [Sdks -> [ServerSdkKeys -> Versions]]

\* SDK k has the toggles of s, or will be told to fetch them, or fetches them.
UpToDate(s, k) ==
    \/ seen[k][s] >= held[s]
    \/ inbox[k]
    \/ asking[k]
    \/ pc[k] = "joined"
    \/ \E p \in pending : p.server = s /\ p.client = captured[s]

\* A version that was there before the callback is announced to nobody.
Told(s, k) == UpToDate(s, k) \/ held[s] = early[s]

\* No update falls between an SDK's last fetch and its join, or is announced to
\* the rooms of an earlier client of the key: a socket in a room of s whose SDK
\* is behind will still be told (realtime.rs:41-80, repo.rs:202-207, 244-263).
NothingMissed == \A s \in ServerSdkKeys : \A k \in Audience(s) : Told(s, k)

\* An SDK that stays registered under the server key, or under the client key in
\* the callback, gets every announced version of the toggles or a later one,
\* however updates, registrations, removals and creations of the client
\* interleave (realtime.rs:41-80, repo.rs:202-215).
UpdatesArrive ==
    \A s \in ServerSdkKeys, k \in Sdks, n \in 1..MaxUpdates :
        (k \in Audience(s) /\ held[s] = n /\ early[s] # n)
            ~> (k \notin Audience(s) \/ seen[k][s] >= n)

=============================================================================
