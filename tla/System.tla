------------------------------- MODULE System -------------------------------
(***************************************************************************)
(* The default build as the binary runs it: the repository of SdkRepo,     *)
(* step by step between its locks, the realtime sockets that the update    *)
(* callbacks of its clients reach, and an SDK on each connection.  It      *)
(* implements Server, in which the repository takes whole steps.           *)
(***************************************************************************)
EXTENDS SdkRepo

CONSTANT MaxUpdates  \* bound: how often the toggles of a server key change

ASSUME MaxUpdatesAssumption == MaxUpdates \in Nat

\* "realtime" is a default feature, and the binary calls sync_with once.
ASSUME DefaultBuild == Realtime

ASSUME OneClientLoop == \A t, u \in ClientTasks : t = u

VARIABLES
    held, early, pending, rooms, socket_pc, payload, inbox, seen,  \* of Realtime
    only, last                                                     \* of Server

socketsVars == <<held, early, pending, rooms, socket_pc, payload, inbox, seen>>
history     == <<only, last>>
systemVars  == <<vars, socketsVars, history>>

\* What the sockets see of the repository, and of the connections.
Captured == [s \in ServerSdkKeys |-> sdk_clients[s].notify]
Asking   == [h \in Handlers |-> request[h] # NoRequest]

Sockets == INSTANCE Realtime
             WITH Sdks <- Handlers, live <- Present, captured <- Captured,
                  asking <- Asking, pc <- socket_pc

Abstract == INSTANCE Server
              WITH Sdks <- Handlers, version <- secret_mapping.version,
                   mapping <- secret_mapping.mapping, clients <- States,
                   captured <- Captured, pc <- socket_pc

SystemInit ==
    /\ Init
    /\ Sockets!Init
    /\ only = [s \in ServerSdkKeys |-> None]
    /\ last = [h \in Handlers |-> None]

-----------------------------------------------------------------------------
(* The repository and its clients.                                         *)

\* A new client of s holds version n, and was told to nobody; a removed one, none.
Toggles(s, n) ==
    /\ held' = [held EXCEPT ![s] = n]
    /\ early' = [early EXCEPT ![s] = n]
    /\ UNCHANGED <<pending, rooms, socket_pc, payload, inbox, seen>>

Boot(c, s, n) ==
    /\ Sync(c, s, 1)
    /\ sdk_clients'[s].state = Abstract!Fresh(n)
    /\ Toggles(s, n)
    /\ UNCHANGED history

\* Inner::sync, as it inserts the client it has set up.
Connect(t, n) ==
    LET s == current[t] IN
    /\ SetupNotify(t)
    /\ sdk_clients'[s].state = Abstract!Fresh(n)
    /\ Toggles(s, n)
    /\ only' = [only EXCEPT ![s] = Abstract!OnlyKey(s)]
    /\ UNCHANGED last

\* Inner::remove_client.
Drop(t) ==
    LET s == current[t] IN
    /\ RemoveClient(t)
    /\ Toggles(s, 0)
    /\ only' = [only EXCEPT ![s] = None]
    /\ UNCHANGED last

\* The client gets toggles, its first or later ones.
Update(s, n) ==
    /\ IF sdk_clients[s].state = "loading" THEN Initialize(s) ELSE UNCHANGED vars
    /\ Sockets!Update(s, n)
    /\ UNCHANGED history

\* The other steps of the loops, and those of the API.
Background ==
    /\ \/ SyncWith
       \/ \E m \in Mappings : Publish(m)
       \/ \E t \in KeyTasks : KeyStep(t) \/ \E v \in 0..Len(published) : Fetch(t, v)
       \/ \E t \in ClientTasks : Tick(t) \/ (ClientStep(t) /\ sdk_clients' = sdk_clients)
    /\ UNCHANGED <<socketsVars, history>>

-----------------------------------------------------------------------------
(* The sockets and the SDKs.                                               *)

Socket ==
    /\ UNCHANGED <<vars, history>>
    /\ \/ \E p \in pending : Sockets!Notify(p)
       \/ \E h \in Handlers : \/ Sockets!Register(h) \/ Sockets!Disconnect(h)
                              \/ \E key \in Sockets!Keys : Sockets!Receive(h, key)

\* An SDK uses one key for its socket and its requests.
Asks(h) == payload[h] # None /\ Receive(h, Abstract!RequestFor(payload[h])) /\ UNCHANGED history

Refetch(h) == Asks(h) /\ Sockets!Refetch(h)

PollServer(h) == Asks(h) /\ Sockets!Poll(h)

\* A handler's step.  With its response the SDK knows what the response says; an
\* SDK sends users that decode.
Serve(h) ==
    /\ HttpStep(h)
    /\ reply'[h].status # 400
    /\ IF request'[h] = request[h] THEN UNCHANGED <<seen, last>>
       ELSE /\ seen' = [seen EXCEPT ![h] = Abstract!Knows(h, reply'[h])]
            /\ last' = [last EXCEPT ![h] = KeyOf(secret_mapping.mapping, request[h])]
    /\ UNCHANGED <<held, early, pending, rooms, socket_pc, payload, inbox, only>>

-----------------------------------------------------------------------------

SystemNext ==
    \/ Background
    \/ \E s \in ServerSdkKeys, n \in Sockets!Versions :
          Update(s, n) \/ \E c \in ClientSdkKeys : Boot(c, s, n)
    \/ \E t \in ClientTasks : Drop(t) \/ \E n \in Sockets!Versions : Connect(t, n)
    \/ Socket
    \/ \E h \in Handlers : Refetch(h) \/ PollServer(h) \/ Serve(h)

SystemSpec == SystemInit /\ [][SystemNext]_systemVars

-----------------------------------------------------------------------------

\* The binary does what Server says: sockets, callbacks, handlers and loops, at
\* any of their steps, show an SDK nothing that the whole steps do not
\* (repo.rs:67-311, handler.rs:80-125, realtime.rs:41-80).
ImplementsServer == Abstract!Spec

\* An SDK that was last answered about s, and is entitled to hear of it, has the
\* toggles of s or is on its way to them, also between two locks of the
\* repository (repo.rs:181-311, realtime.rs:41-80).
NoSdkBehind == Abstract!NoSdkBehind

=============================================================================
