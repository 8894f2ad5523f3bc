---------------------------- MODULE SystemProofs ----------------------------
(***************************************************************************)
(* System implements Server, for every number of keys, handlers, mappings  *)
(* and updates, so that no SDK of the binary is left behind.               *)
(***************************************************************************)
EXTENDS System, SdkRepoProofs

-----------------------------------------------------------------------------
(* With its sockets left out, System is SdkRepo.                           *)

\* The key of a socket is one of those the repository knows about (realtime.rs:41-54).
Payloads == payload \in [Handlers -> Sockets!Keys \cup {None}]

\* A socket's payload stays such a key, or none (realtime.rs:41-80).
LEMMA PayloadsStay == SystemSpec => []Payloads
<1>1. SystemInit => Payloads
  BY DEF SystemInit, Sockets!Init, Payloads
<1>2. ASSUME Payloads, [SystemNext]_systemVars PROVE Payloads'
  <2> USE DEF socketsVars, history, Sockets!clientVars, Sockets!socketVars, Sockets!sdkVars
  <2>1. ASSUME NEW h \in Handlers, NEW key \in Sockets!Keys, Sockets!Receive(h, key)
        PROVE  Payloads'
    BY <1>2, <2>1 DEF Sockets!Receive, Payloads
  <2>2. ASSUME NEW h \in Handlers, Sockets!Disconnect(h) PROVE Payloads'
    BY <1>2, <2>2 DEF Sockets!Disconnect, Payloads
  <2>3. CASE UNCHANGED payload
    BY <1>2, <2>3 DEF Payloads
  <2>4. Socket => Payloads'
    BY <2>1, <2>2, <2>3
    DEF Socket, Sockets!Notify, Sockets!Register, Sockets!JoinRoom, Sockets!Greet
  <2> QED
    BY <1>2, <2>3, <2>4
    DEF SystemNext, systemVars, Background, Boot, Connect, Drop, Toggles, Update, Refetch,
        PollServer, Serve, Sockets!Update, Sockets!Refetch, Sockets!Poll
<1> QED
  BY <1>1, <1>2, PTL DEF SystemSpec

\* An SDK asks for what it has registered for (handler.rs:80-125).
LEMMA AsksRequests ==
    ASSUME Payloads, NEW h \in Handlers, payload[h] # None
    PROVE  Abstract!RequestFor(payload[h]) \in Requests
<1>1. payload[h] \in ClientSdkKeys \cup ServerSdkKeys
  BY DEF Payloads, Sockets!Keys
<1> QED
  BY <1>1 DEF Abstract!RequestFor, Requests, ServerOps, ClientOps

\* Every step of the system is a step of the repository, or leaves it alone
\* (repo.rs:67-311).
LEMMA SystemIsRepo == SystemSpec => Spec
<1>1. SystemInit => Init
  BY DEF SystemInit
<1>2. ASSUME Payloads, [SystemNext]_systemVars PROVE [Next]_vars
  <2>1. CASE Background
    BY <2>1 DEF Background, Next, Start
  <2>2. ASSUME NEW s \in ServerSdkKeys, NEW n, Update(s, n) PROVE [Next]_vars
    BY <2>2 DEF Update, Next
  <2>3. ASSUME NEW c \in ClientSdkKeys, NEW s \in ServerSdkKeys, NEW n, Boot(c, s, n)
        PROVE  Next
    BY <2>3 DEF Boot, Next, Start
  <2>4. ASSUME NEW t \in ClientTasks, NEW n, Drop(t) \/ Connect(t, n) PROVE Next
    BY <2>4 DEF Drop, Connect, Next, ClientStep
  <2>5. CASE Socket \/ UNCHANGED systemVars
    BY <2>5 DEF Socket, systemVars
  <2>6. ASSUME NEW h \in Handlers, Refetch(h) \/ PollServer(h) PROVE Next
    <3>1. \E r \in Requests : Receive(h, r)
      BY <1>2, <2>6, AsksRequests DEF Refetch, PollServer, Asks
    <3> QED
      BY <3>1 DEF Next
  <2>7. ASSUME NEW h \in Handlers, Serve(h) PROVE Next
    BY <2>7 DEF Serve, Next
  <2> QED
    BY <1>2, <2>1, <2>2, <2>3, <2>4, <2>5, <2>6, <2>7 DEF SystemNext
<1> QED
  BY <1>1, <1>2, PayloadsStay, PTL DEF SystemSpec, Spec

-----------------------------------------------------------------------------
(* The components of Server, seen through the mapping, are those of System. *)

\* The sockets are the same.
LEMMA SameSockets ==
    /\ Sockets!Init = Abstract!Sockets!Init
    /\ Sockets!Versions = Abstract!Sockets!Versions /\ Sockets!Keys = Abstract!Sockets!Keys
    /\ \A s, n : Sockets!Update(s, n) = Abstract!Sockets!Update(s, n)
    /\ \A p : Sockets!Notify(p) = Abstract!Sockets!Notify(p)
    /\ \A h : /\ Sockets!Register(h) = Abstract!Sockets!Register(h)
              /\ Sockets!Disconnect(h) = Abstract!Sockets!Disconnect(h)
              /\ Sockets!Refetch(h) = Abstract!Sockets!Refetch(h)
              /\ Sockets!Poll(h) = Abstract!Sockets!Poll(h)
              /\ \A key : Sockets!Receive(h, key) = Abstract!Sockets!Receive(h, key)
<1>1. Present = Abstract!Live /\ Present' = Abstract!Live'
  BY DEF Present, Abstract!Live, States
<1>2. Asking = Abstract!Asking /\ Asking' = Abstract!Asking'
  BY DEF Asking, Abstract!Asking, NoRequest, Abstract!NoRequest
<1> QED
  BY <1>1, <1>2
  DEF Sockets!Init, Sockets!Versions, Sockets!Keys, Sockets!Update, Sockets!Notify,
      Sockets!Room, Sockets!Nothing, Sockets!NoReverse,
      Sockets!Register, Sockets!JoinRoom, Sockets!Greet, Sockets!Disconnect, Sockets!Refetch,
      Sockets!Poll, Sockets!Receive, Sockets!clientVars, Sockets!socketVars, Sockets!sdkVars,
      Abstract!Sockets!Init, Abstract!Sockets!Versions, Abstract!Sockets!Keys,
      Abstract!Sockets!Room, Abstract!Sockets!Nothing, Abstract!Sockets!NoReverse,
      Abstract!Sockets!Update, Abstract!Sockets!Notify, Abstract!Sockets!Register,
      Abstract!Sockets!JoinRoom, Abstract!Sockets!Greet, Abstract!Sockets!Disconnect,
      Abstract!Sockets!Refetch, Abstract!Sockets!Poll, Abstract!Sockets!Receive,
      Abstract!Sockets!clientVars, Abstract!Sockets!socketVars, Abstract!Sockets!sdkVars

\* So is the service.
LEMMA SameService ==
    /\ Service!Init = Abstract!Service!Init
    /\ (UNCHANGED Service!vars) <=> (UNCHANGED Abstract!serviceVars)
    /\ Service!Follow = Abstract!Service!Follow
    /\ \A m : Service!Publish(m) = Abstract!Service!Publish(m)
    /\ \A v : Service!Adopt(v) = Abstract!Service!Adopt(v)
    /\ \A s : /\ Service!Remove(s) = Abstract!Service!Remove(s)
              /\ Service!Initialize(s) = Abstract!Service!Initialize(s)
              /\ \A state : Service!Create(s, state) = Abstract!Service!Create(s, state)
    /\ \A c, s, v, state :
          Service!Configure(c, s, v, state) = Abstract!Service!Configure(c, s, v, state)
    /\ \A h : /\ Service!Answer(h) = Abstract!Service!Answer(h)
              /\ \A r : Service!Ask(h, r) = Abstract!Service!Ask(h, r)
<1> USE DEF Service!source, Service!store, Service!http,
            Abstract!Service!source, Abstract!Service!store, Abstract!Service!http
<1>1. \A v, m, c, r : Service!Answers(v, m, c, r) = Abstract!Service!Answers(v, m, c, r)
  BY DEF Service!Answers, Service!Mapped, Service!KeyOf, Service!Responses, Service!ServerOps,
      Abstract!Service!Answers, Abstract!Service!Mapped, Abstract!Service!KeyOf,
      Abstract!Service!Responses, Abstract!Service!ServerOps
<1>2. /\ Service!NoRequest = Abstract!Service!NoRequest
      /\ Service!NoReply = Abstract!Service!NoReply
      /\ Service!NoMapping = Abstract!Service!NoMapping
  BY DEF Service!NoRequest, Service!NoReply, Service!NoMapping,
      Abstract!Service!NoRequest, Abstract!Service!NoReply, Abstract!Service!NoMapping
<1>3. \A h : /\ Service!Answer(h) = Abstract!Service!Answer(h)
             /\ \A r : Service!Ask(h, r) = Abstract!Service!Ask(h, r)
  BY <1>1, <1>2
  DEF Service!Answer, Service!Ask, Abstract!Service!Answer, Abstract!Service!Ask
<1>4. Service!Init = Abstract!Service!Init
  BY <1>2 DEF Service!Init, Abstract!Service!Init
<1>5. \A s : /\ Service!Remove(s) = Abstract!Service!Remove(s)
             /\ \A state : Service!Create(s, state) = Abstract!Service!Create(s, state)
  BY DEF Service!Remove, Service!Create, Service!Mapped,
      Abstract!Service!Remove, Abstract!Service!Create, Abstract!Service!Mapped
<1>6. /\ (UNCHANGED Service!vars) <=> (UNCHANGED Abstract!serviceVars)
      /\ Service!Follow = Abstract!Service!Follow
  BY DEF Service!vars, Abstract!serviceVars, Service!Follow, Abstract!Service!Follow
<1>7. /\ \A m : Service!Publish(m) = Abstract!Service!Publish(m)
      /\ \A v : Service!Adopt(v) = Abstract!Service!Adopt(v)
  BY DEF Service!Publish, Service!Adopt, Abstract!Service!Publish, Abstract!Service!Adopt
<1>8. /\ \A s : Service!Initialize(s) = Abstract!Service!Initialize(s)
      /\ \A c, s, v, state :
            Service!Configure(c, s, v, state) = Abstract!Service!Configure(c, s, v, state)
  BY DEF Service!Initialize, Service!Configure,
      Abstract!Service!Initialize, Abstract!Service!Configure
<1> QED
  BY <1>3, <1>4, <1>5, <1>6, <1>7, <1>8

-----------------------------------------------------------------------------
(* Each action of System is one of Server, or a stutter.                   *)

\* How what the sockets see of the clients changes with one entry of sdk_clients.
LEMMA CapturedExcept ==
    ASSUME TypeOK, NEW s \in ServerSdkKeys, NEW client,
           sdk_clients' = [sdk_clients EXCEPT ![s] = client]
    PROVE  /\ Captured' = [Captured EXCEPT ![s] = client.notify]
           /\ sdk_clients'[s] = client
  BY DEF TypeOK, Captured

\* The client that Inner::sync inserts is one for a key that had none, and calls
\* back with a client key of it (repo.rs:181-211, 244-263).
LEMMA ConnectImplements ==
    ASSUME IInv, LookupsLast, NEW t \in ClientTasks, NEW n \in Sockets!Versions, Connect(t, n)
    PROVE  \E s \in ServerSdkKeys : Abstract!Connect(s, n)
<1> USE DEF startVars, shared, locks, loopVars, httpVars,
            Service!vars, Service!source, Service!store, Service!http
<1> DEFINE s == current[t]
           c == client_sdk_key(secret_mapping, s)
<1>1. TypeOK /\ pc[t] = "notify" /\ InsertClient(t)
  BY DEF Connect, SetupNotify, IInv
<1>2. /\ s \in server_sdk_keys(secret_mapping) /\ s \in ServerSdkKeys /\ s \notin Present
      /\ Present' = Present \cup {s}
  BY <1>1, InsertClientPresent DEF LookupsLast, server_sdk_keys
<1>3. c \in ClientSdkKeys /\ secret_mapping.mapping[c] = s /\ Mapped(secret_mapping.mapping, s)
  BY <1>2, NoneIsNoKey
  DEF IInv, MappingInv, ReverseOfMapping, ReversesOf, server_sdk_keys, client_sdk_key, Mapped
<1>4. PICK client \in NewClients(s) : sdk_clients' = [sdk_clients EXCEPT ![s] = client]
  BY <1>1 DEF InsertClient
<1>5. client.notify = c
  BY DefaultBuild DEF NewClients
<1>6. client.state = Abstract!Fresh(n)
  BY <1>1, <1>2, <1>4, CapturedExcept DEF Connect
<1>7. /\ States' = [States EXCEPT ![s] = Abstract!Fresh(n)] /\ States[s] = "absent"
      /\ Captured' = [Captured EXCEPT ![s] = c]
  <2>1. States' = [States EXCEPT ![s] = client.state]
    BY <1>1, <1>2, <1>4, StatesExcept
  <2>2. Captured' = [Captured EXCEPT ![s] = client.notify]
    BY <1>1, <1>2, <1>4, CapturedExcept
  <2>3. States[s] = "absent"
    BY <1>2 DEF States, Present
  <2> QED
    BY <1>5, <1>6, <2>1, <2>2, <2>3
<1>8. Abstract!Service!Create(s, Abstract!Fresh(n))
  <2>1. mode = "keys"
    BY <1>1 DEF IInv, StartInv
  <2>2. Service!Create(s, Abstract!Fresh(n))
    BY <1>1, <1>3, <1>7, <2>1, SameVocabulary DEF InsertClient, Service!Create
  <2> QED
    BY <2>2, SameService
<1>9. Abstract!Sockets!CreateClient(s, c, n)
  <2>1. Present = Abstract!Live /\ Present' = Abstract!Live'
    BY DEF Present, Abstract!Live, States
  <2>2. UNCHANGED Abstract!Asking
    BY <1>1 DEF InsertClient, Abstract!Asking
  <2> QED
    BY <1>2, <1>7, <2>1, <2>2
    DEF Connect, Toggles, Abstract!Sockets!CreateClient, Abstract!Sockets!socketVars,
        Abstract!Sockets!sdkVars
<1> HIDE DEF s, c
<1>10. Abstract!NewClient(s, c, n)
  BY <1>7, <1>8, <1>9 DEF Connect, Abstract!NewClient, s
<1> QED
  BY <1>2, <1>3, <1>10 DEF Abstract!Connect

\* The client that remove_client takes out is there (repo.rs:213-216, 227-232).
LEMMA DropImplements ==
    ASSUME IInv, LookupsLast, NEW t \in ClientTasks, Drop(t)
    PROVE  \E s \in ServerSdkKeys : Abstract!Drop(s)
<1> USE DEF startVars, shared, locks, loopVars, httpVars,
            Service!vars, Service!source, Service!store, Service!http
<1> DEFINE s == current[t]
<1>1. TypeOK /\ pc[t] = "remove" /\ RemoveClient(t)
  BY DEF Drop, RemoveClient, IInv
<1>2. /\ s \in ServerSdkKeys /\ s \notin server_sdk_keys(secret_mapping) /\ s \in Present
      /\ Present' = Present \ {s}
  BY <1>1, RemoveClientPresent DEF LookupsLast, IInv, LoopInv, TypeOK
<1>3. /\ States' = [States EXCEPT ![s] = "absent"]
      /\ Captured' = [Captured EXCEPT ![s] = None]
  <2>1. /\ sdk_clients' = [sdk_clients EXCEPT ![s] = Absent]
        /\ Absent.state = "absent" /\ Absent.notify = None
    BY <1>1 DEF RemoveClient, Absent
  <2>2. States' = [States EXCEPT ![s] = Absent.state]
    BY <1>1, <1>2, <2>1, StatesExcept
  <2>3. Captured' = [Captured EXCEPT ![s] = Absent.notify]
    BY <1>1, <1>2, <2>1, CapturedExcept
  <2> QED
    BY <2>1, <2>2, <2>3
<1>4. Abstract!Service!Remove(s)
  <2>1. mode = "keys" /\ ~Mapped(secret_mapping.mapping, s)
    BY <1>1, <1>2, KnownIsMapped DEF IInv, StartInv
  <2>2. Service!Remove(s)
    BY <1>1, <1>3, <2>1, SameVocabulary DEF RemoveClient, Service!Remove
  <2> QED
    BY <2>2, SameService
<1>5. Abstract!Sockets!RemoveClient(s)
  <2>1. Present = Abstract!Live /\ Present' = Abstract!Live'
    BY DEF Present, Abstract!Live, States
  <2>2. UNCHANGED Abstract!Asking
    BY <1>1 DEF RemoveClient, Abstract!Asking
  <2> QED
    BY <1>2, <1>3, <2>1, <2>2
    DEF Drop, Toggles, Abstract!Sockets!RemoveClient, Abstract!Sockets!socketVars,
        Abstract!Sockets!sdkVars
<1> HIDE DEF s
<1>6. Abstract!Drop(s)
  BY <1>4, <1>5 DEF Drop, Abstract!Drop, s
<1> QED
  BY <1>2, <1>6

\* A server for one pair of keys has its client before any SDK can ask, and its
\* callback no client key (repo.rs:67-80, 202-207).
LEMMA BootImplements ==
    ASSUME IInv, NEW c \in ClientSdkKeys, NEW s \in ServerSdkKeys,
           NEW n \in Sockets!Versions, Boot(c, s, n)
    PROVE  Abstract!Boot(c, s, n)
<1> USE DEF locks, httpVars, Service!http
<1>1. TypeOK /\ Sync(c, s, 1) /\ mode = "boot" /\ secret_mapping = Default /\ Present = {}
  BY DEF Boot, Sync, IInv, StartInv
<1>2. PICK client \in NewClients(s) : sdk_clients' = [sdk_clients EXCEPT ![s] = client]
  BY <1>1 DEF Sync
<1>3. client.notify = None /\ client.state = Abstract!Fresh(n)
  BY <1>1, <1>2, CapturedExcept DEF Boot, NewClients, Default, NoReverse, client_sdk_key
<1>4. States' = [States EXCEPT ![s] = Abstract!Fresh(n)]
  BY <1>1, <1>2, <1>3, StatesExcept
<1>5. Captured' = [Captured EXCEPT ![s] = None]
  BY <1>1, <1>2, <1>3, CapturedExcept
<1>6. Service!Configure(c, s, 1, Abstract!Fresh(n))
  BY <1>1, <1>4 DEF Sync, insert, Service!Configure
<1>7. Abstract!Sockets!CreateClient(s, None, n)
  <2>1. Present = Abstract!Live /\ Present' = Abstract!Live'
    BY DEF Present, Abstract!Live, States
  <2>2. client.state # "absent"
    BY <1>2 DEF NewClients
  <2>3. Present' = {s}
    BY <1>1, <1>2, <2>2 DEF Present, TypeOK
  <2>4. UNCHANGED Abstract!Asking
    BY <1>1 DEF Sync, Abstract!Asking
  <2> QED
    BY <1>1, <1>5, <2>1, <2>3, <2>4
    DEF Boot, Toggles, Abstract!Sockets!CreateClient, Abstract!Sockets!socketVars,
        Abstract!Sockets!sdkVars
<1> QED
  BY <1>6, <1>7, SameService DEF Boot, history, Abstract!Boot, Abstract!history

\* A client's first toggles are what makes it initialized (repo.rs:202-211).
LEMMA UpdateImplements ==
    ASSUME IInv, NEW s \in ServerSdkKeys, NEW n \in Sockets!Versions, Update(s, n)
    PROVE  Abstract!Update(s, n)
<1> USE DEF startVars, shared, locks, httpVars,
            Service!vars, Service!source, Service!store, Service!http
<1>1. TypeOK /\ States[s] = sdk_clients[s].state
  BY DEF IInv, States
<1>2. CASE States[s] = "loading"
  <2>1. Initialize(s)
    BY <1>1, <1>2 DEF Update
  <2>2. States' = [States EXCEPT ![s] = "ready"]
    BY <1>1, <2>1 DEF Initialize, States, TypeOK, Clients
  <2>3. Service!Initialize(s)
    BY <1>2, <2>1, <2>2 DEF Initialize, Service!Initialize
  <2> QED
    BY <1>2, <2>3, SameService, SameSockets
    DEF Update, history, Abstract!Update, Abstract!history
<1>3. CASE States[s] # "loading"
  <2>1. UNCHANGED Service!vars
    BY <1>1, <1>3 DEF Update, vars, States
  <2> QED
    BY <1>3, <2>1, SameService, SameSockets
    DEF Update, history, Abstract!Update, Abstract!history
<1> QED
  BY <1>2, <1>3

\* Between the locks nothing is promised: the other steps of the loops adopt a
\* mapping, or are not seen at all (repo.rs:82-118, 218-242).
LEMMA BackgroundImplements ==
    ASSUME IInv, Background
    PROVE  Abstract!Map \/ UNCHANGED Abstract!vars
<1> USE DEF startVars, shared, locks, loopVars, httpVars,
            Service!vars, Service!source, Service!store, Service!http
<1>1. sdk_clients' = sdk_clients /\ request' = request
  BY DEF Background, SyncWith, Publish, KeyStep, UpdateMappingCheck, ReserveMapping,
     UpdateMapping, Fetch, Tick, ClientStep, UpdateClientsBegin, UpdateClientsSnapshot,
     SyncCheck, RemoveCheck, ReserveClients, SyncInsert, SetupNotify, InsertClient,
     RemoveClient, UpdateClientsEnd
<1>2. /\ UNCHANGED <<States, Captured>>
      /\ UNCHANGED <<Abstract!socketsVars, Abstract!history>>
  BY <1>1
  DEF States, Captured, Background, socketsVars, history, Abstract!socketsVars, Abstract!history
<1>3. \/ UNCHANGED Service!vars \/ Service!Follow
      \/ \E m \in Mappings : Service!Publish(m)
      \/ \E v \in 1..Len(published) : Service!Adopt(v)
  <2>1. CASE SyncWith
    BY <1>2, <2>1 DEF SyncWith, Service!Follow
  <2>2. ASSUME NEW m \in Mappings, Publish(m) PROVE Service!Publish(m)
    BY <1>2, <2>2 DEF Publish, Service!Publish
  <2>3. ASSUME NEW t \in KeyTasks, KeyStep(t) \/ \E v \in 0..Len(published) : Fetch(t, v)
        PROVE  UNCHANGED Service!vars \/ \E v \in 1..Len(published) : Service!Adopt(v)
    BY <2>3, KeyStepImplements
  <2>4. ASSUME NEW t \in ClientTasks, ClientStep(t) \/ Tick(t) PROVE UNCHANGED Service!vars
    BY <1>2, <2>4, ClientStepImplements DEF Service!Create, Service!Remove
  <2> QED
    BY <2>1, <2>2, <2>3, <2>4 DEF Background
<1>4. Abstract!Mappings = Mappings
  BY DEF Mappings, Abstract!Mappings
<1> HIDE DEF Service!vars
<1> QED
  BY <1>2, <1>3, <1>4, SameService DEF Abstract!Map, Abstract!vars

\* An SDK that fetches does so over HTTP (realtime.rs:41-80, handler.rs:80-125).
LEMMA AsksImplements ==
    ASSUME IInv, NEW h \in Handlers, Asks(h)
    PROVE  Abstract!Asks(h)
<1>1. Service!Ask(h, Abstract!RequestFor(payload[h]))
  BY SameVocabulary
  DEF Asks, Receive, IInv, HandlerInv, States, Service!Ask, startVars, shared,
      Service!source, Service!store
<1> QED
  BY <1>1, SameService DEF Asks, history, Abstract!Asks, Abstract!history

\* The step of a handler that responds is the whole answer, and no other step of
\* it is seen (repo.rs:120-170, handler.rs:80-125).
LEMMA ServeImplements ==
    ASSUME IInv, NEW h \in Handlers, Serve(h)
    PROVE  Abstract!Answered(h) \/ UNCHANGED Abstract!vars
<1> USE DEF startVars, shared, locks, loopVars, httpVars,
            Service!vars, Service!source, Service!store, Service!http
<1>1. TypeOK /\ HttpStep(h)
  BY DEF Serve, IInv
<1>2. UNCHANGED <<mode, published, secret_mapping, sdk_clients, States, Captured>>
  BY <1>1 DEF HttpStep, Poll, RejectUser, SecretKeys, Lookup, GetClient, SendBody,
     ReserveClients, ClientSyncNow, Respond, States, Captured
<1>3. CASE UNCHANGED <<request, reply>>
  BY <1>2, <1>3 DEF Serve, Abstract!vars, Abstract!serviceVars, Abstract!socketsVars,
     Abstract!history
<1>4. CASE /\ request[h] \in Requests
           /\ request' = [request EXCEPT ![h] = NoRequest]
           /\ \E a \in Allowed(h) : reply' = [reply EXCEPT ![h] = a]
  <2>1. request[h] # NoRequest /\ request'[h] = NoRequest
    BY <1>1, <1>4 DEF Requests, NoRequest, ServerOps, ClientOps, TypeOK
  <2>2. Service!Answer(h)
    BY <1>2, <1>4, <2>1, SameVocabulary DEF Allowed, Service!Answer
  <2>3. /\ seen' = [seen EXCEPT ![h] = Abstract!Knows(h, reply'[h])]
        /\ last' = [last EXCEPT ![h] = KeyOf(secret_mapping.mapping, request[h])]
    BY <2>1 DEF Serve
  <2>4. Abstract!NoRequest = NoRequest
    BY DEF NoRequest, Abstract!NoRequest
  <2>5. Abstract!Asking[h] /\ Abstract!Asking' = [Abstract!Asking EXCEPT ![h] = FALSE]
    BY <1>1, <1>4, <2>1, <2>4, Zenon DEF Abstract!Asking, TypeOK
  <2>6. Abstract!Sockets!Learn(h, Abstract!Knows(h, reply'[h]))
    BY <1>2, <2>3, <2>5
    DEF Serve, Abstract!Sockets!Learn, Abstract!Sockets!clientVars,
        Abstract!Sockets!socketVars, Abstract!Live
  <2>7. Abstract!KeyOf(secret_mapping.mapping, request[h])
          = KeyOf(secret_mapping.mapping, request[h])
    BY DEF KeyOf, Mapped, ServerOps, Abstract!KeyOf, Abstract!Mapped, Abstract!ServerOps
  <2> QED
    BY <2>2, <2>3, <2>6, <2>7, SameService DEF Serve, Abstract!Answered
<1> QED
  BY <1>1, <1>3, <1>4, RespondsAsAllowed

\* What a step of System does to the sockets and the SDKs alone is a step of
\* Server (realtime.rs:41-80).
LEMMA SocketImplements == Socket => Abstract!Next
<1> SUFFICES ASSUME Socket PROVE Abstract!Next
  OBVIOUS
<1>1. UNCHANGED <<Abstract!serviceVars, Abstract!history>>
  BY DEF Socket, vars, startVars, shared, httpVars, history, States,
     Abstract!serviceVars, Abstract!history
<1> QED
  BY <1>1, SameSockets DEF Socket, Abstract!Socket, Abstract!Register, Abstract!Next

\* An empty repository, with no sockets (repo.rs:32-46).
LEMMA SystemInitImplements == SystemInit => Abstract!Init
<1> SUFFICES ASSUME SystemInit PROVE Abstract!Init
  OBVIOUS
<1>1. Service!Init /\ Sockets!Init
  BY ServiceInit DEF SystemInit
<1> QED
  BY <1>1, SameService, SameSockets DEF SystemInit, Abstract!Init

(***************************************************************************)
(* The binary, step by step between its locks, shows its SDKs nothing that *)
(* Server does not: the sockets and their callbacks, the loops and the     *)
(* handlers compose (repo.rs:67-311, handler.rs:80-125,                    *)
(* realtime.rs:41-80).                                                     *)
(***************************************************************************)
THEOREM SystemImplementsServer == SystemSpec => ImplementsServer
<1>1. ASSUME IInv, LookupsLast, [SystemNext]_systemVars
      PROVE  [Abstract!Next]_(Abstract!vars)
  <2>1. CASE Background
    BY <2>1, <1>1, BackgroundImplements DEF Abstract!Next
  <2>2. ASSUME NEW s \in ServerSdkKeys, NEW n \in Sockets!Versions, Update(s, n)
        PROVE  Abstract!Next
    BY <2>2, <1>1, UpdateImplements, SameSockets DEF Abstract!Next
  <2>3. ASSUME NEW c \in ClientSdkKeys, NEW s \in ServerSdkKeys, NEW n \in Sockets!Versions,
               Boot(c, s, n)
        PROVE  Abstract!Next
    BY <2>3, <1>1, BootImplements, SameSockets DEF Abstract!Next
  <2>4. ASSUME NEW t \in ClientTasks, Drop(t) PROVE Abstract!Next
    BY <2>4, <1>1, DropImplements DEF Abstract!Next
  <2>5. ASSUME NEW t \in ClientTasks, NEW n \in Sockets!Versions, Connect(t, n)
        PROVE  Abstract!Next
    BY <2>5, <1>1, ConnectImplements, SameSockets DEF Abstract!Next
  <2>6. CASE Socket
    BY <2>6, SocketImplements
  <2>7. ASSUME NEW h \in Handlers, Refetch(h) \/ PollServer(h) PROVE Abstract!Next
    <3>1. payload[h] # None /\ Abstract!Asks(h)
      BY <2>7, <1>1, AsksImplements DEF Refetch, PollServer, Asks
    <3> QED
      BY <2>7, <3>1, SameSockets
      DEF Refetch, PollServer, Abstract!Refetch, Abstract!Poll, Abstract!Next
  <2>8. ASSUME NEW h \in Handlers, Serve(h) PROVE [Abstract!Next]_(Abstract!vars)
    BY <2>8, <1>1, ServeImplements DEF Abstract!Next
  <2>9. CASE UNCHANGED systemVars
    BY <2>9
    DEF systemVars, vars, startVars, shared, httpVars, socketsVars, history, States, Captured,
        Abstract!vars, Abstract!serviceVars, Abstract!socketsVars, Abstract!history
  <2> QED
    BY <1>1, <2>1, <2>2, <2>3, <2>4, <2>5, <2>6, <2>7, <2>8, <2>9 DEF SystemNext
<1>2. Spec => []IInv /\ []LookupsLast
  BY Inductive, LookupsStay, OneClientLoop
<1> QED
  BY <1>1, <1>2, SystemIsRepo, SystemInitImplements, PTL
  DEF SystemSpec, ImplementsServer, Abstract!Spec

-----------------------------------------------------------------------------
(* What is proved of Server holds of the binary.                           *)

Promise == INSTANCE ServerProofs
             WITH Sdks <- Handlers, version <- secret_mapping.version,
                  mapping <- secret_mapping.mapping, clients <- States,
                  captured <- Captured, pc <- socket_pc

\* The Server that System implements is the one that ServerProofs is about.
LEMMA SamePromise ==
    /\ Abstract!Init = Promise!Init
    /\ Abstract!Next = Promise!Next
    /\ (UNCHANGED Abstract!vars) <=> (UNCHANGED Promise!vars)
    /\ Abstract!NoSdkBehind = Promise!NoSdkBehind
<1>1. /\ Abstract!Live = Promise!Live /\ Abstract!Live' = Promise!Live'
      /\ Abstract!Asking = Promise!Asking /\ Abstract!Asking' = Promise!Asking'
      /\ Abstract!NoRequest = Promise!NoRequest
      /\ \A m, r : Abstract!KeyOf(m, r) = Promise!KeyOf(m, r)
      /\ \A n : Abstract!Fresh(n) = Promise!Fresh(n)
      /\ \A key : Abstract!RequestFor(key) = Promise!RequestFor(key)
      /\ \A s : Abstract!OnlyKey(s) = Promise!OnlyKey(s)
      /\ \A k, a : Abstract!Knows(k, a) = Promise!Knows(k, a)
  BY DEF Abstract!Live, Abstract!Asking, Abstract!NoRequest, Abstract!KeyOf, Abstract!Mapped,
      Abstract!ServerOps, Abstract!Fresh, Abstract!RequestFor, Abstract!OnlyKey, Abstract!Knows,
      Promise!Live, Promise!Asking, Promise!NoRequest, Promise!KeyOf, Promise!Mapped,
      Promise!ServerOps, Promise!Fresh, Promise!RequestFor, Promise!OnlyKey, Promise!Knows
<1>2. /\ Abstract!history = Promise!history /\ Abstract!history' = Promise!history'
      /\ Abstract!serviceVars = Promise!serviceVars
      /\ Abstract!serviceVars' = Promise!serviceVars'
      /\ Abstract!socketsVars = Promise!socketsVars
      /\ Abstract!socketsVars' = Promise!socketsVars'
      /\ Abstract!vars = Promise!vars /\ Abstract!vars' = Promise!vars'
  BY DEF Abstract!history, Abstract!serviceVars, Abstract!socketsVars, Abstract!vars,
      Promise!history, Promise!serviceVars, Promise!socketsVars, Promise!vars
<1>3. /\ Abstract!Service!source = Promise!Service!source
      /\ Abstract!Service!source' = Promise!Service!source'
      /\ Abstract!Service!store = Promise!Service!store
      /\ Abstract!Service!store' = Promise!Service!store'
      /\ Abstract!Service!http = Promise!Service!http
      /\ Abstract!Service!http' = Promise!Service!http'
      /\ Abstract!Service!NoRequest = Promise!Service!NoRequest
      /\ Abstract!Service!NoReply = Promise!Service!NoReply
      /\ Abstract!Service!NoMapping = Promise!Service!NoMapping
      /\ \A m, s : Abstract!Service!Mapped(m, s) = Promise!Service!Mapped(m, s)
      /\ \A v, m, c, r : Abstract!Service!Answers(v, m, c, r) = Promise!Service!Answers(v, m, c, r)
  BY DEF Abstract!Service!source, Abstract!Service!store, Abstract!Service!http,
      Abstract!Service!NoRequest, Abstract!Service!NoReply, Abstract!Service!NoMapping,
      Abstract!Service!Mapped, Abstract!Service!KeyOf, Abstract!Service!Responses,
      Abstract!Service!ServerOps, Abstract!Service!Answers, Promise!Service!source,
      Promise!Service!store, Promise!Service!http, Promise!Service!NoRequest,
      Promise!Service!NoReply, Promise!Service!NoMapping, Promise!Service!Mapped,
      Promise!Service!KeyOf, Promise!Service!Responses, Promise!Service!ServerOps,
      Promise!Service!Answers
<1>4. /\ Abstract!Service!Init = Promise!Service!Init
      /\ Abstract!Service!Follow = Promise!Service!Follow
      /\ \A m : Abstract!Service!Publish(m) = Promise!Service!Publish(m)
      /\ \A v : Abstract!Service!Adopt(v) = Promise!Service!Adopt(v)
      /\ \A c, s, v, e :
            Abstract!Service!Configure(c, s, v, e) = Promise!Service!Configure(c, s, v, e)
      /\ \A s : /\ Abstract!Service!Remove(s) = Promise!Service!Remove(s)
                /\ Abstract!Service!Initialize(s) = Promise!Service!Initialize(s)
                /\ \A e : Abstract!Service!Create(s, e) = Promise!Service!Create(s, e)
      /\ \A h : /\ Abstract!Service!Answer(h) = Promise!Service!Answer(h)
                /\ \A r : Abstract!Service!Ask(h, r) = Promise!Service!Ask(h, r)
  BY <1>3
  DEF Abstract!Service!Init, Abstract!Service!Follow, Abstract!Service!Publish,
      Abstract!Service!Adopt, Abstract!Service!Configure, Abstract!Service!Remove,
      Abstract!Service!Initialize, Abstract!Service!Create, Abstract!Service!Answer,
      Abstract!Service!Ask, Promise!Service!Init, Promise!Service!Follow,
      Promise!Service!Publish, Promise!Service!Adopt, Promise!Service!Configure,
      Promise!Service!Remove, Promise!Service!Initialize, Promise!Service!Create,
      Promise!Service!Answer, Promise!Service!Ask
<1>5. /\ Abstract!Sockets!clientVars = Promise!Sockets!clientVars
      /\ Abstract!Sockets!clientVars' = Promise!Sockets!clientVars'
      /\ Abstract!Sockets!socketVars = Promise!Sockets!socketVars
      /\ Abstract!Sockets!socketVars' = Promise!Sockets!socketVars'
      /\ Abstract!Sockets!sdkVars = Promise!Sockets!sdkVars
      /\ Abstract!Sockets!sdkVars' = Promise!Sockets!sdkVars'
      /\ Abstract!Sockets!Keys = Promise!Sockets!Keys
      /\ Abstract!Sockets!Versions = Promise!Sockets!Versions
      /\ \A x : Abstract!Sockets!Room(x) = Promise!Sockets!Room(x)
      /\ \A s, k : Abstract!Sockets!Told(s, k) = Promise!Sockets!Told(s, k)
      /\ Abstract!Sockets!Init = Promise!Sockets!Init
  BY <1>1
  DEF Abstract!Sockets!clientVars, Abstract!Sockets!socketVars, Abstract!Sockets!sdkVars,
      Abstract!Sockets!Keys, Abstract!Sockets!Versions, Abstract!Sockets!Room,
      Abstract!Sockets!Told, Abstract!Sockets!UpToDate, Abstract!Sockets!Init,
      Abstract!Sockets!Nothing, Abstract!Sockets!NoReverse, Promise!Sockets!clientVars,
      Promise!Sockets!socketVars, Promise!Sockets!sdkVars, Promise!Sockets!Keys,
      Promise!Sockets!Versions, Promise!Sockets!Room, Promise!Sockets!Told,
      Promise!Sockets!UpToDate, Promise!Sockets!Init, Promise!Sockets!Nothing,
      Promise!Sockets!NoReverse
<1>6. /\ \A s, c, n : Abstract!Sockets!CreateClient(s, c, n) = Promise!Sockets!CreateClient(s, c, n)
      /\ \A s : Abstract!Sockets!RemoveClient(s) = Promise!Sockets!RemoveClient(s)
      /\ \A s, n : Abstract!Sockets!Update(s, n) = Promise!Sockets!Update(s, n)
      /\ \A p : Abstract!Sockets!Notify(p) = Promise!Sockets!Notify(p)
      /\ \A k : /\ \A key : Abstract!Sockets!Receive(k, key) = Promise!Sockets!Receive(k, key)
                /\ Abstract!Sockets!Register(k) = Promise!Sockets!Register(k)
                /\ Abstract!Sockets!Disconnect(k) = Promise!Sockets!Disconnect(k)
                /\ Abstract!Sockets!Refetch(k) = Promise!Sockets!Refetch(k)
                /\ Abstract!Sockets!Poll(k) = Promise!Sockets!Poll(k)
                /\ \A vs : Abstract!Sockets!Learn(k, vs) = Promise!Sockets!Learn(k, vs)
  BY <1>1, <1>5
  DEF Abstract!Sockets!CreateClient, Abstract!Sockets!RemoveClient, Abstract!Sockets!Update,
      Abstract!Sockets!Notify, Abstract!Sockets!Receive, Abstract!Sockets!Register,
      Abstract!Sockets!JoinRoom, Abstract!Sockets!Greet, Abstract!Sockets!Disconnect,
      Abstract!Sockets!Refetch, Abstract!Sockets!Poll, Abstract!Sockets!Learn,
      Promise!Sockets!CreateClient, Promise!Sockets!RemoveClient, Promise!Sockets!Update,
      Promise!Sockets!Notify, Promise!Sockets!Receive, Promise!Sockets!Register,
      Promise!Sockets!JoinRoom, Promise!Sockets!Greet, Promise!Sockets!Disconnect,
      Promise!Sockets!Refetch, Promise!Sockets!Poll, Promise!Sockets!Learn
<1>7. /\ Abstract!Init = Promise!Init
      /\ Abstract!NoSdkBehind = Promise!NoSdkBehind
  BY <1>1, <1>4, <1>5
  DEF Abstract!Init, Abstract!NoSdkBehind, Abstract!Entitled, Promise!Init,
      Promise!NoSdkBehind, Promise!Entitled
<1>8. /\ Abstract!Map = Promise!Map
      /\ \A s, n : /\ Abstract!Connect(s, n) = Promise!Connect(s, n)
                   /\ Abstract!Update(s, n) = Promise!Update(s, n)
                   /\ \A c : Abstract!Boot(c, s, n) = Promise!Boot(c, s, n)
      /\ \A s : Abstract!Drop(s) = Promise!Drop(s)
  BY <1>1, <1>2, <1>4, <1>6
  DEF Abstract!Map, Abstract!Mappings, Abstract!Connect, Abstract!NewClient, Abstract!Update,
      Abstract!Boot, Abstract!Drop, Promise!Map, Promise!Mappings, Promise!Connect,
      Promise!NewClient, Promise!Update, Promise!Boot, Promise!Drop
<1>9. /\ Abstract!Socket = Promise!Socket
      /\ \A k : /\ Abstract!Register(k) = Promise!Register(k)
                /\ Abstract!Refetch(k) = Promise!Refetch(k)
                /\ Abstract!Poll(k) = Promise!Poll(k)
                /\ Abstract!Answered(k) = Promise!Answered(k)
  BY <1>1, <1>2, <1>4, <1>5, <1>6
  DEF Abstract!Socket, Abstract!Register, Abstract!Asks, Abstract!Refetch, Abstract!Poll,
      Abstract!Answered, Promise!Socket, Promise!Register, Promise!Asks, Promise!Refetch,
      Promise!Poll, Promise!Answered
<1>10. Abstract!Next = Promise!Next
  BY <1>5, <1>8, <1>9 DEF Abstract!Next, Promise!Next
<1> QED
  BY <1>2, <1>7, <1>10

\* No step of the binary leaves an SDK behind that was last answered about s and
\* is entitled to hear of it, whatever its loops, handlers and sockets are doing
\* between their locks (repo.rs:120-311, handler.rs:80-125, realtime.rs:41-80).
THEOREM NoSdkLeftBehindInSystem == SystemSpec => []NoSdkBehind
<1>1. Promise!Spec => []Promise!NoSdkBehind
  BY Promise!NoSdkLeftBehind, NoneIsNoKey, MaxUpdatesAssumption
  DEF Promise!NoneIsNoKey, Promise!MaxUpdatesAssumption
<1>2. Promise!NoSdkBehind => NoSdkBehind
  BY SamePromise DEF NoSdkBehind
<1>3. Abstract!Init => Promise!Init
  BY SamePromise
<1>4. [Abstract!Next]_(Abstract!vars) => [Promise!Next]_(Promise!vars)
  BY SamePromise
<1> QED
  BY <1>1, <1>2, <1>3, <1>4, SystemImplementsServer, PTL
  DEF ImplementsServer, Abstract!Spec, Promise!Spec

=============================================================================
