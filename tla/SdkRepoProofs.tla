--------------------------- MODULE SdkRepoProofs ---------------------------
(***************************************************************************)
(* Theorems about SdkRepo for every number of keys, tasks, handlers and    *)
(* versions.  IInv is inductive; each conjunct has a lemma that says that  *)
(* no step breaks it, with one step of the proof for each action that      *)
(* writes a variable of the conjunct.                                      *)
(***************************************************************************)
EXTENDS SdkRepo, SecretMappingProofs, FiniteSetTheorems

\* A new client is one that may or may not have fetched already (repo.rs:191-210).
LEMMA NewClientType ==
    ASSUME TypeOK, NEW s \in ServerSdkKeys, NEW client \in NewClients(s)
    PROVE  client \in Clients /\ client.state \in {"loading", "ready"}
  BY DEF TypeOK, NewClients, Clients, ClientStates, client_sdk_key, SecretMappings, Reverses

\* The key a request resolves to is a server key or none (repo.rs:120-160).
LEMMA ResolveType ==
    ASSUME TypeOK, NEW r \in Requests, r.op # "update_toggles"
    PROVE  Resolve(secret_mapping, r) \in ServerSdkKeys \cup {None}
  BY DEF TypeOK, Resolve, Requests, ServerOps, ClientOps, server_sdk_key,
         contains_server_sdk_key, SecretMappings, Mappings

\* Whatever version a response carries, its body is a mapping (repo.rs:106).
LEMMA PublishedType ==
    ASSUME TypeOK, NEW v \in 0..Len(published)
    PROVE  PublishedAs(v) \in Mappings
  BY DEF TypeOK, PublishedAs, Mappings, NoMapping

\* Taking and dropping guards keeps the owners of a lock among the tasks.
LEMMA LockTypes ==
    ASSUME NEW lock \in Locks(Tasks), NEW t \in Tasks
    PROVE  /\ Read(lock, t) \in Locks(Tasks)
           /\ ReadDone(lock, t) \in Locks(Tasks)
           /\ Reserve(lock, t) \in Locks(Tasks)
           /\ WriteDone(lock) \in Locks(Tasks)
  BY DEF Locks, Read, ReadDone, Reserve, WriteDone

\* A task that goes to a label of its own kind keeps the program counters apart.
LEMMA GotoTypes ==
    ASSUME TypeOK, NEW t \in Tasks, NEW label, Goto(t, label),
           t \in KeyTasks => label \in KeyLabels,
           t \in ClientTasks => label \in ClientLabels,
           t \in Handlers => label \in HttpLabels
    PROVE  /\ pc' \in [Tasks -> KeyLabels \cup ClientLabels \cup HttpLabels]
           /\ \A u \in KeyTasks : pc'[u] \in KeyLabels
           /\ \A u \in ClientTasks : pc'[u] \in ClientLabels
           /\ \A u \in Handlers : pc'[u] \in HttpLabels
  BY TaskKindsDisjoint DEF TypeOK, Goto, Tasks

-----------------------------------------------------------------------------

\* An empty repository (repo.rs:32-46) has the types of the variables.
LEMMA TypeOKInit == Init => TypeOK
<1> SUFFICES ASSUME Init PROVE TypeOK
  OBVIOUS
<1>1. Default \in SecretMappings
  BY DEF Default, SecretMappings, Mappings, Reverses, NoMapping, NoReverse
<1>2. published \in Seq(Mappings)
  BY DEF Init
<1>3. /\ pc \in [Tasks -> KeyLabels \cup ClientLabels \cup HttpLabels]
      /\ \A t \in KeyTasks : pc[t] \in KeyLabels
      /\ \A t \in ClientTasks : pc[t] \in ClientLabels
      /\ \A h \in Handlers : pc[h] \in HttpLabels
  BY TaskKindsDisjoint DEF Init, Tasks, KeyLabels, ClientLabels, HttpLabels
<1> QED
  BY <1>1, <1>2, <1>3
  DEF Init, TypeOK, Clients, ClientStates, Absent, Unlocked, Locks

\* No step gives a variable a value of another type.
LEMMA TypeOKStep ==
    ASSUME IInv, [Next]_vars
    PROVE  TypeOK'
<1> USE DEF startVars, shared, locks, loopVars, httpVars
<1>0. TypeOK /\ HandlerInv
  BY DEF IInv
<1>1. ASSUME SyncWith PROVE TypeOK'
  BY <1>0, <1>1 DEF SyncWith, TypeOK
<1>2. ASSUME NEW c \in ClientSdkKeys, NEW s \in ServerSdkKeys, NEW v \in {0, 1},
             Sync(c, s, v)
      PROVE TypeOK'
  <2>1. secret_mapping' \in SecretMappings
    BY <1>0, <1>2, InsertFirstPair DEF Sync, IInv, StartInv
  <2>2. sdk_clients' \in [ServerSdkKeys -> Clients]
    BY <1>0, <1>2, NewClientType DEF Sync, TypeOK
  <2> QED
    BY <1>0, <1>2, <2>1, <2>2 DEF Sync, TypeOK
<1>3. ASSUME NEW m \in Mappings, Publish(m) PROVE TypeOK'
  BY <1>0, <1>3 DEF Publish, TypeOK
<1>4. ASSUME NEW s \in ServerSdkKeys, Initialize(s) PROVE TypeOK'
  <2>1. sdk_clients' \in [ServerSdkKeys -> Clients]
    BY <1>0, <1>4 DEF Initialize, TypeOK, Clients, ClientStates
  <2> QED
    BY <1>0, <1>4, <2>1 DEF Initialize, TypeOK
<1>5. ASSUME NEW t \in KeyTasks, NEW v \in 0..Len(published), Fetch(t, v) PROVE TypeOK'
  <2>1. Parsed(v, PublishedAs(v)) \in SecretMappings
    BY <1>0, PublishedType DEF Parsed, SecretMappings, NoReverse, Reverses, TypeOK
  <2> QED
    BY <1>0, <1>5, <2>1, TaskKindsDisjoint
    DEF Fetch, TypeOK, Goto, Tasks, KeyLabels
<1>6. ASSUME NEW t \in KeyTasks, KeyStep(t) PROVE TypeOK'
  <2>1. CASE UpdateMappingCheck(t)
    BY <1>0, <2>1, TaskKindsDisjoint DEF UpdateMappingCheck, TypeOK, Goto, Tasks, KeyLabels
  <2>2. CASE ReserveMapping(t)
    BY <1>0, <2>2 DEF ReserveMapping, TypeOK, Reserve, Locks, Tasks
  <2>3. CASE UpdateMapping(t)
    <3>1. secret_mapping' \in SecretMappings
      BY <1>0, <2>3, UpdateMappingTakesNewer DEF UpdateMapping, TypeOK, IInv, MappingInv
    <3> QED
      BY <1>0, <2>3, <3>1, LockTypes, GotoTypes, TaskKindsDisjoint
      DEF UpdateMapping, TypeOK, Tasks, KeyLabels
  <2> QED
    BY <1>6, <2>1, <2>2, <2>3 DEF KeyStep
<1>7. ASSUME NEW t \in ClientTasks, ClientStep(t) \/ Tick(t) PROVE TypeOK'
  <2> t \in Tasks /\ t \notin KeyTasks /\ t \notin Handlers
    BY TaskKindsDisjoint DEF Tasks
  <2> USE LockTypes, GotoTypes
  <2>1. CASE UpdateClientsBegin(t)
    BY <1>0, <2>1 DEF UpdateClientsBegin, TypeOK, ClientLabels
  <2>2. CASE UpdateClientsSnapshot(t)
    <3>1. /\ todo' \in [ClientTasks -> SUBSET ServerSdkKeys]
          /\ stale' \in [ClientTasks -> SUBSET ServerSdkKeys]
      BY <1>0, <2>2 DEF UpdateClientsSnapshot, TypeOK, server_sdk_keys, Present
    <3>2. mapping_lock' \in Locks(Tasks)
      <4>1. /\ mapping_lock \in Locks(Tasks)
            /\ ReadDone(mapping_lock, t) \in Locks(Tasks)
        BY <1>0 DEF TypeOK
      <4> QED
        BY <2>2, <4>1 DEF UpdateClientsSnapshot
    <3>3. PICK label \in ClientLabels : Goto(t, label)
      BY <2>2 DEF UpdateClientsSnapshot, ClientLabels
    <3> QED
      BY <1>0, <2>2, <3>1, <3>2, <3>3 DEF UpdateClientsSnapshot, TypeOK
  <2>3. ASSUME NEW k \in ServerSdkKeys, SyncCheck(t, k) \/ RemoveCheck(t, k) PROVE TypeOK'
    BY <1>0, <2>3 DEF SyncCheck, RemoveCheck, TypeOK, ClientLabels
  <2>4. CASE ReserveClients(t)
    BY <1>0, <2>4 DEF ReserveClients, TypeOK
  <2>5. ASSUME pc[t] \in {"create", "notify"}, InsertClient(t) PROVE TypeOK'
    <3>1. current[t] \in ServerSdkKeys
      BY <2>5, <1>0 DEF IInv, LoopInv, TypeOK
    <3>2. sdk_clients' \in [ServerSdkKeys -> Clients]
      BY <1>0, <2>5, <3>1, NewClientType DEF InsertClient, TypeOK
    <3> QED
      BY <1>0, <2>5, <3>2 DEF InsertClient, TypeOK, ClientLabels
  <2>6. CASE SyncInsert(t)
    <3>1. CASE Realtime
      BY <1>0, <2>6, <3>1 DEF SyncInsert, TypeOK, ClientLabels
    <3> QED
      BY <2>5, <2>6, <3>1 DEF SyncInsert
  <2>7. CASE SetupNotify(t)
    BY <2>5, <2>7 DEF SetupNotify
  <2>8. CASE RemoveClient(t)
    <3>1. sdk_clients' \in [ServerSdkKeys -> Clients]
      BY <1>0, <2>8 DEF RemoveClient, TypeOK, Clients, ClientStates, Absent
    <3> QED
      BY <1>0, <2>8, <3>1 DEF RemoveClient, TypeOK, ClientLabels
  <2>9. CASE UpdateClientsEnd(t)
    BY <1>0, <2>9 DEF UpdateClientsEnd, TypeOK, ClientLabels
  <2>10. CASE Tick(t)
    BY <1>0, <2>10 DEF Tick, TypeOK, ClientLabels
  <2> QED
    BY <1>7, <2>1, <2>2, <2>3, <2>4, <2>6, <2>7, <2>8, <2>9, <2>10 DEF ClientStep
<1>8. ASSUME NEW h \in Handlers, HttpStep(h) PROVE TypeOK'
  <2>0. ASSUME NEW status \in {200, 400, 503}, NEW body \in ServerSdkKeys \cup {"empty"},
               Respond(h, status, body),
               UNCHANGED <<startVars, shared, fetched, loopVars>>,
               mapping_lock' \in Locks(Tasks), clients_lock' \in Locks(Tasks)
        PROVE  TypeOK'
    BY <1>0, <2>0, TaskKindsDisjoint DEF Respond, TypeOK, Goto, Tasks, HttpLabels, Responses
  <2>1. CASE RejectUser(h)
    BY <1>0, <2>0, <2>1 DEF RejectUser, IntoResponse, TypeOK
  <2>8. CASE SecretKeys(h)
    <3>1. server_sdk_key(secret_mapping, request[h].key) \in ServerSdkKeys \cup {None}
      BY <1>0, <2>8
      DEF SecretKeys, HandlerInv, Requests, ServerOps, ClientOps, server_sdk_key, TypeOK,
          SecretMappings, Mappings
    <3> QED
      BY <1>0, <2>0, <2>8, <3>1 DEF SecretKeys, TypeOK
  <2>2. CASE Lookup(h)
    <3>1. Resolve(secret_mapping, request[h]) \in ServerSdkKeys \cup {None}
      BY <1>0, <2>2, ResolveType DEF Lookup, HandlerInv
    <3>2. Read(mapping_lock, h) \in Locks(Tasks)
      BY <1>0 DEF TypeOK, Read, Locks, Tasks
    <3>3. CASE secret_mapping.version = 0 \/ Resolve(secret_mapping, request[h]) = None
      BY <1>0, <2>0, <2>2, <3>3 DEF Lookup, TypeOK
    <3> QED
      BY <1>0, <2>2, <3>1, <3>2, <3>3, GotoTypes, TaskKindsDisjoint
      DEF Lookup, TypeOK, Tasks, HttpLabels
  <2>3. CASE GetClient(h)
    <3>1. /\ Read(clients_lock, h) \in Locks(Tasks)
          /\ ReadDone(mapping_lock, h) \in Locks(Tasks)
      BY <1>0 DEF TypeOK, Read, ReadDone, Locks, Tasks
    <3>2. CASE sdk_clients[sdk_key[h]].state = "ready"
      BY <1>0, <2>3, <3>1, <3>2, TaskKindsDisjoint
      DEF GetClient, TypeOK, Goto, Tasks, HttpLabels
    <3> QED
      BY <1>0, <2>0, <2>3, <3>1, <3>2 DEF GetClient, TypeOK
  <2>4. CASE SendBody(h)
    <3>1. /\ ReadDone(clients_lock, h) \in Locks(Tasks)
          /\ ReadDone(mapping_lock, h) \in Locks(Tasks)
      BY <1>0 DEF TypeOK, ReadDone, Locks
    <3>2. sdk_key[h] \in ServerSdkKeys
      BY <1>0, <2>4 DEF SendBody, HandlerInv
    <3> QED
      BY <2>0, <2>4, <3>1, <3>2 DEF SendBody
  <2>5. CASE ReserveClients(h)
    BY <1>0, <2>5 DEF ReserveClients, TypeOK, Reserve, Locks, Tasks
  <2>6. CASE ClientSyncNow(h)
    <3>1. WriteDone(clients_lock) \in Locks(Tasks)
      BY <1>0 DEF TypeOK, WriteDone, Locks
    <3> QED
      BY <1>0, <2>0, <2>6, <3>1 DEF ClientSyncNow, TypeOK
  <2>7. CASE Poll(h)
    BY <1>0, <2>7, TaskKindsDisjoint DEF Poll, TypeOK, Goto, Tasks, HttpLabels
  <2> QED
    BY <1>8, <2>1, <2>2, <2>3, <2>4, <2>5, <2>6, <2>7, <2>8 DEF HttpStep
<1>9. ASSUME NEW h \in Handlers, NEW r \in Requests, Receive(h, r) PROVE TypeOK'
  BY <1>0, <1>9, TaskKindsDisjoint DEF Receive, TypeOK, Goto, Tasks, HttpLabels
<1>10. CASE UNCHANGED vars
  BY <1>0, <1>10 DEF vars, TypeOK
<1> QED
  BY <1>1, <1>2, <1>3, <1>4, <1>5, <1>6, <1>7, <1>8, <1>9, <1>10 DEF Next, Start

-----------------------------------------------------------------------------
(* The locks.  A step moves one task, so each case is about that task.     *)

\* A new repository is unlocked, and no task is inside a critical section.
LEMMA LockInvInit == Init => LockInv
  BY TaskKindsDisjoint DEF Init, LockInv, Unlocked, Tasks

\* The guards are owned by the tasks that are between taking and dropping them.
LEMMA LockInvStep ==
    ASSUME IInv, [Next]_vars
    PROVE  LockInv'
<1> USE DEF startVars, shared, locks, loopVars, httpVars
<1>0. TypeOK /\ LockInv
  BY DEF IInv
<1>1. CASE \/ Start
           \/ \E m \in Mappings : Publish(m)
           \/ \E s \in ServerSdkKeys : Initialize(s)
           \/ UNCHANGED vars
  BY <1>0, <1>1 DEF Start, SyncWith, Sync, Publish, Initialize, vars, LockInv, Exclusive
<1>2. ASSUME NEW t \in KeyTasks,
             KeyStep(t) \/ \E v \in 0..Len(published) : Fetch(t, v)
      PROVE  LockInv'
  <2>0. /\ t \notin ClientTasks /\ t \notin Handlers
        /\ pc \in [Tasks -> KeyLabels \cup ClientLabels \cup HttpLabels] /\ t \in Tasks
    BY <1>0, TaskKindsDisjoint DEF TypeOK, Tasks
  <2>1. CASE \E v \in 0..Len(published) : Fetch(t, v)
    BY <1>0, <2>0, <2>1 DEF Fetch, Goto, LockInv, Exclusive, Tasks
  <2>2. CASE UpdateMappingCheck(t)
    BY <1>0, <2>0, <2>2 DEF UpdateMappingCheck, Goto, LockInv, Exclusive, Tasks
  <2>3. CASE ReserveMapping(t)
    BY <1>0, <2>0, <2>3 DEF ReserveMapping, Reserve, TypeOK, Locks, LockInv, Exclusive
  <2>4. CASE UpdateMapping(t)
    BY <1>0, <2>0, <2>4
    DEF UpdateMapping, Goto, WriteDone, TypeOK, Locks, LockInv, Exclusive, Tasks
  <2> QED
    BY <1>2, <2>1, <2>2, <2>3, <2>4 DEF KeyStep
<1>3. ASSUME NEW t \in ClientTasks, ClientStep(t) \/ Tick(t) PROVE LockInv'
  <2>0. /\ t \notin KeyTasks /\ t \notin Handlers
        /\ pc \in [Tasks -> KeyLabels \cup ClientLabels \cup HttpLabels] /\ t \in Tasks
        /\ mapping_lock \in Locks(Tasks) /\ clients_lock \in Locks(Tasks)
    BY <1>0, TaskKindsDisjoint DEF TypeOK, Tasks
  <2> USE <1>0, <2>0 DEF Goto, Locks, LockInv, Exclusive, Tasks
  <2>1. CASE UpdateClientsBegin(t)
    BY <2>1 DEF UpdateClientsBegin, Read, MayRead
  <2>2. CASE UpdateClientsSnapshot(t)
    BY <2>2 DEF UpdateClientsSnapshot, ReadDone
  <2>3. CASE \E k \in ServerSdkKeys : SyncCheck(t, k)
    BY <2>3 DEF SyncCheck
  <2>4. CASE \E k \in ServerSdkKeys : RemoveCheck(t, k)
    BY <2>4 DEF RemoveCheck
  <2>5. CASE ReserveClients(t)
    BY <2>5 DEF ReserveClients, Reserve, MayReserve
  <2>6. ASSUME pc[t] \in {"create", "notify"}, Exclusive(clients_lock, t), InsertClient(t)
        PROVE  LockInv'
    BY <2>6 DEF InsertClient, WriteDone
  <2>7. CASE SyncInsert(t)
    BY <2>6, <2>7 DEF SyncInsert
  <2>8. CASE SetupNotify(t)
    BY <2>6, <2>8 DEF SetupNotify
  <2>9. CASE RemoveClient(t)
    BY <2>9 DEF RemoveClient, WriteDone
  <2>10. CASE UpdateClientsEnd(t)
    BY <2>10 DEF UpdateClientsEnd, ReadDone
  <2>11. CASE Tick(t)
    BY <2>11 DEF Tick
  <2> QED
    BY <1>3, <2>1, <2>2, <2>3, <2>4, <2>5, <2>7, <2>8, <2>9, <2>10, <2>11 DEF ClientStep
<1>4. ASSUME NEW h \in Handlers, HttpStep(h) \/ \E r \in Requests : Receive(h, r)
      PROVE  LockInv'
  <2>0. /\ h \notin KeyTasks /\ h \notin ClientTasks
        /\ pc \in [Tasks -> KeyLabels \cup ClientLabels \cup HttpLabels] /\ h \in Tasks
        /\ mapping_lock \in Locks(Tasks) /\ clients_lock \in Locks(Tasks)
    BY <1>0, TaskKindsDisjoint DEF TypeOK, Tasks
  <2> USE <1>0, <2>0 DEF Goto, Respond, Locks, LockInv, Exclusive, Tasks
  <2>1. CASE RejectUser(h) \/ SecretKeys(h)
    BY <2>1 DEF RejectUser, SecretKeys
  <2>2. CASE Lookup(h)
    BY <2>2 DEF Lookup, Read, MayRead
  <2>3. CASE GetClient(h)
    BY <2>3 DEF GetClient, Read, ReadDone, MayRead
  <2>4. CASE SendBody(h)
    BY <2>4 DEF SendBody, ReadDone
  <2>5. CASE ReserveClients(h)
    BY <2>5 DEF ReserveClients, Reserve, MayReserve
  <2>6. CASE ClientSyncNow(h)
    BY <2>6 DEF ClientSyncNow, WriteDone
  <2>7. CASE \E r \in Requests : Receive(h, r)
    BY <2>7 DEF Receive
  <2>8. CASE Poll(h)
    BY <2>8 DEF Poll
  <2> QED
    BY <1>4, <2>1, <2>2, <2>3, <2>4, <2>5, <2>6, <2>7, <2>8 DEF HttpStep
<1> QED
  BY <1>1, <1>2, <1>3, <1>4 DEF Next

-----------------------------------------------------------------------------
(* The worker threads.                                                     *)

\* No thread is taken at the start.
LEMMA WorkerInvInit == Init => WorkerInv
<1> SUFFICES ASSUME Init PROVE WorkerInv
  OBVIOUS
<1>1. Busy = {}
  BY TaskKindsDisjoint DEF Init, Busy, Awaiting, Tasks
<1> QED
  BY <1>1, FS_EmptySet, WorkersAssumption, TaskKindsDisjoint DEF Init, WorkerInv, Tasks

\* A step adds at most its own task to the busy ones.
LEMMA GotoBusy ==
    ASSUME TypeOK, NEW t \in Tasks, NEW label, Goto(t, label)
    PROVE  /\ Busy' \subseteq Busy \cup {t}
           /\ pc[t] \notin Awaiting => Busy' \subseteq Busy
  BY DEF TypeOK, Goto, Busy

\* A task that moves on, or polls only as a thread is free, leaves no more tasks
\* busy than there are threads.
LEMMA BusyStays ==
    ASSUME IInv, NEW t \in Tasks, NEW label, Goto(t, label),
           Spare \/ pc[t] \notin Awaiting
    PROVE  IsFiniteSet(Busy') /\ Cardinality(Busy') <= Workers
<1>1. TypeOK /\ IsFiniteSet(Busy) /\ Cardinality(Busy) <= Workers
  BY DEF IInv, WorkerInv
<1>2. Cardinality(Busy) \in Nat /\ Workers \in Nat
  BY <1>1, FS_CardinalityType, WorkersAssumption
<1>3. CASE pc[t] \notin Awaiting
  <2>1. Busy' \in SUBSET Busy
    BY <1>1, <1>3, GotoBusy
  <2>2. IsFiniteSet(Busy') /\ Cardinality(Busy') <= Cardinality(Busy)
    BY <1>1, <2>1, FS_Subset
  <2>3. Cardinality(Busy') \in Nat
    BY <2>2, FS_CardinalityType
  <2> QED
    BY <1>1, <1>2, <2>2, <2>3
<1>4. CASE Spare
  <2> DEFINE more == Busy \cup {t}
  <2>1. Busy' \in SUBSET more
    BY <1>1, GotoBusy
  <2>2. IsFiniteSet(more) /\ Cardinality(more) <= Cardinality(Busy) + 1
    BY <1>1, <1>2, FS_AddElement
  <2>3. /\ IsFiniteSet(Busy') /\ Cardinality(Busy') <= Cardinality(more)
        /\ Cardinality(more) \in Nat
    BY <2>1, <2>2, FS_Subset, FS_CardinalityType
  <2>4. Cardinality(Busy') \in Nat
    BY <2>3, FS_CardinalityType
  <2> QED
    BY <1>2, <1>4, <2>2, <2>3, <2>4 DEF Spare
<1> QED
  BY <1>3, <1>4

\* Tasks are polled only as a worker thread is free (repo.rs:72-118).
LEMMA WorkerInvStep ==
    ASSUME IInv, [Next]_vars
    PROVE  WorkerInv'
<1> USE DEF startVars, shared, locks, loopVars, httpVars
<1>0. TypeOK /\ WorkerInv
  BY DEF IInv
<1>1. CASE UNCHANGED pc
  BY <1>0, <1>1 DEF WorkerInv, Busy
<1>2. ASSUME NEW t \in Tasks, NEW label, Goto(t, label), Spare \/ pc[t] \notin Awaiting,
             t \in ClientTasks /\ label = "notify" => Realtime
      PROVE  WorkerInv'
  <2>1. IsFiniteSet(Busy') /\ Cardinality(Busy') <= Workers
    BY <1>2, BusyStays
  <2>2. \A u \in ClientTasks : pc'[u] = "notify" => Realtime
    BY <1>0, <1>2 DEF WorkerInv, Goto, TypeOK, Tasks
  <2> QED
    BY <2>1, <2>2 DEF WorkerInv
<1>3. CASE \/ Start
           \/ \E m \in Mappings : Publish(m)
           \/ \E s \in ServerSdkKeys : Initialize(s)
           \/ UNCHANGED vars
  BY <1>1, <1>3 DEF Start, SyncWith, Sync, Publish, Initialize, vars
<1>4. ASSUME NEW t \in KeyTasks,
             KeyStep(t) \/ \E v \in 0..Len(published) : Fetch(t, v)
      PROVE  WorkerInv'
  <2>1. t \in Tasks /\ t \notin ClientTasks
    BY TaskKindsDisjoint DEF Tasks
  <2>2. UNCHANGED pc \/ \E label : Goto(t, label) /\ (Spare \/ pc[t] \notin Awaiting)
    BY <1>4
    DEF KeyStep, UpdateMappingCheck, ReserveMapping, UpdateMapping, Fetch, Awaiting
  <2> QED
    BY <1>1, <1>2, <2>1, <2>2
<1>5. ASSUME NEW t \in ClientTasks, ClientStep(t) \/ Tick(t) PROVE WorkerInv'
  <2>1. t \in Tasks
    BY DEF Tasks
  <2>2. \/ UNCHANGED pc
        \/ \E label : /\ Goto(t, label)
                      /\ Spare \/ pc[t] \notin Awaiting
                      /\ label = "notify" => Realtime
    BY <1>5
    DEF ClientStep, UpdateClientsBegin, UpdateClientsSnapshot, SyncCheck, RemoveCheck,
        ReserveClients, SyncInsert, SetupNotify, InsertClient, RemoveClient,
        UpdateClientsEnd, Tick, Awaiting
  <2> QED
    BY <1>1, <1>2, <2>1, <2>2
<1>6. ASSUME NEW h \in Handlers, HttpStep(h) PROVE WorkerInv'
  <2>1. h \in Tasks /\ h \notin ClientTasks
    BY TaskKindsDisjoint DEF Tasks
  <2>2. UNCHANGED pc \/ \E label : Goto(h, label) /\ (Spare \/ pc[h] \notin Awaiting)
    BY <1>6
    DEF HttpStep, Poll, RejectUser, SecretKeys, Lookup, GetClient, SendBody, ReserveClients,
        ClientSyncNow, Respond, Awaiting
  <2> QED
    BY <1>1, <1>2, <2>1, <2>2
<1>7. ASSUME NEW h \in Handlers, NEW r \in Requests, Receive(h, r) PROVE WorkerInv'
  <2>1. Busy' = Busy
    BY <1>0, <1>7 DEF Receive, Goto, Busy, Awaiting, TypeOK
  <2>2. \A u \in ClientTasks : pc'[u] = pc[u]
    BY <1>0, <1>7, TaskKindsDisjoint DEF Receive, Goto, TypeOK, Tasks
  <2> QED
    BY <1>0, <2>1, <2>2 DEF WorkerInv
<1> QED
  BY <1>3, <1>4, <1>5, <1>6, <1>7 DEF Next

-----------------------------------------------------------------------------
(* Start-up.                                                               *)

\* Nothing runs before init_handler.
LEMMA StartInvInit == Init => StartInv
  BY TaskKindsDisjoint DEF Init, StartInv, Present, Absent, Tasks

\* No handler runs before start-up, and no loop without FP_KEYS_URL (main.rs:108-118).
LEMMA StartInvStep ==
    ASSUME IInv, [Next]_vars
    PROVE  StartInv'
<1> USE DEF startVars, shared, locks, loopVars, httpVars
<1>0. TypeOK /\ StartInv
  BY DEF IInv
<1>1. CASE Start
  BY <1>0, <1>1 DEF Start, SyncWith, Sync, StartInv
<1>2. CASE UNCHANGED vars \/ \E m \in Mappings : Publish(m)
  BY <1>0, <1>2 DEF Publish, vars, StartInv, Present
<1>3. ASSUME NEW s \in ServerSdkKeys, Initialize(s) PROVE StartInv'
  BY <1>0, <1>3 DEF Initialize, StartInv, Present
<1>4. ASSUME NEW t \in KeyTasks,
             KeyStep(t) \/ \E v \in 0..Len(published) : Fetch(t, v)
      PROVE  StartInv'
  <2>1. mode = "keys" /\ mode' = "keys"
    BY <1>0, <1>4
    DEF KeyStep, UpdateMappingCheck, ReserveMapping, UpdateMapping, Fetch, StartInv
  <2> QED
    BY <2>1 DEF StartInv
<1>5. ASSUME NEW t \in ClientTasks, ClientStep(t) \/ Tick(t) PROVE StartInv'
  <2>1. mode = "keys" /\ mode' = "keys"
    BY <1>0, <1>5
    DEF ClientStep, UpdateClientsBegin, UpdateClientsSnapshot, SyncCheck, RemoveCheck,
        ReserveClients, SyncInsert, SetupNotify, InsertClient, RemoveClient,
        UpdateClientsEnd, Tick, StartInv
  <2> QED
    BY <2>1 DEF StartInv
<1>6. ASSUME NEW h \in Handlers, HttpStep(h) \/ \E r \in Requests : Receive(h, r)
      PROVE  StartInv'
  <2>1. mode # "boot"
    BY <1>0, <1>6
    DEF HttpStep, Poll, RejectUser, SecretKeys, Lookup, GetClient, SendBody, ReserveClients,
        ClientSyncNow, Receive, StartInv
  <2>2. /\ mode' = mode
        /\ \E label : Goto(h, label) \/ pc' = pc
    BY <1>6
    DEF HttpStep, Poll, RejectUser, SecretKeys, Lookup, GetClient, SendBody, ReserveClients,
        ClientSyncNow, Receive, Respond
  <2>3. h \notin KeyTasks /\ h \notin ClientTasks
    BY TaskKindsDisjoint
  <2> QED
    BY <1>0, <2>1, <2>2, <2>3 DEF StartInv, TypeOK, Goto, Tasks
<1> QED
  BY <1>1, <1>2, <1>3, <1>4, <1>5, <1>6 DEF Next

-----------------------------------------------------------------------------
(* The guards.  What a task has read stays true while it holds the guard.  *)

\* Nobody writes the mapping while a client loop or a handler is reading it.
LEMMA GuardedMapping ==
    ASSUME IInv, [Next]_vars,
           NEW t \in Tasks, t \in mapping_lock.readers
    PROVE  UNCHANGED secret_mapping
<1> USE DEF startVars, shared, locks, loopVars, httpVars
<1>1. \A u \in KeyTasks : ~UpdateMapping(u)
  BY DEF UpdateMapping, Exclusive
<1>2. mode # "boot"
  BY DEF IInv, LockInv, StartInv
<1> QED
  BY <1>1, <1>2
  DEF Next, Start, SyncWith, Sync, Publish, Initialize, KeyStep, UpdateMappingCheck,
      ReserveMapping, Fetch, ClientStep, UpdateClientsBegin, UpdateClientsSnapshot,
      SyncCheck, RemoveCheck, ReserveClients, SyncInsert, SetupNotify, InsertClient,
      RemoveClient, UpdateClientsEnd, Tick, HttpStep, Poll, RejectUser, SecretKeys, Lookup,
      GetClient, SendBody, ClientSyncNow, Receive, vars

\* Clients come and go only under the write guard of sdk_clients.
LEMMA GuardedClients ==
    ASSUME IInv, [Next]_vars,
           NEW h \in Handlers, h \in clients_lock.readers,
           NEW s \in ServerSdkKeys, sdk_clients[s].state = "ready"
    PROVE  sdk_clients'[s].state = "ready"
<1> USE DEF startVars, shared, locks, loopVars, httpVars
<1>1. \A t \in ClientTasks : ~SyncInsert(t) /\ ~SetupNotify(t) /\ ~RemoveClient(t)
  BY DEF SyncInsert, SetupNotify, RemoveClient, Exclusive, IInv, LockInv
<1>2. mode # "boot"
  BY DEF IInv, LockInv, StartInv
<1>3. ASSUME NEW x \in ServerSdkKeys, Initialize(x)
      PROVE  sdk_clients'[s].state = "ready"
  BY <1>3 DEF Initialize, IInv, TypeOK, Clients
<1> QED
  BY <1>1, <1>2, <1>3
  DEF Next, Start, SyncWith, Sync, Publish, KeyStep, UpdateMappingCheck,
      ReserveMapping, UpdateMapping, Fetch, ClientStep, UpdateClientsBegin,
      UpdateClientsSnapshot, SyncCheck, RemoveCheck, ReserveClients, UpdateClientsEnd,
      Tick, HttpStep, Poll, RejectUser, SecretKeys, Lookup, GetClient, SendBody,
      ClientSyncNow, Receive, vars

\* What a step of update_clients does to the set of clients.
LEMMA InsertClientPresent ==
    ASSUME IInv, NEW t \in ClientTasks, pc[t] \in {"create", "notify"}, InsertClient(t)
    PROVE  /\ current[t] \in server_sdk_keys(secret_mapping)
           /\ Present' = Present \cup {current[t]}
<1>1. /\ current[t] \in server_sdk_keys(secret_mapping)
      /\ current[t] \in ServerSdkKeys
  BY DEF IInv, LoopInv, TypeOK
<1>2. \A client \in NewClients(current[t]) : client.state # "absent"
  BY DEF NewClients
<1> QED
  BY <1>1, <1>2 DEF InsertClient, Present, IInv, TypeOK

\* A removed client is one whose key is not mapped (repo.rs:227-232).
LEMMA RemoveClientPresent ==
    ASSUME IInv, NEW t \in ClientTasks, RemoveClient(t)
    PROVE  /\ current[t] \notin server_sdk_keys(secret_mapping)
           /\ Present' = Present \ {current[t]}
<1>1. /\ current[t] \notin server_sdk_keys(secret_mapping)
      /\ current[t] \in ServerSdkKeys
  BY DEF RemoveClient, IInv, LoopInv, TypeOK
<1> QED
  BY <1>1 DEF RemoveClient, Absent, Present, IInv, TypeOK

(***************************************************************************)
(* After start-up only mapped keys get a client and only unmapped ones     *)
(* lose theirs, also when the key was chosen many steps ago                *)
(* (repo.rs:218-234).                                                      *)
(***************************************************************************)
LEMMA ClientsFollowMapping ==
    ASSUME IInv, [Next]_vars, mode # "boot"
    PROVE  /\ Present \cap server_sdk_keys(secret_mapping) \subseteq Present'
           /\ Present' \subseteq Present \cup server_sdk_keys(secret_mapping)
<1> USE DEF startVars, shared, locks, loopVars, httpVars
<1>1. ASSUME NEW s \in ServerSdkKeys, Initialize(s) PROVE Present' = Present
  BY <1>1 DEF Initialize, Present, IInv, TypeOK, Clients
<1>2. ASSUME NEW t \in ClientTasks, SyncInsert(t) \/ SetupNotify(t)
      PROVE  \/ Present' = Present
             \/ InsertClient(t) /\ pc[t] \in {"create", "notify"}
  BY <1>2 DEF SyncInsert, SetupNotify, Present
<1>3. CASE UNCHANGED sdk_clients
  BY <1>3 DEF Present
<1>4. CASE \E s \in ServerSdkKeys : Initialize(s)
  BY <1>1, <1>4
<1>5. ASSUME NEW t \in ClientTasks, SyncInsert(t) \/ SetupNotify(t) \/ RemoveClient(t)
      PROVE  /\ Present \cap server_sdk_keys(secret_mapping) \subseteq Present'
             /\ Present' \subseteq Present \cup server_sdk_keys(secret_mapping)
  BY <1>2, <1>5, InsertClientPresent, RemoveClientPresent
<1> QED
  BY <1>3, <1>4, <1>5
  DEF Next, Start, SyncWith, Sync, Publish, KeyStep, UpdateMappingCheck,
      ReserveMapping, UpdateMapping, Fetch, ClientStep, UpdateClientsBegin,
      UpdateClientsSnapshot, SyncCheck, RemoveCheck, ReserveClients, UpdateClientsEnd,
      Tick, HttpStep, Poll, RejectUser, SecretKeys, Lookup, GetClient, SendBody,
      ClientSyncNow, Receive, vars

-----------------------------------------------------------------------------
(* What the handlers and the client loop rely on under their guards.       *)

\* No handler holds anything at the start.
LEMMA HandlerInvInit == Init => HandlerInv
  BY TaskKindsDisjoint DEF Init, HandlerInv, Tasks

\* What a handler looked up stays true until it responds (repo.rs:120-160).
LEMMA HandlerInvStep ==
    ASSUME IInv, [Next]_vars
    PROVE  HandlerInv'
<1> USE DEF startVars, shared, locks, loopVars, httpVars
<1>0. TypeOK /\ HandlerInv /\ LockInv
  BY DEF IInv
<1> DEFINE Ok(h) ==
        /\ IF pc[h] = "idle" THEN request[h] = NoRequest ELSE request[h] \in Requests
        /\ pc[h] = "lookup" => request[h].op # "update_toggles"
        /\ pc[h] = "sync_now" => request[h].op = "update_toggles"
        /\ pc[h] \in {"client", "body"} =>
              /\ secret_mapping.version > 0
              /\ request[h].op \notin {"update_toggles", "all_secrets"}
              /\ sdk_key[h] \in ServerSdkKeys
              /\ sdk_key[h] = Resolve(secret_mapping, request[h])
        /\ pc[h] = "body" => sdk_clients[sdk_key[h]].state = "ready"
<1> SUFFICES ASSUME NEW h \in Handlers PROVE Ok(h)'
  BY DEF HandlerInv
<1>1. Ok(h) /\ h \in Tasks /\ h \notin KeyTasks /\ h \notin ClientTasks
  BY <1>0, TaskKindsDisjoint DEF HandlerInv, Tasks
<1>2. ASSUME pc'[h] = pc[h], request'[h] = request[h], sdk_key'[h] = sdk_key[h]
      PROVE  Ok(h)'
  <2>1. CASE pc[h] \in {"client", "body"}
    <3>1. UNCHANGED secret_mapping
      BY <1>0, <1>1, <2>1, GuardedMapping DEF LockInv
    <3>2. pc[h] = "body" => sdk_clients'[sdk_key[h]].state = "ready"
      BY <1>0, <1>1, <2>1, GuardedClients DEF LockInv
    <3> QED
      BY <1>1, <1>2, <2>1, <3>1, <3>2
  <2> QED
    BY <1>1, <1>2, <2>1
<1>3. ASSUME NEW status, NEW body, Respond(h, status, body) PROVE Ok(h)'
  BY <1>0, <1>1, <1>3 DEF Respond, Goto, TypeOK
<1>4. CASE Lookup(h)
  <2>1. Resolve(secret_mapping, request[h]) \in ServerSdkKeys \cup {None}
    BY <1>0, <1>1, <1>4, ResolveType DEF Lookup
  <2> QED
    BY <1>0, <1>1, <1>3, <1>4, <2>1
    DEF Lookup, Goto, TypeOK, SecretMappings
<1>5. CASE GetClient(h)
  BY <1>0, <1>1, <1>3, <1>5 DEF GetClient, Goto, TypeOK
<1>6. CASE RejectUser(h) \/ SecretKeys(h) \/ SendBody(h) \/ ClientSyncNow(h)
  BY <1>3, <1>6 DEF RejectUser, SecretKeys, SendBody, ClientSyncNow
<1>7. CASE \E r \in Requests : Receive(h, r)
  BY <1>0, <1>1, <1>7 DEF Receive, Goto, TypeOK
<1>8. CASE ReserveClients(h)
  BY <1>2, <1>8 DEF ReserveClients
<1>9. ASSUME NEW g \in Handlers, g # h, HttpStep(g) \/ \E r \in Requests : Receive(g, r)
      PROVE  Ok(h)'
  BY <1>0, <1>1, <1>2, <1>9
  DEF HttpStep, Poll, RejectUser, SecretKeys, Lookup, GetClient, SendBody, ReserveClients,
      ClientSyncNow, Receive, Respond, Goto, TypeOK
<1>10. ASSUME NEW t \in KeyTasks,
              KeyStep(t) \/ \E v \in 0..Len(published) : Fetch(t, v)
       PROVE  Ok(h)'
  BY <1>0, <1>1, <1>2, <1>10
  DEF KeyStep, UpdateMappingCheck, ReserveMapping, UpdateMapping, Fetch, Goto, TypeOK
<1>11. ASSUME NEW t \in ClientTasks, ClientStep(t) \/ Tick(t) PROVE Ok(h)'
  BY <1>0, <1>1, <1>2, <1>11
  DEF ClientStep, UpdateClientsBegin, UpdateClientsSnapshot, SyncCheck, RemoveCheck,
      ReserveClients, SyncInsert, SetupNotify, InsertClient, RemoveClient,
      UpdateClientsEnd, Tick, Goto, TypeOK
<1>12. CASE \/ Start
            \/ \E m \in Mappings : Publish(m)
            \/ \E s \in ServerSdkKeys : Initialize(s)
            \/ UNCHANGED vars
  BY <1>2, <1>12 DEF Start, SyncWith, Sync, Publish, Initialize, vars
<1>13. CASE Poll(h)
  BY <1>0, <1>1, <1>13 DEF Poll, Goto, TypeOK
<1> HIDE DEF Ok
<1> QED
  BY <1>4, <1>5, <1>6, <1>7, <1>8, <1>9, <1>10, <1>11, <1>12, <1>13 DEF Next, HttpStep

\* No run of update_clients is under way at the start.
LEMMA LoopInvInit == Init => LoopInv
  BY TaskKindsDisjoint DEF Init, LoopInv, Tasks

\* The work update_clients has left keeps describing the two maps (repo.rs:218-234).
LEMMA LoopInvStep ==
    ASSUME IInv, [Next]_vars
    PROVE  LoopInv'
<1> USE DEF startVars, shared, locks, loopVars, httpVars
<1>0. TypeOK /\ LoopInv /\ LockInv
  BY DEF IInv
<1> DEFINE inLoop == {"sync", "create", "notify", "remove"}
           Ok(t) ==
        /\ pc[t] \in inLoop =>
              /\ secret_mapping.version > 0
              /\ todo[t] \subseteq server_sdk_keys(secret_mapping)
              /\ server_sdk_keys(secret_mapping) \ todo[t] \subseteq Present
              /\ stale[t] \cap server_sdk_keys(secret_mapping) = {}
              /\ Present \ server_sdk_keys(secret_mapping) \subseteq stale[t]
        /\ pc[t] \in {"create", "notify"} => current[t] \in todo[t]
        /\ pc[t] = "remove" => current[t] \in stale[t]
<1> SUFFICES ASSUME NEW t \in ClientTasks PROVE Ok(t)'
  BY DEF LoopInv
<1>1. /\ Ok(t)
      /\ t \in Tasks /\ t \notin KeyTasks /\ t \notin Handlers
  BY <1>0, TaskKindsDisjoint DEF LoopInv, Tasks
<1>2. pc[t] \in inLoop => UNCHANGED secret_mapping /\ mode # "boot"
  BY <1>0, <1>1, GuardedMapping DEF LockInv, IInv, StartInv
<1>3. ASSUME pc'[t] = pc[t], todo'[t] = todo[t], stale'[t] = stale[t],
             current'[t] = current[t]
      PROVE  Ok(t)'
  BY <1>1, <1>2, <1>3, ClientsFollowMapping
<1>4. CASE UpdateClientsSnapshot(t)
  BY <1>0, <1>1, <1>4 DEF UpdateClientsSnapshot, Goto, TypeOK, SecretMappings, Present
<1>5. ASSUME NEW k \in ServerSdkKeys, SyncCheck(t, k) PROVE Ok(t)'
  BY <1>0, <1>1, <1>5 DEF SyncCheck, Goto, TypeOK, Present
<1>6. ASSUME NEW k \in ServerSdkKeys, RemoveCheck(t, k) PROVE Ok(t)'
  BY <1>0, <1>1, <1>6 DEF RemoveCheck, Goto, TypeOK, Present
<1>7. ASSUME pc[t] \in {"create", "notify"}, InsertClient(t) PROVE Ok(t)'
  <2>1. Present' = Present \cup {current[t]}
    BY <1>7, InsertClientPresent
  <2>2. /\ secret_mapping' = secret_mapping
        /\ pc'[t] = "sync"
        /\ todo'[t] = todo[t] \ {current[t]}
        /\ stale'[t] = stale[t]
    BY <1>0, <1>1, <1>7 DEF InsertClient, Goto, TypeOK
  <2> QED
    BY <1>1, <1>7, <2>1, <2>2, InsertClientPresent
<1>8. CASE SyncInsert(t) \/ SetupNotify(t)
  <2>1. CASE SyncInsert(t) /\ Realtime
    BY <1>0, <1>1, <2>1 DEF SyncInsert, Goto, TypeOK, Present
  <2> QED
    BY <1>7, <1>8, <2>1 DEF SyncInsert, SetupNotify
<1>9. CASE RemoveClient(t)
  BY <1>0, <1>1, <1>9, RemoveClientPresent DEF RemoveClient, Goto, TypeOK
<1>10. CASE UpdateClientsBegin(t) \/ UpdateClientsEnd(t) \/ Tick(t)
  BY <1>0, <1>1, <1>10 DEF UpdateClientsBegin, UpdateClientsEnd, Tick, Goto, TypeOK
<1>11. CASE ReserveClients(t)
  BY <1>3, <1>11 DEF ReserveClients
<1>12. ASSUME NEW u \in ClientTasks, u # t, ClientStep(u) \/ Tick(u) PROVE Ok(t)'
  BY <1>0, <1>1, <1>3, <1>12
  DEF ClientStep, UpdateClientsBegin, UpdateClientsSnapshot, SyncCheck, RemoveCheck,
      ReserveClients, SyncInsert, SetupNotify, InsertClient, RemoveClient,
      UpdateClientsEnd, Tick, Goto, TypeOK
<1>13. ASSUME NEW u \in KeyTasks,
              KeyStep(u) \/ \E v \in 0..Len(published) : Fetch(u, v)
       PROVE  Ok(t)'
  BY <1>0, <1>1, <1>3, <1>13
  DEF KeyStep, UpdateMappingCheck, ReserveMapping, UpdateMapping, Fetch, Goto, TypeOK
<1>14. ASSUME NEW h \in Handlers, HttpStep(h) \/ \E r \in Requests : Receive(h, r)
       PROVE  Ok(t)'
  BY <1>0, <1>1, <1>3, <1>14
  DEF HttpStep, Poll, RejectUser, SecretKeys, Lookup, GetClient, SendBody, ReserveClients,
      ClientSyncNow, Receive, Respond, Goto, TypeOK
<1>15. CASE \/ Start
            \/ \E m \in Mappings : Publish(m)
            \/ \E s \in ServerSdkKeys : Initialize(s)
            \/ UNCHANGED vars
  BY <1>3, <1>15 DEF Start, SyncWith, Sync, Publish, Initialize, vars
<1> HIDE DEF Ok
<1> QED
  BY <1>4, <1>5, <1>6, <1>8, <1>9, <1>10, <1>11, <1>12, <1>13, <1>14, <1>15
  DEF Next, ClientStep

-----------------------------------------------------------------------------
(* What is in force was published.                                         *)

\* The default mapping is empty, and so is its index (secrets.rs:8-14).
LEMMA MappingInvInit == Init => MappingInv
<1>1. ReverseOfMapping(Default)
  BY NoneIsNoKey
  DEF ReverseOfMapping, ReversesOf, Default, Reverses, NoMapping, NoReverse
<1> QED
  BY <1>1, TaskKindsDisjoint DEF Init, MappingInv, Tasks

\* Mappings are stored and fetched whole, under their versions (repo.rs:96-110, 236-242).
LEMMA MappingInvStep ==
    ASSUME IInv, [Next]_vars
    PROVE  MappingInv'
<1> USE DEF startVars, shared, locks, loopVars, httpVars
<1>0. TypeOK /\ MappingInv /\ StartInv
  BY DEF IInv
<1>1. ASSUME NEW v \in 0..Len(published),
             Len(published') >= Len(published), Len(published') \in Nat,
             \A i \in 1..Len(published) : published'[i] = published[i]
      PROVE  v \in 0..Len(published') /\ PublishedAs(v)' = PublishedAs(v)
  <2>1. Len(published) \in Nat
    BY <1>0 DEF TypeOK
  <2> QED
    BY <1>1, <2>1 DEF PublishedAs
<1>2. ASSUME NEW m \in Mappings, Publish(m) PROVE MappingInv'
  <2>1. /\ Len(published') = Len(published) + 1
        /\ Len(published) \in Nat
        /\ \A i \in 1..Len(published) : published'[i] = published[i]
    BY <1>0, <1>2 DEF Publish, TypeOK
  <2>2. \A v \in 0..Len(published) :
           v \in 0..Len(published') /\ PublishedAs(v)' = PublishedAs(v)
    BY <1>1, <2>1
  <2> QED
    BY <1>0, <1>2, <2>2 DEF Publish, MappingInv
<1>3. CASE SyncWith
  BY <1>0, <1>3 DEF SyncWith, MappingInv, StartInv, Default, PublishedAs, TypeOK
<1>4. ASSUME NEW c \in ClientSdkKeys, NEW s \in ServerSdkKeys, NEW v \in {0, 1},
             Sync(c, s, v)
      PROVE  MappingInv'
  BY <1>0, <1>4, InsertFirstPair DEF Sync, MappingInv, StartInv
<1>5. ASSUME NEW t \in KeyTasks, NEW v \in 0..Len(published), Fetch(t, v)
      PROVE  MappingInv'
  BY <1>0, <1>5 DEF Fetch, Parsed, PublishedAs, Goto, MappingInv, TypeOK, Tasks
<1>6. ASSUME NEW t \in KeyTasks, UpdateMapping(t) PROVE MappingInv'
  <2>1. /\ fetched[t].version \in 0..Len(published)
        /\ fetched[t].mapping = PublishedAs(fetched[t].version)
    BY <1>0, <1>6 DEF UpdateMapping, MappingInv
  <2>2. /\ ReverseOfMapping(secret_mapping')
        /\ \/ secret_mapping' = secret_mapping
           \/ /\ secret_mapping'.version = fetched[t].version
              /\ secret_mapping'.mapping = fetched[t].mapping
    BY <1>0, <1>6, UpdateMappingTakesNewer DEF UpdateMapping, TypeOK, MappingInv
  <2>3. \A u \in KeyTasks : pc'[u] # "fetch" => pc[u] # "fetch"
    BY <1>0, <1>6 DEF UpdateMapping, Goto, TypeOK, Tasks
  <2> QED
    BY <1>0, <1>6, <2>1, <2>2, <2>3 DEF UpdateMapping, MappingInv, PublishedAs
<1>7. ASSUME UNCHANGED <<mode, published, secret_mapping, fetched>>,
             \A u \in KeyTasks : pc'[u] # "fetch" => pc[u] # "fetch"
      PROVE  MappingInv'
  BY <1>0, <1>7 DEF MappingInv, PublishedAs
<1>8. ASSUME NEW t \in KeyTasks, UpdateMappingCheck(t) \/ ReserveMapping(t)
      PROVE  MappingInv'
  BY <1>0, <1>7, <1>8 DEF UpdateMappingCheck, ReserveMapping, Goto, TypeOK, Tasks
<1>9. ASSUME NEW t \in ClientTasks, ClientStep(t) \/ Tick(t) PROVE MappingInv'
  <2>1. /\ UNCHANGED <<mode, published, secret_mapping, fetched>>
        /\ pc' = pc \/ \E label : Goto(t, label)
    BY <1>9
    DEF ClientStep, UpdateClientsBegin, UpdateClientsSnapshot, SyncCheck, RemoveCheck,
        ReserveClients, SyncInsert, SetupNotify, InsertClient, RemoveClient,
        UpdateClientsEnd, Tick
  <2> QED
    BY <1>0, <1>7, <2>1, TaskKindsDisjoint DEF Goto, TypeOK, Tasks
<1>10. ASSUME NEW h \in Handlers, HttpStep(h) \/ \E r \in Requests : Receive(h, r)
       PROVE  MappingInv'
  <2>1. /\ UNCHANGED <<mode, published, secret_mapping, fetched>>
        /\ pc' = pc \/ \E label : Goto(h, label)
    BY <1>10
    DEF HttpStep, Poll, RejectUser, SecretKeys, Lookup, GetClient, SendBody, ReserveClients,
        ClientSyncNow, Receive, Respond
  <2> QED
    BY <1>0, <1>7, <2>1, TaskKindsDisjoint DEF Goto, TypeOK, Tasks
<1>11. CASE UNCHANGED vars \/ \E s \in ServerSdkKeys : Initialize(s)
  BY <1>7, <1>11 DEF Initialize, vars
<1> QED
  BY <1>2, <1>3, <1>4, <1>5, <1>6, <1>8, <1>9, <1>10, <1>11 DEF Next, Start, KeyStep

\* There is no callback before start-up.
LEMMA CallbackInit == Init => CallbackKeyWasMapped
  BY DEF Init, CallbackKeyWasMapped

\* A client key is captured while it is mapped (repo.rs:244-263).
LEMMA CallbackStep ==
    ASSUME IInv, [Next]_vars
    PROVE  CallbackKeyWasMapped'
<1> USE DEF startVars, shared, locks, loopVars, httpVars
<1>0. TypeOK /\ CallbackKeyWasMapped
  BY DEF IInv
<1> DEFINE Given(s, c, p) == c \in ClientSdkKeys /\ \E v \in 1..Len(p) : p[v][c] = s
<1> SUFFICES ASSUME mode' = "keys", Realtime, NEW s \in ServerSdkKeys, s \in Present'
             PROVE  Given(s, sdk_clients'[s].notify, published')
  BY DEF CallbackKeyWasMapped, Present
<1>1. ASSUME mode = "keys", s \in Present
      PROVE  Given(s, sdk_clients[s].notify, published)
  BY <1>0, <1>1 DEF CallbackKeyWasMapped
<1>2. ASSUME NEW m \in Mappings, Publish(m)
      PROVE  Given(s, sdk_clients'[s].notify, published')
  <2>1. /\ Len(published') = Len(published) + 1
        /\ Len(published) \in Nat
        /\ \A i \in 1..Len(published) : published'[i] = published[i]
    BY <1>0, <1>2 DEF Publish, TypeOK
  <2>2. Given(s, sdk_clients[s].notify, published)
    BY <1>1, <1>2 DEF Publish, Present
  <2> QED
    BY <1>2, <2>1, <2>2 DEF Publish
<1>3. CASE Start
  BY <1>0, <1>3 DEF Start, SyncWith, Sync, IInv, StartInv, Present
<1>4. ASSUME NEW x \in ServerSdkKeys, Initialize(x)
      PROVE  Given(s, sdk_clients'[s].notify, published')
  BY <1>0, <1>1, <1>4 DEF Initialize, Present, TypeOK, Clients
<1>5. ASSUME UNCHANGED <<mode, published>>, sdk_clients'[s] = sdk_clients[s]
      PROVE  Given(s, sdk_clients'[s].notify, published')
  BY <1>1, <1>5 DEF Present
<1>6. ASSUME NEW t \in ClientTasks, pc[t] \in {"create", "notify"}, InsertClient(t)
      PROVE  Given(s, sdk_clients'[s].notify, published')
  <2>1. CASE s # current[t]
    BY <1>0, <1>5, <1>6, <2>1 DEF InsertClient, TypeOK
  <2>2. CASE s = current[t]
    <3> DEFINE c == client_sdk_key(secret_mapping, s)
               v == secret_mapping.version
    <3>1. s \in server_sdk_keys(secret_mapping) /\ v > 0
      BY <1>6, <2>2, InsertClientPresent DEF IInv, LoopInv
    <3>2. c \in ClientSdkKeys /\ secret_mapping.mapping[c] = s
      BY <1>0, <3>1, ReverseIsMapped DEF TypeOK, IInv, MappingInv
    <3>3. v \in 1..Len(published) /\ secret_mapping.mapping = published[v]
      <4>1. mode = "keys"
        BY <1>6 DEF InsertClient
      <4> QED
        BY <1>0, <3>1, <4>1 DEF IInv, MappingInv, PublishedAs, TypeOK
    <3>4. sdk_clients'[s].notify = c /\ published' = published
      BY <1>0, <1>6, <2>2 DEF InsertClient, NewClients, TypeOK
    <3> QED
      BY <3>2, <3>3, <3>4
  <2> QED
    BY <2>1, <2>2
<1>7. ASSUME NEW t \in ClientTasks, RemoveClient(t)
      PROVE  Given(s, sdk_clients'[s].notify, published')
  <2>1. s # current[t]
    BY <1>7, RemoveClientPresent
  <2> QED
    BY <1>0, <1>5, <1>7, <2>1 DEF RemoveClient, TypeOK
<1>8. ASSUME NEW t \in ClientTasks, SyncInsert(t) \/ SetupNotify(t)
      PROVE  Given(s, sdk_clients'[s].notify, published')
  <2>1. CASE pc' = [pc EXCEPT ![t] = "notify"] /\ UNCHANGED <<mode, published, sdk_clients>>
    BY <1>5, <2>1
  <2> QED
    BY <1>6, <1>8, <2>1 DEF SyncInsert, SetupNotify, Goto
<1>9. CASE UNCHANGED <<mode, published, sdk_clients>>
  BY <1>5, <1>9
<1> HIDE DEF Given
<1> QED
  BY <1>2, <1>3, <1>4, <1>7, <1>8, <1>9
  DEF Next, KeyStep, UpdateMappingCheck, ReserveMapping, UpdateMapping, Fetch,
      ClientStep, UpdateClientsBegin, UpdateClientsSnapshot, SyncCheck, RemoveCheck,
      ReserveClients, UpdateClientsEnd, Tick, HttpStep, Poll, RejectUser, SecretKeys, Lookup,
      GetClient, SendBody, ClientSyncNow, Receive, vars

-----------------------------------------------------------------------------
(* The theorems.                                                           *)

\* The invariant the others follow from: it holds in every reachable state, so
\* what a task read under a guard is still so when it acts on it, although
\* other tasks run between any two of its steps (repo.rs:120-311).
THEOREM Inductive == Spec => []IInv
<1>1. Init => IInv
  BY TypeOKInit, LockInvInit, WorkerInvInit, StartInvInit, HandlerInvInit, LoopInvInit,
     MappingInvInit, CallbackInit
  DEF IInv
<1>2. IInv /\ [Next]_vars => IInv'
  BY TypeOKStep, LockInvStep, WorkerInvStep, StartInvStep, HandlerInvStep, LoopInvStep,
     MappingInvStep, CallbackStep
  DEF IInv
<1> QED
  BY <1>1, <1>2, PTL DEF Spec

\* Every variable keeps its type, and every response one of the three statuses
\* the handlers choose (handler.rs:80-160).
THEOREM TypeCorrect == Spec => []TypeOK
<1>1. IInv => TypeOK
  BY DEF IInv
<1> QED
  BY <1>1, Inductive, PTL

\* However many loops fetch it, the mapping in force is one the API published,
\* whole and with an index that agrees with it (secrets.rs:34-46).
THEOREM MappingWasPublished == Spec => []MappingInv
<1>1. IInv => MappingInv
  BY DEF IInv
<1> QED
  BY <1>1, Inductive, PTL

\* A client's update callback notifies a client key that was mapped to it
\* (repo.rs:245-263).
THEOREM CallbackKeys == Spec => []CallbackKeyWasMapped
<1>1. IInv => CallbackKeyWasMapped
  BY DEF IInv
<1> QED
  BY <1>1, Inductive, PTL

\* A mapping that is replaced is replaced by a newer one (repo.rs:236-242).
LEMMA NewerMapping ==
    ASSUME IInv, [Next]_vars, mode = "keys", secret_mapping' # secret_mapping
    PROVE  secret_mapping'.version > secret_mapping.version
<1> USE DEF startVars, shared, locks, loopVars, httpVars
<1>1. PICK t \in KeyTasks : UpdateMapping(t)
  BY DEF Next, Start, SyncWith, Sync, Publish, Initialize, KeyStep, UpdateMappingCheck,
         ReserveMapping, Fetch, ClientStep, UpdateClientsBegin, UpdateClientsSnapshot,
         SyncCheck, RemoveCheck, ReserveClients, SyncInsert, SetupNotify, InsertClient,
         RemoveClient, UpdateClientsEnd, Tick, HttpStep, Poll, RejectUser, SecretKeys, Lookup,
         GetClient, SendBody, ClientSyncNow, Receive, vars
<1> QED
  BY <1>1, UpdateMappingTakesNewer DEF UpdateMapping, IInv, TypeOK, MappingInv

\* Once the loops run, they run for good (main.rs:113-127).
LEMMA ModeIsKept ==
    ASSUME [Next]_vars, mode = "keys"
    PROVE  mode' = "keys"
<1> USE DEF startVars, shared, locks, loopVars, httpVars
<1> QED
  BY DEF Next, Start, SyncWith, Sync, Publish, Initialize, KeyStep, UpdateMappingCheck,
         ReserveMapping, UpdateMapping, Fetch, ClientStep, UpdateClientsBegin,
         UpdateClientsSnapshot, SyncCheck, RemoveCheck, ReserveClients, SyncInsert,
         SetupNotify, InsertClient, RemoveClient, UpdateClientsEnd, Tick, HttpStep, Poll,
         RejectUser, SecretKeys, Lookup, GetClient, SendBody, ClientSyncNow, Receive, vars

\* The version is compared again under the write guard, so the mapping is only
\* ever replaced by a newer one, by whichever loop (repo.rs:236-242).
THEOREM VersionsGrow == Spec => VersionNeverRegresses
<1>1. IInv /\ [Next]_vars
        => [mode = "keys" => secret_mapping'.version > secret_mapping.version]_secret_mapping
  BY NewerMapping
<1> QED
  BY <1>1, Inductive, PTL DEF Spec, VersionNeverRegresses

\* Without a new mapping there is nothing to take, to create or to remove
\* (repo.rs:97-118, 181-242).
LEMMA ConvergedStep ==
    ASSUME IInv, IInv', [Next]_vars, Converged, published' = published
    PROVE  Converged' /\ Present' = Present
<1>1. secret_mapping' = secret_mapping
  <2>1. CASE secret_mapping' # secret_mapping
    <3>1. secret_mapping'.version > secret_mapping.version
      BY <2>1, NewerMapping DEF Converged
    <3>2. mode' = "keys"
      BY ModeIsKept DEF Converged
    <3>3. secret_mapping'.version \in 0..Len(published)
      BY <3>2 DEF IInv, MappingInv
    <3> QED
      BY <3>1, <3>3 DEF Converged, IInv, TypeOK
  <2> QED
    BY <2>1
<1>2. Present' = Present
  BY ClientsFollowMapping DEF Converged
<1> QED
  BY <1>1, <1>2, ModeIsKept DEF Converged, server_sdk_keys

\* Nothing that is still under way as the repository converges, in any number of
\* loops, undoes it: a late response is refused, and a loop that has keys left
\* has nothing to create or to remove (repo.rs:97-118, 181-242).
THEOREM ConvergenceLasts == Spec => ConvergedStays
<1>1. IInv /\ IInv' /\ [Next]_vars
        => [Converged => Converged' \/ published' # published]_vars
  BY ConvergedStep
<1> QED
  BY <1>1, Inductive, PTL DEF Spec, ConvergedStays

\* However the loops and the handlers interleave, a run of update_clients leaves
\* a client for exactly the mapped server keys (repo.rs:218-234).
THEOREM LoopLeavesMappedClients == Spec => UpdateLeavesMappedClients
<1> USE DEF startVars, shared, locks, loopVars, httpVars
<1>1. ASSUME IInv, [Next]_vars, NEW t \in ClientTasks, pc[t] = "sync", pc'[t] = "tick"
      PROVE  Present = server_sdk_keys(secret_mapping)
  <2>1. todo[t] = {} /\ stale[t] = {}
    <3>1. t \in Tasks /\ t \notin KeyTasks /\ t \notin Handlers
      BY TaskKindsDisjoint DEF Tasks
    <3>2. ASSUME NEW u \in Tasks, u # t, NEW label, Goto(u, label) PROVE pc'[t] = pc[t]
      BY <1>1, <3>1, <3>2 DEF Goto, IInv, TypeOK
    <3>3. ASSUME NEW h \in Handlers, HttpStep(h) \/ \E r \in Requests : Receive(h, r)
          PROVE  FALSE
      BY <1>1, <3>1, <3>2, <3>3
      DEF HttpStep, Poll, RejectUser, SecretKeys, Lookup, GetClient, SendBody, ReserveClients,
          ClientSyncNow, Receive, Respond, Tasks
    <3>4. ASSUME NEW u \in KeyTasks,
                 KeyStep(u) \/ \E v \in 0..Len(published) : Fetch(u, v)
          PROVE  FALSE
      BY <1>1, <3>1, <3>2, <3>4
      DEF KeyStep, UpdateMappingCheck, ReserveMapping, UpdateMapping, Fetch, Tasks
    <3>5. ASSUME NEW u \in ClientTasks, u # t, ClientStep(u) \/ Tick(u) PROVE FALSE
      BY <1>1, <3>1, <3>2, <3>5
      DEF ClientStep, UpdateClientsBegin, UpdateClientsSnapshot, SyncCheck, RemoveCheck,
          ReserveClients, SyncInsert, SetupNotify, InsertClient, RemoveClient,
          UpdateClientsEnd, Tick, Tasks
    <3>6. CASE ClientStep(t) \/ Tick(t)
      BY <1>1, <3>1, <3>6
      DEF ClientStep, UpdateClientsBegin, UpdateClientsSnapshot, SyncCheck, RemoveCheck,
          ReserveClients, SyncInsert, SetupNotify, InsertClient, RemoveClient,
          UpdateClientsEnd, Tick, Goto, IInv, TypeOK
    <3> QED
      BY <1>1, <3>3, <3>4, <3>5, <3>6
      DEF Next, Start, SyncWith, Sync, Publish, Initialize, vars
  <2> QED
    BY <1>1, <2>1 DEF IInv, LoopInv
<1>2. IInv /\ [Next]_vars
        => [\A t \in ClientTasks : pc[t] = "sync" /\ pc'[t] = "tick"
              => Present = server_sdk_keys(secret_mapping)]_vars
  BY <1>1
<1> QED
  BY <1>2, Inductive, PTL DEF Spec, UpdateLeavesMappedClients

-----------------------------------------------------------------------------
(* Deadlock.  Order what a task can wait for: a handler that serialises    *)
(* waits for nobody, so neither does who waits for the readers of          *)
(* sdk_clients to leave; only setup_notify can keep others from            *)
(* sdk_clients; and only they, or it, can keep a writer from               *)
(* secret_mapping.  Whatever waits for each other thus includes a task in  *)
(* setup_notify, which waits for a writer of secret_mapping.               *)

\* A task that waits for a client loop in setup_notify, or through others for a
\* reader of secret_mapping that is not, ends at setup_notify (repo.rs:191, 249).
LEMMA DeadlockedNotify ==
    ASSUME TypeOK, LockInv, NEW S \in SUBSET Tasks, Deadlocked(S),
           NEW t \in S, t \in ClientTasks, pc[t] = "notify"
    PROVE  \E u \in KeyTasks \cap S : pc[u] = "write" /\ u \in mapping_lock.writer
<1>1. PICK u \in S : u \in mapping_lock.writer
  BY DEF Deadlocked, WaitsFor
<1>2. pc[u] = "write"
  BY <1>1 DEF LockInv
<1>3. u \in KeyTasks
  BY <1>2 DEF TypeOK, ClientLabels, HttpLabels, Tasks
<1> QED
  BY <1>1, <1>2, <1>3

\* Whoever waits for the writer of sdk_clients waits for setup_notify, for the
\* others only wait for handlers that go on (repo.rs:139-147, 191-210, 280-311).
LEMMA DeadlockedForClients ==
    ASSUME TypeOK, LockInv, NEW S \in SUBSET Tasks, Deadlocked(S),
           NEW t \in S, WaitsFor(t) \in {clients_lock.writer, clients_lock.readers}
    PROVE  \E u \in ClientTasks \cap S : pc[u] = "notify"
<1>1. ASSUME NEW u \in S, pc[u] = "body" PROVE FALSE
  <2>1. WaitsFor(u) = {}
    BY <1>1 DEF WaitsFor
  <2> QED
    BY <2>1 DEF Deadlocked
<1>2. \A u \in S : u \notin clients_lock.readers
  BY <1>1 DEF LockInv
<1>3. PICK u \in S : u \in clients_lock.writer
  BY <1>2 DEF Deadlocked
<1>4. pc[u] \in {"create", "notify", "remove", "sync_now"}
  BY <1>3 DEF LockInv
<1>5. CASE pc[u] = "notify"
  BY <1>5 DEF TypeOK, KeyLabels, HttpLabels, Tasks
<1>6. CASE pc[u] # "notify"
  <2>1. WaitsFor(u) = clients_lock.readers
    BY <1>3, <1>4, <1>6 DEF WaitsFor, Blockers
  <2> QED
    BY <1>2, <2>1 DEF Deadlocked
<1> QED
  BY <1>5, <1>6

\* Every deadlock includes setup_notify: a reader of secret_mapping that others
\* wait for is in it, or waits for sdk_clients (repo.rs:139-147, 218-234).
LEMMA DeadlockNeedsNotify ==
    ASSUME TypeOK, LockInv, NEW S \in SUBSET Tasks, Deadlocked(S)
    PROVE  \E t \in ClientTasks \cap S : pc[t] = "notify"
<1> DEFINE forClients == {clients_lock.writer, clients_lock.readers}
<1>1. ASSUME NEW t \in S, t \in mapping_lock.readers
      PROVE  WaitsFor(t) \in forClients \/ (t \in ClientTasks /\ pc[t] = "notify")
  <2>1. WaitsFor(t) # {}
    BY DEF Deadlocked
  <2>2. \/ t \in ClientTasks /\ pc[t] \in {"snapshot", "sync", "create", "notify", "remove"}
        \/ pc[t] \in {"client", "body"}
    BY <1>1 DEF LockInv
  <2> QED
    BY <2>1, <2>2 DEF WaitsFor, Blockers
<1>2. ASSUME NEW t \in S, WaitsFor(t) = mapping_lock.readers
      PROVE  \E u \in ClientTasks \cap S : pc[u] = "notify"
  <2>1. PICK u \in S : u \in mapping_lock.readers
    BY <1>2 DEF Deadlocked
  <2> QED
    BY <1>1, <2>1, DeadlockedForClients
<1>3. ASSUME NEW t \in S, WaitsFor(t) = mapping_lock.writer
      PROVE  \E u \in ClientTasks \cap S : pc[u] = "notify"
  <2>1. PICK u \in S : u \in mapping_lock.writer
    BY <1>3 DEF Deadlocked
  <2>2. WaitsFor(u) = mapping_lock.readers
    BY <2>1 DEF LockInv, WaitsFor, Blockers
  <2> QED
    BY <1>2, <2>2
<1>4. PICK t \in S : WaitsFor(t) # {}
  BY DEF Deadlocked
<1>5. WaitsFor(t) \in forClients \cup {mapping_lock.writer, mapping_lock.readers}
  BY <1>4 DEF WaitsFor, Blockers
<1> QED
  BY <1>2, <1>3, <1>5, DeadlockedForClients

(***************************************************************************)
(* The deadlock between update_clients and update_mapping is the only one, *)
(* of all tasks or of some: no other set of tasks ever waits for itself,   *)
(* for any number of loops, connections and threads; without "realtime",   *)
(* or on one worker thread, there is none (repo.rs:120-311).               *)
(***************************************************************************)
THEOREM OnlyDeadlock == Spec => []DeadlocksInSetupNotify
<1>1. ASSUME IInv, NEW S \in SUBSET Tasks, Deadlocked(S)
      PROVE  /\ Realtime
             /\ Workers > 1
             /\ \E t \in ClientTasks \cap S, u \in KeyTasks \cap S :
                   pc[t] = "notify" /\ pc[u] = "write" /\ u \in mapping_lock.writer
  <2>0. TypeOK /\ LockInv /\ WorkerInv
    BY <1>1 DEF IInv
  <2>1. PICK t \in ClientTasks \cap S : pc[t] = "notify"
    BY <1>1, <2>0, DeadlockNeedsNotify
  <2>2. PICK u \in KeyTasks \cap S : pc[u] = "write" /\ u \in mapping_lock.writer
    BY <1>1, <2>0, <2>1, DeadlockedNotify
  <2>3. Realtime
    BY <2>0, <2>1 DEF WorkerInv
  <2>4. Workers > 1
    <3>1. {t, u} \in SUBSET Busy /\ t # u
      BY <2>1, <2>2, TaskKindsDisjoint DEF Busy, Awaiting
    <3>2. /\ IsFiniteSet({u}) /\ Cardinality({u}) = 1
          /\ {u} \cup {t} = {t, u}
      BY FS_Singleton
    <3>3. IsFiniteSet({t, u}) /\ Cardinality({t, u}) = 2
      <4>1. t \notin {u}
        BY <3>1
      <4>2. IsFiniteSet({u} \cup {t}) /\ Cardinality({u} \cup {t}) = Cardinality({u}) + 1
        BY <3>2, <4>1, FS_AddElement
      <4> QED
        BY <3>2, <4>2
    <3>4. Cardinality({t, u}) <= Cardinality(Busy) /\ Cardinality(Busy) \in Nat
      BY <2>0, <3>1, FS_Subset, FS_CardinalityType DEF WorkerInv
    <3> QED
      BY <2>0, <3>3, <3>4, WorkersAssumption DEF WorkerInv
  <2> QED
    BY <2>1, <2>2, <2>3, <2>4
<1>2. IInv => DeadlocksInSetupNotify
  BY <1>1 DEF DeadlocksInSetupNotify
<1> QED
  BY <1>2, Inductive, PTL

\* What a step leaves alone when it helps none of these tasks.
Stuck(S) ==
    /\ \A t \in S : pc'[t] = pc[t] /\ (t \in ClientTasks => todo'[t] = todo[t])
    /\ \A t \in S :
          /\ t \in mapping_lock'.writer <=> t \in mapping_lock.writer
          /\ t \in mapping_lock'.readers <=> t \in mapping_lock.readers
          /\ t \in clients_lock'.writer <=> t \in clients_lock.writer
          /\ t \in clients_lock'.readers <=> t \in clients_lock.readers

\* Tasks that wait for a lock take no step, and nobody else drops their guards or
\* takes over what they own (repo.rs:120-311).
LEMMA WaitingIsStuck ==
    ASSUME IInv, [Next]_vars, NEW S \in SUBSET Tasks,
           \A t \in S : WaitsFor(t) # {}
    PROVE  Stuck(S)
<1> USE DEF startVars, shared, locks, loopVars, httpVars
<1>0. TypeOK
  BY DEF IInv
<1>1. CASE \/ UNCHANGED vars \/ Start
           \/ \E m \in Mappings : Publish(m)
           \/ \E s \in ServerSdkKeys : Initialize(s)
  BY <1>1 DEF Stuck, Start, SyncWith, Sync, Publish, Initialize, vars
<1>2. ASSUME NEW t \in Tasks, t \notin S, NEW label, Goto(t, label)
      PROVE  \A x \in S : pc'[x] = pc[x]
  BY <1>0, <1>2 DEF Goto, TypeOK
<1>r. ASSUME NEW lock \in Locks(Tasks), NEW t, NEW x, x # t
      PROVE  /\ Read(lock, t).writer = lock.writer /\ ReadDone(lock, t).writer = lock.writer
             /\ x \in Read(lock, t).readers <=> x \in lock.readers
             /\ x \in ReadDone(lock, t).readers <=> x \in lock.readers
  BY <1>r DEF Read, ReadDone, Locks
<1>l. mapping_lock \in Locks(Tasks) /\ clients_lock \in Locks(Tasks)
  BY <1>0 DEF TypeOK
<1>3. ASSUME NEW t \in KeyTasks, KeyStep(t) \/ \E v \in 0..Len(published) : Fetch(t, v)
      PROVE  Stuck(S)
  <2>1. t \in Tasks /\ WaitsFor(t) = {}
    BY <1>3
    DEF Tasks, WaitsFor, Blockers, KeyStep, UpdateMappingCheck, ReserveMapping, UpdateMapping,
        Fetch, MayRead, MayReserve, Exclusive
  <2>2. t \notin S
    BY <2>1
  <2>3. CASE ReserveMapping(t)
    BY <2>2, <2>3 DEF ReserveMapping, Reserve, MayReserve, Stuck
  <2>4. CASE UpdateMapping(t)
    BY <1>2, <2>1, <2>2, <2>4 DEF UpdateMapping, WriteDone, Exclusive, Stuck
  <2>5. CASE UpdateMappingCheck(t)
    BY <1>2, <2>1, <2>2, <2>5 DEF UpdateMappingCheck, Stuck
  <2>6. CASE \E v \in 0..Len(published) : Fetch(t, v)
    BY <1>2, <2>1, <2>2, <2>6 DEF Fetch, Stuck
  <2> QED
    BY <1>3, <2>3, <2>4, <2>5, <2>6 DEF KeyStep
<1>4. ASSUME NEW t \in ClientTasks \cup Handlers, ReserveClients(t) PROVE Stuck(S)
  <2>1. t \in Tasks /\ WaitsFor(t) = {}
    BY <1>4 DEF Tasks, WaitsFor, Blockers, ReserveClients, MayReserve
  <2>2. t \notin S
    BY <2>1
  <2> QED
    BY <1>4, <2>2 DEF ReserveClients, Reserve, MayReserve, Stuck
<1>5. ASSUME NEW t \in ClientTasks, ClientStep(t) \/ Tick(t) PROVE Stuck(S)
  <2>1. t \in Tasks /\ WaitsFor(t) = {}
    BY <1>5
    DEF Tasks, WaitsFor, Blockers, ClientStep, UpdateClientsBegin, UpdateClientsSnapshot,
        SyncCheck, RemoveCheck, ReserveClients, SyncInsert, SetupNotify, RemoveClient,
        UpdateClientsEnd, Tick, MayRead, MayReserve, Exclusive
  <2>2. t \notin S
    BY <2>1
  <2>3. CASE UpdateClientsBegin(t)
    BY <1>2, <2>1, <2>2, <2>3 DEF UpdateClientsBegin, Read, Stuck
  <2>4. CASE UpdateClientsSnapshot(t)
    <3>1. \A x \in S : pc'[x] = pc[x] /\ (x \in ClientTasks => todo'[x] = todo[x])
      BY <1>0, <1>2, <2>1, <2>2, <2>4 DEF UpdateClientsSnapshot, TypeOK
    <3>2. (mapping_lock' = mapping_lock \/ mapping_lock' = ReadDone(mapping_lock, t))
             /\ clients_lock' = clients_lock
      BY <2>4 DEF UpdateClientsSnapshot
    <3> QED
      BY <1>r, <1>l, <2>2, <3>1, <3>2 DEF Stuck
  <2>5. ASSUME NEW k \in ServerSdkKeys, SyncCheck(t, k) PROVE Stuck(S)
    BY <1>0, <1>2, <2>1, <2>2, <2>5 DEF SyncCheck, Stuck, TypeOK
  <2>6. ASSUME NEW k \in ServerSdkKeys, RemoveCheck(t, k) PROVE Stuck(S)
    BY <1>2, <2>1, <2>2, <2>6 DEF RemoveCheck, Stuck
  <2>7. ASSUME Exclusive(clients_lock, t) \/ pc[t] = "notify", InsertClient(t) PROVE Stuck(S)
    <3>1. clients_lock.writer = {t}
      BY <1>0, <2>7 DEF IInv, LockInv, Exclusive
    <3>2. \A x \in S \cap ClientTasks : todo'[x] = todo[x]
      BY <1>0, <2>2, <2>7 DEF InsertClient, TypeOK
    <3> QED
      BY <1>2, <2>1, <2>2, <2>7, <3>1, <3>2 DEF InsertClient, WriteDone, Stuck
  <2>8. CASE SyncInsert(t) /\ Realtime
    BY <1>2, <2>1, <2>2, <2>8 DEF SyncInsert, Stuck
  <2>9. CASE RemoveClient(t)
    BY <1>2, <2>1, <2>2, <2>9 DEF RemoveClient, WriteDone, Exclusive, Stuck
  <2>10. CASE UpdateClientsEnd(t)
    BY <1>2, <1>r, <1>l, <2>1, <2>2, <2>10 DEF UpdateClientsEnd, Stuck
  <2>11. CASE Tick(t)
    BY <1>2, <2>1, <2>2, <2>11 DEF Tick, Stuck
  <2> QED
    BY <1>4, <1>5, <2>3, <2>4, <2>5, <2>6, <2>7, <2>8, <2>9, <2>10, <2>11
    DEF ClientStep, SyncInsert, SetupNotify
<1>6. ASSUME NEW h \in Handlers, HttpStep(h) \/ \E r \in Requests : Receive(h, r)
      PROVE  Stuck(S)
  <2>1. h \in Tasks /\ WaitsFor(h) = {}
    BY <1>6
    DEF Tasks, WaitsFor, Blockers, HttpStep, Poll, RejectUser, SecretKeys, Lookup, GetClient,
        SendBody, ReserveClients, ClientSyncNow, Receive, MayRead, MayReserve, Exclusive
  <2>2. h \notin S
    BY <2>1
  <2>3. CASE \/ \E r \in Requests : Receive(h, r)
             \/ Poll(h) \/ RejectUser(h) \/ SecretKeys(h)
    BY <1>2, <2>1, <2>2, <2>3 DEF Receive, Poll, RejectUser, SecretKeys, Respond, Stuck
  <2>4. CASE Lookup(h)
    <3>1. \A x \in S : pc'[x] = pc[x]
      BY <1>2, <2>1, <2>2, <2>4 DEF Lookup, Respond
    <3>2. /\ mapping_lock' = mapping_lock \/ mapping_lock' = Read(mapping_lock, h)
          /\ clients_lock' = clients_lock /\ todo' = todo
      BY <2>4 DEF Lookup
    <3> QED
      BY <1>r, <1>l, <2>2, <3>1, <3>2 DEF Stuck
  <2>5. CASE GetClient(h)
    <3>1. \A x \in S : pc'[x] = pc[x]
      BY <1>2, <2>1, <2>2, <2>5 DEF GetClient, Respond
    <3>2. /\ mapping_lock' = mapping_lock \/ mapping_lock' = ReadDone(mapping_lock, h)
          /\ clients_lock' = clients_lock \/ clients_lock' = Read(clients_lock, h)
          /\ todo' = todo
      BY <2>5 DEF GetClient
    <3> QED
      BY <1>r, <1>l, <2>2, <3>1, <3>2 DEF Stuck
  <2>6. CASE SendBody(h)
    BY <1>2, <2>1, <2>2, <2>6 DEF SendBody, Respond, ReadDone, Stuck
  <2>7. CASE ClientSyncNow(h)
    BY <1>2, <2>1, <2>2, <2>7 DEF ClientSyncNow, Respond, WriteDone, Exclusive, Stuck
  <2> QED
    BY <1>4, <1>6, <2>3, <2>4, <2>5, <2>6, <2>7 DEF HttpStep
<1> QED
  BY <1>1, <1>3, <1>5, <1>6 DEF Next

(***************************************************************************)
(* A deadlock is for ever: no step of any task, of the API or of a client  *)
(* lets one of its tasks go on (repo.rs:120-311).                          *)
(***************************************************************************)
THEOREM DeadlockIsFinal ==
    Spec => [][\A S \in SUBSET Tasks :
                  Deadlocked(S) => Deadlocked(S)' /\ \A t \in S : pc'[t] = pc[t]]_vars
<1>1. ASSUME IInv, [Next]_vars, NEW S \in SUBSET Tasks, Deadlocked(S)
      PROVE  Deadlocked(S)' /\ \A t \in S : pc'[t] = pc[t]
  <2>1. Stuck(S)
    BY <1>1, WaitingIsStuck DEF Deadlocked
  <2>2. ASSUME NEW t \in S, NEW u \in S, u \in WaitsFor(t) PROVE u \in WaitsFor(t)'
    <3>1. t \in ClientTasks \/ pc[t] # "sync"
      BY <1>1 DEF IInv, TypeOK, KeyLabels, HttpLabels, Tasks
    <3> QED
      BY <2>1, <2>2, <3>1 DEF Stuck, WaitsFor, Blockers
  <2> QED
    BY <1>1, <2>1, <2>2 DEF Deadlocked, Stuck
<1>2. IInv /\ [Next]_vars
        => [\A S \in SUBSET Tasks :
               Deadlocked(S) => Deadlocked(S)' /\ \A t \in S : pc'[t] = pc[t]]_vars
  BY <1>1
<1> QED
  BY <1>2, Inductive, PTL DEF Spec

\* A client loop in setup_notify waits for the writer that waits for its guard.
NotifyDeadlock ==
    \E t \in ClientTasks, u \in KeyTasks :
        pc[t] = "notify" /\ pc[u] = "write" /\ u \in mapping_lock.writer

\* The loop and the writer are a deadlock, which no step ends (repo.rs:219, 239, 249).
LEMMA NotifyDeadlockLasts ==
    ASSUME IInv, [Next]_vars, NotifyDeadlock
    PROVE  NotifyDeadlock'
<1>1. PICK t \in ClientTasks, u \in KeyTasks :
          pc[t] = "notify" /\ pc[u] = "write" /\ u \in mapping_lock.writer
  BY DEF NotifyDeadlock
<1>2. {t, u} \in SUBSET Tasks
  BY DEF Tasks
<1>3. u \in WaitsFor(t) /\ t \in WaitsFor(u)
  BY <1>1 DEF WaitsFor, Blockers, IInv, LockInv
<1>4. Stuck({t, u})
  BY <1>1, <1>2, <1>3, WaitingIsStuck
<1> QED
  BY <1>1, <1>4 DEF Stuck, NotifyDeadlock

(***************************************************************************)
(* What the deadlock of setup_notify takes down with it: both maps are     *)
(* locked for good, so the server is left with the keys that it has, and   *)
(* its handlers that read a map answer nobody any more but a request whose *)
(* user does not decode, which is refused before any lock (repo.rs:120-311,*)
(* handler.rs:80-195).                                                     *)
(***************************************************************************)
THEOREM DeadlockSilencesServer ==
    Spec => [][NotifyDeadlock =>
                  /\ NotifyDeadlock'
                  /\ secret_mapping' = secret_mapping
                  /\ Present' = Present
                  /\ \A h \in Handlers : Answered(h) =>
                        /\ request[h].op = "client_sdk_toggles"
                        /\ reply'[h].status = 400]_vars
<1> USE DEF startVars, shared, locks, loopVars, httpVars
<1> DEFINE Silent ==
      /\ NotifyDeadlock'
      /\ secret_mapping' = secret_mapping
      /\ Present' = Present
      /\ \A h \in Handlers : Answered(h) =>
            /\ request[h].op = "client_sdk_toggles"
            /\ reply'[h].status = 400
<1>1. ASSUME IInv, [Next]_vars, NotifyDeadlock PROVE Silent
  <2>1. PICK t \in ClientTasks, u \in KeyTasks :
            pc[t] = "notify" /\ pc[u] = "write" /\ u \in mapping_lock.writer
    BY <1>1 DEF NotifyDeadlock
  <2>2. /\ t \in Tasks /\ t \in mapping_lock.readers
        /\ Exclusive(clients_lock, t)
        /\ mapping_lock.writer # {}
    BY <1>1, <2>1 DEF IInv, LockInv, Tasks
  <2>3. secret_mapping' = secret_mapping
    BY <1>1, <2>2, GuardedMapping
  <2>4. Present' = Present
    <3>1. /\ \A x \in ClientTasks : ~SyncInsert(x) /\ ~SetupNotify(x) /\ ~RemoveClient(x)
          /\ mode # "boot"
      BY <1>1, <2>1, <2>2
      DEF SyncInsert, SetupNotify, RemoveClient, MayRead, Exclusive, IInv, LockInv, StartInv
    <3>2. CASE \E s \in ServerSdkKeys : Initialize(s)
      BY <1>1, <3>2 DEF Initialize, Present, IInv, TypeOK, Clients
    <3>3. CASE UNCHANGED sdk_clients
      BY <3>3 DEF Present
    <3> QED
      BY <1>1, <3>1, <3>2, <3>3
      DEF Next, Start, SyncWith, Sync, Publish, KeyStep, UpdateMappingCheck,
          ReserveMapping, UpdateMapping, Fetch, ClientStep, UpdateClientsBegin,
          UpdateClientsSnapshot, SyncCheck, RemoveCheck, ReserveClients, UpdateClientsEnd,
          Tick, HttpStep, Poll, RejectUser, SecretKeys, Lookup, GetClient, SendBody,
          ClientSyncNow, Receive, vars
  <2>5. ASSUME NEW h \in Handlers, Answered(h)
        PROVE  /\ request[h].op = "client_sdk_toggles"
               /\ reply'[h].status = 400
    <3>0. TypeOK /\ reply' # reply /\ reply[h] = NoReply /\ reply'[h] # NoReply
      BY <1>1, <2>5 DEF IInv, Answered
    <3>1. \A g \in Handlers : /\ ~SecretKeys(g) /\ ~Lookup(g) /\ ~GetClient(g)
                              /\ ~SendBody(g) /\ ~ClientSyncNow(g)
      <4>1. t \notin Handlers
        BY TaskKindsDisjoint
      <4> QED
        BY <1>1, <2>2, <4>1
        DEF SecretKeys, Lookup, GetClient, SendBody, ClientSyncNow, MayRead, Exclusive, IInv,
            LockInv
    <3>2. PICK g \in Handlers : RejectUser(g)
      <4>1. \A g \in Handlers, r \in Requests : ~Receive(g, r)
        BY <3>0 DEF Receive, TypeOK
      <4> QED
        BY <1>1, <3>0, <3>1, <4>1
        DEF Next, Start, SyncWith, Sync, Publish, Initialize, KeyStep, UpdateMappingCheck,
            ReserveMapping, UpdateMapping, Fetch, ClientStep, UpdateClientsBegin,
            UpdateClientsSnapshot, SyncCheck, RemoveCheck, ReserveClients, SyncInsert,
            SetupNotify, InsertClient, RemoveClient, UpdateClientsEnd, Tick, HttpStep, Poll,
            vars
    <3>3. g = h
      BY <3>0, <3>2 DEF RejectUser, Respond, TypeOK
    <3> QED
      BY <3>0, <3>2, <3>3 DEF RejectUser, Respond, IntoResponse, TypeOK
  <2> QED
    BY <1>1, <2>3, <2>4, <2>5, NotifyDeadlockLasts
<1>2. IInv /\ [Next]_vars => [NotifyDeadlock => Silent]_vars
  BY <1>1
<1> QED
  BY <1>2, Inductive, PTL DEF Spec

\* Whoever owns a guard is at work: a task at an await keeps nobody waiting, and
\* waits for no lock (repo.rs:72-118, 139-147, 218-234).
LEMMA OwnersAreBusy ==
    ASSUME TypeOK, LockInv, NEW t \in Tasks
    PROVE  WaitsFor(t) \subseteq Busy
<1>1. /\ mapping_lock.writer \subseteq Busy /\ mapping_lock.readers \subseteq Busy
      /\ clients_lock.writer \subseteq Busy /\ clients_lock.readers \subseteq Busy
  BY DEF TypeOK, LockInv, Busy, Awaiting, Locks, Tasks
<1> QED
  BY <1>1 DEF WaitsFor, Blockers

\* As long as a thread is taken, some task that has one waits for nobody, unless
\* the deadlock of setup_notify can happen (repo.rs:120-311).
THEOREM SomebodyGoesOn ==
    Spec => [](~Realtime \/ Workers = 1 => Busy = {} \/ \E t \in Busy : WaitsFor(t) = {})
<1>1. ASSUME IInv, DeadlocksInSetupNotify, ~Realtime \/ Workers = 1, Busy # {}
      PROVE  \E t \in Busy : WaitsFor(t) = {}
  <2>1. Busy \in SUBSET Tasks /\ ~Deadlocked(Busy)
    BY <1>1 DEF DeadlocksInSetupNotify, Busy
  <2>2. PICK t \in Busy : WaitsFor(t) \cap Busy = {}
    BY <1>1, <2>1 DEF Deadlocked
  <2>3. WaitsFor(t) \subseteq Busy
    BY <1>1, <2>1, OwnersAreBusy DEF IInv
  <2> QED
    BY <2>2, <2>3
<1>2. IInv /\ DeadlocksInSetupNotify
        => (~Realtime \/ Workers = 1 => Busy = {} \/ \E t \in Busy : WaitsFor(t) = {})
  BY <1>1
<1> QED
  BY <1>2, Inductive, OnlyDeadlock, PTL

-----------------------------------------------------------------------------
(* What the handlers respond.                                              *)

\* The index and the mapping name the same server key for a request (repo.rs:120-160).
LEMMA ResolveIsKeyOf ==
    ASSUME TypeOK, ReverseOfMapping(secret_mapping),
           NEW r \in Requests, r.op # "update_toggles"
    PROVE  Resolve(secret_mapping, r) = KeyOf(secret_mapping.mapping, r)
  BY KnownKeysAreMapped
  DEF TypeOK, Resolve, KeyOf, Mapped, Requests, ServerOps, ClientOps, server_sdk_key,
      contains_server_sdk_key, server_sdk_keys

(***************************************************************************)
(* What a handler does to its connection: nothing, or a response that the  *)
(* maps of that moment allow, although the mapping was read several steps  *)
(* earlier (repo.rs:120-170).                                              *)
(***************************************************************************)
LEMMA RespondsAsAllowed ==
    ASSUME IInv, NEW h \in Handlers, HttpStep(h)
    PROVE  \/ UNCHANGED <<request, reply>>
           \/ /\ request[h] \in Requests
              /\ request' = [request EXCEPT ![h] = NoRequest]
              /\ \E a \in Allowed(h) : reply' = [reply EXCEPT ![h] = a]
<1> USE DEF startVars, shared, locks, loopVars, httpVars
<1> DEFINE r == request[h]
           key == KeyOf(secret_mapping.mapping, r)
           v == secret_mapping.version
           Kind == r.op \notin {"update_toggles", "all_secrets"}
<1>0. /\ TypeOK /\ HandlerInv /\ ReverseOfMapping(secret_mapping)
      /\ v \in Nat
      /\ \A s \in ServerSdkKeys : States[s] = sdk_clients[s].state
  BY DEF IInv, MappingInv, TypeOK, SecretMappings, States
<1>1. ASSUME pc[h] # "idle", NEW status, NEW body, Respond(h, status, body),
             [status |-> status, body |-> body] \in Allowed(h)
      PROVE  /\ r \in Requests
             /\ request' = [request EXCEPT ![h] = NoRequest]
             /\ \E a \in Allowed(h) : reply' = [reply EXCEPT ![h] = a]
  BY <1>0, <1>1 DEF Respond, HandlerInv
<1>2. CASE RejectUser(h)
  <2>1. [status |-> 400, body |-> "empty"] \in Allowed(h)
    BY <1>2 DEF RejectUser, Allowed, Answers, Responses
  <2> QED
    BY <1>1, <1>2, <2>1 DEF RejectUser, IntoResponse
<1>3. CASE SecretKeys(h)
  <2> DEFINE body == IF key = None THEN "empty" ELSE key
  <2>1. r \in Requests /\ r.op = "all_secrets" /\ pc[h] # "idle"
    BY <1>0, <1>3 DEF SecretKeys, HandlerInv
  <2>2. /\ key = server_sdk_key(secret_mapping, r.key)
        /\ body \in ServerSdkKeys \cup {"empty"}
    BY <1>0, <2>1
    DEF KeyOf, server_sdk_key, Requests, ServerOps, ClientOps, TypeOK, SecretMappings, Mappings
  <2>3. [status |-> 200, body |-> body] \in Allowed(h)
    BY <2>1, <2>2 DEF Allowed, Answers, Responses
  <2>4. Respond(h, 200, body)
    BY <1>3, <2>2 DEF SecretKeys
  <2> QED
    BY <1>1, <2>1, <2>3, <2>4
<1>4. CASE Lookup(h)
  <2>1. r \in Requests /\ Kind /\ pc[h] # "idle"
    BY <1>0, <1>4 DEF Lookup, HandlerInv
  <2>2. key = Resolve(secret_mapping, r)
    BY <1>0, <2>1, ResolveIsKeyOf
  <2>3. CASE v = 0
    <3>1. [status |-> 503, body |-> "empty"] \in Allowed(h)
      BY <2>1, <2>3 DEF Allowed, Answers, Responses
    <3> QED
      BY <1>1, <1>4, <2>1, <2>3, <3>1 DEF Lookup
  <2>4. CASE v # 0 /\ key = None
    <3>1. [status |-> 200, body |-> "empty"] \in Allowed(h)
      BY <1>0, <2>1, <2>4 DEF Allowed, Answers, Responses
    <3> QED
      BY <1>1, <1>4, <2>1, <2>2, <2>4, <3>1 DEF Lookup
  <2> QED
    BY <1>4, <2>2, <2>3, <2>4 DEF Lookup
<1>5. CASE GetClient(h) \/ SendBody(h)
  <2>1. /\ r \in Requests /\ Kind /\ pc[h] # "idle" /\ v > 0
        /\ sdk_key[h] = Resolve(secret_mapping, r)
        /\ sdk_key[h] \in ServerSdkKeys /\ sdk_key[h] # None
    BY <1>0, <1>5, NoneIsNoKey DEF GetClient, SendBody, HandlerInv
  <2>2. key = sdk_key[h]
    BY <1>0, <2>1, ResolveIsKeyOf
  <2>3. CASE SendBody(h)
    <3>1. States[key] = "ready"
      BY <1>0, <2>1, <2>2, <2>3 DEF SendBody, HandlerInv
    <3>2. [status |-> 200, body |-> sdk_key[h]] \in Allowed(h)
      BY <2>1, <2>2, <3>1 DEF Allowed, Answers, Responses
    <3> QED
      BY <1>1, <2>1, <2>3, <3>2 DEF SendBody
  <2>4. CASE GetClient(h)
    <3>1. CASE sdk_clients[sdk_key[h]].state = "ready"
      BY <2>4, <3>1 DEF GetClient
    <3>2. CASE sdk_clients[sdk_key[h]].state # "ready"
      <4>1. [status |-> 503, body |-> "empty"] \in Allowed(h)
        BY <1>0, <2>1, <2>2, <3>2 DEF Allowed, Answers, Responses
      <4> QED
        BY <1>1, <2>1, <2>4, <3>2, <4>1 DEF GetClient
    <3> QED
      BY <3>1, <3>2
  <2> QED
    BY <1>5, <2>3, <2>4
<1>6. CASE ClientSyncNow(h)
  <2> DEFINE status == IF r.key \in Present THEN 200 ELSE 400
  <2>1. r \in Requests /\ r.op = "update_toggles" /\ r.key \in ServerSdkKeys /\ pc[h] # "idle"
    BY <1>0, <1>6 DEF ClientSyncNow, HandlerInv, Requests, ServerOps, ClientOps
  <2>2. status = IF States[r.key] = "absent" THEN 400 ELSE 200
    BY <1>0, <2>1 DEF Present
  <2>3. [status |-> status, body |-> "empty"] \in Allowed(h)
    BY <2>1, <2>2 DEF Allowed, Answers, Responses
  <2>4. Respond(h, status, "empty")
    BY <1>6 DEF ClientSyncNow
  <2> QED
    BY <1>1, <2>1, <2>3, <2>4
<1>7. CASE ReserveClients(h) \/ Poll(h)
  BY <1>7 DEF ReserveClients, Poll
<1> QED
  BY <1>2, <1>3, <1>4, <1>5, <1>6, <1>7 DEF HttpStep

\* Only the handler of a request answers it (handler.rs:80-195).
LEMMA AnswersStep ==
    ASSUME IInv, [Next]_vars, NEW h \in Handlers, Answered(h)
    PROVE  request[h] \in Requests /\ reply'[h] \in Allowed(h)
<1> USE DEF startVars, shared, locks, loopVars, httpVars
<1>0. TypeOK /\ reply[h] = NoReply /\ reply'[h] # NoReply
  BY DEF IInv, Answered
<1>1. ASSUME NEW g \in Handlers, HttpStep(g)
      PROVE  request[h] \in Requests /\ reply'[h] \in Allowed(h)
  <2>1. PICK a \in Allowed(g) : request[g] \in Requests /\ reply' = [reply EXCEPT ![g] = a]
    BY <1>0, <1>1, RespondsAsAllowed
  <2>2. g = h
    BY <1>0, <2>1 DEF TypeOK
  <2> QED
    BY <1>0, <2>1, <2>2 DEF TypeOK
<1>2. ASSUME NEW g \in Handlers, NEW r \in Requests, Receive(g, r) PROVE FALSE
  BY <1>0, <1>2 DEF Receive, TypeOK
<1> QED
  BY <1>0, <1>1, <1>2
  DEF Next, Start, SyncWith, Sync, Publish, Initialize, KeyStep, UpdateMappingCheck,
      ReserveMapping, UpdateMapping, Fetch, ClientStep, UpdateClientsBegin,
      UpdateClientsSnapshot, SyncCheck, RemoveCheck, ReserveClients, SyncInsert,
      SetupNotify, InsertClient, UpdateClientsEnd, RemoveClient, Tick, vars

\* A response agrees with the mapping and the clients in force when it is sent,
\* although the mapping was read several steps earlier (handler.rs:80-195).
THEOREM AnswersAgree == Spec => AnswersMatchMapping
<1>1. IInv /\ [Next]_vars => [\A h \in Handlers : Answered(h) => reply'[h] \in Allowed(h)]_vars
  BY AnswersStep
<1> QED
  BY <1>1, Inductive, PTL DEF Spec, AnswersMatchMapping

\* A server that has converged and serves answers no request with 503, once there
\* is a mapping at all, whatever the number of loops (handler.rs:80-160).
THEOREM ServingIsReady ==
    Spec => [][Serving /\ published # <<>> =>
                  \A h \in Handlers : Answered(h) => reply'[h].status # 503]_vars
<1>1. ASSUME IInv, [Next]_vars, Serving, published # <<>>, NEW h \in Handlers, Answered(h)
      PROVE  reply'[h].status # 503
  <2> DEFINE r == request[h]
             key == KeyOf(secret_mapping.mapping, r)
  <2>1. r \in Requests /\ reply'[h] \in Allowed(h)
    BY <1>1, AnswersStep
  <2>2. secret_mapping.version > 0
    BY <1>1 DEF Serving, Converged, IInv, TypeOK
  <2>3. ASSUME key # None PROVE States[key] = "ready"
    <3>1. key \in ServerSdkKeys /\ Mapped(secret_mapping.mapping, key)
      BY <1>1, <2>1, <2>3
      DEF KeyOf, Mapped, Requests, ServerOps, ClientOps, IInv, TypeOK, SecretMappings, Mappings
    <3>2. key \in Present
      BY <1>1, <3>1, KnownKeysAreMapped
      DEF Serving, Converged, Mapped, IInv, MappingInv, TypeOK
    <3> QED
      BY <1>1, <3>1, <3>2 DEF Serving, States
  <2>4. ~(secret_mapping.version = 0 \/ (key # None /\ States[key] # "ready"))
    BY <1>1, <2>2, <2>3 DEF IInv, TypeOK, SecretMappings
  <2> QED
    BY <2>1, <2>4 DEF Allowed, Answers
<1>2. IInv /\ [Next]_vars
        => [Serving /\ published # <<>> =>
               \A h \in Handlers : Answered(h) => reply'[h].status # 503]_vars
  BY <1>1
<1> QED
  BY <1>2, Inductive, PTL DEF Spec

-----------------------------------------------------------------------------
(* One client loop, as the binary spawns them.                             *)

\* With one loop, nobody creates the client that Inner::sync did not find, or
\* removes one that update_clients has seen (repo.rs:181-191, 220-232).
LEMMA LookupsLastStep ==
    ASSUME IInv, [Next]_vars, LookupsLast,
           \A t, u \in ClientTasks : t = u
    PROVE  LookupsLast'
<1> USE DEF startVars, shared, locks, loopVars, httpVars
<1>0. TypeOK
  BY DEF IInv
<1> DEFINE Ok(t) ==
        /\ pc[t] \in {"create", "notify"} => current[t] \notin Present
        /\ pc[t] \in {"sync", "create", "notify", "remove"} => stale[t] \subseteq Present
<1> SUFFICES ASSUME NEW t \in ClientTasks PROVE Ok(t)'
  BY DEF LookupsLast
<1>1. /\ Ok(t)
      /\ t \in Tasks /\ t \notin KeyTasks /\ t \notin Handlers
  BY TaskKindsDisjoint DEF Tasks, LookupsLast
<1>2. ASSUME pc'[t] = pc[t], current'[t] = current[t], stale'[t] = stale[t],
             Present' = Present
      PROVE  Ok(t)'
  BY <1>1, <1>2
<1>3. ASSUME NEW k \in ServerSdkKeys, SyncCheck(t, k) \/ RemoveCheck(t, k) PROVE Ok(t)'
  BY <1>0, <1>1, <1>3 DEF SyncCheck, RemoveCheck, Goto, TypeOK, Present
<1>4. ASSUME NEW x \in ServerSdkKeys, Initialize(x) PROVE Ok(t)'
  <2>1. Present' = Present
    BY <1>0, <1>4 DEF Initialize, Present, TypeOK, Clients
  <2> QED
    BY <1>2, <1>4, <2>1 DEF Initialize
<1>5. ASSUME pc[t] \in {"create", "notify"}, InsertClient(t) PROVE Ok(t)'
  <2>1. pc'[t] = "sync" /\ stale'[t] = stale[t]
    BY <1>0, <1>1, <1>5 DEF InsertClient, Goto, TypeOK
  <2> QED
    BY <1>1, <1>5, <2>1, InsertClientPresent
<1>6. CASE SyncInsert(t) /\ Realtime
  BY <1>0, <1>1, <1>6 DEF SyncInsert, Goto, TypeOK, Present
<1>7. CASE RemoveClient(t)
  <2>1. pc'[t] = "sync" /\ stale'[t] = stale[t] \ {current[t]} /\ pc[t] = "remove"
    BY <1>0, <1>1, <1>7 DEF RemoveClient, Goto, TypeOK
  <2> QED
    BY <1>1, <1>7, <2>1, RemoveClientPresent
<1>8. CASE UpdateClientsSnapshot(t)
  BY <1>0, <1>1, <1>8 DEF UpdateClientsSnapshot, Goto, TypeOK, Present
<1>9. CASE ClientStep(t) \/ Tick(t)
  <2>1. CASE ReserveClients(t)
    BY <1>2, <2>1 DEF ReserveClients, Present
  <2>2. CASE UpdateClientsBegin(t) \/ UpdateClientsEnd(t) \/ Tick(t)
    BY <1>0, <1>1, <2>2 DEF UpdateClientsBegin, UpdateClientsEnd, Tick, Goto, TypeOK
  <2>3. CASE SyncInsert(t) \/ SetupNotify(t)
    BY <1>5, <1>6, <2>3 DEF SyncInsert, SetupNotify
  <2> QED
    BY <1>3, <1>7, <1>8, <1>9, <2>1, <2>2, <2>3 DEF ClientStep
<1>10. ASSUME NEW u \in KeyTasks,
             KeyStep(u) \/ \E v \in 0..Len(published) : Fetch(u, v)
      PROVE  Ok(t)'
  BY <1>0, <1>1, <1>2, <1>10
  DEF KeyStep, UpdateMappingCheck, ReserveMapping, UpdateMapping, Fetch, Goto,
      TypeOK, Present
<1>11. ASSUME NEW h \in Handlers, HttpStep(h) \/ \E r \in Requests : Receive(h, r)
      PROVE  Ok(t)'
  BY <1>0, <1>1, <1>2, <1>11
  DEF HttpStep, Poll, RejectUser, SecretKeys, Lookup, GetClient, SendBody, ReserveClients,
      ClientSyncNow, Receive, Respond, Goto, TypeOK, Present
<1>12. CASE Start
  BY <1>12 DEF Start, SyncWith, Sync, IInv, StartInv
<1>13. CASE UNCHANGED vars \/ \E m \in Mappings : Publish(m)
  BY <1>2, <1>13 DEF vars, Publish, Present
<1> HIDE DEF Ok
<1> QED
  BY <1>4, <1>9, <1>10, <1>11, <1>12, <1>13 DEF Next

\* With one client loop, what Inner::sync and update_clients have looked up stays
\* true until they act on it, under guards that have been dropped
\* (repo.rs:181-191, 220-232).
THEOREM LookupsStay ==
    ASSUME \A t, u \in ClientTasks : t = u
    PROVE  Spec => []LookupsLast
<1>1. Init => LookupsLast
  BY TaskKindsDisjoint DEF Init, LookupsLast, Tasks
<1>2. IInv /\ LookupsLast /\ [Next]_vars => LookupsLast'
  BY LookupsLastStep
<1> QED
  BY <1>1, <1>2, Inductive, PTL DEF Spec

\* What serves a mapped key is not replaced: a loop that creates a client has found
\* none, and nothing has changed that since (repo.rs:181-234).
LEMMA ReadyClientStays ==
    ASSUME IInv, LookupsLast, [Next]_vars,
           NEW s \in server_sdk_keys(secret_mapping), sdk_clients[s].state = "ready"
    PROVE  sdk_clients'[s].state = "ready"
<1> USE DEF startVars, shared, locks, loopVars, httpVars
<1>0. TypeOK /\ s \in ServerSdkKeys /\ s \in Present
  BY DEF IInv, server_sdk_keys, Present
<1>1. ASSUME NEW x \in ServerSdkKeys, Initialize(x) PROVE sdk_clients'[s].state = "ready"
  BY <1>0, <1>1 DEF Initialize, TypeOK, Clients
<1>2. ASSUME NEW t \in ClientTasks, pc[t] \in {"create", "notify"}, InsertClient(t)
      PROVE  sdk_clients'[s].state = "ready"
  BY <1>0, <1>2 DEF InsertClient, LookupsLast, TypeOK
<1>3. ASSUME NEW t \in ClientTasks, RemoveClient(t)
      PROVE  sdk_clients'[s].state = "ready"
  <2>1. s # current[t]
    BY <1>3, RemoveClientPresent
  <2> QED
    BY <1>0, <1>3, <2>1 DEF RemoveClient, TypeOK
<1>4. CASE Start
  BY <1>0, <1>4 DEF Start, SyncWith, Sync, IInv, StartInv
<1> QED
  BY <1>1, <1>2, <1>3, <1>4
  DEF Next, Publish, KeyStep, UpdateMappingCheck, ReserveMapping, UpdateMapping,
      Fetch, ClientStep, UpdateClientsBegin, UpdateClientsSnapshot, SyncCheck,
      RemoveCheck, ReserveClients, SyncInsert, SetupNotify, UpdateClientsEnd, Tick,
      HttpStep, Poll, RejectUser, SecretKeys, Lookup, GetClient, SendBody, ClientSyncNow,
      Receive, vars

\* With one client loop, a mapped client that serves is neither removed nor
\* replaced by one that has yet to fetch (repo.rs:181-234).
THEOREM MappedClientsStay ==
    ASSUME \A t, u \in ClientTasks : t = u
    PROVE  Spec => MappedClientStaysReady
<1>1. IInv /\ LookupsLast /\ [Next]_vars
        => [\A s \in server_sdk_keys(secret_mapping) :
              sdk_clients[s].state = "ready" => sdk_clients'[s].state = "ready"]_vars
  BY ReadyClientStays
<1> QED
  BY <1>1, Inductive, LookupsStay, PTL DEF Spec, MappedClientStaysReady

\* A loop that has found all clients creates none, and one that has keys left to
\* remove removes no mapped one (repo.rs:181-211, 218-234).
LEMMA SettledStep ==
    ASSUME IInv, IInv', [Next]_vars, Settled, published' = published
    PROVE  Settled'
<1> USE DEF startVars, shared, locks, loopVars, httpVars
<1>0. TypeOK /\ LoopInv /\ mode = "keys" /\ Present = server_sdk_keys(secret_mapping)
  BY DEF IInv, Settled, Serving, Converged
<1>1. Converged' /\ Present' = Present
  BY ConvergedStep DEF Settled, Serving
<1>2. \A t \in ClientTasks : ~SyncInsert(t) /\ ~SetupNotify(t)
  BY DEF Settled, SyncInsert, SetupNotify
<1>3. ASSUME NEW s \in Present PROVE sdk_clients'[s].state = "ready"
  <2>1. s \in ServerSdkKeys /\ sdk_clients[s].state = "ready"
    BY <1>3 DEF Settled, Serving, Present
  <2>2. CASE \E x \in ServerSdkKeys : Initialize(x)
    BY <1>0, <2>1, <2>2 DEF Initialize, TypeOK, Clients
  <2>3. CASE \E t \in ClientTasks : RemoveClient(t)
    <3>1. PICK t \in ClientTasks : RemoveClient(t)
      BY <2>3
    <3>2. s # current[t]
      BY <1>0, <1>3, <3>1, RemoveClientPresent
    <3> QED
      BY <1>0, <2>1, <3>1, <3>2 DEF RemoveClient, TypeOK
  <2>4. CASE UNCHANGED sdk_clients
    BY <2>1, <2>4
  <2> QED
    BY <1>0, <1>2, <2>2, <2>3, <2>4
    DEF Next, Start, SyncWith, Sync, Publish, KeyStep, UpdateMappingCheck, ReserveMapping,
        UpdateMapping, Fetch, ClientStep, UpdateClientsBegin, UpdateClientsSnapshot,
        SyncCheck, RemoveCheck, ReserveClients, UpdateClientsEnd, Tick, HttpStep, Poll,
        RejectUser, SecretKeys, Lookup, GetClient, SendBody, ClientSyncNow, Receive, vars
<1>4. ASSUME NEW t \in ClientTasks PROVE pc'[t] \notin {"create", "notify"}
  <2>0. pc[t] \notin {"create", "notify"} /\ t \notin KeyTasks /\ t \notin Handlers /\ t \in Tasks
    BY TaskKindsDisjoint DEF Settled, Tasks
  <2>1. ASSUME NEW u \in ClientTasks, NEW k \in ServerSdkKeys, SyncCheck(u, k)
        PROVE  k \in Present
    BY <1>0, <2>1 DEF SyncCheck, LoopInv
  <2>2. CASE \E u \in ClientTasks, k \in ServerSdkKeys : SyncCheck(u, k)
    BY <2>0, <2>1, <2>2 DEF SyncCheck
  <2>3. CASE \E u \in KeyTasks : KeyStep(u) \/ \E v \in 0..Len(published) : Fetch(u, v)
    BY <1>0, <2>0, <2>3
    DEF KeyStep, UpdateMappingCheck, ReserveMapping, UpdateMapping, Fetch, Goto, TypeOK
  <2>4. CASE \E h \in Handlers : HttpStep(h) \/ \E r \in Requests : Receive(h, r)
    BY <1>0, <2>0, <2>4
    DEF HttpStep, Poll, RejectUser, SecretKeys, Lookup, GetClient, SendBody, ReserveClients,
        ClientSyncNow, Receive, Respond, Goto, TypeOK
  <2>5. CASE UNCHANGED pc
    BY <2>0, <2>5
  <2>6. ASSUME NEW u \in ClientTasks, NEW label, label \notin {"create", "notify"},
               Goto(u, label)
        PROVE  pc'[t] \notin {"create", "notify"}
    BY <1>0, <2>0, <2>6 DEF Goto, TypeOK
  <2>7. ASSUME NEW u \in ClientTasks, NEW k \in ServerSdkKeys, RemoveCheck(u, k)
        PROVE  Goto(u, "remove")
    BY <2>7 DEF RemoveCheck
  <2>8. ASSUME NEW u \in ClientTasks,
               \/ UpdateClientsBegin(u) \/ UpdateClientsSnapshot(u) \/ RemoveClient(u)
               \/ UpdateClientsEnd(u) \/ Tick(u)
        PROVE  \E label \in {"snapshot", "sync", "tick", "begin"} : Goto(u, label)
    BY <2>8 DEF UpdateClientsBegin, UpdateClientsSnapshot, RemoveClient, UpdateClientsEnd, Tick
  <2> QED
    BY <1>2, <2>2, <2>3, <2>4, <2>5, <2>6, <2>7, <2>8
    DEF Next, Start, SyncWith, Sync, Publish, Initialize, ClientStep, ReserveClients, vars
<1> QED
  BY <1>1, <1>3, <1>4 DEF Settled, Serving

(***************************************************************************)
(* However many loops there are, a server that serves every key of the     *)
(* last mapping, with no client under creation, does so until the API      *)
(* publishes another (repo.rs:92-118, 181-242).                            *)
(***************************************************************************)
THEOREM SettledLasts == Spec => SettledStays
<1>1. IInv /\ IInv' /\ [Next]_vars
        => [Settled => Settled' \/ published' # published]_vars
  BY SettledStep
<1> QED
  BY <1>1, Inductive, PTL DEF Spec, SettledStays

(***************************************************************************)
(* With one client loop nothing has to be waited for: of ClientsConverge,  *)
(* only that the server serves every key once is left to the fairness of   *)
(* the runtime (repo.rs:92-118, 181-242).                                  *)
(***************************************************************************)
THEOREM ServingLasts ==
    ASSUME \A t, u \in ClientTasks : t = u
    PROVE  Spec => [][Serving => Serving' \/ published' # published]_vars
<1>1. ASSUME IInv, LookupsLast, Serving PROVE Settled
  BY <1>1 DEF IInv, LoopInv, LookupsLast, Serving, Converged, Settled
<1>2. IInv /\ IInv' /\ LookupsLast /\ [Next]_vars
        => [Serving => Serving' \/ published' # published]_vars
  BY <1>1, SettledStep DEF Settled
<1> QED
  BY <1>2, Inductive, LookupsStay, PTL DEF Spec

-----------------------------------------------------------------------------
(* SdkRepo implements SdkService.                                          *)

\* The vocabulary of the abstract specification is that of the detailed one.
LEMMA SameVocabulary ==
    /\ Service!NoRequest = NoRequest /\ Service!NoReply = NoReply
    /\ Service!NoMapping = NoMapping /\ Service!Mappings = Mappings
    /\ Service!Requests = Requests
    /\ \A m, s : Service!Mapped(m, s) = Mapped(m, s)
    /\ \A v, m, c, r : Service!Answers(v, m, c, r) = Answers(v, m, c, r)
<1>1. /\ Service!NoRequest = NoRequest /\ Service!NoReply = NoReply
      /\ Service!NoMapping = NoMapping /\ Service!Mappings = Mappings
      /\ Service!Requests = Requests
  BY DEF NoRequest, NoReply, NoMapping, Mappings, Requests, ServerOps, ClientOps,
         Service!NoRequest, Service!NoReply, Service!NoMapping, Service!Mappings,
         Service!Requests, Service!ServerOps, Service!ClientOps
<1>2. \A m, s : Service!Mapped(m, s) = Mapped(m, s)
  BY DEF Mapped, Service!Mapped
<1>3. \A v, m, c, r : Service!Answers(v, m, c, r) = Answers(v, m, c, r)
  BY DEF Answers, Responses, KeyOf, ServerOps, Mapped,
         Service!Answers, Service!Responses, Service!KeyOf, Service!ServerOps, Service!Mapped
<1> QED
  BY <1>1, <1>2, <1>3

\* An empty repository promises nothing yet (repo.rs:32-46).
LEMMA ServiceInit == Init => Service!Init
<1> SUFFICES ASSUME Init PROVE Service!Init
  OBVIOUS
<1>1. States = [s \in ServerSdkKeys |-> "absent"]
  BY DEF Init, States, Absent
<1> QED
  BY <1>1, SameVocabulary DEF Init, Service!Init, Default

\* How the abstract state of the clients changes with one entry of sdk_clients.
LEMMA StatesExcept ==
    ASSUME TypeOK, NEW s \in ServerSdkKeys, NEW client,
           sdk_clients' = [sdk_clients EXCEPT ![s] = client]
    PROVE  States' = [States EXCEPT ![s] = client.state]
  BY DEF TypeOK, States

\* A server key is known in the index when the abstract mapping maps it.
LEMMA KnownIsMapped ==
    ASSUME IInv, NEW s \in ServerSdkKeys
    PROVE  s \in server_sdk_keys(secret_mapping) <=> Mapped(secret_mapping.mapping, s)
  BY KnownKeysAreMapped DEF IInv, TypeOK, MappingInv, Mapped

\* A step of update_clients creates or removes one client, or keeps the promised
\* state as it is (repo.rs:181-234).
LEMMA ClientStepImplements ==
    ASSUME IInv, NEW t \in ClientTasks, ClientStep(t) \/ Tick(t)
    PROVE  \/ UNCHANGED Service!vars
           \/ \E s \in ServerSdkKeys : \/ Service!Remove(s)
                                     \/ \E state \in Service!Fresh : Service!Create(s, state)
<1> USE DEF startVars, shared, locks, loopVars, httpVars,
            Service!vars, Service!source, Service!store, Service!http
<1>0. TypeOK
  BY DEF IInv
<1>1. pc[t] # "tick" => mode = "keys"
  BY DEF IInv, StartInv
<1>2. ASSUME pc[t] \in {"create", "notify"}, InsertClient(t)
      PROVE  \E s \in ServerSdkKeys, state \in Service!Fresh : Service!Create(s, state)
  <2> DEFINE s == current[t]
  <2>1. s \in ServerSdkKeys /\ Mapped(secret_mapping.mapping, s)
    BY <1>2, InsertClientPresent, KnownIsMapped DEF server_sdk_keys
  <2>2. PICK state \in Service!Fresh : States' = [States EXCEPT ![s] = state]
    <3>1. PICK client \in NewClients(s) : sdk_clients' = [sdk_clients EXCEPT ![s] = client]
      BY <1>2 DEF InsertClient
    <3>2. client.state \in Service!Fresh
      BY <1>0, <2>1, NewClientType DEF Service!Fresh
    <3> QED
      BY <1>0, <2>1, <3>1, <3>2, StatesExcept
  <2> QED
    BY <1>1, <1>2, <2>1, <2>2, SameVocabulary DEF InsertClient, Service!Create
<1>3. CASE RemoveClient(t)
  <2> DEFINE s == current[t]
  <2>1. s \in ServerSdkKeys
    BY <1>3 DEF RemoveClient, IInv, LoopInv, TypeOK
  <2>2. ~Mapped(secret_mapping.mapping, s)
    BY <1>3, <2>1, RemoveClientPresent, KnownIsMapped
  <2>3. States' = [States EXCEPT ![s] = "absent"]
    <3>1. sdk_clients' = [sdk_clients EXCEPT ![s] = Absent] /\ Absent.state = "absent"
      BY <1>3 DEF RemoveClient, Absent
    <3> QED
      BY <1>0, <2>1, <3>1, StatesExcept
  <2> QED
    BY <1>1, <1>3, <2>1, <2>2, <2>3, SameVocabulary DEF RemoveClient, Service!Remove
<1>4. CASE SyncInsert(t) \/ SetupNotify(t)
  <2>1. CASE SyncInsert(t) /\ Realtime
    BY <2>1 DEF SyncInsert, States
  <2> QED
    BY <1>2, <1>4, <2>1 DEF SyncInsert, SetupNotify
<1> QED
  BY <1>3, <1>4
  DEF ClientStep, UpdateClientsBegin, UpdateClientsSnapshot, SyncCheck, RemoveCheck,
      ReserveClients, UpdateClientsEnd, Tick, States

\* A step of sync_secret_keys adopts a newer published mapping, or keeps the
\* promised state as it is (repo.rs:92-118, 236-242).
LEMMA KeyStepImplements ==
    ASSUME IInv, NEW t \in KeyTasks, KeyStep(t) \/ \E v \in 0..Len(published) : Fetch(t, v)
    PROVE  UNCHANGED Service!vars \/ \E v \in 1..Len(published) : Service!Adopt(v)
<1> USE DEF startVars, shared, locks, loopVars, httpVars,
            Service!vars, Service!source, Service!store, Service!http
<1>1. CASE UpdateMapping(t)
  <2>1. /\ fetched[t].version \in 0..Len(published) /\ mode = "keys"
        /\ fetched[t].mapping = PublishedAs(fetched[t].version)
        /\ secret_mapping.version \in Nat /\ Len(published) \in Nat
    BY <1>1 DEF UpdateMapping, IInv, TypeOK, SecretMappings, MappingInv, StartInv
  <2>2. \/ secret_mapping' = secret_mapping
        \/ /\ fetched[t].version > secret_mapping.version
           /\ secret_mapping'.version = fetched[t].version
           /\ secret_mapping'.mapping = fetched[t].mapping
    BY <1>1, UpdateMappingTakesNewer DEF UpdateMapping, IInv, TypeOK, MappingInv
  <2>3. UNCHANGED States
    BY <1>1 DEF UpdateMapping, States
  <2>4. CASE secret_mapping' = secret_mapping
    BY <1>1, <2>3, <2>4 DEF UpdateMapping
  <2>5. CASE secret_mapping' # secret_mapping
    <3> DEFINE v == fetched[t].version
    <3>1. v \in 1..Len(published) /\ v > secret_mapping.version
      BY <2>1, <2>2, <2>5
    <3>2. secret_mapping'.version = v /\ secret_mapping'.mapping = published[v]
      BY <2>1, <2>2, <2>5, <3>1 DEF PublishedAs
    <3>3. Service!Adopt(v)
      BY <1>1, <2>1, <2>3, <3>1, <3>2 DEF UpdateMapping, Service!Adopt
    <3> QED
      BY <3>1, <3>3
  <2> QED
    BY <2>4, <2>5
<1> QED
  BY <1>1 DEF KeyStep, UpdateMappingCheck, ReserveMapping, Fetch, States

\* A step of a handler answers its request, or keeps the promised state as it is
\* (repo.rs:120-170, handler.rs:80-195).
LEMMA HttpStepImplements ==
    ASSUME IInv, NEW h \in Handlers, HttpStep(h)
    PROVE  UNCHANGED Service!vars \/ Service!Answer(h)
<1> USE DEF startVars, shared, locks, loopVars, httpVars,
            Service!vars, Service!source, Service!store, Service!http
<1>1. UNCHANGED <<mode, published, secret_mapping, States>>
  BY DEF HttpStep, Poll, RejectUser, SecretKeys, Lookup, GetClient, SendBody,
         ReserveClients, ClientSyncNow, States
<1>2. CASE UNCHANGED <<request, reply>>
  BY <1>1, <1>2
<1>3. CASE /\ request[h] \in Requests
           /\ request' = [request EXCEPT ![h] = NoRequest]
           /\ \E a \in Allowed(h) : reply' = [reply EXCEPT ![h] = a]
  <2>1. request[h] # NoRequest
    BY <1>3 DEF Requests, NoRequest, ServerOps, ClientOps
  <2> QED
    BY <1>1, <1>3, <2>1, SameVocabulary DEF Allowed, Service!Answer
<1> QED
  BY <1>2, <1>3, RespondsAsAllowed

(***************************************************************************)
(* Whatever the interleaving of the loops and the handlers between their   *)
(* locks, the repository can be told from one that takes whole steps, with *)
(* no index and no locks, by no SDK (repo.rs:67-242, handler.rs:80-195).   *)
(***************************************************************************)
THEOREM RepoImplementsService == Spec => ImplementsService
<1> USE DEF startVars, shared, locks, loopVars, httpVars,
            Service!vars, Service!source, Service!store, Service!http
<1>1. ASSUME IInv, [Next]_vars PROVE [Service!Next]_(Service!vars)
  <2>0. TypeOK /\ HandlerInv /\ StartInv
    BY <1>1 DEF IInv
  <2>1. CASE SyncWith
    BY <2>1 DEF SyncWith, States, Service!Next, Service!Start, Service!Follow
  <2>2. ASSUME NEW c \in ClientSdkKeys, NEW s \in ServerSdkKeys, NEW v \in {0, 1}, Sync(c, s, v)
        PROVE  Service!Next
    <3>1. PICK state \in Service!Fresh : States' = [States EXCEPT ![s] = state]
      BY <2>0, <2>2, StatesExcept, NewClientType DEF Sync, Service!Fresh
    <3>2. /\ secret_mapping'.version = v
          /\ secret_mapping'.mapping = [secret_mapping.mapping EXCEPT ![c] = s]
      BY <2>2 DEF Sync, insert
    <3>3. Service!Configure(c, s, v, state)
      BY <2>2, <3>1, <3>2 DEF Sync, Service!Configure
    <3> QED
      BY <3>3 DEF Service!Next, Service!Start, Service!Fresh
  <2>3. ASSUME NEW m \in Mappings, Publish(m) PROVE Service!Next
    BY <2>3, SameVocabulary DEF Publish, States, Service!Next, Service!Publish
  <2>4. ASSUME NEW s \in ServerSdkKeys, Initialize(s) PROVE Service!Next
    <3>1. States' = [States EXCEPT ![s] = "ready"] /\ States[s] = "loading"
      BY <2>0, <2>4 DEF Initialize, States, TypeOK, Clients
    <3> QED
      BY <2>4, <3>1 DEF Initialize, Service!Next, Service!Initialize
  <2>5. ASSUME NEW h \in Handlers, NEW r \in Requests, Receive(h, r) PROVE Service!Next
    <3>1. Service!Ask(h, r)
      BY <2>0, <2>5, SameVocabulary DEF Receive, HandlerInv, States, Service!Ask
    <3> QED
      BY <3>1, SameVocabulary DEF Service!Next
  <2>6. CASE UNCHANGED vars
    BY <2>6 DEF vars, States
  <2> QED
    BY <1>1, <2>1, <2>2, <2>3, <2>4, <2>5, <2>6,
       KeyStepImplements, ClientStepImplements, HttpStepImplements
    DEF Next, Start, Service!Next, Service!Fresh
<1>2. IInv /\ [Next]_vars => [Service!Next]_(Service!vars)
  BY <1>1
<1> QED
  BY <1>2, ServiceInit, Inductive, PTL DEF Spec, ImplementsService, Service!Spec

=============================================================================
