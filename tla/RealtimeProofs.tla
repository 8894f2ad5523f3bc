--------------------------- MODULE RealtimeProofs ---------------------------
(* No update is missed, for any number of keys, sockets and updates.       *)
EXTENDS Realtime, TLAPS

\* A step of an FPClient or a socket keeps every type.
LEMMA StepTypes == TypeOK /\ [Step]_vars => TypeOK'
<1> USE DEF clientVars, socketVars, sdkVars, Keys, Versions, Reverses
<1> SUFFICES ASSUME TypeOK, [Step]_vars PROVE TypeOK'
  OBVIOUS
<1>1. ASSUME NEW s \in ServerSdkKeys, NEW c \in ClientSdkKeys \cup {None}, NEW n \in Versions,
             CreateClient(s, c, n)
      PROVE  TypeOK'
  BY <1>1 DEF CreateClient, TypeOK
<1>2. ASSUME NEW s \in ServerSdkKeys, RemoveClient(s) PROVE TypeOK'
  BY <1>2, MaxUpdatesAssumption DEF RemoveClient, TypeOK
<1>3. ASSUME NEW s \in ServerSdkKeys, NEW n \in Versions, Update(s, n) PROVE TypeOK'
  <2>1. [server |-> s, client |-> captured[s]] \in Notifications
    BY <1>3 DEF Notifications, TypeOK
  <2> QED
    BY <1>3, <2>1 DEF Update, TypeOK
<1>4. ASSUME NEW p \in pending, Notify(p) PROVE TypeOK'
  <2>1. inbox' \in [Sdks -> BOOLEAN]
    BY <1>4, Zenon DEF Notify, TypeOK
  <2> QED
    BY <1>4, <2>1 DEF Notify, TypeOK
<1>5. ASSUME NEW k \in Sdks, NEW key \in Keys \cup {None}, Receive(k, key) PROVE TypeOK'
  BY <1>5 DEF Receive, TypeOK
<1>6. ASSUME NEW k \in Sdks, Register(k) PROVE TypeOK'
  <2>1. CASE JoinRoom(k, "registering", "joined")
    BY <2>1 DEF JoinRoom, TypeOK
  <2>2. CASE Greet(k, "joined", "on")
    BY <2>2 DEF Greet, TypeOK
  <2> QED
    BY <1>6, <2>1, <2>2 DEF Register
<1>7. ASSUME NEW k \in Sdks, Disconnect(k) PROVE TypeOK'
  BY <1>7 DEF Disconnect, TypeOK
<1>8. ASSUME NEW k \in Sdks, Refetch(k) \/ Poll(k) PROVE TypeOK'
  BY <1>8 DEF Refetch, Poll, TypeOK
<1>9. CASE UNCHANGED vars
  BY <1>9 DEF vars, TypeOK
<1> QED
  BY <1>1, <1>2, <1>3, <1>4, <1>5, <1>6, <1>7, <1>8, <1>9 DEF Step

\* Every variable keeps its type (realtime.rs, repo.rs:202-216, 248-261).
THEOREM RealtimeTypes == Spec => []TypeOK
<1>1. Init => TypeOK
  BY MaxUpdatesAssumption DEF Init, TypeOK, Nothing, NoReverse, Keys, Versions, Reverses
<1>2. TypeOK /\ [Next]_vars => TypeOK'
  <2>1. ASSUME TypeOK, NEW k \in Sdks, Learn(k, held) PROVE TypeOK'
    BY <2>1 DEF Learn, TypeOK, clientVars, socketVars
  <2> QED
    BY <2>1, StepTypes DEF Next
<1> QED
  BY <1>1, <1>2, PTL DEF Spec

\* Who the update callback of s reaches are connections.
LEMMA AudienceOfSdks ==
    ASSUME TypeOK, NEW s \in ServerSdkKeys PROVE Audience(s) \subseteq Sdks
BY DEF TypeOK, Audience, Room, Keys, Reverses

\* A step of an FPClient or a socket leaves no socket in the rooms of s behind.
LEMMA StepTold ==
    ASSUME TypeOK, [Step]_vars, NEW s \in ServerSdkKeys, NEW k \in Audience(s)',
           k \in Audience(s) => Told(s, k)
    PROVE  Told(s, k)'
<1> USE DEF clientVars, socketVars, sdkVars, Keys, Told
<1>a. ASSUME k \in Audience(s) PROVE k \in Sdks
  BY <1>a, AudienceOfSdks
<1>1. ASSUME NEW x \in ServerSdkKeys, NEW c \in ClientSdkKeys \cup {None},
             NEW n \in Versions, CreateClient(x, c, n)
      PROVE  Told(s, k)'
  <2>1. CASE x = s
    BY <1>1, <2>1 DEF CreateClient, TypeOK
  <2>2. CASE x # s
    <3>1. k \in Audience(s) /\ held'[s] = held[s] /\ early'[s] = early[s]
            /\ captured'[s] = captured[s]
      BY <1>1, <2>2 DEF CreateClient, TypeOK, Audience, Room, Reverses
    <3> QED
      BY <1>1, <3>1 DEF CreateClient, UpToDate
  <2> QED
    BY <2>1, <2>2
<1>2. ASSUME NEW x \in ServerSdkKeys, RemoveClient(x) PROVE Told(s, k)'
  <2>1. x # s
    BY <1>2 DEF RemoveClient, Audience
  <2>2. k \in Audience(s) /\ held'[s] = held[s] /\ early'[s] = early[s]
          /\ captured'[s] = captured[s]
    BY <1>2, <2>1 DEF RemoveClient, TypeOK, Audience, Room, Reverses
  <2> QED
    BY <1>2, <2>2 DEF RemoveClient, UpToDate
<1>3. ASSUME NEW x \in ServerSdkKeys, NEW n \in Versions, Update(x, n) PROVE Told(s, k)'
  <2>1. Told(s, k)
    BY <1>3 DEF Update, Audience, Room
  <2>2. CASE x = s
    <3>1. [server |-> s, client |-> captured'[s]] \in pending'
      BY <1>3, <2>2 DEF Update
    <3> QED
      BY <3>1 DEF UpToDate
  <2>3. CASE x # s
    <3>1. held'[s] = held[s]
      BY <1>3, <2>3 DEF Update, TypeOK
    <3> QED
      BY <1>3, <2>1, <3>1 DEF Update, UpToDate
  <2> QED
    BY <2>2, <2>3
<1>4. ASSUME NEW p \in pending, Notify(p) PROVE Told(s, k)'
  <2>1. Told(s, k) /\ k \in Audience(s)
    BY <1>4 DEF Notify, Audience, Room
  <2>2. k \in Sdks
    BY <1>a, <2>1
  <2>3. CASE p.server = s /\ p.client = captured[s]
    <3>1. k \in rooms[p.server] \cup Room(p.client)
      BY <2>1, <2>3 DEF Audience
    <3>2. inbox'[k] = (inbox[k] \/ k \in rooms[p.server] \cup Room(p.client))
      BY <1>4, <2>2, Zenon DEF Notify
    <3> QED
      BY <3>1, <3>2, Zenon DEF UpToDate
  <2>4. CASE ~(p.server = s /\ p.client = captured[s])
    <3>1. inbox[k] => inbox'[k]
      BY <1>4, <2>2, Zenon DEF Notify
    <3> QED
      BY <1>4, <2>1, <2>4, <3>1 DEF Notify, UpToDate
  <2> QED
    BY <2>3, <2>4
<1>5. ASSUME NEW d \in Sdks, NEW key \in Keys \cup {None}, Receive(d, key)
      PROVE  Told(s, k)'
  <2>1. Told(s, k)
    BY <1>5 DEF Receive, Audience, Room
  <2> QED
    BY <1>5, <2>1 DEF Receive, TypeOK, UpToDate
<1>6. ASSUME NEW d \in Sdks, JoinRoom(d, "registering", "joined") PROVE Told(s, k)'
  <2>1. CASE k = d
    BY <1>6, <2>1 DEF JoinRoom, TypeOK, UpToDate
  <2>2. CASE k # d
    <3>1. k \in Audience(s)
      BY <1>6, <2>2 DEF JoinRoom, Audience, Room, TypeOK, Reverses
    <3> QED
      BY <1>6, <2>2, <3>1 DEF JoinRoom, TypeOK, UpToDate
  <2> QED
    BY <2>1, <2>2
<1>7. ASSUME NEW d \in Sdks, Greet(d, "joined", "on") PROVE Told(s, k)'
  <2>1. k \in Audience(s)
    BY <1>7 DEF Greet, Audience, Room
  <2>2. CASE k = d
    BY <1>7, <2>2 DEF Greet, TypeOK, UpToDate
  <2>3. CASE k # d
    BY <1>7, <2>1, <2>3 DEF Greet, TypeOK, UpToDate
  <2> QED
    BY <2>2, <2>3
<1>8. ASSUME NEW d \in Sdks, Disconnect(d) PROVE Told(s, k)'
  <2>1. k # d /\ k \in Audience(s)
    BY <1>8 DEF Disconnect, Audience, Room, TypeOK, Reverses
  <2> QED
    BY <1>8, <2>1 DEF Disconnect, TypeOK, UpToDate
<1>9. ASSUME NEW d \in Sdks, Refetch(d) PROVE Told(s, k)'
  <2>1. k \in Audience(s)
    BY <1>9 DEF Refetch, Audience, Room
  <2>2. CASE k = d
    BY <1>9, <2>2 DEF Refetch, TypeOK, UpToDate
  <2>3. CASE k # d
    BY <1>9, <2>1, <2>3 DEF Refetch, TypeOK, UpToDate
  <2> QED
    BY <2>2, <2>3
<1>10. ASSUME NEW d \in Sdks, Poll(d) PROVE Told(s, k)'
  <2>1. k \in Audience(s)
    BY <1>10 DEF Poll, Audience, Room
  <2>2. CASE k = d
    BY <1>10, <2>2 DEF Poll, TypeOK, UpToDate
  <2>3. CASE k # d
    BY <1>10, <2>1, <2>3 DEF Poll, TypeOK, UpToDate
  <2> QED
    BY <2>2, <2>3
<1>11. CASE UNCHANGED vars
  BY <1>11 DEF vars, Audience, Room, UpToDate
<1> QED
  BY <1>1, <1>2, <1>3, <1>4, <1>5, <1>6, <1>7, <1>8, <1>9, <1>10, <1>11 DEF Step, Register

(***************************************************************************)
(* A socket in a room of s whose SDK is behind will still be told: it has  *)
(* joined and is about to be greeted, or an event is on its way, or a task *)
(* that will emit one to the rooms of this client has been spawned, or it  *)
(* is fetching (realtime.rs:41-80, repo.rs:202-216).                       *)
(***************************************************************************)
THEOREM NoUpdateMissed == Spec => []NothingMissed
<1>1. Init => NothingMissed
  BY DEF Init, NothingMissed, Audience
<1>2. ASSUME TypeOK, NothingMissed, [Next]_vars PROVE NothingMissed'
  <2> SUFFICES ASSUME NEW s \in ServerSdkKeys, NEW k \in Audience(s)' PROVE Told(s, k)'
    BY DEF NothingMissed
  <2>1. k \in Audience(s) => Told(s, k)
    BY <1>2 DEF NothingMissed
  <2>2. CASE [Step]_vars
    BY <1>2, <2>1, <2>2, StepTold
  <2>3. ASSUME NEW d \in Sdks, Learn(d, held) PROVE Told(s, k)'
    <3> USE DEF clientVars, socketVars
    <3>1. k \in Audience(s) /\ k \in Sdks
      BY <1>2, <2>3, AudienceOfSdks DEF Learn, Audience, Room
    <3>2. CASE k = d
      <4>1. seen'[k][s] = held'[s] /\ held'[s] \in Nat
        BY <1>2, <2>3, <3>2, MaxUpdatesAssumption DEF Learn, TypeOK, Versions
      <4> QED
        BY <4>1 DEF Told, UpToDate
    <3>3. CASE k # d
      BY <1>2, <2>1, <2>3, <3>1, <3>3 DEF Learn, TypeOK, Told, UpToDate
    <3> QED
      BY <3>2, <3>3
  <2> QED
    BY <1>2, <2>2, <2>3 DEF Next
<1> QED
  BY <1>1, <1>2, RealtimeTypes, PTL DEF Spec

=============================================================================
