---------------------------- MODULE ServerProofs ----------------------------
(***************************************************************************)
(* No SDK of the server is left behind, for any number of keys, SDKs,      *)
(* mappings and updates.  What a step of the sockets keeps is proved in    *)
(* RealtimeProofs, for any clients that come and go and any SDKs that ask. *)
(***************************************************************************)
EXTENDS Server, TLAPS

Theory == INSTANCE RealtimeProofs WITH live <- Live, asking <- Asking

\* The sockets of this module are those that RealtimeProofs is about.
LEMMA SameSockets ==
    /\ Sockets!TypeOK = Theory!TypeOK /\ Sockets!TypeOK' = Theory!TypeOK'
    /\ [Sockets!Step]_(Sockets!vars) = [Theory!Step]_(Theory!vars)
    /\ \A s : /\ Sockets!Audience(s) = Theory!Audience(s)
              /\ Sockets!Audience(s)' = Theory!Audience(s)'
    /\ \A s, k : /\ Sockets!Told(s, k) = Theory!Told(s, k)
                 /\ Sockets!Told(s, k)' = Theory!Told(s, k)'
BY DEF Sockets!Step, Sockets!Keys, Sockets!Room, Sockets!Audience, Sockets!Versions,
       Sockets!CreateClient, Sockets!RemoveClient, Sockets!Update, Sockets!Notify,
       Sockets!Receive, Sockets!JoinRoom, Sockets!Greet, Sockets!Register,
       Sockets!Disconnect, Sockets!Refetch, Sockets!Poll, Sockets!vars,
       Sockets!clientVars, Sockets!socketVars, Sockets!sdkVars, Sockets!TypeOK,
       Sockets!Notifications, Sockets!Reverses, Sockets!Told, Sockets!UpToDate,
       Theory!Step, Theory!Keys, Theory!Room, Theory!Audience, Theory!Versions,
       Theory!CreateClient, Theory!RemoveClient, Theory!Update, Theory!Notify,
       Theory!Receive, Theory!JoinRoom, Theory!Greet, Theory!Register,
       Theory!Disconnect, Theory!Refetch, Theory!Poll, Theory!vars, Theory!clientVars,
       Theory!socketVars, Theory!sdkVars, Theory!TypeOK, Theory!Notifications,
       Theory!Reverses, Theory!Told, Theory!UpToDate

\* A step of the sockets keeps their types (realtime.rs, repo.rs:202-216).
LEMMA StepTypes == Sockets!TypeOK /\ [Sockets!Step]_(Sockets!vars) => Sockets!TypeOK'
<1>1. Theory!TypeOK /\ [Theory!Step]_(Theory!vars) => Theory!TypeOK'
  BY Theory!StepTypes, NoneIsNoKey, MaxUpdatesAssumption
  DEF Theory!NoneIsNoKey, Theory!MaxUpdatesAssumption
<1> QED
  BY <1>1, SameSockets

\* Nor does one leave an SDK behind that was not (realtime.rs:41-80, repo.rs:
\* 202-216, 244-263).
LEMMA StepTold ==
    ASSUME Sockets!TypeOK, [Sockets!Step]_(Sockets!vars), NEW s \in ServerSdkKeys,
           NEW k \in Sockets!Audience(s)',
           k \in Sockets!Audience(s) => Sockets!Told(s, k)
    PROVE  Sockets!Told(s, k)'
<1>1. ASSUME Theory!TypeOK, [Theory!Step]_(Theory!vars), NEW x \in ServerSdkKeys,
             NEW d \in Theory!Audience(x)',
             d \in Theory!Audience(x) => Theory!Told(x, d)
      PROVE  Theory!Told(x, d)'
  BY <1>1, Theory!StepTold, NoneIsNoKey, MaxUpdatesAssumption
  DEF Theory!NoneIsNoKey, Theory!MaxUpdatesAssumption
<1> QED
  BY <1>1, SameSockets

-----------------------------------------------------------------------------

\* The step of some FPClient, socket or SDK that each action is, but an answer.
Quiet ==
    \/ Map
    \/ \E s \in ServerSdkKeys, n \in Sockets!Versions :
          Connect(s, n) \/ Update(s, n) \/ \E c \in ClientSdkKeys : Boot(c, s, n)
    \/ \E s \in ServerSdkKeys : Drop(s)
    \/ Socket
    \/ \E k \in Sdks : Register(k) \/ Refetch(k) \/ Poll(k)

\* Apart from answers, the sockets take their own steps, whatever else changes.
LEMMA QuietIsStep ==
    ASSUME TypeOK, [Quiet]_vars
    PROVE  [Sockets!Step]_(Sockets!vars) /\ last' = last
<1> USE DEF history, Sockets!Step
<1>1. CASE Map \/ UNCHANGED vars
  <2>1. UNCHANGED <<clients, request>>
    BY <1>1 DEF Map, vars, serviceVars, Service!Follow, Service!Publish, Service!Adopt,
       Service!source, Service!store, Service!http
  <2> QED
    BY <1>1, <2>1 DEF Map, vars, socketsVars, Live, Asking,
       Sockets!vars, Sockets!clientVars, Sockets!socketVars, Sockets!sdkVars
<1>2. ASSUME NEW s \in ServerSdkKeys, NEW n \in Sockets!Versions, NEW c \in ClientSdkKeys,
             Boot(c, s, n)
      PROVE  Sockets!Step /\ last' = last
  BY <1>2 DEF Boot
<1>3. ASSUME NEW s \in ServerSdkKeys, Drop(s) PROVE Sockets!Step /\ last' = last
  BY <1>3 DEF Drop
<1>4. CASE Socket
  BY <1>4 DEF Socket
<1>5. ASSUME NEW k \in Sdks, Register(k) \/ Refetch(k) \/ Poll(k)
      PROVE  Sockets!Step /\ last' = last
  BY <1>5 DEF Register, Refetch, Poll, Asks
<1>6. ASSUME NEW s \in ServerSdkKeys, NEW n \in Sockets!Versions, Connect(s, n)
      PROVE  Sockets!Step /\ last' = last
  BY <1>6 DEF Connect, NewClient
<1>7. ASSUME NEW s \in ServerSdkKeys, NEW n \in Sockets!Versions, Update(s, n)
      PROVE  Sockets!Step /\ last' = last
  BY <1>7 DEF Update
<1> QED
  BY <1>1, <1>2, <1>3, <1>4, <1>5, <1>6, <1>7 DEF Quiet

\* A step of the clients or of the mapping keeps what they say of each other.
LEMMA QuietService ==
    ASSUME TypeOK, [Quiet]_vars,
           version = 0 => mapping = NoMapping,
           \A s \in ServerSdkKeys :
              /\ clients[s] # "ready" => held[s] = 0
              /\ only[s] # None => s \in Live /\ captured[s] = only[s]
    PROVE  /\ TypeOK'
           /\ version' = 0 => mapping' = NoMapping
           /\ \A s \in ServerSdkKeys :
                 /\ clients'[s] # "ready" => held'[s] = 0
                 /\ only'[s] # None => s \in Live' /\ captured'[s] = only'[s]
<1> USE DEF history, serviceVars, socketsVars, Service!source, Service!store, Service!http
<1> DEFINE Good == /\ version = 0 => mapping = NoMapping
                   /\ \A s \in ServerSdkKeys :
                         /\ clients[s] # "ready" => held[s] = 0
                         /\ only[s] # None => s \in Live /\ captured[s] = only[s]
<1>0. Sockets!TypeOK'
  BY QuietIsStep, StepTypes DEF TypeOK
<1>s. Sockets!TypeOK
  BY DEF TypeOK
<1> SUFFICES TypeOK' /\ Good'
  OBVIOUS
<1>1. CASE Map
  <2>1. TypeOK'
    <3>1. CASE Service!Follow
      BY <1>0, <1>1, <3>1 DEF Map, TypeOK, Service!Follow
    <3>2. ASSUME NEW m \in Mappings, Service!Publish(m) PROVE TypeOK'
      <4>1. published' \in Seq(Mappings)
        BY <3>2 DEF TypeOK, Service!Publish
      <4> QED
        BY <1>0, <1>1, <3>2, <4>1 DEF Map, TypeOK, Service!Publish
    <3>3. ASSUME NEW v \in 1..Len(published), Service!Adopt(v) PROVE TypeOK'
      <4>1. published[v] \in Mappings /\ v \in Nat
        BY DEF TypeOK
      <4> QED
        BY <1>0, <1>1, <3>3, <4>1 DEF Map, TypeOK, Service!Adopt
    <3> QED
      BY <1>1, <3>1, <3>2, <3>3 DEF Map
  <2>2. Good'
    BY <1>1 DEF Map, TypeOK, Service!Follow, Service!Publish, Service!Adopt, Live
  <2> QED
    BY <2>1, <2>2
<1>2. ASSUME NEW s \in ServerSdkKeys, NEW n \in Sockets!Versions, NEW c \in ClientSdkKeys,
             Boot(c, s, n)
      PROVE  TypeOK' /\ Good'
  <2>1. TypeOK'
    BY <1>0, <1>2 DEF Boot, TypeOK, Service!Configure, Mappings, Fresh, ClientStates
  <2>2. Good'
    BY <1>2, <1>s DEF Boot, TypeOK, Service!Configure, Sockets!CreateClient, Fresh, Live,
       Sockets!TypeOK, ClientStates, Sockets!Versions, Sockets!Reverses
  <2> QED
    BY <2>1, <2>2
<1>3. ASSUME NEW s \in ServerSdkKeys, NEW n \in Sockets!Versions, NEW c \in ClientSdkKeys,
             mapping[c] = s, NewClient(s, c, n)
      PROVE  TypeOK' /\ Good'
  <2>1. OnlyKey(s) \in {c, None}
    BY <1>3 DEF OnlyKey
  <2>2. TypeOK'
    BY <1>0, <1>3, <2>1 DEF NewClient, TypeOK, Service!Create, Fresh, ClientStates
  <2>3. Good'
    BY <1>3, <1>s, <2>1 DEF NewClient, TypeOK, Service!Create, Sockets!CreateClient, Fresh, Live,
       Sockets!TypeOK, ClientStates, Sockets!Versions, Sockets!Reverses
  <2> QED
    BY <2>2, <2>3
<1>4. ASSUME NEW s \in ServerSdkKeys, Drop(s) PROVE TypeOK' /\ Good'
  <2>1. TypeOK'
    BY <1>0, <1>4 DEF Drop, TypeOK, Service!Remove, ClientStates
  <2>2. Good'
    BY <1>4, <1>s DEF Drop, TypeOK, Service!Remove, Sockets!RemoveClient, Live,
       Sockets!TypeOK, Sockets!Reverses
  <2> QED
    BY <2>1, <2>2
<1>5. ASSUME NEW s \in ServerSdkKeys, NEW n \in Sockets!Versions, Update(s, n)
      PROVE  TypeOK' /\ Good'
  <2>1. TypeOK'
    BY <1>0, <1>5 DEF Update, TypeOK, Service!Initialize, ClientStates
  <2>2. Good'
    BY <1>5, <1>s DEF Update, TypeOK, Service!Initialize, Sockets!Update, Live,
       Sockets!TypeOK, Sockets!clientVars, ClientStates
  <2> QED
    BY <2>1, <2>2
<1>6. CASE \/ UNCHANGED vars
           \/ Socket
           \/ \E k \in Sdks : Register(k)
  <2>1. UNCHANGED <<serviceVars, history, held, captured>>
    BY <1>6 DEF vars, Socket, Register, Sockets!Notify, Sockets!Disconnect, Sockets!Receive,
       Sockets!Register, Sockets!JoinRoom, Sockets!Greet, Sockets!clientVars
  <2> QED
    BY <1>0, <2>1 DEF TypeOK, Live
<1>7. ASSUME NEW k \in Sdks, Refetch(k) \/ Poll(k) PROVE TypeOK' /\ Good'
  <2>1. payload[k] \in Sockets!Keys
    BY <1>7, <1>s DEF Refetch, Poll, Sockets!TypeOK
  <2>2. Asks(k) /\ UNCHANGED <<held, captured>>
    BY <1>7 DEF Refetch, Poll, Sockets!Refetch, Sockets!Poll, Sockets!clientVars
  <2>3. Service!NoReply = NoReply
    BY DEF NoReply, Service!NoReply
  <2>4. TypeOK'
    BY <1>0, <2>1, <2>2, <2>3 DEF Asks, TypeOK, Service!Ask
  <2>5. Good'
    BY <2>2 DEF Asks, Service!Ask, Live
  <2> QED
    BY <2>4, <2>5
<1> HIDE DEF Good
<1> QED
  BY <1>1, <1>2, <1>3, <1>4, <1>5, <1>6, <1>7 DEF Quiet, Connect

\* What an SDK has after an answer about s: the toggles of s, or those it had
\* while the client of s holds none.
LEMMA AnswerTells ==
    ASSUME IInv, NEW k \in Sdks, Answered(k)
    PROVE  /\ seen' = [seen EXCEPT ![k] = Knows(k, reply'[k])]
           /\ Knows(k, reply'[k]) \in [ServerSdkKeys -> Sockets!Versions]
           /\ reply' \in [Sdks -> Responses \cup {NoReply}]
           /\ last' = [last EXCEPT ![k] = KeyOf(mapping, request[k])]
           /\ KeyOf(mapping, request[k]) \in ServerSdkKeys \cup {None}
           /\ \A s \in ServerSdkKeys : last'[k] = s => seen'[k][s] >= held[s]
<1> DEFINE r == request[k]
           key == KeyOf(mapping, r)
           a == reply'[k]
<1>1. /\ held \in [ServerSdkKeys -> Nat] /\ held \in [ServerSdkKeys -> Sockets!Versions]
      /\ 0 \in Sockets!Versions
      /\ seen \in [Sdks -> [ServerSdkKeys -> Sockets!Versions]]
      /\ last \in [Sdks -> ServerSdkKeys \cup {None}]
  BY MaxUpdatesAssumption DEF IInv, TypeOK, Sockets!TypeOK, Sockets!Versions
<1>2. r \in {RequestFor(x) : x \in Sockets!Keys}
  <2>1. r # NoRequest
    BY DEF Answered, Service!Answer, Service!NoRequest, NoRequest
  <2> QED
    BY <2>1 DEF IInv, TypeOK
<1>3. PICK x \in ClientSdkKeys \cup ServerSdkKeys : r = RequestFor(x)
  BY <1>2 DEF Sockets!Keys
<1>4. r.op \in {"server_sdk_toggles", "client_sdk_toggles"} /\ r.key = x
  BY <1>3 DEF RequestFor
<1>5. r.op \notin ServerOps => x \in ClientSdkKeys
  BY <1>3 DEF RequestFor, ServerOps
<1>6. r.op \in ServerOps => x \in ServerSdkKeys
  BY <1>3 DEF RequestFor, ServerOps
<1>7. key \in ServerSdkKeys \cup {None}
  BY <1>4, <1>5, <1>6 DEF KeyOf, IInv, TypeOK, Mappings
<1>8. Service!Answers(version, mapping, clients, r) = Answers(version, mapping, clients, r)
  BY DEF Answers, Responses, KeyOf, ServerOps, Mapped,
         Service!Answers, Service!Responses, Service!KeyOf, Service!ServerOps, Service!Mapped
<1>9. PICK b \in Answers(version, mapping, clients, r) : reply' = [reply EXCEPT ![k] = b]
  BY <1>8 DEF Answered, Service!Answer
<1>10. a = b /\ reply' \in [Sdks -> Responses \cup {NoReply}]
  BY <1>9 DEF IInv, TypeOK, Answers
<1>11. a.status # 400
  BY DEF Answered
<1>12. \/ key # None /\ a = [status |-> 200, body |-> key]
       \/ key = None /\ a.status = 200 /\ a.body = "empty"
       \/ a.status = 503 /\ (version = 0 \/ (key # None /\ clients[key] # "ready"))
  BY <1>4, <1>9, <1>10, <1>11 DEF Answers
<1>13. version = 0 => key = None
  <2>1. version = 0 => mapping = NoMapping
    BY DEF IInv
  <2> QED
    BY <2>1, <1>4, <1>5, <1>6, NoneIsNoKey DEF KeyOf, Mapped, NoMapping, ServerOps
<1>14. Knows(k, a) \in [ServerSdkKeys -> Sockets!Versions]
  BY <1>1 DEF Knows
<1>15. /\ seen' = [seen EXCEPT ![k] = Knows(k, a)]
       /\ last' = [last EXCEPT ![k] = key]
  BY DEF Answered, Sockets!Learn
<1>16. ASSUME NEW s \in ServerSdkKeys, key = s PROVE Knows(k, a)[s] >= held[s]
  <2>1. key # None
    BY <1>16, NoneIsNoKey
  <2>2. CASE a = [status |-> 200, body |-> key]
    BY <1>1, <1>16, <2>2 DEF Knows
  <2>3. CASE a.status = 503
    <3>1. clients[s] # "ready"
      BY <1>12, <1>13, <1>16, <2>1, <2>3
    <3>2. held[s] = 0
      BY <3>1 DEF IInv
    <3>3. Knows(k, a)[s] \in Nat
      BY <1>14, MaxUpdatesAssumption DEF Sockets!Versions
    <3> QED
      BY <3>2, <3>3
  <2> QED
    BY <1>12, <2>1, <2>2, <2>3
<1>17. last'[k] = key /\ seen'[k] = Knows(k, a)
  BY <1>1, <1>15
<1> HIDE DEF key, a, r
<1> QED
  BY <1>7, <1>10, <1>14, <1>15, <1>16, <1>17 DEF key, a, r

\* An answer keeps the invariant: it tells its SDK, and nobody else, of the
\* toggles (handler.rs:80-125, repo.rs:120-148).
LEMMA AnsweredKeeps ==
    ASSUME IInv, NEW k \in Sdks, Answered(k)
    PROVE  IInv'
<1> USE DEF Service!source, Service!store, Sockets!clientVars, Sockets!socketVars
<1>1. UNCHANGED <<mode, published, version, mapping, clients, held, early, captured,
                  pending, rooms, pc, payload, inbox, only, Live>>
  BY DEF Answered, Service!Answer, Sockets!Learn, Live
<1>2. Asking' = [Asking EXCEPT ![k] = FALSE]
  BY DEF Answered, Sockets!Learn
<1>3. request' = [request EXCEPT ![k] = NoRequest]
  BY DEF Answered, Service!Answer, Service!NoRequest, NoRequest
<1>4. Sockets!TypeOK'
  <2>1. Asking' \in [Sdks -> BOOLEAN]
    BY Zenon DEF Asking
  <2>2. seen' \in [Sdks -> [ServerSdkKeys -> Sockets!Versions]]
    BY AnswerTells DEF IInv, TypeOK, Sockets!TypeOK
  <2> QED
    BY <1>1, <2>1, <2>2 DEF IInv, TypeOK, Sockets!TypeOK
<1>5. TypeOK'
  BY <1>1, <1>3, <1>4, AnswerTells DEF IInv, TypeOK
<1>6. ASSUME NEW s \in ServerSdkKeys, NEW d \in Sockets!Audience(s)', last'[d] = s
      PROVE  Sockets!Told(s, d)'
  <2>1. d \in Sockets!Audience(s) /\ d \in Sdks
    BY <1>1 DEF Sockets!Audience, Sockets!Room, IInv, TypeOK, Sockets!TypeOK, Sockets!Keys,
       Sockets!Reverses
  <2>2. CASE d = k
    <3>1. seen'[k][s] >= held'[s]
      BY <1>1, <1>6, <2>2, AnswerTells
    <3> QED
      BY <2>2, <3>1 DEF Sockets!Told, Sockets!UpToDate
  <2>3. CASE d # k
    <3>1. last'[d] = last[d] /\ seen'[d] = seen[d] /\ Asking'[d] = Asking[d]
      BY <1>3, <2>1, <2>3, AnswerTells DEF IInv, TypeOK, Sockets!TypeOK, Asking
    <3>2. Sockets!Told(s, d)
      BY <1>6, <2>1, <3>1 DEF IInv
    <3> QED
      BY <1>1, <3>1, <3>2 DEF Sockets!Told, Sockets!UpToDate
  <2> QED
    BY <2>2, <2>3
<1> QED
  BY <1>1, <1>5, <1>6 DEF IInv

\* Every other step keeps it too, because it changes nobody's last answer.
LEMMA QuietKeeps == ASSUME IInv, [Quiet]_vars PROVE IInv'
<1>1. TypeOK /\ Sockets!TypeOK
  BY DEF IInv, TypeOK
<1>2. [Sockets!Step]_(Sockets!vars) /\ last' = last
  BY <1>1, QuietIsStep
<1>3. ASSUME NEW s \in ServerSdkKeys, NEW d \in Sockets!Audience(s)', last'[d] = s
      PROVE  Sockets!Told(s, d)'
  <2>1. d \in Sockets!Audience(s) => Sockets!Told(s, d)
    BY <1>2, <1>3 DEF IInv
  <2> QED
    BY <1>1, <1>2, <2>1, StepTold
<1> QED
  BY <1>1, <1>3, QuietService DEF IInv

\* What each step of clients, sockets and SDKs relies on, and leaves to the next
\* (repo.rs:120-263, realtime.rs:41-80).
THEOREM Inductive == Spec => []IInv
<1>1. Init => IInv
  <2> SUFFICES ASSUME Init PROVE IInv
    OBVIOUS
  <2> USE DEF Init, Service!Init, Sockets!Init
  <2>1. Sockets!TypeOK
    BY MaxUpdatesAssumption
    DEF Sockets!TypeOK, Sockets!Nothing, Sockets!NoReverse, Sockets!Reverses, Sockets!Versions,
        Sockets!Keys
  <2>2. /\ Service!NoMapping = NoMapping /\ Service!NoRequest = NoRequest
        /\ Service!NoReply = NoReply
    BY DEF Service!NoMapping, NoMapping, Service!NoRequest, NoRequest, Service!NoReply, NoReply
  <2>3. TypeOK
    BY <2>1, <2>2 DEF TypeOK, NoMapping, Mappings, ClientStates
  <2>4. \A s \in ServerSdkKeys : Sockets!Audience(s) = {} /\ held[s] = 0
    BY DEF Sockets!Audience, Live, Sockets!Nothing
  <2> QED
    BY <2>2, <2>3, <2>4 DEF IInv
<1>2. IInv /\ [Next]_vars => IInv'
  BY QuietKeeps, AnsweredKeeps DEF Next, Quiet
<1> QED
  BY <1>1, <1>2, PTL DEF Spec

(***************************************************************************)
(* Between the mapping, the clients, the sockets and its own requests, an  *)
(* SDK that was last answered about s never ends up behind with nothing on *)
(* its way to tell it (handler.rs:80-160, repo.rs:120-263,                 *)
(* realtime.rs:41-80).                                                     *)
(***************************************************************************)
THEOREM NoSdkLeftBehind == Spec => []NoSdkBehind
<1>1. IInv => NoSdkBehind
  <2> SUFFICES ASSUME IInv, NEW s \in ServerSdkKeys, NEW k \in Entitled(s), last[k] = s
               PROVE  Sockets!Told(s, k)
    BY DEF NoSdkBehind
  <2>1. k \in Sockets!Audience(s)
    BY DEF IInv, Entitled, Sockets!Audience, Sockets!Room
  <2> QED
    BY <2>1 DEF IInv
<1> QED
  BY <1>1, Inductive, PTL

=============================================================================
