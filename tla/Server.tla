------------------------------- MODULE Server -------------------------------
(***************************************************************************)
(* The server as its SDKs see it: the repository behind HTTP, as SdkService *)
(* promises it, together with the realtime sockets.  Creating, removing    *)
(* and updating an FPClient is one step of both; an SDK that is told to    *)
(* fetch does so over HTTP, and the answer is what it knows from then on.  *)
(***************************************************************************)
EXTENDS SdkRequests, Sequences

CONSTANTS
    Sdks,        \* SDKs, each with an HTTP connection and a socket
    MaxVersion,  \* bound: how many mappings the API publishes
    MaxUpdates   \* bound: how often the toggles of a server key change

ASSUME MaxUpdatesAssumption == MaxUpdates \in Nat

VARIABLES
    mode, published, version, mapping, clients, request, reply,   \* of SdkService
    held, early, captured, pending,                               \* of Realtime
    rooms, pc, payload, inbox, seen,
    only,  \* the client key of s, if it had just one as its client was created
    last   \* the server key that each SDK's last request was resolved to

Live   == {s \in ServerSdkKeys : clients[s] # "absent"}
Asking == [k \in Sdks |-> request[k] # NoRequest]

Service == INSTANCE SdkService WITH Handlers <- Sdks
Sockets == INSTANCE Realtime WITH live <- Live, asking <- Asking

serviceVars == <<mode, published, version, mapping, clients, request, reply>>
socketsVars == <<held, early, captured, pending, rooms, pc, payload, inbox, seen>>
history     == <<only, last>>
vars == <<serviceVars, socketsVars, history>>

Init ==
    /\ Service!Init
    /\ Sockets!Init
    /\ only = [s \in ServerSdkKeys |-> None]
    /\ last = [k \in Sdks |-> None]

-----------------------------------------------------------------------------
(* The repository and its clients.                                         *)

\* A client is initialized once it holds a version.
Fresh(n) == IF n = 0 THEN "loading" ELSE "ready"

\* The mapping alone changes.
Map ==
    /\ \/ Service!Follow
       \/ \E m \in Mappings : Service!Publish(m)
       \/ \E v \in 1..Len(published) : Service!Adopt(v)
    /\ UNCHANGED <<socketsVars, history>>

\* Fault: the pair is inserted under the version of a mapping that holds nothing.
BootUnversioned(c, s, n) ==
    /\ Service!Configure(c, s, 0, Fresh(n))
    /\ Sockets!CreateClient(s, None, n)
    /\ UNCHANGED history

\* `sync` creates the client, and its callback, before it inserts the pair: the
\* callback finds no client key.
Boot(c, s, n) ==
    /\ Service!Configure(c, s, 1, Fresh(n))
    /\ Sockets!CreateClient(s, None, n)
    /\ UNCHANGED history

OnlyKey(s) ==
    LET keys == {c \in ClientSdkKeys : mapping[c] = s}
    IN  IF \E c \in keys : keys = {c} THEN CHOOSE c \in keys : TRUE ELSE None

NewClient(s, c, n) ==
    /\ clients[s] = "absent"
    /\ Service!Create(s, Fresh(n))
    /\ Sockets!CreateClient(s, c, n)
    /\ only' = [only EXCEPT ![s] = OnlyKey(s)]
    /\ UNCHANGED last

\* Fault: setup_notify finds no client key, as when it is called too early.
ConnectUnmapped(s, n) == NewClient(s, None, n)

\* Inner::sync finds no client for a mapped key, and setup_notify one of its
\* client keys.
Connect(s, n) == \E c \in ClientSdkKeys : mapping[c] = s /\ NewClient(s, c, n)

Drop(s) ==
    /\ Service!Remove(s)
    /\ Sockets!RemoveClient(s)
    /\ only' = [only EXCEPT ![s] = None]
    /\ UNCHANGED last

\* The client gets toggles, its first or later ones.
Update(s, n) ==
    /\ IF clients[s] = "loading" THEN Service!Initialize(s) ELSE UNCHANGED serviceVars
    /\ Sockets!Update(s, n)
    /\ UNCHANGED history

-----------------------------------------------------------------------------
(* The sockets and the SDKs.                                               *)

Socket ==
    /\ UNCHANGED <<serviceVars, history>>
    /\ \/ \E p \in pending : Sockets!Notify(p)
       \/ \E k \in Sdks : Sockets!Disconnect(k) \/ \E key \in Sockets!Keys : Sockets!Receive(k, key)

Register(k) == UNCHANGED <<serviceVars, history>> /\ Sockets!Register(k)

RequestFor(key) ==
    [op |-> IF key \in ServerSdkKeys THEN "server_sdk_toggles" ELSE "client_sdk_toggles",
     key |-> key]

\* An SDK uses one key for its socket and its requests.
Asks(k) == Service!Ask(k, RequestFor(payload[k])) /\ UNCHANGED history

Refetch(k) == payload[k] # None /\ Asks(k) /\ Sockets!Refetch(k)

Poll(k) == payload[k] # None /\ Asks(k) /\ Sockets!Poll(k)

\* What an SDK knows after an answer; one it cannot use leaves it as it was.
Knows(k, answer) ==
    IF answer.status = 200
    THEN [s \in ServerSdkKeys |-> IF s = answer.body THEN held[s] ELSE 0]
    ELSE seen[k]

Answered(k) ==
    /\ Service!Answer(k)
    /\ reply'[k].status # 400
    /\ Sockets!Learn(k, Knows(k, reply'[k]))
    /\ last' = [last EXCEPT ![k] = KeyOf(mapping, request[k])]
    /\ UNCHANGED only

-----------------------------------------------------------------------------

Next ==
    \/ Map
    \/ \E s \in ServerSdkKeys, n \in Sockets!Versions :
          Connect(s, n) \/ Update(s, n) \/ \E c \in ClientSdkKeys : Boot(c, s, n)
    \/ \E s \in ServerSdkKeys : Drop(s)
    \/ Socket
    \/ \E k \in Sdks : Register(k) \/ Refetch(k) \/ Poll(k) \/ Answered(k)

Spec == Init /\ [][Next]_vars

\* Spawned tasks run, an SDK that is told to fetch does, and it is answered.
Fairness ==
    /\ \A p \in Sockets!Notifications :
          WF_vars(UNCHANGED <<serviceVars, history>> /\ Sockets!Notify(p))
    /\ \A k \in Sdks : WF_vars(Register(k)) /\ WF_vars(Refetch(k)) /\ WF_vars(Answered(k))

FairSpec == Spec /\ Fairness

-----------------------------------------------------------------------------

\* Every variable has the shape that the two components give it.
TypeOK ==
    /\ Sockets!TypeOK
    /\ mode \in {"boot", "keys", "local"}
    /\ published \in Seq(Mappings)
    /\ version \in Nat
    /\ mapping \in Mappings
    /\ clients \in [ServerSdkKeys -> ClientStates]
    /\ request \in [Sdks -> {RequestFor(key) : key \in Sockets!Keys} \cup {NoRequest}]
    /\ reply \in [Sdks -> Responses \cup {NoReply}]
    /\ only \in [ServerSdkKeys -> ClientSdkKeys \cup {None}]
    /\ last \in [Sdks -> ServerSdkKeys \cup {None}]

\* The inductive invariant behind the theorem of ServerProofs: an SDK need only
\* be reached by the callback, only a ready client holds toggles, and the only
\* client key of s is the one its callback captured.
IInv ==
    /\ TypeOK
    /\ version = 0 => mapping = NoMapping
    /\ \A s \in ServerSdkKeys :
          /\ clients[s] # "ready" => held[s] = 0
          /\ only[s] # None => s \in Live /\ captured[s] = only[s]
          /\ \A k \in Sockets!Audience(s) : last[k] = s => Sockets!Told(s, k)

\* The sockets that hear of an update of s: those registered under s, or under
\* the only client key that the mapping had for s.
Entitled(s) == IF s \in Live THEN rooms[s] \cup Sockets!Room(only[s]) ELSE {}

\* An SDK that was last answered about s, and is entitled to hear of it, has the
\* toggles of s or is on its way to them, however mappings, updates, sockets and
\* answers interleave (repo.rs:181-234, 244-263, realtime.rs:41-80).
NoSdkBehind ==
    \A s \in ServerSdkKeys : \A k \in Entitled(s) :
        last[k] = s => Sockets!Told(s, k)

\* An announced version reaches the SDK through the socket, its own fetch and
\* the answer to it, unless its key is mapped elsewhere meanwhile (realtime.rs:
\* 41-80, repo.rs:120-170, 257-261).
AnnouncementsArrive ==
    \A s \in ServerSdkKeys, k \in Sdks, n \in 1..MaxUpdates :
        (/\ k \in Entitled(s)
         /\ held[s] = n
         /\ [server |-> s, client |-> captured[s]] \in pending)
        ~> (\/ k \notin Entitled(s)
            \/ seen[k][s] >= n
            \/ KeyOf(mapping, RequestFor(payload[k])) # s)

\* The SDK knows the toggles that the client of its key holds and no others,
\* unless that client has yet to get them or the mapping to arrive.
Current(k) ==
    LET s == KeyOf(mapping, RequestFor(payload[k]))
    IN  payload[k] # None /\ (IF s = None THEN version > 0 ELSE clients[s] = "ready")
            => seen[k] = [x \in ServerSdkKeys |-> IF x = s THEN held[x] ELSE 0]

\* Once the API changes nothing any more, an SDK that keeps its key and goes on
\* asking ends up with the toggles of its key, also when nobody ever tells it to
\* fetch: when its client key came after the client, when the callback was set up
\* before the pair was inserted or after the first toggles, or when it was
\* answered 503 or about another key first
\* (repo.rs:72-76, 120-170, 202-207, 244-263).
AskingCatchesUp ==
    \A k \in Sdks :
        <>[][payload'[k] = payload[k]]_vars /\ []<>Asking[k] => <>[]Current(k)

=============================================================================
