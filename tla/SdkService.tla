----------------------------- MODULE SdkService -----------------------------
(***************************************************************************)
(* What the repository promises the SDKs, with no locks, tasks or reverse  *)
(* index: mappings are taken whole and only in the order they were         *)
(* published, mapped keys get a client and unmapped ones lose it, and a    *)
(* request is answered in one step from one state of both maps.  SdkRepo   *)
(* implements it.                                                          *)
(***************************************************************************)
EXTENDS SdkRequests, Sequences

CONSTANTS
    Handlers,    \* HTTP connections
    MaxVersion   \* bound: how many mappings the API publishes

VARIABLES
    mode,       \* "boot", then "keys" (FP_KEYS_URL is set) or "local"
    published,  \* the API's mappings, version v at index v (external)
    version,    \* the version of the mapping in force
    mapping,    \* the mapping in force
    clients,    \* how far the client of each server key is
    request,    \* the request on each connection
    reply       \* the response to the last one

source == <<mode, published>>
store  == <<version, mapping, clients>>
http   == <<request, reply>>
vars   == <<source, store, http>>

Init ==
    /\ mode = "boot"
    /\ published = <<>>
    /\ version = 0
    /\ mapping = NoMapping
    /\ clients = [s \in ServerSdkKeys |-> "absent"]
    /\ request = [h \in Handlers |-> NoRequest]
    /\ reply = [h \in Handlers |-> NoReply]

Follow ==
    /\ mode = "boot"
    /\ mode' = "keys"
    /\ UNCHANGED <<published, store, http>>

\* FPClient::new starts to fetch: a client may have toggles before it is in the map.
Fresh == {"loading", "ready"}

\* One pair of keys, and no other ever.
Configure(c, s, v, state) ==
    /\ mode = "boot"
    /\ mode' = "local"
    /\ version' = v
    /\ mapping' = [mapping EXCEPT ![c] = s]
    /\ clients' = [clients EXCEPT ![s] = state]
    /\ UNCHANGED <<published, http>>

Publish(m) ==
    /\ Len(published) < MaxVersion
    /\ published' = Append(published, m)
    /\ UNCHANGED <<mode, store, http>>

Adopt(v) ==
    /\ mode = "keys"
    /\ v \in 1..Len(published) /\ v > version
    /\ version' = v
    /\ mapping' = published[v]
    /\ UNCHANGED <<source, clients, http>>

\* A client is new, or takes the place of one.
Create(s, state) ==
    /\ mode = "keys"
    /\ Mapped(mapping, s)
    /\ clients' = [clients EXCEPT ![s] = state]
    /\ UNCHANGED <<source, version, mapping, http>>

Remove(s) ==
    /\ mode = "keys"
    /\ ~Mapped(mapping, s)
    /\ clients' = [clients EXCEPT ![s] = "absent"]
    /\ UNCHANGED <<source, version, mapping, http>>

Initialize(s) ==
    /\ clients[s] = "loading"
    /\ clients' = [clients EXCEPT ![s] = "ready"]
    /\ UNCHANGED <<source, version, mapping, http>>

Ask(h, r) ==
    /\ mode # "boot"
    /\ request[h] = NoRequest
    /\ request' = [request EXCEPT ![h] = r]
    /\ reply' = [reply EXCEPT ![h] = NoReply]
    /\ UNCHANGED <<source, store>>

Answer(h) ==
    /\ request[h] # NoRequest
    /\ \E a \in Answers(version, mapping, clients, request[h]) :
          reply' = [reply EXCEPT ![h] = a]
    /\ request' = [request EXCEPT ![h] = NoRequest]
    /\ UNCHANGED <<source, store>>

Start ==
    \/ Follow
    \/ \E c \in ClientSdkKeys, s \in ServerSdkKeys, v \in {0, 1}, state \in Fresh :
          Configure(c, s, v, state)

Next ==
    \/ Start
    \/ \E m \in Mappings : Publish(m)
    \/ \E v \in 1..Len(published) : Adopt(v)
    \/ \E s \in ServerSdkKeys :
          Remove(s) \/ Initialize(s) \/ \E state \in Fresh : Create(s, state)
    \/ \E h \in Handlers : Answer(h) \/ \E r \in Requests : Ask(h, r)

Spec == Init /\ [][Next]_vars

=============================================================================
