---------------------------- MODULE SdkRequests ----------------------------
(***************************************************************************)
(* The requests that reach the repository through the routes of            *)
(* src/src/http/mod.rs, and what the handlers (src/src/http/handler.rs)    *)
(* may answer them with, given the mapping and the clients of that moment. *)
(***************************************************************************)
EXTENDS SecretMapping

ServerOps == {"server_sdk_toggles", "update_toggles"}
ClientOps == {"client_sdk_toggles", "client_sdk_events", "all_secrets"}

\* all_secrets has no parameter: its key is the one, any, that the reader looks
\* up in the mapping it returns.
Requests == [op : ServerOps, key : ServerSdkKeys]
              \cup [op : ClientOps, key : ClientSdkKeys]

\* "empty" is `{}` or the default repository, which has no toggles.
Responses == [status : {200, 400, 503}, body : ServerSdkKeys \cup {"empty"}]

\* An idle connection, and one whose request has not been answered.
NoRequest == [op |-> "none", key |-> None]
NoReply   == [status |-> 0, body |-> "empty"]

ClientStates == {"absent", "loading", "ready"}

-----------------------------------------------------------------------------

Mapped(m, s) == \E c \in ClientSdkKeys : m[c] = s

\* The server key that request r is about, None when the mapping has none.
KeyOf(m, r) ==
    IF r.op \in ServerOps THEN IF Mapped(m, r.key) THEN r.key ELSE None
    ELSE m[r.key]

\* What r may be answered while the repository holds the mapping m under this
\* version and its clients are in these states.
Answers(version, m, clients, r) ==
    LET key == KeyOf(m, r)
    IN  {a \in Responses :
            \/ /\ r.op = "update_toggles"
               /\ a = [status |-> IF clients[r.key] = "absent" THEN 400 ELSE 200,
                       body   |-> "empty"]
            \/ /\ r.op = "all_secrets"
               /\ a = [status |-> 200, body |-> IF key = None THEN "empty" ELSE key]
            \/ /\ r.op = "client_sdk_toggles"
               /\ a = [status |-> 400, body |-> "empty"]
            \/ /\ r.op \notin {"update_toggles", "all_secrets"}
               /\ \/ /\ version > 0 /\ key # None /\ clients[key] = "ready"
                     /\ a = [status |-> 200, body |-> key]
                  \/ /\ version > 0 /\ key = None
                     /\ a = [status |-> 200, body |-> "empty"]
                  \/ /\ version = 0 \/ (key # None /\ clients[key] # "ready")
                     /\ a = [status |-> 503, body |-> "empty"]}

=============================================================================
