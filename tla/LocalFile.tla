----------------------------- MODULE LocalFile -----------------------------
(***************************************************************************)
(* LocalFileHttpHandlerForTest (src/src/http/handler.rs:296-428): the API  *)
(* that the tests and examples/local_file.rs put in front of FPClients.    *)
(* The handler is shared by all connections; what it keeps is one body     *)
(* under a mutex, of which only the version matters here.                  *)
(***************************************************************************)
EXTENDS Naturals, FiniteSets

CONSTANTS
    Connections,     \* of FPClients, each with one request at a time
    version_update,  \* whether every fetch of the toggles is a new version
    MaxVersion       \* bound on the versions

ASSUME VersionUpdateAssumption == version_update \in BOOLEAN

ASSUME MaxVersionAssumption == MaxVersion \in Nat \ {0}

VARIABLES
    body,   \* version of the body in memory, 0 while there is none
    lock,   \* the connection whose request holds the mutex, at most one
    pc,     \* where the handler of each connection is
    copy,   \* version of the body it has copied, 0 for none
    given   \* versions that each connection has been answered with

vars == <<body, lock, pc, copy, given>>

\* The version of resources/fixtures/repo.json.
Fixture == 1

Init ==
    /\ body = 0
    /\ lock = {}
    /\ pc = [k \in Connections |-> "idle"]
    /\ copy = [k \in Connections |-> 0]
    /\ given = [k \in Connections |-> {}]

Busy == {k \in Connections : pc[k] # "idle"}

\* The bound is on the requests that can still make a version.
Receive(k) ==
    /\ pc[k] = "idle"
    /\ body + Cardinality(Busy) < MaxVersion
    /\ pc' = [pc EXCEPT ![k] = "body"]
    /\ UNCHANGED <<body, lock, copy, given>>

\* The body is read from the file the first time, and copied.
ReadBody(k) ==
    /\ pc[k] = "body"
    /\ lock = {}
    /\ body' = IF body = 0 THEN Fixture ELSE body
    /\ copy' = [copy EXCEPT ![k] = body']
    /\ pc' = [pc EXCEPT ![k] = "update"]

\* Fault: the guard is dropped with the statement that copies the body.
CopyUnlocked(k) == ReadBody(k) /\ UNCHANGED <<lock, given>>

\* The first half of server_sdk_toggles: the guard lives until it returns.
Copy(k) == ReadBody(k) /\ lock' = {k} /\ UNCHANGED given

\* The second half: the next request gets the next version, this one its copy.
Update(k) ==
    /\ pc[k] = "update"
    /\ body' = IF version_update THEN copy[k] + 1 ELSE body
    /\ given' = [given EXCEPT ![k] = @ \cup {copy[k]}]
    /\ copy' = [copy EXCEPT ![k] = 0]
    /\ pc' = [pc EXCEPT ![k] = "idle"]
    /\ lock' = lock \ {k}

\* The other handlers answer `{}`, nothing, or resources/fixtures/secrets.json.
Fixed(k) == pc[k] = "idle" /\ UNCHANGED vars

Next == \E k \in Connections : Receive(k) \/ Copy(k) \/ Update(k) \/ Fixed(k)

Spec == Init /\ [][Next]_vars

-----------------------------------------------------------------------------

\* With version_update an FPClient gets a newer version by every fetch, so it
\* runs its callback, and shares none with another one (handler.rs:316-336).
EveryFetchIsNew ==
    [][version_update =>
          \A k \in Connections : \A v \in given'[k] \ given[k] :
              \A j \in Connections : \A w \in given[j] : w < v]_vars

=============================================================================
