------------------------------- MODULE Events -------------------------------
(***************************************************************************)
(* Event forwarding (src/src/http/handler.rs:197-278): a batch of events   *)
(* is answered at once and sent to one or two services by tasks that       *)
(* nobody waits for.                                                       *)
(*                                                                         *)
(* The services, the network and the HTTP client are external: a message   *)
(* may arrive late, after its task has given up, or never.  The events     *)
(* themselves and the headers other than the key are left out.             *)
(***************************************************************************)
EXTENDS SecretMapping, Sequences

CONSTANTS
    Batches,         \* POST /api/events requests, each made once
    ClientPrefixed,  \* the keys that start with "client"
    HasAnalysis      \* an analysis_url is configured

Keys == ClientSdkKeys \cup ServerSdkKeys

ASSUME PrefixAssumption == ClientPrefixed \subseteq Keys

ASSUME AnalysisAssumption == HasAnalysis \in BOOLEAN

Services == {"events", "analysis"}

Configured == {"events"} \cup (IF HasAnalysis THEN {"analysis"} ELSE {})

VARIABLES
    mapping,   \* the mapping of the repository
    pc,        \* where handle_events is with a batch, at the end its status
    sdk_key,   \* the key the batch came with
    header,    \* the key in the headers of the sends
    task,      \* do_send_events for a batch and a service
    wire,      \* messages under way
    received,  \* the keys under which a service got a batch, in order
    since      \* every key sdk_key stood for until the answer (history)

batchVars == <<pc, sdk_key, header>>
sendVars  == <<task, wire, received>>
vars == <<mapping, batchVars, sendVars, since>>

\* Fault: `unwrap_or(sdk_key)`, a client key that is not mapped is passed on.
ServerKeyUntranslated(k, m) ==
    IF k \in ClientPrefixed \cap ClientSdkKeys /\ m[k] # None THEN m[k] ELSE k

\* The server key of a batch, or None if it must be refused.
ServerKey(k, m) ==
    CASE k \notin ClientPrefixed -> k
      [] k \in ClientPrefixed \cap ClientSdkKeys -> m[k]
      [] OTHER -> None

Init ==
    /\ mapping = NoMapping
    /\ pc = [b \in Batches |-> "free"]
    /\ sdk_key = [b \in Batches |-> None]
    /\ header = [b \in Batches |-> None]
    /\ task = [b \in Batches |-> [v \in Services |-> "none"]]
    /\ wire = {}
    /\ received = [b \in Batches |-> [v \in Services |-> <<>>]]
    /\ since = [b \in Batches |-> {}]

-----------------------------------------------------------------------------

InHandler(b) == pc[b] \in {"received", "authorized", "halfway", "forwarded"}

\* The repository takes a new mapping, whatever the handlers are doing.
UpdateMapping(m) ==
    /\ mapping' = m
    /\ since' = [b \in Batches |->
                    IF InHandler(b) THEN since[b] \cup {ServerKey(sdk_key[b], m)}
                                    ELSE since[b]]
    /\ UNCHANGED <<batchVars, sendVars>>

Receive(b, k) ==
    /\ pc[b] = "free"
    /\ pc' = [pc EXCEPT ![b] = "received"]
    /\ sdk_key' = [sdk_key EXCEPT ![b] = k]
    /\ since' = [since EXCEPT ![b] = {ServerKey(k, mapping)}]
    /\ UNCHANGED <<mapping, header, sendVars>>

\* A client key is translated with a copy of the mapping; 401 if it has none.
Authorize(b) ==
    /\ pc[b] = "received"
    /\ LET key == ServerKey(sdk_key[b], mapping)
       IN  /\ header' = [header EXCEPT ![b] = key]
           /\ pc' = [pc EXCEPT ![b] = IF key = None THEN "401" ELSE "authorized"]
    /\ UNCHANGED <<mapping, sdk_key, sendVars, since>>

Spawn(b, v, from, to) ==
    /\ pc[b] = from
    /\ pc' = [pc EXCEPT ![b] = to]
    /\ task' = [task EXCEPT ![b][v] = IF v \in Configured THEN "spawned" ELSE @]
    /\ UNCHANGED <<mapping, sdk_key, header, wire, received, since>>

\* Fault: the events service is only served when there is no other.
SendEventsEither(b) ==
    \/ Spawn(b, "analysis", "authorized", IF HasAnalysis THEN "forwarded" ELSE "halfway")
    \/ Spawn(b, "events", "halfway", "forwarded")

\* send_events, whose tasks run from the moment they are spawned.
SendEvents(b) ==
    Spawn(b, "analysis", "authorized", "halfway") \/ Spawn(b, "events", "halfway", "forwarded")

Respond(b) ==
    /\ pc[b] = "forwarded"
    /\ pc' = [pc EXCEPT ![b] = "200"]
    /\ UNCHANGED <<mapping, sdk_key, header, sendVars, since>>

-----------------------------------------------------------------------------

Message(b, v, key) == [batch |-> b, service |-> v, key |-> key]

\* Fault: the key is translated when the task gets to run.
SendTranslatesLate(b, v) ==
    /\ task[b][v] = "spawned"
    /\ task' = [task EXCEPT ![b][v] = "waiting"]
    /\ wire' = wire \cup {Message(b, v, ServerKey(sdk_key[b], mapping))}
    /\ UNCHANGED <<mapping, batchVars, received, since>>

\* do_send_events: the request goes out.
Send(b, v) ==
    /\ task[b][v] = "spawned"
    /\ task' = [task EXCEPT ![b][v] = "waiting"]
    /\ wire' = wire \cup {Message(b, v, header[b])}
    /\ UNCHANGED <<mapping, batchVars, received, since>>

\* Fault: a failed send is tried again.
FailRetries(b, v) ==
    /\ task[b][v] \in {"spawned", "waiting"}
    /\ task' = [task EXCEPT ![b][v] = "spawned"]
    /\ UNCHANGED <<mapping, batchVars, wire, received, since>>

\* Fault: the request is made without `.timeout(timeout)`.
FailToConnect(b, v) ==
    /\ task[b][v] = "spawned"
    /\ task' = [task EXCEPT ![b][v] = "ended"]
    /\ UNCHANGED <<mapping, batchVars, wire, received, since>>

\* No connection, or the timeout of the request: logged, and that is all.
Fail(b, v) ==
    /\ task[b][v] \in {"spawned", "waiting"}
    /\ task' = [task EXCEPT ![b][v] = "ended"]
    /\ UNCHANGED <<mapping, batchVars, wire, received, since>>

\* A response, of whatever status, comes back in time.
Succeed(b, v) ==
    /\ task[b][v] = "waiting"
    /\ received[b][v] # <<>>
    /\ task' = [task EXCEPT ![b][v] = "ended"]
    /\ UNCHANGED <<mapping, batchVars, wire, received, since>>

Deliver(m) ==
    /\ m \in wire
    /\ wire' = wire \ {m}
    /\ received' = [received EXCEPT ![m.batch][m.service] = Append(@, m.key)]
    /\ UNCHANGED <<mapping, batchVars, task, since>>

Lose(m) ==
    /\ m \in wire
    /\ wire' = wire \ {m}
    /\ UNCHANGED <<mapping, batchVars, task, received, since>>

-----------------------------------------------------------------------------

Next ==
    \/ \E m \in Mappings : UpdateMapping(m)
    \/ \E b \in Batches, k \in Keys : Receive(b, k)
    \/ \E b \in Batches : Authorize(b) \/ SendEvents(b) \/ Respond(b)
    \/ \E b \in Batches, v \in Services : Send(b, v) \/ Fail(b, v) \/ Succeed(b, v)
    \/ \E m \in wire : Deliver(m) \/ Lose(m)

\* Handlers and tasks are run, and the timer of a request goes off.  Nothing is
\* assumed of the network and the services.
Fairness ==
    \A b \in Batches :
        /\ WF_vars(Authorize(b)) /\ WF_vars(SendEvents(b)) /\ WF_vars(Respond(b))
        /\ \A v \in Services : WF_vars(Fail(b, v))

Spec == Init /\ [][Next]_vars

FairSpec == Spec /\ Fairness

-----------------------------------------------------------------------------

\* Every variable has the shape the code gives it (handler.rs:197-278).
TypeOK ==
    /\ mapping \in Mappings
    /\ pc \in [Batches -> {"free", "received", "authorized", "halfway", "forwarded",
                           "200", "401"}]
    /\ sdk_key \in [Batches -> Keys \cup {None}]
    /\ header \in [Batches -> Keys \cup {None}]
    /\ task \in [Batches -> [Services -> {"none", "spawned", "waiting", "ended"}]]
    /\ wire \subseteq [batch : Batches, service : Services, key : Keys]
    /\ received \in [Batches -> [Services -> Seq(Keys)]]
    /\ since \in [Batches -> SUBSET (Keys \cup {None})]

\* A service gets a batch at most once, also when a send that timed out arrives
\* after all, and only a batch that was accepted (handler.rs:214, 236-278).
ReceivedAtMostOnce ==
    \A b \in Batches, v \in Services :
        Len(received[b][v]) <= IF pc[b] \in {"halfway", "forwarded", "200"} THEN 1 ELSE 0

\* Services get a batch under the same key, one that its sender stood for while
\* it was being answered, however late it is sent and whatever becomes of the
\* mapping meanwhile (handler.rs:208-220).
SentUnderOwnKey ==
    \A b \in Batches, v, w \in Services :
        \A i \in DOMAIN received[b][v] :
            /\ received[b][v][i] \in since[b] \ {None}
            /\ \A j \in DOMAIN received[b][w] : received[b][w][j] = received[b][v][i]

\* A refused batch had no server key at some moment before its answer, and nobody
\* is sent it; one that is answered 200 has been given to a task for each
\* configured service, and to no other (handler.rs:208-256).
AnsweredForCause ==
    \A b \in Batches :
        /\ pc[b] = "401" => None \in since[b] /\ \A v \in Services : task[b][v] = "none"
        /\ pc[b] = "200" => \A v \in Services : (task[b][v] # "none") <=> (v \in Configured)

\* How far a batch is, as its sender and the services see it.
Answer ==
    [b \in Batches |-> CASE pc[b] = "free" -> "none"
                        [] pc[b] = "received" -> "waiting"
                        [] pc[b] \in {"200", "401"} -> pc[b]
                        [] OTHER -> "accepted"]

Promise == INSTANCE Forwarding WITH answer <- Answer, asked <- sdk_key, key <- header

\* Whatever the spawned tasks, the network and the mapping do, nobody can tell the
\* handler from one that decides on a batch in one step and then hands it to each
\* service at most once, under the key that it has decided on (handler.rs:197-278).
ImplementsForwarding == Promise!Spec

Settled(b) ==
    \/ pc[b] = "401" /\ \A v \in Services : task[b][v] = "none"
    \/ pc[b] = "200" /\ \A v \in Services :
           task[b][v] = IF v \in Configured THEN "ended" ELSE "none"

\* Every batch is answered, and the tasks of those that are accepted end, one for
\* each configured service, even if no service ever answers (handler.rs:231-277).
BatchesSettle == \A b \in Batches : pc[b] = "received" ~> Settled(b)

=============================================================================
