----------------------------- MODULE Forwarding -----------------------------
(***************************************************************************)
(* What POST /api/events promises (src/src/http/handler.rs:197-278), with  *)
(* no headers, tasks, messages or timeouts: a batch is decided on in one   *)
(* step.  It is refused, or accepted under the server key that its sender  *)
(* has at that moment, and each service that has a URL may then get it,    *)
(* once, under that key.  Events implements it.                            *)
(***************************************************************************)
EXTENDS SecretMapping, Sequences

CONSTANTS
    Batches,         \* POST /api/events requests, each made once
    ClientPrefixed,  \* the keys that start with "client"
    Services,        \* what a batch may be sent to
    Configured       \* those of them that have a URL

VARIABLES
    mapping,   \* the mapping in force
    answer,    \* how far a batch is: "none", "waiting", "accepted", "200" or "401"
    asked,     \* the key it came with
    key,       \* the server key it is accepted under
    received   \* the keys under which a service got it

vars == <<mapping, answer, asked, key, received>>

\* Whose events come with key k under mapping m, None if nobody's.
Sender(k, m) ==
    IF k \in ClientPrefixed
    THEN IF k \in ClientSdkKeys THEN m[k] ELSE None
    ELSE k

Init ==
    /\ mapping = NoMapping
    /\ answer = [b \in Batches |-> "none"]
    /\ asked = [b \in Batches |-> None]
    /\ key = [b \in Batches |-> None]
    /\ received = [b \in Batches |-> [v \in Services |-> <<>>]]

Map(m) ==
    /\ mapping' = m
    /\ UNCHANGED <<answer, asked, key, received>>

Post(b, k) ==
    /\ answer[b] = "none"
    /\ answer' = [answer EXCEPT ![b] = "waiting"]
    /\ asked' = [asked EXCEPT ![b] = k]
    /\ UNCHANGED <<mapping, key, received>>

Refuse(b) ==
    /\ answer[b] = "waiting"
    /\ Sender(asked[b], mapping) = None
    /\ answer' = [answer EXCEPT ![b] = "401"]
    /\ UNCHANGED <<mapping, asked, key, received>>

Accept(b) ==
    /\ answer[b] = "waiting"
    /\ Sender(asked[b], mapping) # None
    /\ answer' = [answer EXCEPT ![b] = "accepted"]
    /\ key' = [key EXCEPT ![b] = Sender(asked[b], mapping)]
    /\ UNCHANGED <<mapping, asked, received>>

Confirm(b) ==
    /\ answer[b] = "accepted"
    /\ answer' = [answer EXCEPT ![b] = "200"]
    /\ UNCHANGED <<mapping, asked, key, received>>

\* Before or after the answer, or never.
Forward(b, v) ==
    /\ answer[b] \in {"accepted", "200"}
    /\ received[b][v] = <<>>
    /\ received' = [received EXCEPT ![b][v] = <<key[b]>>]
    /\ UNCHANGED <<mapping, answer, asked, key>>

Next ==
    \/ \E m \in Mappings : Map(m)
    \/ \E b \in Batches : Refuse(b) \/ Accept(b) \/ Confirm(b)
    \/ \E b \in Batches, k \in ClientSdkKeys \cup ServerSdkKeys : Post(b, k)
    \/ \E b \in Batches, v \in Configured : Forward(b, v)

Spec == Init /\ [][Next]_vars

=============================================================================
