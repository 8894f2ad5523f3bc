---------------------------- MODULE EventsProofs ----------------------------
(* Event forwarding, for any number of keys and batches, with and without  *)
(* an analysis service.                                                    *)
EXTENDS Events, TLAPS

\* What a batch's tasks, its messages under way and the services know of it.
BatchInv ==
    \A b \in Batches :
        /\ pc[b] \in {"free", "received", "authorized", "401"} =>
               \A v \in Services : task[b][v] = "none"
        /\ pc[b] \in {"free", "received", "401"} => header[b] = None
        /\ pc[b] = "received" => ServerKey(sdk_key[b], mapping) \in since[b]
        /\ pc[b] = "halfway" => task[b]["events"] = "none"
        /\ pc[b] \in {"halfway", "forwarded", "200"} =>
               (task[b]["analysis"] # "none" <=> "analysis" \in Configured)
        /\ pc[b] \in {"forwarded", "200"} => task[b]["events"] # "none"
        /\ pc[b] = "401" => None \in since[b]
        /\ pc[b] \in {"authorized", "halfway", "forwarded", "200"} =>
               header[b] \in since[b] \ {None}

WireInv ==
    \A m \in wire :
        /\ task[m.batch][m.service] \in {"waiting", "ended"}
        /\ received[m.batch][m.service] = <<>>
        /\ m.key = header[m.batch]

ReceivedInv ==
    \A b \in Batches, v \in Services :
        received[b][v] # <<>> =>
            /\ task[b][v] \in {"waiting", "ended"}
            /\ received[b][v] = <<header[b]>>

EInv == TypeOK /\ BatchInv /\ WireInv /\ ReceivedInv

\* What a batch stands for is a key or None (handler.rs:209-218).
LEMMA ServerKeyType ==
    ASSUME NEW k \in Keys, NEW m \in Mappings
    PROVE  ServerKey(k, m) \in Keys \cup {None}
BY DEF ServerKey, Mappings, Keys

(***************************************************************************)
(* Each step keeps the types (handler.rs:197-278).                         *)
(***************************************************************************)
LEMMA TypeStep ==
    ASSUME TypeOK, BatchInv, [Next]_vars
    PROVE  TypeOK'
<1> USE DEF batchVars, sendVars
<1>1. ASSUME NEW m \in Mappings, UpdateMapping(m) PROVE TypeOK'
  <2>1. \A b \in Batches : InHandler(b) => sdk_key[b] \in Keys \cup {None}
    BY DEF TypeOK
  <2>2. \A b \in Batches : ServerKey(sdk_key[b], m) \in Keys \cup {None}
    BY DEF TypeOK, ServerKey, Mappings, Keys
  <2> QED
    BY <1>1, <2>2 DEF UpdateMapping, TypeOK
<1>2. ASSUME NEW b \in Batches, NEW k \in Keys, Receive(b, k) PROVE TypeOK'
  <2>1. ServerKey(k, mapping) \in Keys \cup {None}
    BY ServerKeyType DEF TypeOK
  <2> QED
    BY <1>2, <2>1 DEF Receive, TypeOK
<1>3. ASSUME NEW b \in Batches, Authorize(b) PROVE TypeOK'
  <2>1. ServerKey(sdk_key[b], mapping) \in Keys \cup {None}
    BY DEF TypeOK, ServerKey, Mappings, Keys
  <2> QED
    BY <1>3, <2>1 DEF Authorize, TypeOK
<1>4. ASSUME NEW b \in Batches, SendEvents(b) PROVE TypeOK'
  <2>1. CASE Spawn(b, "analysis", "authorized", "halfway")
    BY <2>1 DEF Spawn, TypeOK, Services
  <2>2. CASE Spawn(b, "events", "halfway", "forwarded")
    BY <2>2 DEF Spawn, TypeOK, Services
  <2> QED
    BY <1>4, <2>1, <2>2 DEF SendEvents
<1>5. ASSUME NEW b \in Batches, Respond(b) PROVE TypeOK'
  BY <1>5 DEF Respond, TypeOK
<1>6. ASSUME NEW b \in Batches, NEW v \in Services, Send(b, v) PROVE TypeOK'
  <2>1. header[b] \in Keys
    BY <1>6 DEF Send, BatchInv, TypeOK, Services
  <2> QED
    BY <1>6, <2>1 DEF Send, Message, TypeOK
<1>7. ASSUME NEW b \in Batches, NEW v \in Services, Fail(b, v) \/ Succeed(b, v)
      PROVE  TypeOK'
  <2>1. CASE Fail(b, v)
    BY <2>1 DEF Fail, TypeOK
  <2>2. CASE Succeed(b, v)
    BY <2>2 DEF Succeed, TypeOK
  <2> QED
    BY <1>7, <2>1, <2>2
<1>8. ASSUME NEW m \in wire, Deliver(m) \/ Lose(m) PROVE TypeOK'
  <2>1. CASE Deliver(m)
    <3>1. m.batch \in Batches /\ m.service \in Services /\ m.key \in Keys
      BY DEF TypeOK
    <3>2. Append(received[m.batch][m.service], m.key) \in Seq(Keys)
      BY <3>1 DEF TypeOK
    <3>3. received' \in [Batches -> [Services -> Seq(Keys)]]
      BY <2>1, <3>1, <3>2 DEF Deliver, TypeOK
    <3> QED
      BY <2>1, <3>3 DEF Deliver, TypeOK
  <2>2. CASE Lose(m)
    BY <2>2 DEF Lose, TypeOK
  <2> QED
    BY <1>8, <2>1, <2>2
<1>9. CASE UNCHANGED vars
  BY <1>9 DEF vars, TypeOK
<1> QED
  BY <1>1, <1>2, <1>3, <1>4, <1>5, <1>6, <1>7, <1>8, <1>9 DEF Next

(***************************************************************************)
(* A batch has no tasks before it is accepted, and what is accepted has a  *)
(* key that its sender stood for (handler.rs:208-231).                     *)
(***************************************************************************)
LEMMA BatchStep ==
    ASSUME TypeOK, BatchInv, ReceivedInv, [Next]_vars
    PROVE  BatchInv'
<1> USE DEF batchVars, sendVars
<1>1. ASSUME NEW m \in Mappings, UpdateMapping(m) PROVE BatchInv'
  BY <1>1 DEF UpdateMapping, TypeOK, BatchInv, InHandler
<1>2. ASSUME NEW b \in Batches, NEW k \in Keys, Receive(b, k) PROVE BatchInv'
  BY <1>2 DEF Receive, TypeOK, BatchInv
<1>3. ASSUME NEW b \in Batches, Authorize(b) PROVE BatchInv'
  BY <1>3 DEF Authorize, TypeOK, BatchInv
<1>4. ASSUME NEW b \in Batches, SendEvents(b) PROVE BatchInv'
  <2>1. "events" \in Configured
    BY DEF Configured
  <2>2. CASE Spawn(b, "analysis", "authorized", "halfway")
    BY <2>2 DEF Spawn, TypeOK, BatchInv, Services
  <2>3. CASE Spawn(b, "events", "halfway", "forwarded")
    BY <2>1, <2>3 DEF Spawn, TypeOK, BatchInv, Services
  <2> QED
    BY <1>4, <2>2, <2>3 DEF SendEvents
<1>5. ASSUME NEW b \in Batches, Respond(b) PROVE BatchInv'
  BY <1>5 DEF Respond, TypeOK, BatchInv
<1>6. ASSUME NEW b \in Batches, NEW v \in Services, Send(b, v) PROVE BatchInv'
  BY <1>6 DEF Send, TypeOK, BatchInv, Services
<1>7. ASSUME NEW b \in Batches, NEW v \in Services, Fail(b, v) \/ Succeed(b, v)
      PROVE  BatchInv'
  <2>1. CASE Fail(b, v)
    BY <2>1 DEF Fail, TypeOK, BatchInv, Services
  <2>2. CASE Succeed(b, v)
    BY <2>2 DEF Succeed, TypeOK, BatchInv, Services
  <2> QED
    BY <1>7, <2>1, <2>2
<1>8. ASSUME NEW m \in wire, Deliver(m) \/ Lose(m) PROVE BatchInv'
  BY <1>8 DEF Deliver, Lose, BatchInv
<1>9. CASE UNCHANGED vars
  BY <1>9 DEF vars, BatchInv
<1> QED
  BY <1>1, <1>2, <1>3, <1>4, <1>5, <1>6, <1>7, <1>8, <1>9 DEF Next

(***************************************************************************)
(* A message under way is the first of its task and carries the key of the *)
(* headers; a service that has got a batch got that message.               *)
(***************************************************************************)
LEMMA SendStep ==
    ASSUME EInv, [Next]_vars
    PROVE  WireInv' /\ ReceivedInv'
<1> USE DEF batchVars, sendVars, EInv
<1>0. \A m \in wire : /\ m.batch \in Batches /\ m.service \in Services
                      /\ m = Message(m.batch, m.service, m.key)
  BY DEF TypeOK, Message
<1>1. ASSUME NEW m \in Mappings, UpdateMapping(m) PROVE WireInv' /\ ReceivedInv'
  BY <1>1 DEF UpdateMapping, WireInv, ReceivedInv
<1>2. ASSUME NEW b \in Batches, NEW k \in Keys, Receive(b, k)
      PROVE  WireInv' /\ ReceivedInv'
  BY <1>2 DEF Receive, WireInv, ReceivedInv
<1>3. ASSUME NEW b \in Batches, Authorize(b) PROVE WireInv' /\ ReceivedInv'
  <2>1. \A v \in Services : task[b][v] = "none"
    BY <1>3 DEF Authorize, BatchInv
  <2>2. \A x \in Batches : x # b => header'[x] = header[x]
    BY <1>3 DEF Authorize, TypeOK
  <2>3. WireInv'
    BY <1>0, <1>3, <2>1, <2>2 DEF Authorize, WireInv
  <2>4. ReceivedInv'
    BY <1>3, <2>1, <2>2 DEF Authorize, ReceivedInv
  <2> QED
    BY <2>3, <2>4
<1>4. ASSUME NEW b \in Batches, SendEvents(b) PROVE WireInv' /\ ReceivedInv'
  <2>1. \A x \in Batches, v \in Services :
            task[x][v] \in {"waiting", "ended"} => task'[x][v] = task[x][v]
    <3>1. CASE Spawn(b, "analysis", "authorized", "halfway")
      BY <3>1 DEF Spawn, TypeOK, BatchInv, Services
    <3>2. CASE Spawn(b, "events", "halfway", "forwarded")
      BY <3>2 DEF Spawn, TypeOK, BatchInv, Services
    <3> QED
      BY <1>4, <3>1, <3>2 DEF SendEvents
  <2>2. UNCHANGED <<header, wire, received>>
    BY <1>4 DEF SendEvents, Spawn
  <2> QED
    BY <1>0, <2>1, <2>2 DEF WireInv, ReceivedInv
<1>5. ASSUME NEW b \in Batches, Respond(b) PROVE WireInv' /\ ReceivedInv'
  BY <1>5 DEF Respond, WireInv, ReceivedInv
<1>6. ASSUME NEW b \in Batches, NEW v \in Services, Send(b, v)
      PROVE  WireInv' /\ ReceivedInv'
  <2>1. \A x \in Batches, w \in Services :
            task'[x][w] = IF x = b /\ w = v THEN "waiting" ELSE task[x][w]
    BY <1>6 DEF Send, TypeOK
  <2>2. received[b][v] = <<>> /\ UNCHANGED <<received, header>>
    BY <1>6 DEF Send, ReceivedInv
  <2>3. ASSUME NEW m \in wire'
        PROVE  /\ task'[m.batch][m.service] \in {"waiting", "ended"}
               /\ received[m.batch][m.service] = <<>>
               /\ m.key = header[m.batch]
    <3>1. CASE m \in wire
      BY <1>0, <2>1, <3>1 DEF WireInv
    <3>2. CASE m = Message(b, v, header[b])
      BY <2>1, <2>2, <3>2 DEF Message
    <3> QED
      BY <1>6, <3>1, <3>2 DEF Send
  <2>4. ReceivedInv'
    BY <2>1, <2>2 DEF ReceivedInv
  <2> QED
    BY <2>2, <2>3, <2>4 DEF WireInv
<1>7. ASSUME NEW b \in Batches, NEW v \in Services, Fail(b, v) \/ Succeed(b, v)
      PROVE  WireInv' /\ ReceivedInv'
  <2>1. \A x \in Batches, w \in Services :
            task'[x][w] = IF x = b /\ w = v THEN "ended" ELSE task[x][w]
    BY <1>7 DEF Fail, Succeed, TypeOK
  <2>2. UNCHANGED <<wire, received, header>>
    BY <1>7 DEF Fail, Succeed
  <2> QED
    BY <1>0, <2>1, <2>2 DEF WireInv, ReceivedInv
<1>8. ASSUME NEW m \in wire, Deliver(m) PROVE WireInv' /\ ReceivedInv'
  <2>1. \A x \in Batches, w \in Services :
            received'[x][w] = IF x = m.batch /\ w = m.service
                              THEN <<m.key>> ELSE received[x][w]
    <3>1. Append(received[m.batch][m.service], m.key) = <<m.key>>
      <4>1. received[m.batch][m.service] = <<>>
        BY DEF WireInv
      <4>2. Append(<<>>, m.key) = <<m.key>>
        OBVIOUS
      <4> QED
        BY <4>1, <4>2
    <3>2. received' = [received EXCEPT ![m.batch][m.service] = <<m.key>>]
      BY <1>8, <3>1 DEF Deliver
    <3> QED
      BY <1>0, <3>2 DEF TypeOK
  <2>2. UNCHANGED <<header, task>>
    BY <1>8 DEF Deliver
  <2>3. ASSUME NEW n \in wire'
        PROVE  n \in wire /\ (n.batch # m.batch \/ n.service # m.service)
    <3>1. n \in wire /\ n # m
      BY <1>8 DEF Deliver
    <3>2. n.key = header[n.batch] /\ m.key = header[m.batch]
      BY <3>1 DEF WireInv
    <3> QED
      BY <1>0, <3>1, <3>2
  <2>4. WireInv'
    BY <1>0, <2>1, <2>2, <2>3 DEF WireInv
  <2>5. ReceivedInv'
    BY <1>0, <2>1, <2>2 DEF ReceivedInv, WireInv
  <2> QED
    BY <2>4, <2>5
<1>9. ASSUME NEW m \in wire, Lose(m) PROVE WireInv' /\ ReceivedInv'
  BY <1>9 DEF Lose, WireInv, ReceivedInv
<1>10. CASE UNCHANGED vars
  BY <1>10 DEF vars, WireInv, ReceivedInv
<1> QED
  BY <1>1, <1>2, <1>3, <1>4, <1>5, <1>6, <1>7, <1>8, <1>9, <1>10 DEF Next

\* The invariant of event forwarding (handler.rs:197-278).
THEOREM EventsInvariant == Spec => []EInv
<1>1. Init => EInv
  BY DEF Init, EInv, TypeOK, BatchInv, WireInv, ReceivedInv, NoMapping, Mappings
<1>2. EInv /\ [Next]_vars => EInv'
  BY TypeStep, BatchStep, SendStep DEF EInv
<1> QED
  BY <1>1, <1>2, PTL DEF Spec

\* A service gets a batch at most once, and only one that was accepted
\* (handler.rs:214, 236-278).
THEOREM AtMostOnce == Spec => []ReceivedAtMostOnce
<1>1. EInv => ReceivedAtMostOnce
  <2> SUFFICES ASSUME EInv, NEW b \in Batches, NEW v \in Services
               PROVE  Len(received[b][v]) <=
                          IF pc[b] \in {"halfway", "forwarded", "200"} THEN 1 ELSE 0
    BY DEF ReceivedAtMostOnce
  <2>1. CASE received[b][v] = <<>>
    BY <2>1
  <2>2. CASE received[b][v] # <<>>
    <3>1. received[b][v] = <<header[b]>> /\ task[b][v] # "none"
      BY <2>2 DEF EInv, ReceivedInv
    <3>2. pc[b] \in {"halfway", "forwarded", "200"}
      BY <3>1 DEF EInv, BatchInv, TypeOK
    <3> QED
      BY <3>1, <3>2
  <2> QED
    BY <2>1, <2>2
<1> QED
  BY <1>1, EventsInvariant, PTL

\* Services get a batch under one key, which its sender stood for while it was
\* being answered (handler.rs:208-220).
THEOREM OwnKey == Spec => []SentUnderOwnKey
<1>1. EInv => SentUnderOwnKey
  <2> SUFFICES ASSUME EInv, NEW b \in Batches, NEW v \in Services, NEW w \in Services,
                      NEW i \in DOMAIN received[b][v]
               PROVE  /\ received[b][v][i] \in since[b] \ {None}
                      /\ \A j \in DOMAIN received[b][w] :
                             received[b][w][j] = received[b][v][i]
    BY DEF SentUnderOwnKey
  <2>1. received[b][v] = <<header[b]>> /\ task[b][v] # "none"
    BY DEF EInv, ReceivedInv
  <2>2. header[b] \in since[b] \ {None}
    BY <2>1 DEF EInv, BatchInv, TypeOK
  <2>3. received[b][w] = <<>> \/ received[b][w] = <<header[b]>>
    BY DEF EInv, ReceivedInv
  <2> QED
    BY <2>1, <2>2, <2>3
<1> QED
  BY <1>1, EventsInvariant, PTL

\* Only a batch that had no key is refused, and an accepted one is given to a
\* task for each configured service (handler.rs:208-256).
THEOREM AnswersHaveCause == Spec => []AnsweredForCause
<1>1. EInv => AnsweredForCause
  <2>1. "events" \in Configured
    BY DEF Configured
  <2> QED
    BY <2>1 DEF EInv, BatchInv, TypeOK, AnsweredForCause, Services
<1> QED
  BY <1>1, EventsInvariant, PTL

-----------------------------------------------------------------------------
(* The refinement.                                                         *)

\* Both have the same mappings, and name the sender of a key alike
\* (handler.rs:208-220).
LEMMA SenderIsServerKey ==
    /\ Promise!Mappings = Mappings
    /\ Promise!NoMapping = NoMapping
    /\ \A k, m : Promise!Sender(k, m) = ServerKey(k, m)
BY DEF Promise!Mappings, Mappings, Promise!NoMapping, NoMapping, Promise!Sender, ServerKey

\* A step that moves a batch to another place in the handler changes at most its
\* own answer (handler.rs:197-232).
LEMMA AnswerExcept ==
    ASSUME TypeOK, NEW b \in Batches, NEW label,
           pc' = [pc EXCEPT ![b] = label]
    PROVE  Answer' = [Answer EXCEPT ![b] = CASE label = "free" -> "none"
                                             [] label = "received" -> "waiting"
                                             [] label \in {"200", "401"} -> label
                                             [] OTHER -> "accepted"]
BY DEF Answer, TypeOK

\* An empty server promises nothing yet (handler.rs:197).
LEMMA ForwardingInit == Init => Promise!Init
BY SenderIsServerKey DEF Init, Promise!Init, Answer

\* The key is decided on in Authorize, a service gets a batch in Deliver, and no
\* other step is seen but the receipt and the answer (handler.rs:197-278).
LEMMA ForwardingStep ==
    ASSUME EInv, [Next]_vars
    PROVE  [Promise!Next]_(Promise!vars)
<1> USE DEF batchVars, sendVars
<1>0. TypeOK
  BY DEF EInv
<1>1. ASSUME NEW m \in Mappings, UpdateMapping(m) PROVE Promise!Map(m)
  BY <1>1 DEF UpdateMapping, Promise!Map, Answer
<1>2. ASSUME NEW b \in Batches, NEW k \in Keys, Receive(b, k) PROVE Promise!Post(b, k)
  <2>1. Answer[b] = "none"
    BY <1>2 DEF Receive, Answer
  <2>2. Answer' = [Answer EXCEPT ![b] = "waiting"]
    BY <1>0, <1>2, AnswerExcept DEF Receive
  <2> QED
    BY <1>2, <2>1, <2>2 DEF Receive, Promise!Post
<1>3. ASSUME NEW b \in Batches, Authorize(b) PROVE Promise!Refuse(b) \/ Promise!Accept(b)
  <2> DEFINE k == ServerKey(sdk_key[b], mapping)
  <2>1. Answer[b] = "waiting"
    BY <1>3 DEF Authorize, Answer
  <2>2. Promise!Sender(sdk_key[b], mapping) = k
    BY SenderIsServerKey
  <2>3. CASE k = None
    <3>1. Answer' = [Answer EXCEPT ![b] = "401"]
      BY <1>0, <1>3, <2>3, AnswerExcept DEF Authorize
    <3>2. UNCHANGED header
      BY <1>0, <1>3, <2>3 DEF Authorize, EInv, BatchInv, TypeOK
    <3> QED
      BY <1>3, <2>1, <2>2, <2>3, <3>1, <3>2 DEF Authorize, Promise!Refuse
  <2>4. CASE k # None
    <3>1. Answer' = [Answer EXCEPT ![b] = "accepted"]
      BY <1>0, <1>3, <2>4, AnswerExcept DEF Authorize
    <3> QED
      BY <1>3, <2>1, <2>2, <2>4, <3>1 DEF Authorize, Promise!Accept
  <2> QED
    BY <2>3, <2>4
<1>4. ASSUME NEW b \in Batches, SendEvents(b) PROVE UNCHANGED Promise!vars
  <2>1. PICK from \in {"authorized", "halfway"}, to \in {"halfway", "forwarded"},
             v \in Services : Spawn(b, v, from, to)
    BY <1>4 DEF SendEvents, Services
  <2>2. Answer' = Answer
    BY <1>0, <2>1 DEF Spawn, Answer, TypeOK
  <2> QED
    BY <2>1, <2>2 DEF Spawn, Promise!vars
<1>5. ASSUME NEW b \in Batches, Respond(b) PROVE Promise!Confirm(b)
  <2>1. Answer[b] = "accepted"
    BY <1>5 DEF Respond, Answer
  <2>2. Answer' = [Answer EXCEPT ![b] = "200"]
    BY <1>0, <1>5, AnswerExcept DEF Respond
  <2> QED
    BY <1>5, <2>1, <2>2 DEF Respond, Promise!Confirm
<1>6. ASSUME NEW b \in Batches, NEW v \in Services, Send(b, v) \/ Fail(b, v) \/ Succeed(b, v)
      PROVE  UNCHANGED Promise!vars
  BY <1>6 DEF Send, Fail, Succeed, Promise!vars, Answer
<1>7. ASSUME NEW m \in wire, Lose(m) PROVE UNCHANGED Promise!vars
  BY <1>7 DEF Lose, Promise!vars, Answer
<1>8. ASSUME NEW m \in wire, Deliver(m)
      PROVE  m.service \in Configured /\ Promise!Forward(m.batch, m.service)
  <2>1. /\ m.batch \in Batches /\ m.service \in Services
        /\ task[m.batch][m.service] \in {"waiting", "ended"}
        /\ received[m.batch][m.service] = <<>>
        /\ m.key = header[m.batch]
    BY DEF EInv, TypeOK, WireInv
  <2>2. m.service \in Configured
    BY <2>1 DEF EInv, BatchInv, TypeOK, Services, Configured
  <2>3. Answer[m.batch] \in {"accepted", "200"}
    BY <2>1 DEF EInv, BatchInv, TypeOK, Answer
  <2>4. Append(received[m.batch][m.service], m.key) = <<header[m.batch]>>
    BY <2>1
  <2>5. Answer' = Answer
    BY <1>8 DEF Deliver, Answer
  <2> QED
    BY <1>8, <2>1, <2>2, <2>3, <2>4, <2>5 DEF Deliver, Promise!Forward
<1>9. CASE UNCHANGED vars
  BY <1>9 DEF vars, Promise!vars, Answer
<1> QED
  <2>1. CASE \E m \in Mappings : UpdateMapping(m)
    BY <1>1, <2>1, SenderIsServerKey DEF Promise!Next
  <2>2. CASE \E b \in Batches, k \in Keys : Receive(b, k)
    BY <1>2, <2>2 DEF Promise!Next, Keys
  <2>3. CASE \E b \in Batches : Authorize(b) \/ SendEvents(b) \/ Respond(b)
    BY <1>3, <1>4, <1>5, <2>3 DEF Promise!Next
  <2>4. CASE \E b \in Batches, v \in Services : Send(b, v) \/ Fail(b, v) \/ Succeed(b, v)
    BY <1>6, <2>4
  <2>5. CASE \E m \in wire : Deliver(m) \/ Lose(m)
    <3>1. \A m \in wire : m.batch \in Batches
      BY DEF EInv, TypeOK
    <3> QED
      BY <1>7, <1>8, <2>5, <3>1 DEF Promise!Next
  <2> QED
    BY <1>9, <2>1, <2>2, <2>3, <2>4, <2>5 DEF Next

\* Forwarding a batch is deciding on it in one step and handing it to each service
\* at most once, however its tasks and messages fare (handler.rs:197-278).
THEOREM EventsImplementForwarding == Spec => ImplementsForwarding
<1>1. EInv /\ [Next]_vars => [Promise!Next]_(Promise!vars)
  BY ForwardingStep
<1> QED
  BY <1>1, ForwardingInit, EventsInvariant, PTL
  DEF Spec, ImplementsForwarding, Promise!Spec

=============================================================================
