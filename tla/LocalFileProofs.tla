-------------------------- MODULE LocalFileProofs --------------------------
(* No two fetches of the mock API get one version, for any number of them.  *)
EXTENDS LocalFile, TLAPS

\* The types, who holds the mutex, and that all versions given so far are older
\* than the body, of which whoever holds the mutex has a copy.
Inv ==
    /\ body \in Nat
    /\ copy \in [Connections -> Nat]
    /\ given \in [Connections -> SUBSET Nat]
    /\ pc \in [Connections -> {"idle", "body", "update"}]
    /\ lock = {k \in Connections : pc[k] = "update"}
    /\ \A j, k \in lock : j = k
    /\ \A k \in lock : copy[k] = body /\ body # 0
    /\ version_update => \A k \in Connections : \A v \in given[k] : v < body

\* The handler keeps its guard from the copy to the update (handler.rs:319-346).
LEMMA Inductive == Spec => []Inv
<1>1. Init => Inv
  BY DEF Init, Inv
<1>2. Inv /\ [Next]_vars => Inv'
  <2> SUFFICES ASSUME Inv, [Next]_vars PROVE Inv'
    OBVIOUS
  <2>1. CASE UNCHANGED vars
    BY <2>1 DEF Inv, vars
  <2>2. ASSUME NEW k \in Connections, Receive(k) PROVE Inv'
    BY <2>2 DEF Inv, Receive
  <2>3. ASSUME NEW k \in Connections, Copy(k) PROVE Inv'
    BY <2>3 DEF Inv, Copy, ReadBody, Fixture
  <2>4. ASSUME NEW k \in Connections, Update(k) PROVE Inv'
    <3>1. lock = {k} /\ copy[k] = body /\ lock' = {}
      BY <2>4 DEF Inv, Update
    <3>2. /\ copy' \in [Connections -> Nat] /\ given' \in [Connections -> SUBSET Nat]
          /\ pc' \in [Connections -> {"idle", "body", "update"}] /\ body' \in Nat
      BY <2>4, <3>1 DEF Inv, Update
    <3>3. lock' = {j \in Connections : pc'[j] = "update"}
      BY <2>4, <3>1 DEF Inv, Update
    <3>4. ASSUME version_update, NEW j \in Connections, NEW v \in given'[j] PROVE v < body'
      <4>1. body' = body + 1 /\ (v \in given[j] \/ v = body)
        BY <2>4, <3>1, <3>4 DEF Inv, Update
      <4> QED
        BY <3>4, <4>1 DEF Inv
    <3> QED
      BY <3>1, <3>2, <3>3, <3>4 DEF Inv
  <2> QED
    BY <2>1, <2>2, <2>3, <2>4 DEF Next, Fixed
<1> QED
  BY <1>1, <1>2, PTL DEF Spec

\* However the fetches of FPClients interleave, each gets a version newer than
\* all given before (handler.rs:316-336).
THEOREM FetchesAreNew == Spec => EveryFetchIsNew
<1> DEFINE New == version_update =>
              \A k \in Connections : \A v \in given'[k] \ given[k] :
                 \A j \in Connections : \A w \in given[j] : w < v
<1>1. Inv /\ [Next]_vars => [New]_vars
  <2> SUFFICES ASSUME Inv, Next, version_update, NEW k \in Connections,
                      NEW v \in given'[k] \ given[k]
               PROVE  \A j \in Connections : \A w \in given[j] : w < v
    BY DEF vars
  <2>1. PICK h \in Connections : Update(h)
    BY DEF Next, Receive, Copy, ReadBody, Fixed, vars
  <2>2. v = copy[h] /\ copy[h] = body
    BY <2>1 DEF Inv, Update
  <2> QED
    BY <2>2 DEF Inv
<1> QED
  BY <1>1, Inductive, PTL DEF Spec, EveryFetchIsNew

=============================================================================
