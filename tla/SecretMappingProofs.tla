------------------------ MODULE SecretMappingProofs ------------------------
(* What the operators of SecretMapping return, for any sets of keys.       *)
EXTENDS SecretMapping, TLAPS

(***************************************************************************)
(* Whatever mapping arrives, the loop of update_mapping builds some index: *)
(* the choices of ReversesOf are never none (secrets.rs:39-44).            *)
(***************************************************************************)
LEMMA SomeReverse ==
    ASSUME NEW m \in Mappings
    PROVE  ReversesOf(m) # {}
<1> DEFINE r == [s \in ServerSdkKeys |->
                   IF \E c \in ClientSdkKeys : m[c] = s
                   THEN CHOOSE c \in ClientSdkKeys : m[c] = s
                   ELSE None]
<1>1. ASSUME NEW s \in ServerSdkKeys
      PROVE  \/ r[s] \in ClientSdkKeys /\ m[r[s]] = s
             \/ r[s] = None /\ \A c \in ClientSdkKeys : m[c] # s
  OBVIOUS
<1>2. r \in Reverses
  BY <1>1 DEF Reverses
<1> HIDE DEF r
<1> QED
  BY <1>1, <1>2 DEF ReversesOf

(***************************************************************************)
(* A server key is known exactly when some client key is mapped to it, so  *)
(* the index and the mapping never disagree on which keys exist            *)
(* (secrets.rs:48-58, 71-73).                                              *)
(***************************************************************************)
LEMMA KnownKeysAreMapped ==
    ASSUME NEW sm \in SecretMappings, ReverseOfMapping(sm)
    PROVE  server_sdk_keys(sm)
             = {s \in ServerSdkKeys : \E c \in ClientSdkKeys : sm.mapping[c] = s}
  BY NoneIsNoKey
  DEF ReverseOfMapping, ReversesOf, server_sdk_keys, SecretMappings, Reverses, Mappings

\* A server key that a client key is mapped to is known (secrets.rs:48-58).
LEMMA MappedKeyIsKnown ==
    ASSUME NEW sm \in SecretMappings, ReverseOfMapping(sm),
           NEW c \in ClientSdkKeys, sm.mapping[c] # None
    PROVE  sm.mapping[c] \in server_sdk_keys(sm)
<1>1. sm.mapping[c] \in ServerSdkKeys
  BY DEF SecretMappings, Mappings
<1> QED
  BY <1>1, KnownKeysAreMapped

\* The client key the index gives for a known server key is mapped to it.
LEMMA ReverseIsMapped ==
    ASSUME NEW sm \in SecretMappings, ReverseOfMapping(sm),
           NEW s \in server_sdk_keys(sm)
    PROVE  /\ client_sdk_key(sm, s) \in ClientSdkKeys
           /\ sm.mapping[client_sdk_key(sm, s)] = s
  BY DEF ReverseOfMapping, ReversesOf, server_sdk_keys, client_sdk_key, SecretMappings

(***************************************************************************)
(* update_mapping takes a newer mapping whole, and nothing else: no older  *)
(* or equal version, and never a part of one (secrets.rs:34-46).           *)
(***************************************************************************)
LEMMA UpdateMappingTakesNewer ==
    ASSUME NEW sm \in SecretMappings, NEW new \in SecretMappings,
           NEW sm2 \in update_mapping(sm, new), ReverseOfMapping(sm)
    PROVE  /\ sm2 \in SecretMappings
           /\ ReverseOfMapping(sm2)
           /\ \/ sm2 = sm
              \/ /\ new.version > sm.version
                 /\ sm2.version = new.version
                 /\ sm2.mapping = new.mapping
<1>1. CASE new.version > sm.version
  <2>1. PICK r \in ReversesOf(new.mapping) :
          sm2 = [version |-> new.version, mapping |-> new.mapping, reverse |-> r]
    BY <1>1 DEF update_mapping
  <2> QED
    BY <1>1, <2>1 DEF SecretMappings, ReverseOfMapping, ReversesOf
<1>2. CASE ~(new.version > sm.version)
  BY <1>2 DEF update_mapping
<1> QED
  BY <1>1, <1>2

\* The pair that a server is started with is a mapping of its own
\* (secrets.rs:64-69, repo.rs:72-76).
LEMMA InsertFirstPair ==
    ASSUME NEW c \in ClientSdkKeys, NEW s \in ServerSdkKeys, NEW v \in Nat
    PROVE  /\ insert(Default, c, s, v) \in SecretMappings
           /\ ReverseOfMapping(insert(Default, c, s, v))
<1> DEFINE sm == insert(Default, c, s, v)
<1>1. /\ sm.version = v
      /\ sm.mapping = [NoMapping EXCEPT ![c] = s]
      /\ sm.reverse = [NoReverse EXCEPT ![s] = c]
      /\ sm = [version |-> v, mapping |-> [NoMapping EXCEPT ![c] = s],
               reverse |-> [NoReverse EXCEPT ![s] = c]]
  BY DEF insert, Default
<1>2. /\ [NoMapping EXCEPT ![c] = s] \in Mappings
      /\ [NoReverse EXCEPT ![s] = c] \in Reverses
  BY DEF NoMapping, NoReverse, Mappings, Reverses
<1>3. \A x \in ServerSdkKeys :
         \/ sm.reverse[x] \in ClientSdkKeys /\ sm.mapping[sm.reverse[x]] = x
         \/ sm.reverse[x] = None /\ \A d \in ClientSdkKeys : sm.mapping[d] # x
  BY <1>1, NoneIsNoKey DEF NoMapping, NoReverse
<1> QED
  BY <1>1, <1>2, <1>3 DEF SecretMappings, ReverseOfMapping, ReversesOf

(***************************************************************************)
(* A later pair keeps the index right unless the client key moves and was  *)
(* the one that the index had for its old server key: that server key then *)
(* stays known with no client key mapped to it (secrets.rs:64-69).         *)
(***************************************************************************)
THEOREM InsertKeepsIndex ==
    ASSUME NEW sm \in SecretMappings, ReverseOfMapping(sm),
           NEW c \in ClientSdkKeys, NEW s \in ServerSdkKeys, NEW v \in Nat
    PROVE  ReverseOfMapping(insert(sm, c, s, v))
             <=> \A old \in ServerSdkKeys \ {s} : client_sdk_key(sm, old) # c
<1> DEFINE new == insert(sm, c, s, v)
<1>1. /\ sm.mapping \in Mappings /\ sm.reverse \in Reverses
      /\ \A x \in ServerSdkKeys :
            \/ sm.reverse[x] \in ClientSdkKeys /\ sm.mapping[sm.reverse[x]] = x
            \/ sm.reverse[x] = None /\ \A d \in ClientSdkKeys : sm.mapping[d] # x
  BY DEF SecretMappings, ReverseOfMapping, ReversesOf
<1>2. /\ new.mapping \in Mappings /\ new.reverse \in Reverses
      /\ \A d \in ClientSdkKeys : new.mapping[d] = IF d = c THEN s ELSE sm.mapping[d]
      /\ \A x \in ServerSdkKeys : new.reverse[x] = IF x = s THEN c ELSE sm.reverse[x]
  BY <1>1 DEF insert, Mappings, Reverses
<1>3. ReverseOfMapping(new)
        <=> \A x \in ServerSdkKeys :
               \/ new.reverse[x] \in ClientSdkKeys /\ new.mapping[new.reverse[x]] = x
               \/ new.reverse[x] = None /\ \A d \in ClientSdkKeys : new.mapping[d] # x
  BY <1>2 DEF ReverseOfMapping, ReversesOf
<1> HIDE DEF new
<1>4. ASSUME NEW old \in ServerSdkKeys \ {s}, sm.reverse[old] = c
      PROVE  ~ReverseOfMapping(new)
  BY <1>2, <1>3, <1>4, NoneIsNoKey
<1>5. ASSUME \A old \in ServerSdkKeys \ {s} : sm.reverse[old] # c
      PROVE  ReverseOfMapping(new)
  <2>1. new.reverse[s] = c /\ new.mapping[c] = s
    BY <1>2
  <2>2. ASSUME NEW x \in ServerSdkKeys \ {s}, sm.reverse[x] \in ClientSdkKeys
        PROVE  new.reverse[x] \in ClientSdkKeys /\ new.mapping[new.reverse[x]] = x
    BY <1>1, <1>2, <1>5, <2>2, NoneIsNoKey
  <2>3. ASSUME NEW x \in ServerSdkKeys \ {s}, sm.reverse[x] \notin ClientSdkKeys
        PROVE  new.reverse[x] = None /\ \A d \in ClientSdkKeys : new.mapping[d] # x
    BY <1>1, <1>2, <2>3
  <2> QED
    BY <1>3, <2>1, <2>2, <2>3
<1> QED
  BY <1>4, <1>5 DEF new, client_sdk_key

=============================================================================
