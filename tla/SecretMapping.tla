--------------------------- MODULE SecretMapping ---------------------------
(***************************************************************************)
(* The data structure of src/src/secrets.rs: the mapping from client SDK   *)
(* keys to server SDK keys, its version, and the reverse index.  Operators *)
(* keep the names of the Rust methods.  A HashMap is a total function into *)
(* the keys or None, so that f[k] is what `get(k)` returns.                *)
(***************************************************************************)
EXTENDS Naturals

CONSTANTS
    ClientSdkKeys,  \* the client SDK keys that may appear in a mapping
    ServerSdkKeys,  \* the server SDK keys
    None            \* Option::None

ASSUME NoneIsNoKey == None \notin ClientSdkKeys \cup ServerSdkKeys

Mappings == [ClientSdkKeys -> ServerSdkKeys \cup {None}]

Reverses == [ServerSdkKeys -> ClientSdkKeys \cup {None}]

SecretMappings == [version : Nat, mapping : Mappings, reverse : Reverses]

NoMapping == [c \in ClientSdkKeys |-> None]

NoReverse == [s \in ServerSdkKeys |-> None]

\* #[derive(Default)]: the mapping a server starts with.
Default == [version |-> 0, mapping |-> NoMapping, reverse |-> NoReverse]

\* What serde makes of a response body: `reverse` is skipped, so it is empty.
Parsed(version, m) ==
    [version |-> version, mapping |-> m, reverse |-> NoReverse]

(***************************************************************************)
(* The reverse indexes the loop over `&self.mapping` can build.  When two  *)
(* client keys share a server key the last insert wins, and a HashMap is   *)
(* iterated in no fixed order, so every choice is possible.                *)
(***************************************************************************)
ReversesOf(m) ==
    {r \in Reverses : \A s \in ServerSdkKeys :
        \/ r[s] \in ClientSdkKeys /\ m[r[s]] = s
        \/ r[s] = None /\ \A c \in ClientSdkKeys : m[c] # s}

client_sdk_key(sm, s) == sm.reverse[s]

server_sdk_key(sm, c) == sm.mapping[c]

server_sdk_keys(sm) == {s \in ServerSdkKeys : sm.reverse[s] # None}

contains_server_sdk_key(sm, s) == sm.reverse[s] # None

\* Fault: `*self = new`, which keeps the empty index that serde left behind.
UpdateKeepsParsedReverse(sm, new) ==
    IF new.version > sm.version THEN {new} ELSE {sm}

\* Fault: the method trusts its caller to have compared the versions.
UpdateUnchecked(sm, new) ==
    {[version |-> new.version, mapping |-> new.mapping, reverse |-> r] :
        r \in ReversesOf(new.mapping)}

\* The values `self` can have after update_mapping(new).
update_mapping(sm, new) ==
    IF new.version > sm.version
    THEN {[version |-> new.version, mapping |-> new.mapping, reverse |-> r] :
             r \in ReversesOf(new.mapping)}
    ELSE {sm}

insert(sm, c, s, version) ==
    [version |-> version,
     mapping |-> [sm.mapping EXCEPT ![c] = s],
     reverse |-> [sm.reverse EXCEPT ![s] = c]]

\* The index and the mapping agree: what is_known and what is served match.
ReverseOfMapping(sm) == sm.reverse \in ReversesOf(sm.mapping)

=============================================================================
