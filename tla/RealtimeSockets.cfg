\* A server key whose client comes and goes, with a callback that captured either
\* client key or none, and one socket, which may move between the rooms: sockets
\* share nothing, and neither do the clients of two server keys.
SPECIFICATION FairSpec
CONSTANTS
    ClientSdkKeys = {c1, c2}
    ServerSdkKeys = {s1}
    None = None
    Sdks = {d1}
    MaxUpdates = 2
INVARIANTS NothingMissed
PROPERTIES UpdatesArrive
