\* The default build with an SDK: one loop of each kind, a key of each kind.
SPECIFICATION SystemSpec
CONSTANTS
    ClientSdkKeys = {c1}
    ServerSdkKeys = {s1}
    None = None
    KeyTasks = {k1}
    ClientTasks = {u1}
    Handlers = {h1}
    Workers = 2
    Realtime = TRUE
    MaxVersion = 2
    MaxUpdates = 1
INVARIANTS NoSdkBehind
PROPERTIES ImplementsServer
CHECK_DEADLOCK FALSE
