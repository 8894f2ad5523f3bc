\* Built without "realtime": the loops take their locks in one order.
SPECIFICATION FairSpec
CONSTANTS
    ClientSdkKeys = {c1}
    ServerSdkKeys = {s1, s2}
    None = None
    KeyTasks = {k1}
    ClientTasks = {u1}
    Handlers = {h1}
    Workers = 3
    Realtime = FALSE
    MaxVersion = 2
INVARIANTS DeadlocksInSetupNotify
PROPERTIES RequestsAnswered ClientsConverge
