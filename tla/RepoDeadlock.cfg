\* The default build with worker threads to spare.  update_clients reads
\* secret_mapping twice, and a writer that arrives in between stops everything.
SPECIFICATION FairSpec
CONSTANTS
    ClientSdkKeys = {c1}
    ServerSdkKeys = {s1}
    None = None
    KeyTasks = {k1}
    ClientTasks = {u1}
    Handlers = {h1}
    Workers = 3
    Realtime = TRUE
    MaxVersion = 2
PROPERTIES RequestsAnswered
CHECK_DEADLOCK FALSE
