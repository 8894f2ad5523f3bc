\* The default build on a runtime with one worker thread: no task is ever
\* interrupted between two await points.
SPECIFICATION FairSpec
CONSTANTS
    ClientSdkKeys = {c1}
    ServerSdkKeys = {s1, s2}
    None = None
    KeyTasks = {k1}
    ClientTasks = {u1}
    Handlers = {h1}
    Workers = 1
    Realtime = TRUE
    MaxVersion = 2
INVARIANTS DeadlocksInSetupNotify
PROPERTIES RequestsAnswered
