\* The default build (feature "realtime"), one loop of each kind as the binary
\* spawns them.  The system can stop here: see RepoDeadlock.cfg.
SPECIFICATION Spec
CONSTANTS
    ClientSdkKeys = {c1, c2}
    ServerSdkKeys = {s1, s2}
    None = None
    KeyTasks = {k1}
    ClientTasks = {u1}
    Handlers = {h1}
    Workers = 3
    Realtime = TRUE
    MaxVersion = 2
SYMMETRY Symmetry
INVARIANTS
    TypeOK CallbackKeyWasMapped IInv
    LookupsLast OnlyLocksBlock DeadlocksInSetupNotify
PROPERTIES AnswersMatchMapping MappedClientStaysReady
CHECK_DEADLOCK FALSE
