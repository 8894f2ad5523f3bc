\* Two calls of sync_with, as an embedder of the crate may make: two loops of
\* each kind share the repository.
SPECIFICATION Spec
CONSTANTS
    ClientSdkKeys = {c1}
    ServerSdkKeys = {s1, s2}
    None = None
    KeyTasks = {k1, k2}
    ClientTasks = {u1, u2}
    Handlers = {h1}
    Workers = 5
    Realtime = FALSE
    MaxVersion = 2
SYMMETRY Symmetry
INVARIANTS MappingInv
PROPERTIES UpdateLeavesMappedClients VersionNeverRegresses ConvergedStays SettledStays ImplementsService
