\* A client key that the API moves between two server keys, whose clients come,
\* go and are updated.
SPECIFICATION Spec
CONSTANTS
    ClientSdkKeys = {c1}
    ServerSdkKeys = {s1, s2}
    None = None
    Sdks = {d1}
    MaxVersion = 2
    MaxUpdates = 2
INVARIANTS IInv NoSdkBehind
