\* One batch: batches share only the mapping, which changes at any time.  c2 and
\* s2 are keys whose prefix does not tell what they are.
SPECIFICATION FairSpec
CONSTANTS
    ClientSdkKeys = {c1, c2}
    ServerSdkKeys = {s1, s2}
    ClientPrefixed = {c1, s2}
    None = None
    Batches = {b1}
    HasAnalysis = TRUE
INVARIANTS
    ReceivedAtMostOnce
    SentUnderOwnKey
    AnsweredForCause
PROPERTIES
    ImplementsForwarding
    BatchesSettle
