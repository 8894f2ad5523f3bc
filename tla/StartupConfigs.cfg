\* Ports below, at and above the limits of 16 bits, one of them taken, one that
\* becomes 9100, the default of the other, when it is cut to 16 bits.  The
\* process ends, or nothing happens to it any more.
SPECIFICATION FairSpec
CONSTANTS
    None = None
    Ports <- MCPorts
    Seconds <- MCSeconds
    SecondsModulus = 1048576
    Taken = {9000}
    Realtime = TRUE
INVARIANTS
    RefusedAtOnce
    FailuresHaveCause
PROPERTIES
    StartableServes
CHECK_DEADLOCK FALSE
