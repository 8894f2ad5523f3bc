\* Three FPClients that fetch from one mock API.
SPECIFICATION Spec
CONSTANTS
    Connections = {k1, k2, k3}
    version_update = TRUE
    MaxVersion = 6
PROPERTIES EveryFetchIsNew
