\* A server key with two client keys, together or in turn.
SPECIFICATION FairSpec
CONSTANTS
    ClientSdkKeys = {c1, c2}
    ServerSdkKeys = {s1}
    None = None
    Sdks = {d1}
    MaxVersion = 2
    MaxUpdates = 1
PROPERTIES AnnouncementsArrive AskingCatchesUp
