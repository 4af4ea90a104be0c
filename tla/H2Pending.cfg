\* A collection cancelled from another task while its reader waits, then close().
SPECIFICATION FairSpec
CONSTANTS
    s1 = s1
    s2 = s2
    Streams <- OneStream
    Streaming <- OneStream
    Contested <- OneStream
    RequestSize = 1
    InitWindow = 1
    MaxGrants = 0
    MaxSettings = 0
    MaxData = 0
    MaxInFlight = 1
PROPERTY
    LocalCloseFailsPendingStream
