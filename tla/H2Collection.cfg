\* One collection whose messages are acknowledged, and a task that may cancel it.
SPECIFICATION Spec
CONSTANTS
    s1 = s1
    s2 = s2
    Streams <- OneStream
    Streaming <- OneStream
    Contested <- OneStream
    RequestSize = 2
    InitWindow = 1
    MaxGrants = 2
    MaxSettings = 2
    MaxData = 2
    MaxInFlight = 3
INVARIANTS
    SuccessIsComplete
    ReaderNotOrphaned
    FinishedCallIsForgotten
PROPERTY
    ImplementsCalls
