\* Two unary calls, two frames of request each, and a window that opens frame by
\* frame, by WINDOW_UPDATE and by SETTINGS in any order.
SPECIFICATION Spec
CONSTANTS
    s1 = s1
    s2 = s2
    Streams <- TwoStreams
    Streaming <- None
    Contested <- None
    RequestSize = 2
    InitWindow = 0
    MaxGrants = 2
    MaxSettings = 2
    MaxData = 0
    MaxInFlight = 2
SYMMETRY Symmetry
INVARIANTS
    TypeOK
    ShutdownClearsStreams
    OnlySettingsAreSleptThrough
    FailureIsLocal
PROPERTY
    QuietAfterShutdown
