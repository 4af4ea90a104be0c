\* One unary call and a closer: who eventually gets an answer.
SPECIFICATION FairSpec
CONSTANTS
    s1 = s1
    s2 = s2
    Streams <- OneStream
    Streaming <- None
    Contested <- None
    RequestSize = 1
    InitWindow = 0
    MaxGrants = 1
    MaxSettings = 1
    MaxData = 1
    MaxInFlight = 2
PROPERTIES
    CallsFinish
    CloseTerminates
