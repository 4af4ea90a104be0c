\* Two collections, an impatient closer, and a client that may be closed.
SPECIFICATION FairSpec
CONSTANTS
    Last = 2
    MaxEvents = 2
INVARIANTS
    TypeOK
    ClosedSessionIsClean
    ExhaustedIsComplete
    FailureSurfaces
PROPERTIES
    ClosingWakesConsumer
    ClosingEnds
