\* Two commands under way at once, crashes, and an audit log that may fail.
SPECIFICATION Spec
CONSTANTS
    c1 = c1
    c2 = c2
    Commands <- TwoCommands
INVARIANTS
    TypeOK
    AttemptOnRecord
    LogIsConsistent
PROPERTY
    ImplementsDelivery
