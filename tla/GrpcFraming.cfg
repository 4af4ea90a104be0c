\* Every way to cut up to three messages and a good or bad tail.
SPECIFICATION Spec
CONSTANTS
    MaxMessage = 2
    Scripts <- MCScripts
INVARIANTS
    BufferIsBounded
    CutDoesNotMatter
    VerdictIsTheStreams
