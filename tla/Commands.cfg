SPECIFICATION Spec
CONSTANTS
    None = None
    Junk = Junk
    Malformed = Malformed
    U32 <- MCU32
    Texts <- MCTexts
    Floats <- MCFloats
    Uuids <- MCUuids
    Partitions <- MCPartitions
    Offsets <- MCOffsets
    RegionLists <- MCRegionLists
    CircleLists <- MCCircleLists
    Plans <- MCPlans
    Versions <- MCVersions
INVARIANTS RequestTellsIntent EveryCallHasACodec SnapshotIsServed CutPlanIsInert
PROPERTIES SnapshotIsThePlan GoalsSurvive SelectedGoesFirst
CHECK_DEADLOCK FALSE
