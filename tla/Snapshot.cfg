\* Three sessions of two missions.
SPECIFICATION SnapshotSpec
CONSTANTS
    MissionOf <- FirstFloorAgain
    MaxPlans = 2
INVARIANT
    InactiveMeansIdle
