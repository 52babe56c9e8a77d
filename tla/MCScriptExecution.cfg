\* Every release, two faults.
CONSTANTS
    Registry <- MCRegistry
    Tracking = "tracking"
    Branching = "branching"
    Releases <- AllReleases
    MaxFaults = 2
SPECIFICATION Spec
INVARIANTS
    RevertedWhole
    WritesCovered
    EventsTellOfKept
    KeptIsTold
CHECK_DEADLOCK FALSE
