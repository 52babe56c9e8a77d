\* Two source trees under one selection.
CONSTANTS
    Digest = {d1, d2}
    Selection = {s1}
    Undeclared = none
    Script = {x1, x2}
    Shared = x1
    Own = x2
    Publishes <- MCPublishes
    Job = {j1, j2}
    Operator = {o1, o2}
    NoRev = NoRev
    NoJob = NoJob
    Nobody = Nobody
    MaxRequests = 2
    MaxEdits = 1
    MaxFaults = 1
    MaxDeletes = 1
SPECIFICATION Spec
SYMMETRY Symmetry
INVARIANTS
    PointerAgreesWithStatus
    PublishedMatchesServing
    NoRequestOnServed
PROPERTIES
    FollowsLifecycle
    OnlyOwnerSettles
    ImplementsContract
    ManualServesAsked
CHECK_DEADLOCK FALSE
