\* Two selections over one tree; one failure or crash.
CONSTANTS
    Digest = {d1}
    Selection = {s1, none}
    Undeclared = none
    Script = {x1, x2}
    Shared = x1
    Own = x2
    Publishes <- MCPublishes
    Job = {j1, j2}
    Operator = {o1}
    NoRev = NoRev
    NoJob = NoJob
    Nobody = Nobody
    MaxRequests = 2
    MaxEdits = 1
    MaxFaults = 1
    MaxDeletes = 0
SPECIFICATION FairSpec
PROPERTY
    RequestSettles
CHECK_DEADLOCK FALSE
