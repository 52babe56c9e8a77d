\* Two runs, one schedule, two policies, two revisions of which one publishes.
CONSTANTS
    Revision = {r1, r2}
    Script = {x1}
    Publishes <- MCPublishes
    NoRevision = NoRevision
    Request = {q1}
    Run = {j1, j2}
    Schedule = {s1}
    NoSchedule = NoSchedule
    Policy = {p1, p2}
    Follow = Follow
    MaxEdits = 1
    MaxFaults = 1
SPECIFICATION Spec
SYMMETRY Symmetry
INVARIANTS
    RunsWhatWasServed
    RecordTellsWhatRan
    OneOccurrence
    ChosenPolicyStays
PROPERTIES
    StartDecidesFresh
CHECK_DEADLOCK FALSE
