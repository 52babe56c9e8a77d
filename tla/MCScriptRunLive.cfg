\* Nothing fails.
CONSTANTS
    Revision = {r1, r2}
    Script = {x1, x2}
    Publishes <- MCPublishes
    NoRevision = NoRevision
    Request = {q1}
    Run = {j1}
    Schedule = {s1}
    NoSchedule = NoSchedule
    Policy = {p1}
    Follow = Follow
    MaxEdits = 1
    MaxFaults = 0
SPECIFICATION FairSpec
PROPERTIES
    ScheduleGoesOn
    WaitingExecutes
CHECK_DEADLOCK FALSE
