CONSTANTS
    m1 = m1  m2 = m2  p1 = p1  p2 = p2  x1 = x1  x2 = x2  y1 = y1
    j1 = j1  j2 = j2  j3 = j3  r1 = r1  r2 = r2  q1 = q1  q2 = q2
    Nothing = Nothing
    Script = {x1}
    Departed = {}
    Module = {m1}
    Project = {p1}
    ModuleOf <- ScheduleModuleOf
    ProjectOf <- ScheduleProjectOf
    Publishes <- SchedulePublishes
    Job = {j1, j2, j3}
    Names <- ScheduleNames
    Successor <- ScheduleSuccessor
    Unreplayable = {}
    Rule = {}
    RuleNames <- Empty
    Watching = {}
    Perm = {}
    Kind <- Empty
    Disabled = {}
    Beginnings <- ScheduleBeginnings
    MaxWorkers = 2
    MaxCrashes = 1
    MaxTampers = 0
    MaxEdits = 0
    MaxMishaps = 1
SPECIFICATION FairSpec
INVARIANTS NeverBothSides NothingLost ReadyIsHonest
PROPERTY CutoverCompletes
CHECK_DEADLOCK FALSE
