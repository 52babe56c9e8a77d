CONSTANTS
    m1 = m1  m2 = m2  p1 = p1  p2 = p2  x1 = x1  x2 = x2  y1 = y1
    j1 = j1  j2 = j2  j3 = j3  r1 = r1  r2 = r2  q1 = q1  q2 = q2
    Nothing = Nothing
    Script = {x1, x2, y1}
    Departed = {y1}
    Module = {m1, m2}
    Project = {p1}
    ModuleOf <- RecordModuleOf
    ProjectOf <- RecordProjectOf
    Publishes <- RecordPublishes
    Job = {j1, j2}
    Names <- RecordNames
    Successor <- RecordSuccessor
    Unreplayable = {}
    Rule = {r1, r2}
    RuleNames <- RecordRuleNames
    Watching = {r1}
    Perm = {q1, q2}
    Kind <- RecordKind
    Disabled = {q1}
    Beginnings <- RecordBeginnings
    MaxWorkers = 1
    MaxCrashes = 1
    MaxTampers = 1
    MaxEdits = 1
    MaxMishaps = 2
SPECIFICATION Spec
INVARIANT RestoredAsCaptured
PROPERTIES DeletionSparesCaptured RunnableSomewhere
CHECK_DEADLOCK FALSE
