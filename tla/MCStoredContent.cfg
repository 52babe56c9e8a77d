\* One tree shared by two selections, deletes one transaction at a time.
CONSTANTS
    Digest = {d1}
    Selection = {s1, s2}
    File = {f1, f2}
    Worker = {w1, w2}
    Deleter = {x1}
    Nobody = Nobody
    NoKey = NoKey
    MaxFaults = 1
    MaxDeletes = 2
    MaxDrops = 0
SPECIFICATION Spec
SYMMETRY Symmetry
INVARIANTS
    SettledContentComplete
    ContentAccountedFor
PROPERTIES
    CleanupSparesNamed
    FollowsLifecycle
