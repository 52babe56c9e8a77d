\* A queued cleanup settles under the fair scheduling of workers, though a session is lost.
CONSTANTS
    Digest = {d1}
    Selection = {s1, s2}
    File = {f1}
    Worker = {w1, w2}
    Deleter = {x1}
    Nobody = Nobody
    NoKey = NoKey
    MaxFaults = 0
    MaxDeletes = 1
    MaxDrops = 1
SPECIFICATION FairSpec
PROPERTIES
    CleanupSettles
