\* Two delete transactions open at once over rows that share one tree.
CONSTANTS
    Digest = {d1}
    Selection = {s1, s2}
    File = {f1}
    Worker = {w1, w2}
    Deleter = {x1, x2}
    Nobody = Nobody
    NoKey = NoKey
    MaxFaults = 0
    MaxDeletes = 2
    MaxDrops = 0
SPECIFICATION Spec
SYMMETRY Symmetry
INVARIANTS
    ContentAccountedFor
