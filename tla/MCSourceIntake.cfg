\* Four uploads, or a synchronization, under two edits of any sort.
CONSTANTS
    f1 = f1
    f2 = f2
    f3 = f3
    u1 = u1
    u2 = u2
    u3 = u3
    u4 = u4
    f4 = f4
    File = {f1, f2, f3, f4}
    Compiled = {f4}
    Holdings = {{f1, f4}}
    Twins <- MCTwins
    Upload = {u1, u2, u3, u4}
    FileOf <- MCFileOf
    Confirmed = {u2}
    Api = {u3, u4, m3}
    FileEdit = {e1}
    MayMove = {e1}
    Form = {m1, m2, m3}
    MayActivate = {m1, m3}
    Gated = {policy}
    Reconciler = Reconciler
    Nobody = Nobody
    None = None
    Over = Over
    MaxSyncs = 2
    MaxAsks = 1
    MaxSaves = 2
    MaxFaults = 1
SPECIFICATION FairSpec
INVARIANTS
    UploadsKept
    TwinsApart
    SelectionAccounted
PROPERTIES
    EditsMoveOnlyTheirs
    SyncSettles
CHECK_DEADLOCK FALSE
