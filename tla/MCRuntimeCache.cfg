CONSTANTS
    t1 = t1  t2 = t2  t3 = t3  p1 = p1  p2 = p2
    Thread = {t1, t2, t3}
    Process = {p1, p2}
    ProcessOf <- Threads
    File = {f1, f2}
    Nobody = Nobody
    None = None
    MaxAttempts = 2
    MaxMeddles = 2
    MaxKills = 1
    MaxSessions = 2
SPECIFICATION FairSpec
INVARIANTS ImportsProven SessionsKeepModules
PROPERTIES GoodTreeStays SessionsEnd
CHECK_DEADLOCK FALSE
