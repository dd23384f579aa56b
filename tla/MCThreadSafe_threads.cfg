CONSTANTS
    s1 = s1
    s2 = s2
    e1 = e1
    e2 = e2
    t1 = t1
    t2 = t2
    AnyState = AnyState
    Internal = Internal
    None = None
    NoThread = NoThread
    States = {s1, s2}
    Events = {e1, e2}
    Threads = {t1, t2}
    NumRegions = 1
    Tables <- SharedTables
    MaxIssued = 4
SPECIFICATION FairThreadSpec
INVARIANTS LockedWhileRunning OwnPosts
PROPERTIES Answered
