CONSTANTS
    s1 = s1
    s2 = s2
    s3 = s3
    e1 = e1
    e2 = e2
    e3 = e3
    AnyState = AnyState
    Internal = Internal
    None = None
    States = {s1, s2, s3}
    Events = {e1, e2, e3}
    NumRegions = 2
    Tables <- ErrorRegionTables
    MaxIssued = 3
SPECIFICATION Spec
INVARIANTS UnexpectedOnlyIfUnhandled
