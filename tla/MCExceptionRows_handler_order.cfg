CONSTANTS
    s1 = s1
    s2 = s2
    s3 = s3
    s4 = s4
    X = X
    e1 = e1
    e2 = e2
    Base = Base
    Derived = Derived
    Other = Other
    AnyState = AnyState
    Internal = Internal
    None = None
    States = {s1, s2, s3, s4, X}
    Events = {e1, e2}
    Exceptions = {Base, Derived, Other}
    Catches <- ByBase
    NumRegions = 2
    Tables <- OrderFamily
    MaxCalls = 2
    MaxThrows = 3
SPECIFICATION Spec
INVARIANTS HandlersInOrder
