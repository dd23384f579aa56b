CONSTANTS
    s1 = s1
    s2 = s2
    s3 = s3
    out = out
    e1 = e1
    e2 = e2
    AnyState = AnyState
    Internal = Internal
    None = None
    Sub = Sub
    Terminate = Terminate
    States = {s1, s2, s3, Terminate}
    Events = {e1, e2}
    NumRegions = 2
    Tables <- SubFamily
    MaxIssued = 0
    Outers <- OuterFamily
    OuterStates = {Sub, out, Terminate}
    Histories <- HistoryFamily
    MaxCalls = 3
SPECIFICATION FairOuterSpec
INVARIANTS OuterTypeOK HistoryKept VisitForgotten CompletionTaken InnermostFirst
PROPERTIES OuterReturns
