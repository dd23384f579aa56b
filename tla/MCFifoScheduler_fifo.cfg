CONSTANTS
    Capacity = 4
    MaxAccepted = 9
    MayThrow = TRUE
SPECIFICATION FairSpec
INVARIANTS ArrivalOrder SlotsLive DrainedOnReturn
PROPERTIES FollowsContract Begins
