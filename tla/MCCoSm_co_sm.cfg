CONSTANTS
    Capacity = 4
    MaxAccepted = 5
    MayThrow = TRUE
SPECIFICATION CoSpec
INVARIANTS NothingDangles ResultIsVerdict ReadyOutside InCallOrder OnlyFullEnds
