\* One worker, its crashes, three sellers.
CONSTANTS
    Redeems = {1, 2, 3}
    MaxSends = 6
SPECIFICATION Spec
INVARIANTS
    TypeOK
    NetAfterSellers
    SettledIsFunded
    WaitingIsPaidOut
PROPERTIES
    NetKeepsIntent
CHECK_DEADLOCK FALSE
