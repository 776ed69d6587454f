\* Three orders of two users over the cutoffs of two days.
CONSTANTS
    ann = ann
    bob = bob
    Users = {ann, bob}
    Orders = {1, 2, 3}
    LastDay = 2
    Amounts = {2}
    Prices = {2, 3}
    Deposit = 4
    Holding = 4
SPECIFICATION FairSpec
INVARIANTS
    TypeOK
    SharesBacked
    RedeemReserveBacked
    BuyReserveAccounted
    LockedWhileInFlight
    PlanStaysValid
PROPERTIES
    KeepsLock
    PendingIsBatched
CHECK_DEADLOCK FALSE
