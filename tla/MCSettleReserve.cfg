\* The same instance, for one property.
CONSTANTS
    ann = ann
    bob = bob
    Users = {ann, bob}
    Orders = {1, 2, 3}
    LastDay = 2
    Amounts = {2}
    Prices = {2, 3}
    Deposit = 4
    Holding = 4
SPECIFICATION Spec
INVARIANTS
    BuyReserveBacked
CHECK_DEADLOCK FALSE
