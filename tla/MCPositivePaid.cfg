\* Two sellers are enough to pay one of them twice.
CONSTANTS
    Redeems = {1, 2}
    MaxSends = 4
SPECIFICATION Spec
INVARIANTS
    PaidOnce
CHECK_DEADLOCK FALSE
