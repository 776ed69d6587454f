\* One collector at a time that may crash between two commits.
CONSTANTS
    settler = settler
    continuer = continuer
    Orders = {1, 2, 3}
    Collectors = {settler}
    Settler = settler
    NeedGas = {2}
    OtherReserve = 1
    ConfirmEnabled = FALSE
    Faults = {"block", "error", "crash"}
SPECIFICATION Spec
INVARIANT ReadyIsCollected
CHECK_DEADLOCK FALSE
