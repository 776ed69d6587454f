\* Two collectors and the confirmation worker: the order is read before the wallet is locked.
CONSTANTS
    settler = settler
    continuer = continuer
    Orders = {1, 2}
    Collectors = {settler, continuer}
    Settler = settler
    NeedGas = {}
    OtherReserve = 1
    ConfirmEnabled = TRUE
    Faults = {"block", "revert", "error", "crash"}
SPECIFICATION Spec
INVARIANT DebitedOnce
CHECK_DEADLOCK FALSE
