\* One collector at a time, no confirmation worker, three orders.
CONSTANTS
    settler = settler
    continuer = continuer
    Orders = {1, 2, 3}
    Collectors = {settler}
    Settler = settler
    NeedGas = {2}
    OtherReserve = 1
    ConfirmEnabled = FALSE
    Faults = {"block", "error", "crash"}
SPECIFICATION FairSpec
INVARIANTS
    ReserveConserved
    ReleasedNeverPaid
PROPERTIES
    TerminalIsTerminal
    EventuallySettled
CHECK_DEADLOCK FALSE
