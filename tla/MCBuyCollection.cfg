\* Both collectors, the confirmation worker and every fault.
CONSTANTS
    settler = settler
    continuer = continuer
    Orders = {1, 2}
    Collectors = {settler, continuer}
    Settler = settler
    NeedGas = {1}
    OtherReserve = 0
    ConfirmEnabled = TRUE
    Faults = {"block", "revert", "error", "crash"}
SPECIFICATION Spec
INVARIANTS
    TypeOK
    AtMostOneTransaction
    CollectedIsMined
    GasFirst
PROPERTY KeepsIntents
CHECK_DEADLOCK FALSE
