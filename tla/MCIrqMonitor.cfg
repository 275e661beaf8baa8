SPECIFICATION Spec
CONSTANTS
    AllowReadFailure = TRUE
    AllowCommandFailure = TRUE
INVARIANTS
    NoLostEdge
    HandlerIsArmed
PROPERTIES
    HostInterfaceExclusive
    ImplementsDelivery
