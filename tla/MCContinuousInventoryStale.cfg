SPECIFICATION Spec
CONSTANT Setups <- OnlyFailingClient
CHECK_DEADLOCK FALSE
INVARIANTS
    SuccessMeansStopped
