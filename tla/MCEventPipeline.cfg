SPECIFICATION Spec
CONSTANTS
    EventBuffers = {e1, e2}
    ResultBuffers = {r1}
    NoNode = NoNode
    FifoSize = 2
    FifoThreshold = 1
    MaxPackets = 4
    MaxFailures = 2
    MayClose = TRUE
    DrainBeforeInit = TRUE
CHECK_DEADLOCK FALSE
INVARIANTS
    NodesAreNotShared
    NoNodeLeaks
PROPERTIES
    PacketIsStable
    ImplementsStream
    AllDelivered
