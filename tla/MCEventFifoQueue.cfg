SPECIFICATION Spec
CONSTANTS
    Nodes = {n1, n2, n3}
    NoNode = NoNode
INVARIANTS
    NoSleepOnData
PROPERTIES
    PushedIsSeen
