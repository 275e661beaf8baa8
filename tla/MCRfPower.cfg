SPECIFICATION Spec
CONSTANTS
    Entries = 2
    passes_required = 3
    max_rssi_measurements = 5
    MaxFailures = 2
INVARIANTS
    ResultIsTrue
PROPERTIES
    ListensFirst
    CallEnds
