SPECIFICATION Spec
CONSTANT Setups <- LimitsAndFaults
CHECK_DEADLOCK FALSE
INVARIANTS
    NoStrayRound
    SummaryIsLast
PROPERTIES
    RunEnds
    ImplementsRuns
    StopIsHonoured
