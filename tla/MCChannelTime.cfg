SPECIFICATION Spec
CONSTANTS
    Length = 2
    Nominal = 3
    Regulatory = 5
    Off = 2
    DefaultOvershoot = 2
    Lag = 1
    ClockModulus = 64
    Word = 128
    Horizon = 9
    MaxFailures = 1
CHECK_DEADLOCK FALSE
INVARIANTS
    LimitIsKept
    HistoryIsTrue
    OvershootIsBounded
PROPERTIES
    OffTimeIsObserved
