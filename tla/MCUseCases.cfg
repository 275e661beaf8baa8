SPECIFICATION Spec
CONSTANTS
    ChosenUseCases = {"tag_access", "power_sweep", "fast_tag_tracking", "activity_sequence"}
    ActivitySequences <- TwoAntennas
    PowerLevels <- TwoLevels
    Crcs = {c1, c2}
    Clock = 8
    ClientMayStop = TRUE
    SweepConditions <- RoundsOrDuration
    TrackingConditions <- TimeAndTags
    ResultBuffers = 1
    MayStop = TRUE
    MayTimeOut = TRUE
    AccessTags = 2
    TrackedTags = 2
    MaxTags = 1
    MaxExpiries = 1
    MaxRounds = 4
    MaxRuns = 2
    MaxFailures = 1
    MaxDelay = 1
CHECK_DEADLOCK FALSE
INVARIANTS
    AccessReachesTags
    PowersAreSwept
    TagsAreTracked
    
PROPERTIES
    UseCaseEnds
