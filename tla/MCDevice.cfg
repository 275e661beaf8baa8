SPECIFICATION Spec
CONSTANTS
    ImageLength = 2
    MaxFailures = 2
    MaxCrashes = 1
PROPERTIES
    SafeThroughout
    ChangeMeansMode
    ResetRecovers
    NothingAfterError
