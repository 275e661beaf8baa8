SPECIFICATION Spec
CONSTANTS
    Components = {"gen2", "calibration", "commands", "region", "aggregate_op"}
    MaxTxCommandCount = 2
    TxBufferBytes = 10
    EncodeBytes = 40
    Applications <- AllCommands
    TransactionIds = {1}
    RepLens = {0, 64}
    Parts <- SomeParts
    DefaultParameters <- NoParameters
    Luts <- TwoLuts
    DrmModes <- TwoFilters
    MaxPower = 3000
    BoostRatio = 140
    MaxSetups = 2
    Powers <- SomePowers
    PowerStep = 50
    TxFrequencies = {850, 893}
    Temperatures = {280, 320}
    RawRssis <- SomeRaws
    Burst = 20
    MinRoom = 3
    AddressLimit = 31
    MaxCommand = 40
    Reads <- SomeReads
    Writes <- SomeWrites
    Events <- SomeEvents
    DataLengths = {0, 4, 16, 18, 19, 20, 36, 37}
    MaxFifo = 64
    RegionNames = {"FCC", "INDONESIA", "ISRAEL", "MARS"}
    SingleFrequencies = {918250, 918300}
    Randoms <- Cards
    TcxoKhz = 24000
    MaxRequests = 3
    MaxRamps = 5
    BufferLength = 512
    RampConfigs <- SomeConfigs
    CoarseStep = 5
    UserWrites = {200, 300}
    MaxUserInstructions = 2
    MaxGen2Calls = 4
    MaxCalls = 3
    MaxFailures = 1
INVARIANTS
    CommandsSurvive
    ChipSendsWhatWasMeant
    PowerIsReached
    RssiIsRecovered
    TransfersAreTrue
    RegionIsKept
    RunsWhatWasBuilt
PROPERTIES
    PowerInSteps
CHECK_DEADLOCK FALSE
