CONSTANTS
    RegionNames = {"FCC", "JAPAN_916_921_MHZ"}
    Frequencies = {917900}
    Randoms <- Cards
    TcxoKhz = 24000
    MaxRequests = 5
    MaxRamps = 1
SPECIFICATION Spec
INVARIANT
    RegionIsWhatWasSet
CHECK_DEADLOCK FALSE
