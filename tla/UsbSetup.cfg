CONSTANTS
    NumChannels = 2
    Hids <- OneHid
    SplitUrbs <- NoSplits
    Requests = {"data", "none"}
    MaxPackets = 1
SPECIFICATION Spec
INVARIANTS
    StageHasBuffer
