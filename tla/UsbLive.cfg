CONSTANTS
    NumChannels = 2
    Hids <- OneHid
    SplitUrbs <- SplitMain
    Requests = {"bulk"}
    MaxPackets = 2
SPECIFICATION FairSpec
PROPERTIES
    BlockingReturns
