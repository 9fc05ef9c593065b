CONSTANTS
    NumChannels = 2
    Hids <- TwoHids
    SplitUrbs <- SplitKeyboard
    Requests = {"data", "bulk"}
    MaxPackets = 1
SPECIFICATION Spec
INVARIANTS
    AssertsHold
    ChannelsExclusive
    InterruptsKept
PROPERTIES
    ReprogramsHalted
