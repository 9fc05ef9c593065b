CONSTANTS
    Offsets = {0, 100, 512, 2048}
    Counts = {0, 512, 1024, 1536, 700}
    Lasts = {2, 3}
    DeviceTypes = {0, 5}
    BlockSizes = {512, 2048}
    AddrMod = 4
    LenMod = 3
    ReadyTries = 3
    Tries = 2
    MaxCalls = 2
    MaxFaults = 2
    Blobs <- Configurations
    MaxFunctions = 2
    SendLengths = {1591, 1592, 1593}
    WireLengths = {4, 600}
    TailLengths = {4, 300}
    LeftOver <- Chips
    MaxWait = 3
    MaxEthCalls = 3
    MaxChanges = 2
    MaxArrivals = 2
    MaxEthFaults = 1
    Strokes <- KeyStrokes
    PowerUpLEDs = {{"CapsLock"}}
    MaxReports = 2
    MaxKbdCalls = 2
    MaxPacket = 8
    Sizes = {0, 12, 16}
    Shorts = {0, 4}
    MaxRequests = 2
    MaxPktFaults = 2
SPECIFICATION ClassSpec
INVARIANTS
    ParseExact
    DriversMatch
    TransfersRight
    ConfigurationKept
    
    FramesIntact
    TypedRight
    LedsFollow
    HandlerRight
    StateSettles
    BytesKept
PROPERTIES
    OnlyAddressed
CHECK_DEADLOCK FALSE
