CONSTANTS
    hub = hub
    eth = eth
    fshub = fshub
    keys = keys
    mouse = mouse
    Node <- Devices
    Root = hub
    Parent <- Wiring
    PortOf <- Plugs
    NumPorts <- Sizes
    Speed <- Speeds
    Drivers <- Selected
    Channels = 2
    MaxAddress = 4
    MaxPorts = 8
SPECIFICATION FairSpec
INVARIANTS
    AddressesUnique
    TranslatorRight
    DriversAlive
PROPERTIES
    EnumerationEnds
CHECK_DEADLOCK FALSE
