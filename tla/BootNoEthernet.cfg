CONSTANTS
    k0 = k0
    k1 = k1
    k2 = k2
    k3 = k3
    Cores <- FourCores
    Core0 = k0
    Barrier = 4
    NumTasks = 4
    UsbResults = {"absent"}
    Prompt = TRUE
SPECIFICATION FairSpec
PROPERTY BootsWithoutEthernet
CHECK_DEADLOCK FALSE
