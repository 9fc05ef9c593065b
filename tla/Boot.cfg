CONSTANTS
    k0 = k0
    k1 = k1
    k2 = k2
    k3 = k3
    Cores <- FourCores
    Core0 = k0
    Barrier = 4
    NumTasks = 4
    UsbResults = {"link", "nolink"}
    Prompt = TRUE
SPECIFICATION FairSpec
INVARIANTS
    MmuNeedsTables
    NoEarlyTick
    NoBootPanic
PROPERTIES
    BootCompletes
