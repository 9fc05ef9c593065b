CONSTANTS
    c1 = c1
    c2 = c2
    c3 = c3
    Cores <- TwoCores
    NumTasks = 3
    KernelPids = {4}
    NumStacks = 3
    Syscalls = {1, 2}
    ResetTpidr <- NonZeroReset
    MaxStep = 0
SPECIFICATION FairSpec
INVARIANTS
    TypeOK
    RunningIsOnACore
    SliceIsOneTick
    SleepHonoured
PROPERTIES
    BoundedBypass
    ImplementsPool
    EveryTaskRuns
