CONSTANTS
    c1 = c1
    c2 = c2
    c3 = c3
    Cores <- ThreeCores
    NumTasks = 3
    KernelPids = {3}
    NumStacks = 2
    Syscalls = {1, 2, 7}
    ResetTpidr <- AnyReset
    MaxStep = 1
SYMMETRY CoreSymmetry
SPECIFICATION Spec
INVARIANTS
    OneCorePerTask
    QueueExact
    StackOwnership
PROPERTIES
    ProgressKept
    ZombieIsFinal
CHECK_DEADLOCK FALSE
