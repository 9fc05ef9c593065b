CONSTANTS
    c1 = c1
    c2 = c2
    c3 = c3
    Cores <- TwoCores
    NumTasks = 3
    KernelPids = {}
    NumStacks = 3
    Syscalls = {1, 2}
    ResetTpidr <- ZeroReset
    MaxStep = 0
SPECIFICATION Spec
INVARIANT NoTaskLost
