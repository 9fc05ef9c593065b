CONSTANTS
    h1 = h1
    h2 = h2
    NumSlots = 3
    Hids <- TwoHids
    TickMod = 8
    EthDelays = {0, 1, 2}
    HidDelays = {0, 1}
SPECIFICATION Spec
INVARIANT DelayedWhenFired
