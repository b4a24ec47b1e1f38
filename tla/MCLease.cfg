CONSTANTS
    Holders = {h1, h2}
    NoHolder = NoHolder
    Window = 2
    Margin = 2
    MinRate = 1
    MaxRate = 2
    MaxClock = 9
    MaxRV = 3
    MaxUID = 2
SPECIFICATION Spec
SYMMETRY Symmetry
INVARIANTS
    ExclusiveGate
    OpenIsLastWriter
    LeaseInv
CHECK_DEADLOCK FALSE
