CONSTANTS
    Groups = {g1, g2}
    NoGroup = NoGroup
    Engines = {e1}
    Contents = {c1, c2}
    NoContent = NoContent
    MaxVersion = 3
    MaxFaults = 0
    CanaryCount = 1
    CanaryPercent = 0
SPECIFICATION Spec
SYMMETRY GroupSymmetry
INVARIANTS
    RolloutInv
    OffersAreNewer
CHECK_DEADLOCK FALSE
