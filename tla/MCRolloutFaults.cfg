CONSTANTS
    Groups = {g1}
    NoGroup = NoGroup
    Engines = {e1}
    Contents = {c1, c2}
    NoContent = NoContent
    MaxVersion = 3
    MaxFaults = 3
    CanaryCount = 1
    CanaryPercent = 0
SPECIFICATION Spec
SYMMETRY ContentSymmetry
INVARIANTS
    OffersAreNewer
    AppliedIsDurable
PROPERTIES
    CompletesWhenRunning
CHECK_DEADLOCK FALSE
