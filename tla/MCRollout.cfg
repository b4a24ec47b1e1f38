CONSTANTS
    Groups = {g1}
    NoGroup = NoGroup
    Engines = {e1, e2}
    Contents = {c1, c2}
    NoContent = NoContent
    MaxVersion = 3
    MaxFaults = 0
    CanaryCount = 1
    CanaryPercent = 0
SPECIFICATION Spec
SYMMETRY Symmetry
INVARIANTS
    TypeOK
    OneActiveRollout
    CanaryContainment
    StableIsNewestCompleted
    NewestDecides
PROPERTIES
    ImplementsFleet
CHECK_DEADLOCK FALSE
