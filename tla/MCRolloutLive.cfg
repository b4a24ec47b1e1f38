CONSTANTS
    Groups = {g1}
    NoGroup = NoGroup
    Engines = {e1}
    Contents = {c1, c2}
    NoContent = NoContent
    MaxVersion = 4
    MaxFaults = 0
    CanaryCount = 1
    CanaryPercent = 0
SPECIFICATION FairSpec
INVARIANTS
    PausedHoldsChanges
PROPERTIES
    RolloutsSettle
CHECK_DEADLOCK FALSE
