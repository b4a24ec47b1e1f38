CONSTANTS
    Instances = {i1}
    NoInstance = NoInstance
    MaxVersion = 2
    MaxSessions = 2
SPECIFICATION FairSpec
INVARIANTS
    StreamInv
    SentInOrder
    OwnerIsServed
PROPERTIES
    AppliedNeverRegresses
    CatchesUp
CHECK_DEADLOCK FALSE
