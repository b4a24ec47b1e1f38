CONSTANTS
    p1 = p1
    p2 = p2
    Instances = {i1, i2}
    Primaries = {p1, p2}
    PrimaryLists <- MCList
    SerialSpace = 6
    FirstSerial = 4
    Unverifiable = {1}
    SoaRefresh = 1
    SoaRetry = 0
    SoaExpire = 2
    MinTimer = 1
    MaxTimer = 3
    RetryBeforeLoad = 1
    MaxVersion = 2
    MaxRequests = 2
    MaxCrashes = 1
SPECIFICATION Spec
INVARIANTS
    RecordsAreOneVersion
    PublishedIsCurrent
    NotifyIsHeeded
PROPERTIES
    NeverBackwards
CHECK_DEADLOCK FALSE
