CONSTANTS
    p1 = p1
    p2 = p2
    Instances = {i1}
    Primaries = {p1, p2}
    PrimaryLists <- MCLists
    SerialSpace = 6
    FirstSerial = 4
    Unverifiable = {1}
    SoaRefresh = 2
    SoaRetry = 0
    SoaExpire = 3
    MinTimer = 1
    MaxTimer = 3
    RetryBeforeLoad = 1
    MaxVersion = 2
    MaxRequests = 1
    MaxCrashes = 1
SPECIFICATION FairSpec
PROPERTIES
    CatchesUp
    ExpiryIsPublished
CHECK_DEADLOCK FALSE
