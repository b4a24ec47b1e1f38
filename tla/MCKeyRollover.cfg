CONSTANTS
    TTL <- MCTTL
    Propagation = 1
    ParentDSTTL = 1
    ZskLifetime = 4
    Validity = 7
    RefreshBefore = 3
    RefreshWindow = 1
    Slack = 2
    MaxTime = 6
    MaxKeys = 4
    MaxPast = 1
SPECIFICATION Spec
INVARIANTS
    TypeOK
    ChainOfTrust
    DataValidates
    SignaturesOutlast
PROPERTY
    RolloversOnTime
CHECK_DEADLOCK FALSE
CONSTRAINT NoLapse
