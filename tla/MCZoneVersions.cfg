CONSTANTS
    None = None
    a1 = a1
    a2 = a2
    b1 = b1
    RRs <- MCRRs
    SetOf <- MCSetOf
    Ttls = {1, 2}
    SoaFields = {"s1", "s2"}
    Files <- MCFiles
    Updates <- MCUpdates
    SerialSpace = 8
    FirstSerial = 1
    JournalKept = 2
    JournalListed = 1
    ImageEveryDelta = 3
    MaxSeq = 4
    MaxIncarnations = 1
SPECIFICATION FreshSpec
INVARIANTS
    ServedIsStored
    SnapshotLoads
    EngineServesSnapshot
CHECK_DEADLOCK FALSE
