CONSTANTS
    g1 = g1
    g2 = g2
    e1 = e1
    e2 = e2
    e3 = e3
    a1 = a1
    Groups = {g1, g2}
    Engines = {e1, e2, e3}
    IPs = {a1, a2}
    a2 = a2
    Nobody = Nobody
    MaxGeneration = 4
    MaxEpoch = 2
SYMMETRY MCSymmetry
SPECIFICATION Spec
INVARIANTS
    GroupsInv
    GrantsAreReserved
    WithdrawalIsFinal
PROPERTIES
    ImplementsReservations
CHECK_DEADLOCK FALSE
