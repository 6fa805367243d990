SPECIFICATION Spec
CONSTANTS
    d1 = d1
    d2 = d2
    Endpoints = {d1, d2}
    Order <- MCOrder
    Datagrams = {g1, g2}
    MaxWaiting = 2
INVARIANTS
    TypeOK
    SkippedOnlyAfterReply
PROPERTIES
    NoReceiverAfterClose
    CloseReleasesReceivers
    ServedUnlessObstructed
    KeepsPromise
