SPECIFICATION Spec
CONSTANTS
    Threads = {t1, t2}
    Idents = {m1}
    NoRecord = NoRecord
INVARIANTS
    TypeOK
    NoAckBeforeOffer
PROPERTIES
    BootsUnlessObstructed
