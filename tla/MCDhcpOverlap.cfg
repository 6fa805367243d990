SPECIFICATION Spec
CONSTANTS
    Threads = {t1, t2, t3}
    m1 = m1
    m2 = m2
    Idents = {m1, m2}
    Packets <- MCOverlapPackets
    NoRecord = NoRecord
    StopAndWait = FALSE
INVARIANTS
    TypeOK
    NoRecordOutlivesReply
    ReplyStaysWithClient
PROPERTIES
    KeepsPromise
