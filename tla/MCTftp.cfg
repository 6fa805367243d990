SPECIFICATION Spec
CONSTANTS
    h1 = h1
    h2 = h2
    p1 = p1
    p2 = p2
    Threads = {t1, t2, t3}
    Menus = {m1}
    Hosts = {h1, h2}
    Ports = {p1, p2}
    FileNames <- MCFileNames
    FileSize <- MCFileSize
    Packets <- MCPackets
    NoRecord = NoRecord
    NoReply = NoReply
    MaxOpen = 2
INVARIANTS
    TypeOK
    AnsweredFromFirst
    UnansweredForCause
    NoLookupFault
PROPERTIES
    ExhaustionIsFinal
    KeepsPromise
