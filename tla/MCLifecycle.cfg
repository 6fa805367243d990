SPECIFICATION Spec
CONSTANTS
    Endpoints = {DhcpProxy, DhcpBoot, TftpServer}
INVARIANTS
    TypeOK
    ListensOnAll
    NothingLeftOpen
PROPERTIES
    ListensOrEnds
