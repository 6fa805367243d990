SPECIFICATION Spec
CONSTANTS
    HostNameLength = 27
    ServerLengths <- MCServerLengths
    Requests <- MCRequests
    MenuSettings = {TRUE, FALSE}
INVARIANTS
    TypeOK
    AnswersInKind
    NoEchoForAnswer
    ChoiceComesBack
    LastArchitectureDecides
    FileComesWithServer
    VendorOptionsAreWhole
